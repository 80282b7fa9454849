SPECIFICATION Spec
CONSTANTS
  InitCalls <- MCInitCalls
  Addresses <- MCAddresses
  Ipv6Addresses <- MCIpv6Addresses
  MaxRuns = 2
  MaxMessages = 2
  MaxNoise = 1
  MaxPaths = 2
  dbus = TRUE
  nodefaultroute = FALSE
CHECK_DEADLOCK FALSE
PROPERTY ReadyMeansSession
