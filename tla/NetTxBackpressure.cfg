SPECIFICATION Spec
CONSTANTS
  FrameCap = 2
  RingCap = 2
  MaxPackets = 6
  MaxOpens = 2
CHECK_DEADLOCK FALSE
PROPERTY UnshippedStops
