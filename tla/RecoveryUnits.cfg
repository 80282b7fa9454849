SPECIFICATION Spec
CONSTANTS
  Units = {"service", "resume"}
  Callers = {"netlink", "selfheal", "rat", "panel"}
  Tries = 1
  Rounds = 2
  Burst = 2
  MaxFaults = 1
  MaxUser = 2
CHECK_DEADLOCK FALSE
INVARIANTS OneEnsure
