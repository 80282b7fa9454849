SPECIFICATION LiveSpec
CONSTANTS
  p1 = p1
  p2 = p2
  None = None
  Procs <- TwoProcs
  Depth = 2
  Tty = FALSE
  MaxFail = 3
  MaxOpens = 4
CHECK_DEADLOCK FALSE
INVARIANTS Exclusive NoDoubleCreate OpenFileWorks NoDmaToFreedPages
PROPERTY CallsReturn
