SPECIFICATION LiveSpec
CONSTANTS
  Units = {"service"}
  Callers = {"kernel", "probe"}
  Tries = 2
  Rounds = 2
  Burst = 2
  MaxFaults = 1
  MaxUser = 0
CHECK_DEADLOCK FALSE
INVARIANTS TypeOK HardBeforeRetry
PROPERTIES ErrorCleared ModuleComesBack EnsureEnds
