SPECIFICATION LiveSpec
CONSTANTS
  FrameCap = 2
  RingCap = 2
  MaxPackets = 5
  MaxOpens = 2
CHECK_DEADLOCK FALSE
INVARIANTS CounterMatchesQueue Conservation InOrder
PROPERTY DeadlineFlushes
