SPECIFICATION Spec
CONSTANTS
  MaxSize = 128
  MaxPackets = 3
  Lens = {1, 6, 20, 43}
  SeqMod = 2
  IntSize = 4
INVARIANTS TypeOK PackingNeverFails CountersMatchQueue PushedFrameReadable
