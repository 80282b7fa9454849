SPECIFICATION Spec
CONSTANTS
  FieldLists <- MCFieldLists
  Bodies <- MCBodies
  CallbackTids = {0, 15, 285212672}
  Packets <- MCPackets
  Seqs = {0, 255}
  Frames <- MCFrames
  MaxFrames = 2
  Reads = {1, 2, 7, 30}
  Muted <- MCMuted
CHECK_DEADLOCK FALSE
INVARIANTS RoundTrip FramesAgree MuxReadable TraceDecodes
