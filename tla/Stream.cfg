CONSTANTS
  Senders = {s1, s2}
  Lengths = {1, 2, 3, 4}
  MaxLength = 3
  Capacity = 2
  MaxFrames = 2
SPECIFICATION FairSpec
INVARIANTS TypeOK FramesIntact ClosedForCause
PROPERTY FramesArrive
CHECK_DEADLOCK FALSE
