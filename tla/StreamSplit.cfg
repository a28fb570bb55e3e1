CONSTANTS
  Senders = {s1, s2}
  Lengths = {3}
  MaxLength = 3
  Capacity = 3
  MaxFrames = 2
SPECIFICATION Spec
INVARIANT ReceivedWasSent
CHECK_DEADLOCK FALSE
