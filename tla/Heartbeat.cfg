CONSTANTS
  Clients = {r, s}
  Responsive = {r}
  Interval = 12
  CheckDelay = 2
  Timeout = 36
  Answer = 1
  NoClient = NoClient
SPECIFICATION Spec
INVARIANTS TypeOK AnsweringStays EndedInTime
