CONSTANTS
  Clients = {r, s}
  Responsive = {}
  Interval = 3
  CheckDelay = 2
  Timeout = 7
  Answer = 1
  NoClient = NoClient
SPECIFICATION FairSpec
PROPERTY OverdueIsEnded
