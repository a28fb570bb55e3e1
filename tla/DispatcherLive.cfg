CONSTANTS
  Users = {u1, u2}
  Links = {l1, l2}
  MaxStored = 1
  Policy = "DROP_OLDEST"
  MaxSends = 1
  All = All
  NoLink = NoLink
  NoMsg = NoMsg
  NoUser = NoUser
SPECIFICATION FairSpec
PROPERTY NothingStuck
CHECK_DEADLOCK FALSE
