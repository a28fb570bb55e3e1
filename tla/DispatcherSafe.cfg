CONSTANTS
  Users = {u1, u2}
  Links = {l1, l2}
  MaxStored = 2
  Policy = "REJECT"
  MaxSends = 2
  All = All
  NoLink = NoLink
  NoMsg = NoMsg
  NoUser = NoUser
SPECIFICATION Spec
SYMMETRY Symmetry
CONSTRAINT Explored
VIEW Uncounted
INVARIANTS TypeOK PairwiseFifo OkIsKept
PROPERTY Delivers
CHECK_DEADLOCK FALSE
