CONSTANTS
  Users = {u1}
  Conns = {c1, c2}
  Fds = {f1, f2}
  Workers = {w1, w2}
  Monitors = {heart}
  Admins = {admin}
  NoUser = NoUser
  NoFd = NoFd
  NoConn = NoConn
SPECIFICATION FairSpec
INVARIANTS TypeOK RegisteredOpen RegisteredServed ExclusiveReader
PROPERTIES BanSettles DeadPeerLeaves
CHECK_DEADLOCK FALSE
CONSTRAINT Explored
