CONSTANTS
  Users = {u1}
  Conns = {c1, c2}
  Fds = {f1, f2}
  Workers = {w1, w2}
  Monitors = {}
  Admins = {}
  NoUser = NoUser
  NoFd = NoFd
  NoConn = NoConn
SPECIFICATION Spec
INVARIANT UniqueNames
CHECK_DEADLOCK FALSE
