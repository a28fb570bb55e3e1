CONSTANTS
  Users = {u1, u2}
  Conns = {c1, c2}
  Fds = {f1, f2}
  Workers = {w1, w2}
  Monitors = {}
  Admins = {}
  NoUser = NoUser
  NoFd = NoFd
  NoConn = NoConn
SPECIFICATION Spec
SYMMETRY Symmetry
INVARIANT ListedOpen
CHECK_DEADLOCK FALSE
