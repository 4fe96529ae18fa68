SPECIFICATION Spec
CONSTANTS
  None = None
  Servers = {s1}
  Loopback = {s1}
  Conns = {c1, c2}
  Calls = {k1}
  Admins = {a1}
  MaxToken = 2
INVARIANT OldTokenCut
CHECK_DEADLOCK FALSE
