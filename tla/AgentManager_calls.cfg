SPECIFICATION Spec
CONSTANTS
  None = None
  Servers = {s1}
  Loopback = {s1}
  Conns = {c1, c2}
  Calls = {k1, k2}
  Admins = {a1, a2}
  MaxToken = 2
SYMMETRY Symmetry
INVARIANT TypeOK NoStray OwnAnswer ReaderFree PendingLive
PROPERTY ListingKept
CHECK_DEADLOCK FALSE
