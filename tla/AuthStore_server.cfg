SPECIFICATION Spec
CONSTANTS
  h1 = h1
  h2 = h2
  p1 = p1
  p2 = p2
  Handlers = {h1, h2}
  Passwords = {p1, p2}
  Nobody = Nobody
  NoRec = NoRec
  Corrupt = Corrupt
  NoTok = NoTok
  Budgets <- OneWriter
SYMMETRY Symmetry
INVARIANT TypeOK StampCoherent SessionsKicked SessionsKept
PROPERTY EpochNeverRollsBack NoTakeoverWhileRunning AccountKept
CHECK_DEADLOCK FALSE
