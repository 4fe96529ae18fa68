SPECIFICATION BackendSpec
CONSTANTS
  NoKey = NoKey
  Keys = {k1, k2}
  LoginHandlers = {l1, l2}
  IP <- ThreeInTwo
  Global <- FourInOne
  MaxNow = 7
  None = None
  Instances = {i1, i2}
  Handlers = {h1, h2}
  MaxSid = 3
  MaxEvents = 2
SYMMETRY Symmetry
INVARIANTS FailuresBounded ExecutedOnce HealthyServed
PROPERTIES LockHolds GlobalLockHolds
CHECK_DEADLOCK FALSE
