SPECIFICATION WebSpec
CONSTANTS
  Ids = {s1, s2}
  MaxCalls = 4
  Limit <- MCLimit
INVARIANT OneRound
PROPERTIES KickedOutForCause SessionLossNoticed PollingStops NewServerPolled
CHECK_DEADLOCK FALSE
