CONSTANTS
  c1 = c1
  c2 = c2
  Calls <- TwoCalls
  Mutating <- TwoCalls
  MaxAttempts = 2
  Cap = 2
  MaxInFlight = 2
  Faults <- OnlyOverlap
SPECIFICATION Spec
INVARIANTS
  AtMostOnce
