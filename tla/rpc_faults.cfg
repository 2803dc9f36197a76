CONSTANTS
  c1 = c1
  c2 = c2
  Calls <- TwoCalls
  Mutating <- TwoCalls
  MaxAttempts = 2
  Cap = 1
  MaxInFlight = 2
  Faults <- AllFaults
SPECIFICATION Spec
SYMMETRY Alike
INVARIANTS
  TypeOK
  AtMostOnceUnlessCaused
  AnswerSound
  CacheBound
PROPERTIES
  EndedCallsAreQuiet
  ImplementsPromise
