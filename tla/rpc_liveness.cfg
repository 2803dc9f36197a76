CONSTANTS
  c1 = c1
  c2 = c2
  Calls <- TwoCalls
  Mutating <- TwoCalls
  MaxAttempts = 2
  Cap = 1
  MaxInFlight = 1
  Faults <- Hanging
SPECIFICATION FairSpec
INVARIANT LiveEntriesKept
PROPERTY EveryCallEnds
