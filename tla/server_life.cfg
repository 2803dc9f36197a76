CONSTANTS
  r1 = r1
  r2 = r2
  o1 = o1
  NoOne = NoOne
  Requests <- TwoRequests
  Others <- OneOther
  Execs = 2
  Faults <- AllFaults
  MaxCrashes = 2
SPECIFICATION FairLifeSpec
INVARIANT CleanupReclaims
PROPERTY EveryRequestEnds
