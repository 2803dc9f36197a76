CONSTANTS
  NoCall = 0
  MaxSteps = 4
  Faults <- AllFaults
  SegmentLengths <- EmptyOrTwo
  PrefixMasks <- NoneOneAll
  Ignore = Ignore
SPECIFICATION TokenSpec
INVARIANTS
  TypeOK
  LifecycleClosed
  InvalidOnlyAfterFailedFinish
  ReasonTellsTheStory
  TokensAlign
