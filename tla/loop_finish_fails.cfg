CONSTANTS
  NoCall = 0
  MaxSteps = 2
  Faults <- OnlyExecute
  SegmentLengths <- EmptyOrTwo
  PrefixMasks <- NoneOneAll
  Ignore = Ignore
SPECIFICATION TokenSpec
INVARIANT NeverInvalid
