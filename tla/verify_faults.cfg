CONSTANTS
  t1 = t1
  t2 = t2
  TestIds <- TwoTests
  Faults <- AllFaults
SPECIFICATION BothSpec
INVARIANTS
  TypeOK
  ResultsValidate
  RewardIsEarned
  ContainerRemoved
  VerifiersAgree
