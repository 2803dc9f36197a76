CONSTANTS
  Cand <- Cands
  Commit <- Commits
  Target = 2
  F2PLimit = 1
  P2PLimit = 1
  MaxSelectors = 2
  MaxStarts = 2
  MaxFaults = 2
  NoCand = NoCand
  Given <- Others
  Quotas <- AllQuotas
  EvalSets <- Evals
  NoEval = NoEval
  MaxMixes = 2
SPECIFICATION Spec
CHECK_DEADLOCK FALSE
INVARIANTS
  PoolTypeOK
  OutIsHonest
  OutIsBacked
  VerifiedIsKept
  RowsFollowOrder
  ContainersReleased
  QuotaBalanced
  PublishedPool
  TrainEvalDisjoint
