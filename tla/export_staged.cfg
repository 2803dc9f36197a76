CONSTANTS
  Envs <- ThreeEnvs
  DirOf <- Dirs
  MockActs <- Calls
  MaxOps = 0
  Root <- Workdir
  Protected = {}
  MaxMatches = 3
  NoFile = NoFile
  Symbols <- AllLines
  Crlf <- CrLines
  Seeds <- Repo
  Machine <- Other
  t1 = t1
  t2 = t2
  Threads <- TwoThreads
  Acts <- StageActs
  Spaced <- Halves
  Ignored <- Pyc
  MaxChars = 20
  MaxCalls = 3
  MaxFails = 0
SPECIFICATION Apart
CHECK_DEADLOCK FALSE
INVARIANT ExportIsDiff
