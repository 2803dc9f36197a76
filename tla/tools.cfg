CONSTANTS
  Envs <- ThreeEnvs
  DirOf <- Dirs
  MockActs <- Calls
  MaxOps = 6
  Root <- Workdir
  Protected = {}
  MaxMatches = 3
  NoFile = NoFile
  Symbols <- AllLines
  Crlf <- CrLines
  Seeds <- Repo
  Machine <- Other
  t1 = t1
  t2 = t2
  Threads <- TwoThreads
  Acts <- AllActs
  Spaced <- Halves
  Ignored <- Pyc
  MaxChars = 6
  MaxCalls = 3
  MaxFails = 1
SPECIFICATION Apart
SYMMETRY Alike
CHECK_DEADLOCK FALSE
INVARIANTS
  MirrorsMock
  
  WorkspacesTakeTurns
PROPERTY EditsLoseNothing
