CONSTANTS
  r1 = r1
  r2 = r2
  r3 = r3
  r4 = r4
  NoOne = NoOne
  Requests <- FourRequests
  Execs = 2
  Faults <- AllFaults
SPECIFICATION Spec
SYMMETRY Alike
INVARIANTS
  TypeOK
  OrphanHasCause
  RunsOnSetUp
  DestroyedOnce
  DestroyReleases
