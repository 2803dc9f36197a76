CONSTANTS
  r1 = r1
  r2 = r2
  r3 = r3
  r4 = r4
  NoOne = NoOne
  Requests <- ThreeRequests
  Execs = 2
  Faults <- OnlyOverlap
SPECIFICATION Spec
INVARIANT NoOrphan
