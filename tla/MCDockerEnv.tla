---------------------------- MODULE MCDockerEnv ----------------------------
(* Small instances of DockerEnv for TLC.                                    *)
EXTENDS DockerEnv, TLC

CONSTANTS r1, r2, r3, r4

ThreeRequests == {r1, r2, r3}
FourRequests == {r1, r2, r3, r4}
AllFaults == FaultKinds
OnlyOverlap == {"overlap"}
Alike == Permutations(FourRequests)
=============================================================================
