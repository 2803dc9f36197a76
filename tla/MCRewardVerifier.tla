-------------------------- MODULE MCRewardVerifier --------------------------
(* Small instances of CleanVerify and RewardVerifier for TLC.               *)
EXTENDS RewardVerifier

CONSTANTS t1, t2

TwoTests == {t1, t2}
AllFaults == FaultKinds
=============================================================================
