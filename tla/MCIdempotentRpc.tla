-------------------------- MODULE MCIdempotentRpc --------------------------
(* Small instances of IdempotentRpc and of its abstract view for TLC.       *)
EXTENDS RpcPromise, TLC

CONSTANTS c1, c2

TwoCalls == {c1, c2}
AllFaults == FaultKinds
OnlyOverlap == {"overlap"}
Hanging == {"loss", "overlap", "restart"}
Alike == Permutations(TwoCalls)
=============================================================================
