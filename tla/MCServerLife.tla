---------------------------- MODULE MCServerLife ----------------------------
(* Small instances of ServerLife for TLC.                                   *)
EXTENDS ServerLife

CONSTANTS r1, r2, o1

OneOther == {o1}
TwoRequests == {r1, r2}
AllFaults == FaultKinds
=============================================================================
