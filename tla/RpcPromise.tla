----------------------------- MODULE RpcPromise -----------------------------
(***************************************************************************)
(* The abstract view of the pipeline: the attempts and pauses of a call    *)
(* are one pending state, its executions are those of its handlers, and    *)
(* what voids the promise of the table withdraws it.                       *)
(***************************************************************************)
EXTENDS IdempotentRpc

Outcome == [c \in Calls |-> IF call[c] \in {"waiting", "backoff"} THEN "pending" ELSE call[c]]
Voided  == {c \in Calls : cause[c] # {}}

Promise == INSTANCE AtMostOnceRpc WITH
    Ids <- Attempts, out <- Outcome, withdrawn <- Voided

(* The pipeline implements AtMostOnceRpc, whatever is lost, retried, evicted *)
(* or restarted (server.py:18-21): unless the promise was withdrawn from a   *)
(* call, it executes at most once, only while it is pending, and a success   *)
(* returns the result of its execution.                                      *)
ImplementsPromise == Promise!Spec
=============================================================================
