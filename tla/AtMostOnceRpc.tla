--------------------------- MODULE AtMostOnceRpc ---------------------------
(***************************************************************************)
(* What "mutating requests carry a request_id, so a replay is not executed *)
(* again" promises a caller of RemoteEnvironmentBackend (server.py:18-21,  *)
(* remote.py:23-24), with no attempts, table or threads: a pending call    *)
(* executes at most once, and returns the result of one of its executions  *)
(* or an error; once it has ended it executes no more.  The promise can be *)
(* withdrawn for a call that has begun: IdempotentRpc says when.           *)
(***************************************************************************)
EXTENDS Naturals

CONSTANTS
    Calls,
    Mutating,  \* the calls the promise is about
    Ids        \* the names of the executions of a call

VARIABLES out, answer, effects, withdrawn

vars == <<out, answer, effects, withdrawn>>

Init ==
    /\ out = [c \in Calls |-> "idle"]
    /\ answer = [c \in Calls |-> 0]
    /\ effects = {}
    /\ withdrawn = {}

Begin(c) ==
    /\ out[c] = "idle"
    /\ out' = [out EXCEPT ![c] = "pending"]
    /\ UNCHANGED <<answer, effects, withdrawn>>

Fresh(c) == \A e \in effects : e[1] # c

Execute(c) ==
    /\ \/ out[c] = "pending" /\ (Fresh(c) \/ c \notin Mutating)
       \/ out[c] # "idle" /\ c \in withdrawn
    /\ \E n \in Ids : effects' = effects \cup {<<c, n>>}
    /\ UNCHANGED <<out, answer, withdrawn>>

Acknowledge(c) ==
    /\ out[c] = "pending"
    /\ \E e \in effects : e[1] = c /\ answer' = [answer EXCEPT ![c] = e[2]]
    /\ out' = [out EXCEPT ![c] = "ok"]
    /\ UNCHANGED <<effects, withdrawn>>

\* The caller is told of an error, maybe because it gives up on an attempt.
GiveUp(c) ==
    /\ out[c] = "pending"
    /\ out' = [out EXCEPT ![c] = "failed"]
    /\ withdrawn' \in {withdrawn, withdrawn \cup {c}}
    /\ UNCHANGED <<answer, effects>>

\* The caller gives up on an attempt of c and goes on, or the server forgets
\* executions: only calls that have begun are concerned.
Withdraw ==
    /\ \E forgotten \in SUBSET {c \in Calls : out[c] # "idle"} :
         withdrawn' = withdrawn \cup forgotten
    /\ UNCHANGED <<out, answer, effects>>

Next ==
    \/ \E c \in Calls : Begin(c) \/ Execute(c) \/ Acknowledge(c) \/ GiveUp(c)
    \/ Withdraw

Spec == Init /\ [][Next]_vars
=============================================================================
