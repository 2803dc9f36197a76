----------------------------- MODULE Selection -----------------------------
(***************************************************************************)
(* The deterministic sampling the data scripts share: tasks are sorted,    *)
(* grouped by a key, and taken one of each group in turn.  So a task is    *)
(* taken in the round its rank in its group says, and inside a round in    *)
(* the order of the keys, which are numbers here.                          *)
(***************************************************************************)
EXTENDS Integers, Sequences, FiniteSets

\* sorted: the k-th of S is the one that k - 1 of S come before.
Sorted(S, before) ==
    [k \in 1 .. Cardinality(S) |->
        CHOOSE x \in S : Cardinality({y \in S : <<y, x>> \in before}) = k - 1]

\* How many of the group of the i-th task come before it.
Rank(i, sorted, key) == Cardinality({j \in 1 .. i - 1 : key[sorted[j]] = key[sorted[i]]})

Reordered(sorted, order) == [n \in DOMAIN order |-> sorted[order[n]]]

MutTurns(sorted, key) ==
    {p \in (DOMAIN sorted) \X (DOMAIN sorted) :
        \/ key[sorted[p[1]]] < key[sorted[p[2]]]
        \/ key[sorted[p[1]]] = key[sorted[p[2]]] /\ p[1] < p[2]}
Turns(sorted, key) ==
    LET round(i) == Rank(i, sorted, key)
    IN  {p \in (DOMAIN sorted) \X (DOMAIN sorted) :
            \/ round(p[1]) < round(p[2])
            \/ round(p[1]) = round(p[2]) /\ key[sorted[p[1]]] < key[sorted[p[2]]]}
RoundRobin(sorted, key) == Reordered(sorted, Sorted(DOMAIN sorted, Turns(sorted, key)))
=============================================================================
