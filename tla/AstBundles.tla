---------------------------- MODULE AstBundles ----------------------------
(***************************************************************************)
(* build_ast_bundles.py, the third script: it replays the mutation commit  *)
(* of each task it selects, replaces the task's bundle when the commit has *)
(* the expected hash, and writes its output in one go at the end.  It      *)
(* keeps no state file: a new start does everything again.  Its variables  *)
(* are PoolBuilder's; done holds the tasks seen, accepted those built.     *)
(***************************************************************************)
EXTENDS PoolBuilder

\* main and build_bundles up to the loop: the seed repositories are rebuilt.
AstStart ==
    /\ pc = "stopped" /\ script = "ast" /\ starts < MaxStarts
    /\ starts' = starts + 1 /\ result' = "running" /\ pc' = "head"
    /\ walk' = Ordered("ast", Cand)
    /\ UNCHANGED <<script, durable, cur, done, accepted, held, task, verdict, omitted, faults,
                   deaths, excuses>>

\* The next task: its mutation is replayed, a hash mismatch skips it.
AstPick ==
    /\ pc = "head" /\ script = "ast" /\ ~ Enough /\ Remaining # {}
    /\ done' = done \cup {NextCandidate}
    /\ \/ UNCHANGED <<pc, cur>>
       \/ pc' = "archive" /\ cur' = NextCandidate
    /\ UNCHANGED <<script, durable, walk, accepted, held, task, verdict, result, starts, omitted,
                   faults, deaths, excuses>>

\* rmtree of the old bundle, then the archive of the replayed commit.
AstArchive ==
    /\ pc = "archive"
    /\ bundle' = [bundle EXCEPT ![cur] = "partial"]
    /\ pc' = "manifest"
    /\ UNCHANGED <<script, state, out, torn, alive, volatile, result, starts, omitted, faults,
                   deaths, excuses>>

AstManifest ==
    /\ pc = "manifest"
    /\ bundle' = [bundle EXCEPT ![cur] = "complete"]
    /\ accepted' = accepted \cup {cur} /\ cur' = NoCand
    /\ pc' = "head"
    /\ UNCHANGED <<script, state, out, torn, alive, walk, done, held, task, verdict, result,
                   starts, omitted, faults, deaths, excuses>>

\* A shortage raises before anything is written.
AstFinish ==
    /\ pc = "head" /\ script = "ast" /\ (Enough \/ Remaining = {})
    /\ IF Enough
       THEN pc' = "write" /\ UNCHANGED <<volatile, result, deaths, excuses>>
       ELSE Die
    /\ UNCHANGED <<script, durable, starts, omitted, faults>>

Built ==
    LET places == {i \in DOMAIN walk : walk[i] \in accepted}
        built == Reordered(walk, Sorted(places, {p \in places \X places : p[1] < p[2]}))
    IN  [i \in DOMAIN built |-> [id |-> built[i], f2p |-> {}, p2p |-> {},
                                gold |-> Commit[built[i]].patch]]

AstWrite ==
    /\ pc = "write"
    /\ out' = Built /\ torn' = "none"
    /\ pc' = "stopped" /\ result' = "ready"
    /\ walk' = <<>> /\ done' = {} /\ accepted' = {}
    /\ UNCHANGED <<script, state, bundle, alive, cur, held, task, verdict, starts, omitted, faults,
                   deaths, excuses>>

\* The file is truncated when it is opened: a kill leaves part of it.
AstWriteCut ==
    /\ pc = "write" /\ Fault
    /\ Die
    /\ out' \in {SubSeq(Built, 1, n) : n \in 0 .. Len(Built) - 1}
    /\ torn' \in {"none", "out"}
    /\ UNCHANGED <<script, state, bundle, alive, starts, omitted>>

AstStep == AstPick \/ AstArchive \/ AstManifest \/ AstFinish \/ AstWrite

\* What a later reader finds in the output is backed: RestartSafe for the two
\* resumable scripts, and for this one a complete output names tasks whose
\* bundles are whole, until a later start replaces them.
OutIsBacked ==
    RestartSafe /\
    ((script = "ast" /\ result = "ready") =>
        /\ Len(out) = Target
        /\ \A i \in DOMAIN out : bundle[out[i].id] = "complete")
=============================================================================
