----------------------------- MODULE MixedPool -----------------------------
(***************************************************************************)
(* build_mixed_rl_pool.py on the output of one of the other three scripts  *)
(* (the inputs of the other two sources are given): quotas by source,      *)
(* repositories balanced, the train files, the check against the           *)
(* evaluation set, the manifest.  Nothing stops a run while an earlier     *)
(* script is between two starts, and runs share the output directory.      *)
(***************************************************************************)
EXTENDS AstBundles

CONSTANTS
    Given,     \* the input tasks of each source that is not produced here
    Quotas,    \* the quotas an operator may ask for
    EvalSets,  \* the evaluation files --eval may name
    NoEval,    \* model value: no --eval
    MaxMixes   \* bound: runs of the script, less the failures before them

Sources == {"PUBLIC_EXECUTABLE", "AST_MUTATION", "REPAIR_REVERSAL"}

\* A task row, as the mixer reads it: source is metadata.task_source, secret says
\* that the solution shows, portable that the commands name no interpreter.
Tasks == [id : Nat, repo : Nat, source : Sources \cup {"elsewhere"}, f2p : BOOLEAN,
          secret : BOOLEAN, portable : BOOLEAN]

ASSUME MixConstants ==
    /\ \A s \in Sources : /\ Given[s] \subseteq Tasks /\ IsFiniteSet(Given[s])
                          /\ \A t, u \in Given[s] : t.id = u.id => t = u
    /\ \A q \in Quotas : q \in [Sources -> Nat]
    /\ \A e \in EvalSets : e \in Seq(Tasks)
    /\ NoEval \notin EvalSets /\ MaxMixes \in Nat

VARIABLES
    mixPc,     \* the file main is about to write, row by row, or "idle"
    job,       \* quotas, evaluation set and selection of the current or last run
    train,     \* durable: train/full.jsonl and train/pool.jsonl, the job of the
               \* former, and whether its writer died before the last row
    eval,      \* durable: eval/full.jsonl and eval/pool.jsonl
    manifest,  \* durable: manifest.json, or that it was cut
    mixEnd,    \* how the last run that wrote something ended
    mixes      \* runs so far

mixVars == <<mixPc, job, train, eval, manifest, mixEnd, mixes>>
vars == <<poolVars, mixVars>>

SourceOf == [public |-> "PUBLIC_EXECUTABLE", ast |-> "AST_MUTATION",
             reversal |-> "REPAIR_REVERSAL"]

\* A task of the builder's output, as the mixer reads it.
AsTask(row) == [id |-> row.id, repo |-> RepoOf[row.id], source |-> SourceOf[script],
                f2p |-> TRUE, secret |-> TRUE, portable |-> FALSE]

Input(s) == IF s = SourceOf[script] THEN {AsTask(out[i]) : i \in DOMAIN out} ELSE Given[s]
InputReadable == starts > 0 /\ torn # "out"

TaskPrecedes(tasks) == {p \in tasks \X tasks : p[1].id < p[2].id}
Eligible(s) == {t \in Input(s) : t.source = s}

Portable(t) == [t EXCEPT !.portable = TRUE]
MutPoolView(t) == Portable(t)
PoolView(t) == [Portable(t) EXCEPT !.secret = FALSE]
Each(Op(_), seq) == [i \in DOMAIN seq |-> Op(seq[i])]

TaskRepo(s) == [t \in Eligible(s) |-> t.repo]
SelectQuota(s, quota) ==
    SubSeq(RoundRobin(Sorted(Eligible(s), TaskPrecedes(Eligible(s))), TaskRepo(s)), 1, quota)
Selected(q) ==
    Each(Portable, SelectQuota("PUBLIC_EXECUTABLE", q["PUBLIC_EXECUTABLE"])
                   \o SelectQuota("AST_MUTATION", q["AST_MUTATION"])
                   \o SelectQuota("REPAIR_REVERSAL", q["REPAIR_REVERSAL"]))

\* What build_mixed_pool raises about, before anything is written.
EnoughFor(q) == \A s \in Sources : Cardinality(Eligible(s)) >= q[s]
Sound(full) == /\ \A i, j \in DOMAIN full : full[i].id = full[j].id => i = j
               /\ \A i \in DOMAIN full : full[i].f2p

Repos(tasks) == {tasks[i].repo : i \in DOMAIN tasks}
MutOverlap == {}
Overlap == Repos(job.picked) \cap Repos(job.eval)

-----------------------------------------------------------------------------
MixStart(q, e) ==
    /\ pc = "stopped" /\ mixPc = "idle" /\ mixes + faults < MaxMixes
    /\ result = "ready" \/ starts = MaxStarts  \* bound: the builder succeeded or is given up
    /\ InputReadable /\ EnoughFor(q)
    /\ \E full \in {Selected(q)} :
         /\ Sound(full)
         /\ job' = [quotas |-> q, eval |-> e, picked |-> full,
                    avail |-> [s \in Sources |-> Eligible(s)]]
    /\ mixes' = mixes + 1 /\ mixPc' = "full"
    /\ UNCHANGED <<poolVars, train, eval, manifest, mixEnd>>

WriteFull ==
    /\ mixPc = "full"
    /\ train' = [train EXCEPT !.full = job.picked, !.job = job, !.cut = FALSE]
    /\ mixPc' = "pool" /\ mixEnd' = "writing"
    /\ UNCHANGED <<poolVars, job, eval, manifest, mixes>>

WritePool ==
    /\ mixPc = "pool"
    /\ train' = [train EXCEPT !.pool = Each(PoolView, job.picked)]
    /\ mixPc' = IF job.eval = NoEval THEN "manifest" ELSE "eval"
    /\ UNCHANGED <<poolVars, job, eval, manifest, mixEnd, mixes>>

\* The leakage check comes after the train files are written.
WriteEval ==
    /\ mixPc = "eval"
    /\ IF Overlap = {}
       THEN /\ eval' = [eval EXCEPT !.full = Each(Portable, job.eval)]
            /\ mixPc' = "evalpool" /\ UNCHANGED mixEnd
       ELSE mixPc' = "idle" /\ mixEnd' = "raised" /\ UNCHANGED eval
    /\ UNCHANGED <<poolVars, job, train, manifest, mixes>>

WriteEvalPool ==
    /\ mixPc = "evalpool"
    /\ eval' = [eval EXCEPT !.pool = Each(PoolView, job.eval)]
    /\ mixPc' = "manifest"
    /\ UNCHANGED <<poolVars, job, train, manifest, mixEnd, mixes>>

Manifest == [train |-> job.picked, quotas |-> job.quotas, eval |-> job.eval, cut |-> FALSE]

WriteManifest ==
    /\ mixPc = "manifest"
    /\ manifest' = Manifest
    /\ mixPc' = "idle" /\ mixEnd' = "done"
    /\ UNCHANGED <<poolVars, job, train, eval, mixes>>

\* The process is killed, or the disk is full, before it opens the next file.
MixKilled ==
    /\ mixPc # "idle"
    /\ mixPc' = "idle"
    /\ mixEnd' = IF mixPc = "full" THEN mixEnd ELSE "killed"
    /\ UNCHANGED <<poolVars, job, train, eval, manifest, mixes>>

\* ... or after it has, which truncates it: only the first rows are there.
Short(rows) == {SubSeq(rows, 1, n) : n \in 0 .. Len(rows) - 1}

MixCut ==
    /\ \/ /\ mixPc = "full"
          /\ \E rows \in Short(job.picked) :
               train' = [train EXCEPT !.full = rows, !.job = job, !.cut = TRUE]
          /\ UNCHANGED <<eval, manifest>>
       \/ /\ mixPc = "pool"
          /\ \E rows \in Short(Each(PoolView, job.picked)) :
               train' = [train EXCEPT !.pool = rows]
          /\ UNCHANGED <<eval, manifest>>
       \/ /\ mixPc = "eval" /\ Overlap = {}
          /\ \E rows \in Short(Each(Portable, job.eval)) :
               eval' = [eval EXCEPT !.full = rows]
          /\ UNCHANGED <<train, manifest>>
       \/ /\ mixPc = "evalpool"
          /\ \E rows \in Short(Each(PoolView, job.eval)) :
               eval' = [eval EXCEPT !.pool = rows]
          /\ UNCHANGED <<train, manifest>>
       \/ /\ mixPc = "manifest"
          /\ manifest' = [manifest EXCEPT !.cut = TRUE]
          /\ UNCHANGED <<train, eval>>
    /\ mixPc' = "idle" /\ mixEnd' = "killed"
    /\ UNCHANGED <<poolVars, job, mixes>>

MixStep == WriteFull \/ WritePool \/ WriteEval \/ WriteEvalPool \/ WriteManifest

NoJob == [quotas |-> [s \in Sources |-> 0], eval |-> NoEval, picked |-> <<>>,
          avail |-> [s \in Sources |-> {}]]
Init ==
    /\ PoolInit
    /\ mixPc = "idle" /\ job = NoJob /\ mixes = 0 /\ mixEnd = "never"
    /\ train = [full |-> <<>>, pool |-> <<>>, job |-> NoJob, cut |-> FALSE]
    /\ eval = [full |-> <<>>, pool |-> <<>>]
    /\ manifest = [train |-> <<>>, quotas |-> NoJob.quotas, eval |-> NoEval, cut |-> FALSE]

BuildStep == (PoolStep \/ AstStep) /\ UNCHANGED mixVars
BuildFault == (Start \/ AstStart \/ PoolFault \/ AstWriteCut) /\ UNCHANGED mixVars

Next ==
    \/ BuildStep \/ BuildFault \/ MixStep \/ MixKilled \/ MixCut
    \/ \E q \in Quotas, e \in EvalSets \cup {NoEval} : MixStart(q, e)

Spec == Init /\ [][Next]_vars

-----------------------------------------------------------------------------
\* Exactly the quota of every source, and inside a source no repository gets
\* two tasks more than another that still had one (select_quota).  A file whose
\* writer died is short of the quotas and as balanced as a whole one, and no run
\* that went through leaves one.
QuotaBalanced ==
    LET of(s) == {i \in DOMAIN train.full : train.full[i].source = s}
        n(s, r) == Cardinality({i \in of(s) : train.full[i].repo = r})
        avail(s, r) == Cardinality({t \in train.job.avail[s] : t.repo = r})
    IN  /\ train.cut => mixEnd = "killed"
        /\ \A s \in Sources :
          /\ Cardinality(of(s)) <= train.job.quotas[s]
          /\ train.cut \/ Cardinality(of(s)) = train.job.quotas[s]
          /\ \A i \in of(s), j \in of(s) : train.full[i].id = train.full[j].id => i = j
          /\ \A t, u \in train.job.avail[s] :
               n(s, t.repo) <= n(s, u.repo) + 1 \/ n(s, u.repo) = avail(s, u.repo)

\* What training reads.  The pool never shows a solution; after a run that went
\* through to the end it is the view of the train file and the manifest speaks of
\* it; and from end to end, a task in it has its whole bundle, unless a start of
\* build_ast_bundles is replacing it or died while it did.  No later start need
\* repair that bundle: one that finds another hash skips the task and may be
\* ready without it, while the train files still name it.
PublishedPool ==
    /\ \A i \in DOMAIN train.pool : ~ train.pool[i].secret /\ train.pool[i].portable
    /\ mixEnd = "done" =>
        /\ train.pool = Each(PoolView, train.full)
        /\ manifest = [train |-> train.full, quotas |-> train.job.quotas,
                       eval |-> train.job.eval, cut |-> FALSE]
    /\ \A i \in DOMAIN train.full :
        train.full[i].source = SourceOf[script] =>
            \/ bundle[train.full[i].id] = "complete"
            \/ /\ script = "ast"
               /\ \/ cur = train.full[i].id /\ pc = "manifest"
                  \/ <<train.full[i].id, "manifest">> \in deaths

\* No repository is on both sides, unless the last run named no evaluation set
\* (files of an earlier run stay), raised after writing train, or was killed.
TrainEvalDisjoint ==
    \/ Repos(train.full) \cap (Repos(eval.full) \cup Repos(eval.pool)) = {}
    \/ mixEnd # "done"
    \/ train.job.eval = NoEval
=============================================================================
