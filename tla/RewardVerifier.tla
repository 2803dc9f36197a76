--------------------------- MODULE RewardVerifier ---------------------------
(***************************************************************************)
(* The verifier on the training side, CleanVerifier with TempDirIsolation  *)
(* (reward/verifier.py), given the task and the patch that verify_clean    *)
(* has judged (CleanVerify).  It runs in a temporary directory, knows no   *)
(* hidden tests and no protected paths.  A test that ran on the same tree  *)
(* behaves here as it did there, unless a timeout or git init interfered   *)
(* with either verifier.                                                   *)
(***************************************************************************)
EXTENDS CleanVerify

\* A test passes; fails in any orderly way; prints and then runs into the
\* timeout; has no command, or one that may not be executed; prints what cannot
\* be decoded.
Behaviours == {"passes", "fails", "hangs", "unset", "garbled"}

VARIABLE trial  \* the run of CleanVerifier.verify: its place and its state

At(place)    == trial.at = place
ChildTests   == trial.results
Judged       == UNCHANGED vars

\* TimeoutExpired carries bytes although text=True asks for str: joining them
\* with "[timed out]" raises TypeError.  An argv without a command raises too.
Raises(behaviour) == behaviour \in {"hangs", "unset", "garbled"}

\* The finally clause removes the directory whatever was raised.
Fails == trial' = [trial EXCEPT !.at = "destroy", !.ended = "raised"]

\* verify: isolation.create, where a set-up command may be cut by its timeout,
\* or raise like a test; an error verdict if it raises, and the directory made
\* by mkdtemp stays.
CreateDir ==
    /\ pc = "done" /\ At("create")
    /\ \/ \E cut \in BOOLEAN :
            trial' = [trial EXCEPT !.at = "apply", !.dir = "there", !.mishap = cut]
       \/ \E dir \in {"none", "there"} :
            trial' = [trial EXCEPT !.at = "done", !.dir = dir, !.ok = FALSE,
                                   !.verdict = "error", !.ended = "returned"]
    /\ Judged

\* apply_patch: git init, whose failure ends it, then git apply, without the
\* checks and the timeouts of verify_clean.  The tree is the one verify_clean
\* had, unless there were hidden tests in it or a command was cut.
Fits == IF task.secret \/ mishap \/ trial.mishap THEN BOOLEAN ELSE {fits}
MutApplyInDir ==
    /\ At("apply")
    /\ trial' = [trial EXCEPT !.at = "build", !.applied = patch # "empty"]
    /\ Judged
ApplyInDir ==
    /\ At("apply")
    /\ \/ patch = "empty" /\ trial' = [trial EXCEPT !.at = "build"]
       \/ patch # "empty" /\ trial' = [trial EXCEPT !.at = "build", !.ok = FALSE, !.mishap = TRUE]
       \/ /\ patch # "empty"
          /\ \E fit \in Fits :
               trial' = [trial EXCEPT !.at = "build", !.applied = fit, !.ok = fit]
       \/ patch # "empty" /\ Fails
    /\ Judged

\* _run_build_and_tests: the build, whose failure only ends the build, while a
\* build command that hangs is cut or may raise ...
BuildInDir ==
    /\ At("build")
    /\ \/ trial' = [trial EXCEPT !.at = "test"]
       \/ trial' = [trial EXCEPT !.at = "test", !.mishap = TRUE]
       \/ Fails
    /\ Judged

\* ... then the tests, in order, each of which may be cut as well.
SameTree == ~ mishap /\ ~ trial.mishap /\ ~ hidden /\ applied = trial.applied
Behaves(t) ==
    CASE SameTree /\ results[t] = "passed" -> {"passes"}
      [] SameTree /\ results[t] = "failed" -> {"fails", "unset"}
      [] OTHER -> Behaviours

RunInDir(t) ==
    /\ At("test") /\ t \in Tests /\ ChildTests[t] = "todo"
    /\ t \in task.p2p => \A u \in task.f2p : ChildTests[u] # "todo"
    /\ \/ \E how \in Behaves(t) :
            IF Raises(how)
              THEN Fails
              ELSE trial' = [trial EXCEPT !.results[t] =
                               IF how = "passes" THEN "passed" ELSE "failed"]
       \/ trial' = [trial EXCEPT !.results[t] = "failed", !.mishap = TRUE]
       \/ Fails
    /\ Judged

\* `resolved`, the result and its binary_reward.
AllPass(tests) == \A t \in tests : ChildTests[t] = "passed"
JudgeInDir ==
    /\ At("test") /\ \A t \in Tests : ChildTests[t] # "todo"
    /\ LET resolved == trial.ok /\ task.f2p # {} /\ AllPass(task.f2p) /\ AllPass(task.p2p) IN
         trial' = [trial EXCEPT !.at = "destroy", !.ended = "returned",
                                !.verdict = IF resolved THEN "resolved" ELSE "unresolved",
                                !.reward = IF resolved THEN 1 ELSE 0]
    /\ Judged

\* finally: shutil.rmtree(workdir, ignore_errors=True)
DestroyDir ==
    /\ At("destroy")
    /\ trial' = [trial EXCEPT !.at = "done", !.dir = "removed"]
    /\ Judged

TrialInit ==
    trial = [at |-> "create", dir |-> "none", applied |-> FALSE, ok |-> TRUE,
             mishap |-> FALSE, results |-> [t \in TestIds |-> "todo"], verdict |-> "none", reward |-> 0,
             ended |-> "none"]

Trial ==
    \/ CreateDir \/ ApplyInDir \/ BuildInDir \/ JudgeInDir \/ DestroyDir
    \/ \E t \in TestIds : RunInDir(t)

BothInit == Init /\ TrialInit
BothNext ==
    \/ Verify /\ UNCHANGED trial
    \/ Trial
    \/ pc = "done" /\ At("done") /\ UNCHANGED <<vars, trial>>
BothSpec == BothInit /\ [][BothNext]_<<vars, trial>>

-----------------------------------------------------------------------------
(* The two verifiers are interchangeable (reward/verifier.py: "the HTTP     *)
(* contract does not change") as far as the code makes them so: where both  *)
(* give a judgement on a patch verify_clean lets through and a task without *)
(* hidden tests, and neither had a command cut by its timeout or a failing  *)
(* git init, it is the same judgement; a reward here needs the patch in the *)
(* tree and every test passed; and the directory goes with the run, also    *)
(* when a step raises, unless create failed.                                *)
VerifiersAgree ==
    pc = "done" /\ At("done") =>
        /\ /\ {verdict, trial.verdict} \subseteq {"resolved", "unresolved"}
           /\ patch \in {"empty", "fair", "renamed"} /\ ~ task.secret
           /\ ~ mishap /\ ~ trial.mishap
           => verdict = trial.verdict /\ reward = trial.reward
        /\ trial.reward = 1 => trial.applied = (patch # "empty") /\ AllPass(Tests)
        /\ trial.dir = "there" => trial.verdict = "error"
=============================================================================
