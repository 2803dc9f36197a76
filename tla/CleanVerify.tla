---------------------------- MODULE CleanVerify ----------------------------
(***************************************************************************)
(* One verification: verify_clean (env_server/docker/verify.py), called by *)
(* LocalDockerBackend.verify, with the executor that _make_executor builds *)
(* for it and the verdict rules of schemas/verification.py and             *)
(* protocol/validate.py.  The patch is known by what the checks see of it, *)
(* a command by whether it succeeds.                                       *)
(*                                                                         *)
(* A definition Mut<Name> is <Name> with a plausible bug.  Nothing uses it: *)
(* it is put in place of <Name> to see that a property catches the bug.    *)
(***************************************************************************)
EXTENDS Integers, FiniteSets

CONSTANTS
    TestIds,  \* the tests a task may name
    Faults    \* which steps may raise

\* docker run fails; the seed fails; a hidden test cannot be written; what a
\* command prints cannot be decoded (or docker is gone); docker rm fails
FaultKinds == {"run", "seed", "hidden", "decode", "rm"}

ASSUME ConstantsOK == IsFiniteSet(TestIds) /\ Faults \subseteq FaultKinds

\* The tests the fix must turn green, those that must stay green, and
\* whether the bundle of the task holds hidden tests.
Tasks == {t \in [f2p : SUBSET TestIds, p2p : SUBSET TestIds, secret : BOOLEAN] :
            t.f2p \cap t.p2p = {}}

\* blank; keeps off the protected paths; touches one by a name the integrity
\* check reads (the old one of a hunk); touches one only by a name it does not
\* read (the new one, of a rename or of a file added); too large
Patches == {"empty", "fair", "protected", "renamed", "oversize"}

VARIABLES
    pc,         \* the statement about to be executed
    task,       \* the arguments
    patch,
    fits,       \* the patch applies to the tree of the task
    container,  \* the executor's container: "none", "running", "removed"
    unremoved,  \* history: `docker rm -f` failed, and nobody looked
    mishap,     \* history: a command was cut by its timeout, or git init failed
    hidden,     \* hidden tests are in the workspace
    applied,    \* the patch is in the workspace
    integrity,  \* integrity_ok
    build,      \* the build: "todo", "ok", "failed"
    results,    \* per test: "todo", "passed", "failed"
    witnessed,  \* history: what the workspace held when each test ran
    verdict,    \* of the VerificationResult, "none" before there is one
    reward,     \* of the VerificationResult
    outcome     \* "none", "returned", "raised"

inputs    == <<task, patch, fits>>
held      == <<inputs, unremoved>>
workspace == <<hidden, applied>>
judgement == <<verdict, reward>>
vars == <<pc, task, patch, fits, container, unremoved, mishap, hidden, applied, integrity, build, results,
          witnessed, verdict, reward, outcome>>

-----------------------------------------------------------------------------
(* schemas/verification.py and protocol/validate.py.                       *)

Tests == task.f2p \cup task.p2p

TestsPass ==
    /\ task.f2p # {} /\ integrity
    /\ \A t \in Tests : results[t] = "passed"

IsResolved == verdict = "resolved" /\ TestsPass

MutBinaryReward == IF IsResolved THEN 1 ELSE -1
BinaryReward == IF IsResolved THEN 1 ELSE 0

ValidateVerification ==
    IF verdict = "error" THEN ~ TestsPass ELSE TestsPass <=> verdict = "resolved"

-----------------------------------------------------------------------------
(* verify.py: verify_clean.                                                *)

\* An exception inside the try block: the finally clause runs next.
MutRaise == pc' = "done" /\ outcome' = "raised"
Raise == pc' = "close" /\ outcome' = "raised"

\* A command that runs into its timeout gives exit code 124, a failure like any.
MayBeCut == UNCHANGED mishap \/ mishap' = TRUE

\* `executor = make_executor()`: docker run, then the seed.  An exception
\* becomes an error verdict; a container already started has no executor.
MakeExecutor ==
    /\ pc = "make"
    /\ \/ /\ container' = "running" /\ pc' = "hidden"
          /\ UNCHANGED <<integrity, judgement, outcome>>
       \/ /\ Faults \cap {"run", "seed"} # {}
          /\ container' \in (IF "run" \in Faults THEN {"none"} ELSE {})
                              \cup (IF "seed" \in Faults THEN {"running"} ELSE {})
          /\ verdict' = "error" /\ integrity' = FALSE /\ reward' = 0
          /\ outcome' = "returned" /\ pc' = "done"
    /\ UNCHANGED <<held, mishap, workspace, build, results, witnessed>>

\* _seed_hidden_tests, if there are any.
SeedHidden ==
    /\ pc = "hidden"
    /\ \/ hidden' = task.secret /\ pc' = "setup" /\ UNCHANGED outcome
       \/ "hidden" \in Faults /\ task.secret /\ Raise /\ UNCHANGED hidden
    /\ UNCHANGED <<held, mishap, container, applied, integrity, build, results, witnessed,
                   judgement>>

\* _run_setup: a failing command is only noted.
SetUp ==
    /\ pc = "setup"
    /\ \/ pc' = "check" /\ UNCHANGED outcome
       \/ "decode" \in Faults /\ Raise
    /\ MayBeCut
    /\ UNCHANGED <<held, container, workspace, integrity, build, results, witnessed,
                   judgement>>

\* _check_integrity, of the length and of the paths _patch_paths reads: the old
\* name after `diff --git` and after `---`.  A patch that fails is not applied.
CheckIntegrity ==
    /\ pc = "check"
    /\ integrity' = (patch \notin {"protected", "oversize"})
    /\ pc' = IF integrity' THEN "apply" ELSE "build"
    /\ UNCHANGED <<held, mishap, container, workspace, build, results, witnessed,
                   judgement, outcome>>

\* _apply_patch: an empty patch is no fix and no error; any other needs git init
\* and git apply, which takes all of the patch or nothing (cut by its timeout it
\* may have done either), and any failure spoils integrity_ok.
GitApply ==
    \/ applied' = fits /\ integrity' = fits /\ UNCHANGED mishap
    \/ applied' \in {FALSE, fits} /\ integrity' = FALSE /\ mishap' = TRUE
MutApplyPatch ==
    /\ pc = "apply"
    /\ pc' = "build"
    /\ applied' = (patch # "empty" /\ fits)
    /\ UNCHANGED <<held, mishap, container, hidden, integrity, build, results, witnessed,
                   judgement, outcome>>
ApplyPatch ==
    /\ pc = "apply"
    /\ \/ patch = "empty" /\ pc' = "build" /\ UNCHANGED <<applied, integrity, mishap, outcome>>
       \/ patch # "empty" /\ pc' = "build" /\ GitApply /\ UNCHANGED outcome
       \/ /\ "decode" \in Faults /\ patch # "empty"
          /\ Raise
          /\ applied' \in {FALSE, fits} /\ UNCHANGED <<integrity, mishap>>
    /\ UNCHANGED <<held, container, hidden, build, results, witnessed, judgement>>

\* _run_build_and_tests: a failing build command ends the build, the tests
\* are run all the same.
Build ==
    /\ pc = "build"
    /\ \/ build' = "ok" /\ pc' = "test" /\ UNCHANGED <<mishap, outcome>>
       \/ build' = "failed" /\ pc' = "test" /\ MayBeCut /\ UNCHANGED outcome
       \/ "decode" \in Faults /\ Raise /\ UNCHANGED <<build, mishap>>
    /\ UNCHANGED <<held, container, workspace, integrity, results, witnessed, judgement>>

\* One test command: exit code 0, or not (no command, timeout, failure).
\* The fail_to_pass tests come first.
RunTest(t) ==
    /\ pc = "test" /\ t \in Tests /\ results[t] = "todo"
    /\ t \in task.p2p => \A u \in task.f2p : results[u] # "todo"
    /\ \/ /\ \/ results' = [results EXCEPT ![t] = "passed"] /\ UNCHANGED mishap
             \/ results' = [results EXCEPT ![t] = "failed"] /\ MayBeCut
          /\ witnessed' = [witnessed EXCEPT ![t] = workspace]
          /\ UNCHANGED <<pc, outcome>>
       \/ /\ "decode" \in Faults /\ Raise
          /\ UNCHANGED <<results, witnessed, mishap>>
    /\ UNCHANGED <<held, container, workspace, integrity, build, judgement>>

\* `resolved = integrity_ok and bool(f2p) and all(...) and all(...)`
MutResolved ==
    /\ task.f2p # {}
    /\ \A t \in task.f2p : results[t] = "passed"
    /\ \A t \in task.p2p : results[t] = "passed"
Resolved ==
    /\ integrity
    /\ task.f2p # {}
    /\ \A t \in task.f2p : results[t] = "passed"
    /\ \A t \in task.p2p : results[t] = "passed"

\* The result is built, then v.reward = binary_reward(v).
Judge ==
    /\ pc = "test" /\ \A t \in Tests : results[t] # "todo"
    /\ verdict' = IF Resolved THEN "resolved" ELSE "unresolved"
    /\ pc' = "reward"
    /\ UNCHANGED <<held, mishap, container, workspace, integrity, build, results, witnessed,
                   reward, outcome>>

Reward ==
    /\ pc = "reward"
    /\ reward' = BinaryReward
    /\ outcome' = "returned" /\ pc' = "close"
    /\ UNCHANGED <<held, mishap, container, workspace, integrity, build, results, witnessed,
                   verdict>>

\* finally: executor.close()
Close ==
    /\ pc = "close"
    /\ \/ container' = "removed" /\ UNCHANGED unremoved
       \/ "rm" \in Faults /\ unremoved' = TRUE /\ UNCHANGED container
    /\ pc' = "done"
    /\ UNCHANGED <<inputs, mishap, workspace, integrity, build, results, witnessed, judgement,
                   outcome>>

-----------------------------------------------------------------------------
Init ==
    /\ pc = "make"
    /\ task \in Tasks /\ patch \in Patches /\ fits \in BOOLEAN
    /\ container = "none" /\ unremoved = FALSE /\ mishap = FALSE
    /\ hidden = FALSE /\ applied = FALSE /\ integrity = TRUE
    /\ build = "todo"
    /\ results = [t \in TestIds |-> "todo"]
    /\ witnessed = [t \in TestIds |-> <<FALSE, FALSE>>]
    /\ verdict = "none" /\ reward = 0 /\ outcome = "none"

Verify ==
    \/ MakeExecutor \/ SeedHidden \/ SetUp \/ CheckIntegrity \/ ApplyPatch \/ Build
    \/ \E t \in TestIds : RunTest(t)
    \/ Judge \/ Reward \/ Close

Done == pc = "done" /\ UNCHANGED vars

Next == Verify \/ Done

Spec == Init /\ [][Next]_vars

-----------------------------------------------------------------------------
TypeOK ==
    /\ pc \in {"make", "hidden", "setup", "check", "apply", "build", "test", "reward",
               "close", "done"}
    /\ task \in Tasks /\ patch \in Patches /\ fits \in BOOLEAN
    /\ container \in {"none", "running", "removed"}
    /\ {unremoved, mishap, hidden, applied, integrity} \subseteq BOOLEAN
    /\ build \in {"todo", "ok", "failed"}
    /\ results \in [TestIds -> {"todo", "passed", "failed"}]
    /\ witnessed \in [TestIds -> BOOLEAN \X BOOLEAN]
    /\ verdict \in {"none", "resolved", "unresolved", "error"}
    /\ reward \in {0, 1}
    /\ outcome \in {"none", "returned", "raised"}

(* Every result verify_clean returns passes validate_verification, and its  *)
(* reward is the binary reward of that result: the verdict computed in      *)
(* verify.py and the rule of schemas/verification.py never disagree.        *)
ResultsValidate ==
    outcome = "returned" /\ pc = "done" =>
        ValidateVerification /\ reward = BinaryReward

(* A reward of 1 is earned by a run: the hidden tests (if any) were there,  *)
(* the patch had passed the integrity check and was in the workspace (or was*)
(* empty) when each test ran, and each of them passed, with no patch step   *)
(* refused, failed or cut on the way.                                       *)
RewardIsEarned ==
    reward = 1 =>
        /\ patch \in {"empty", "fair", "renamed"} /\ task.f2p # {}
        /\ \A t \in Tests :
             results[t] = "passed" /\ witnessed[t] = <<task.secret, patch # "empty">>

(* verify.py: "paths the patch must never touch ... A violation ->          *)
(* integrity_ok=False + unresolved, without applying the patch".            *)
ProtectedNeverTouched == patch \in {"protected", "renamed"} => ~ applied

(* However a verification ends, also by an exception at any step, its       *)
(* container is gone, unless make_executor raised after docker run or       *)
(* docker rm failed unnoticed.                                              *)
ContainerRemoved ==
    pc = "done" /\ container = "running" => verdict = "error" \/ unremoved

=============================================================================
