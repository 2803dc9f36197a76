------------------------- MODULE CleanVerifyProofs -------------------------
(***************************************************************************)
(* Theorems about CleanVerify and RewardVerifier, for every finite set of  *)
(* tests and every choice of faults.                                       *)
(***************************************************************************)
EXTENDS RewardVerifier, TLAPS

\* The patches _check_integrity lets through.
Passing == {"empty", "fair", "renamed"}

\* What a resolved verdict stands for.
Earned ==
    /\ patch \in Passing /\ task.f2p # {}
    /\ \A t \in Tests :
         results[t] = "passed" /\ witnessed[t] = <<task.secret, patch # "empty">>

\* Before the patch has been dealt with, nothing is applied or refused.
NotYet ==
    pc \in {"make", "hidden", "setup", "check", "apply"} => integrity /\ ~ applied

OnlyPassingIsApplied == pc = "apply" => patch \in Passing

HiddenInPlace ==
    pc \in {"setup", "check", "apply", "build", "test", "reward"} => hidden = task.secret

PatchInPlace ==
    pc \in {"build", "test", "reward"} /\ integrity =>
        patch \in Passing /\ applied = (patch # "empty")

\* A test that has run saw the workspace as it is now.
RunsWitnessed ==
    \A t \in TestIds : results[t] # "todo" =>
        pc \in {"test", "reward", "close", "done"} /\ witnessed[t] = <<hidden, applied>>

VerdictOK ==
    /\ verdict # "none" => pc \in {"reward", "close", "done"}
    /\ pc = "reward" => verdict # "none"
    /\ verdict = "error" => ~ integrity
    /\ verdict = "resolved" => TestsPass /\ Earned
    /\ verdict = "unresolved" => ~ TestsPass

RewardOK ==
    /\ outcome = "returned" =>
         pc \in {"close", "done"} /\ verdict # "none" /\ reward = BinaryReward
    /\ outcome # "returned" => reward = 0

VInv ==
    /\ TypeOK /\ NotYet /\ OnlyPassingIsApplied /\ HiddenInPlace /\ PatchInPlace
    /\ RunsWitnessed /\ VerdictOK /\ RewardOK

LEMMA TaskShape ==
    ASSUME task \in Tasks
    PROVE  Tests \subseteq TestIds /\ task.secret \in BOOLEAN
  BY DEF Tasks, Tests

\* A cut is on record for good.
LEMMA CutStays ==
    ASSUME MayBeCut, mishap \in BOOLEAN
    PROVE  mishap' \in BOOLEAN /\ (mishap => mishap')
  <1>1. CASE mishap' = TRUE
    BY <1>1
  <1>2. CASE UNCHANGED mishap
    BY <1>2
  <1>. QED
    BY <1>1, <1>2 DEF MayBeCut

LEMMA ApplyKeepsTypes ==
    ASSUME GitApply, applied \in BOOLEAN, fits \in BOOLEAN, mishap \in BOOLEAN
    PROVE  /\ applied' \in BOOLEAN /\ integrity' \in BOOLEAN /\ mishap' \in BOOLEAN
           /\ integrity' => applied'
           /\ mishap \/ mishap' \/ (integrity' = fits /\ applied' = fits)
  <1>1. CASE applied' = fits /\ integrity' = fits /\ UNCHANGED mishap
    BY <1>1
  <1>2. CASE applied' \in {FALSE, fits} /\ integrity' = FALSE /\ mishap' = TRUE
    BY Zenon, <1>2
  <1>. QED
    BY <1>1, <1>2 DEF GitApply

LEMMA InitOK == Init => VInv
  <1>. SUFFICES ASSUME Init PROVE VInv
    OBVIOUS
  <1>. USE DEF Init
  <1>1. TypeOK
    BY DEF TypeOK
  <1>2. NotYet /\ OnlyPassingIsApplied /\ HiddenInPlace /\ PatchInPlace
    BY DEF NotYet, OnlyPassingIsApplied, HiddenInPlace, PatchInPlace
  <1>3. RunsWitnessed /\ VerdictOK /\ RewardOK
    BY DEF RunsWitnessed, VerdictOK, RewardOK
  <1>. QED
    BY <1>1, <1>2, <1>3 DEF VInv

LEMMA TypeStep ==
    ASSUME TypeOK, [Next]_vars
    PROVE  TypeOK'
  <1>. USE DEF TypeOK, held, inputs, workspace, judgement, Raise
  <1>1. CASE MakeExecutor BY ZenonT(60), <1>1 DEF MakeExecutor
  <1>2. CASE SeedHidden BY <1>2, TaskShape DEF SeedHidden
  <1>3. CASE SetUp BY <1>3, CutStays DEF SetUp
  <1>4. CASE CheckIntegrity BY <1>4 DEF CheckIntegrity
  <1>5. CASE ApplyPatch
    <2>1. applied' \in BOOLEAN /\ integrity' \in BOOLEAN /\ mishap' \in BOOLEAN
      BY <1>5, ApplyKeepsTypes DEF ApplyPatch
    <2>2. pc' \in {"build", "close"} /\ outcome' \in {outcome, "raised"}
      BY <1>5 DEF ApplyPatch
    <2>3. UNCHANGED <<held, container, hidden, build, results, witnessed, judgement>>
      BY <1>5 DEF ApplyPatch
    <2>. QED
      BY <2>1, <2>2, <2>3
  <1>6. CASE Build
    <2>1. mishap' \in BOOLEAN /\ build' \in {build, "ok", "failed"}
      BY <1>6, CutStays DEF Build
    <2>2. pc' \in {"test", "close"} /\ outcome' \in {outcome, "raised"}
      BY <1>6 DEF Build
    <2>. QED
      BY <1>6, <2>1, <2>2 DEF Build
  <1>7. ASSUME NEW t \in TestIds, RunTest(t)
        PROVE  TypeOK'
    <2>1. mishap' \in BOOLEAN
      BY <1>7, CutStays DEF RunTest
    <2>2. results' \in [TestIds -> {"todo", "passed", "failed"}]
      BY <1>7 DEF RunTest
    <2>3. witnessed' \in [TestIds -> BOOLEAN \X BOOLEAN]
      BY <1>7 DEF RunTest
    <2>4. pc' \in {"test", "close"} /\ outcome' \in {outcome, "raised"}
      BY <1>7 DEF RunTest
    <2>. QED
      BY <1>7, <2>1, <2>2, <2>3, <2>4 DEF RunTest
  <1>8. CASE Judge BY <1>8 DEF Judge
  <1>9. CASE Reward BY <1>9 DEF Reward, BinaryReward
  <1>10. CASE Close 
    <2>1. container' \in {container, "removed"} /\ unremoved' \in BOOLEAN
      BY <1>10 DEF Close
    <2>. QED
      BY <1>10, <2>1 DEF Close
  <1>11. CASE UNCHANGED vars BY <1>11 DEF vars
  <1>. QED
    BY <1>1, <1>2, <1>3, <1>4, <1>5, <1>6, <1>7, <1>8, <1>9, <1>10, <1>11
       DEF Next, Verify, Done

\* Where the patch is, and what the workspace holds.
LEMMA WorkspaceStep ==
    ASSUME VInv, [Next]_vars
    PROVE  NotYet' /\ OnlyPassingIsApplied' /\ HiddenInPlace' /\ PatchInPlace'
  <1>. USE DEF VInv, TypeOK, NotYet, OnlyPassingIsApplied, Passing, HiddenInPlace, PatchInPlace,
             held, inputs, workspace, judgement, Raise
  <1>1. CASE MakeExecutor BY <1>1 DEF MakeExecutor
  <1>2. CASE SeedHidden BY <1>2 DEF SeedHidden
  <1>3. CASE SetUp BY <1>3 DEF SetUp
  <1>4. CASE CheckIntegrity BY <1>4 DEF CheckIntegrity, Patches
  <1>5. CASE ApplyPatch BY <1>5 DEF ApplyPatch, GitApply
  <1>6. CASE Build BY <1>6 DEF Build
  <1>7. ASSUME NEW t \in TestIds, RunTest(t)
        PROVE  NotYet' /\ OnlyPassingIsApplied' /\ HiddenInPlace' /\ PatchInPlace'
    BY <1>7 DEF RunTest
  <1>8. CASE Judge BY <1>8 DEF Judge
  <1>9. CASE Reward BY <1>9 DEF Reward
  <1>10. CASE Close BY <1>10 DEF Close
  <1>11. CASE UNCHANGED vars BY <1>11 DEF vars
  <1>. QED
    BY <1>1, <1>2, <1>3, <1>4, <1>5, <1>6, <1>7, <1>8, <1>9, <1>10, <1>11
       DEF Next, Verify, Done

LEMMA WitnessStep ==
    ASSUME VInv, [Next]_vars
    PROVE  RunsWitnessed'
  <1>. USE DEF VInv, TypeOK, RunsWitnessed, held, inputs, workspace, judgement, Raise
  <1>1. CASE MakeExecutor BY <1>1 DEF MakeExecutor
  <1>2. CASE SeedHidden BY <1>2 DEF SeedHidden
  <1>3. CASE SetUp BY <1>3 DEF SetUp
  <1>4. CASE CheckIntegrity BY <1>4 DEF CheckIntegrity
  <1>5. CASE ApplyPatch BY <1>5 DEF ApplyPatch, GitApply
  <1>6. CASE Build BY <1>6 DEF Build
  <1>7. ASSUME NEW t \in TestIds, RunTest(t)
        PROVE  RunsWitnessed'
    BY <1>7 DEF RunTest
  <1>8. CASE Judge BY <1>8 DEF Judge
  <1>9. CASE Reward BY <1>9 DEF Reward
  <1>10. CASE Close BY <1>10 DEF Close
  <1>11. CASE UNCHANGED vars BY <1>11 DEF vars
  <1>. QED
    BY <1>1, <1>2, <1>3, <1>4, <1>5, <1>6, <1>7, <1>8, <1>9, <1>10, <1>11
       DEF Next, Verify, Done

\* A resolved verdict is given in a state that has earned it.
LEMMA JudgeEarns ==
    ASSUME VInv, pc = "test", Resolved
    PROVE  TestsPass /\ Earned
  <1>1. \A t \in Tests : results[t] = "passed"
    BY DEF Resolved, Tests
  <1>2. hidden = task.secret /\ patch \in Passing /\ applied = (patch # "empty")
    BY DEF VInv, HiddenInPlace, PatchInPlace, Resolved
  <1>3. \A t \in Tests : witnessed[t] = <<hidden, applied>>
    BY <1>1, TaskShape DEF VInv, TypeOK, RunsWitnessed
  <1>. QED
    BY <1>1, <1>2, <1>3 DEF TestsPass, Earned, Resolved

\* The verdict, the reward and what they are computed from change together.
LEMMA JudgementStep ==
    ASSUME VInv, [Next]_vars
    PROVE  VerdictOK' /\ RewardOK'
  <1>. USE DEF VInv, TypeOK, VerdictOK, RewardOK, held, inputs, workspace, judgement, Raise
  <1>1. CASE MakeExecutor
    BY <1>1 DEF MakeExecutor, BinaryReward, IsResolved, TestsPass
  <1>2. CASE SeedHidden BY <1>2 DEF SeedHidden
  <1>3. CASE SetUp BY <1>3 DEF SetUp
  <1>4. CASE CheckIntegrity BY <1>4 DEF CheckIntegrity
  <1>5. CASE ApplyPatch BY <1>5 DEF ApplyPatch, GitApply
  <1>6. CASE Build BY <1>6 DEF Build
  <1>7. ASSUME NEW t \in TestIds, RunTest(t)
        PROVE  VerdictOK' /\ RewardOK'
    BY <1>7 DEF RunTest
  <1>8. CASE Judge
    <2>1. TestsPass' = TestsPass /\ Earned' = Earned
      BY <1>8 DEF Judge, TestsPass, Earned, Tests
    <2>2. CASE Resolved
      BY <1>8, <2>1, <2>2, JudgeEarns DEF Judge
    <2>3. CASE ~ Resolved
      <3>1. ~ TestsPass
        BY <2>3 DEF TestsPass, Resolved, Tests
      <3>. QED
        BY <1>8, <2>1, <2>3, <3>1 DEF Judge
    <2>. QED
      BY <2>2, <2>3
  <1>9. CASE Reward
    <2>1. TestsPass' = TestsPass /\ Earned' = Earned
      BY <1>9 DEF Reward, TestsPass, Earned, Tests
    <2>. QED
      BY <1>9, <2>1 DEF Reward, BinaryReward, IsResolved
  <1>10. CASE Close
    <2>1. TestsPass' = TestsPass /\ Earned' = Earned
      BY <1>10 DEF Close, TestsPass, Earned, Tests
    <2>. QED
      BY <1>10, <2>1 DEF Close, BinaryReward, IsResolved
  <1>11. CASE UNCHANGED vars
    BY <1>11 DEF vars, TestsPass, Earned, Tests, BinaryReward, IsResolved
  <1>. QED
    BY <1>1, <1>2, <1>3, <1>4, <1>5, <1>6, <1>7, <1>8, <1>9, <1>10, <1>11
       DEF Next, Verify, Done

LEMMA VInvariance == Spec => []VInv
  <1>1. VInv /\ [Next]_vars => VInv'
    <2>. SUFFICES ASSUME VInv, [Next]_vars PROVE VInv'
      OBVIOUS
    <2>. QED
      BY TypeStep, WorkspaceStep, WitnessStep, JudgementStep DEF VInv
  <1>. QED
    BY InitOK, <1>1, PTL DEF Spec

(* Every variable of a verification keeps its type.                         *)
THEOREM VerifyTypeCorrect == Spec => []TypeOK
  <1>1. VInv => TypeOK
    BY DEF VInv
  <1>. QED
    BY VInvariance, <1>1, PTL

(* A reward of 1 was earned by a run of every test on the patched workspace *)
(* with the hidden tests in place (verify.py: verify_clean).                *)
THEOREM RewardsAreEarned == Spec => []RewardIsEarned
  <1>1. VInv => RewardIsEarned
    BY DEF VInv, TypeOK, RewardOK, VerdictOK, RewardIsEarned, Earned, Passing, BinaryReward, IsResolved
  <1>. QED
    BY VInvariance, <1>1, PTL

(* The verdict computed in verify.py always passes the validator's rule,    *)
(* and the reward is the binary reward of the result.                       *)
THEOREM ResultsAreValid == Spec => []ResultsValidate
  <1>1. VInv => ResultsValidate
    BY DEF VInv, TypeOK, RewardOK, VerdictOK, ResultsValidate, ValidateVerification, TestsPass
  <1>. QED
    BY VInvariance, <1>1, PTL

(* The container of a verification that is over is gone, unless             *)
(* make_executor raised after docker run or docker rm failed.               *)
THEOREM ContainerIsRemoved == Spec => []ContainerRemoved
  <1>1. Init => ContainerRemoved
    BY DEF Init, ContainerRemoved
  <1>2. ContainerRemoved /\ [Next]_vars => ContainerRemoved'
    <2>. SUFFICES ASSUME ContainerRemoved, [Next]_vars PROVE ContainerRemoved'
      OBVIOUS
    <2>. USE DEF ContainerRemoved, Raise, held, inputs, judgement
    <2>1. CASE MakeExecutor BY <2>1 DEF MakeExecutor
    <2>2. CASE Close BY <2>2 DEF Close
    <2>3. CASE SeedHidden \/ SetUp \/ CheckIntegrity \/ ApplyPatch \/ Build \/ Judge \/ Reward
      BY <2>3 DEF SeedHidden, SetUp, CheckIntegrity, ApplyPatch, Build, Judge, Reward
    <2>4. ASSUME NEW t \in TestIds, RunTest(t)
          PROVE  ContainerRemoved'
      BY <2>4 DEF RunTest
    <2>5. CASE UNCHANGED vars BY <2>5 DEF vars
    <2>. QED
      BY <2>1, <2>2, <2>3, <2>4, <2>5 DEF Next, Verify, Done
  <1>. QED
    BY <1>1, <1>2, PTL DEF Spec

-----------------------------------------------------------------------------
(* The verifier on the training side.  A judgement of verify_clean was made *)
(* of a tree and of tests that the second run finds as they were left.      *)
Judgement(v) == v \in {"resolved", "unresolved"}

JudgedOK ==
    /\ verdict # "none" /\ pc # "reward" => outcome = "returned"
    /\ pc \notin {"close", "done"} => outcome = "none"
    /\ patch = "empty" => ~ applied
    /\ pc = "build" \/ pc = "test" \/ Judgement(verdict) =>
         /\ hidden = task.secret
         /\ ~ mishap /\ patch \in Passing =>
              IF patch = "empty" THEN integrity ELSE integrity = fits /\ applied = fits
    /\ Judgement(verdict) => \A t \in Tests : results[t] # "todo"

TrialType ==
    trial \in [at : {"create", "apply", "build", "test", "destroy", "done"},
               dir : {"none", "there", "removed"}, applied : BOOLEAN, ok : BOOLEAN,
               mishap : BOOLEAN, results : [TestIds -> {"todo", "passed", "failed"}],
               verdict : {"none", "resolved", "unresolved", "error"}, reward : {0, 1},
               ended : {"none", "returned", "raised"}]

\* The tree of the second run, once the patch has been dealt with.
TreeOK ==
    /\ patch = "empty" => ~ trial.applied
    /\ trial.at \in {"create", "apply"} => trial.ok /\ ~ trial.applied
    /\ trial.at \in {"build", "test"} \/ Judgement(trial.verdict) =>
         /\ trial.ok = (patch = "empty" \/ trial.applied)
         /\ ~ mishap /\ ~ trial.mishap /\ ~ task.secret /\ patch # "empty" =>
              trial.applied = fits

\* A test that has run again on the same tree gave the same result.
RerunsOK ==
    /\ trial.at \in {"create", "apply", "build"} => \A t \in TestIds : ChildTests[t] = "todo"
    /\ trial.at \in {"test", "destroy", "done"} /\ SameTree =>
         \A t \in TestIds :
            ChildTests[t] # "todo" /\ results[t] # "todo" => ChildTests[t] = results[t]

TrialPasses == trial.ok /\ task.f2p # {} /\ AllPass(Tests)

TrialVerdictOK ==
    /\ trial.verdict \in {"none", "error"} => trial.reward = 0
    /\ Judgement(trial.verdict) =>
         /\ trial.at \in {"destroy", "done"}
         /\ \A t \in Tests : ChildTests[t] # "todo"
         /\ trial.verdict = "resolved" <=> TrialPasses
         /\ trial.reward = IF TrialPasses THEN 1 ELSE 0
    /\ trial.verdict = "error" => trial.at = "done"
    /\ trial.at = "done" /\ trial.dir = "there" => trial.verdict = "error"

TrialInv ==
    /\ trial.at # "create" => pc = "done"
    /\ TrialType /\ TreeOK /\ RerunsOK /\ TrialVerdictOK

LEMMA JudgedStep ==
    ASSUME VInv, JudgedOK, [Next]_vars
    PROVE  JudgedOK'
  <1>. USE DEF VInv, TypeOK, JudgedOK, VerdictOK, RewardOK, NotYet, HiddenInPlace, Judgement,
               Passing, held, inputs, workspace, judgement, Raise
  <1>1. CASE MakeExecutor BY <1>1 DEF MakeExecutor
  <1>2. CASE SeedHidden BY <1>2 DEF SeedHidden
  <1>3. CASE SetUp BY <1>3 DEF SetUp, MayBeCut
  <1>4. CASE CheckIntegrity BY <1>4 DEF CheckIntegrity, Patches
  <1>5. CASE ApplyPatch
    <2>1. CASE patch # "empty" /\ pc' = "build" /\ GitApply /\ UNCHANGED outcome
      <3>1. mishap \/ mishap' \/ (integrity' = fits /\ applied' = fits)
        BY <2>1, ApplyKeepsTypes
      <3>2. mishap => mishap'
        BY <2>1 DEF GitApply
      <3>. QED
        BY <1>5, <2>1, <3>1, <3>2 DEF ApplyPatch
    <2>2. CASE patch = "empty" /\ pc' = "build" /\ UNCHANGED <<applied, integrity, mishap, outcome>>
      BY <1>5, <2>2 DEF ApplyPatch
    <2>3. CASE patch # "empty" /\ Raise
      BY <1>5, <2>3 DEF ApplyPatch
    <2>. QED
      BY <1>5, <2>1, <2>2, <2>3 DEF ApplyPatch
  <1>6. CASE Build BY <1>6 DEF Build, MayBeCut
  <1>7. ASSUME NEW t \in TestIds, RunTest(t)
        PROVE  JudgedOK'
    <2>1. mishap => mishap'
      BY <1>7, CutStays DEF RunTest
    <2>. QED
      BY <1>7, <2>1 DEF RunTest
  <1>8. CASE Judge BY <1>8 DEF Judge, Tests
  <1>9. CASE Reward BY <1>9 DEF Reward, Tests
  <1>10. CASE Close BY <1>10 DEF Close, Tests
  <1>11. CASE UNCHANGED vars BY <1>11 DEF vars, Tests
  <1>. QED
    BY <1>1, <1>2, <1>3, <1>4, <1>5, <1>6, <1>7, <1>8, <1>9, <1>10, <1>11
       DEF Next, Verify, Done

\* The second run starts when the first is over, and leaves its state alone.
LEMMA Turns ==
    ASSUME TrialInv, BothNext
    PROVE  \/ Verify /\ UNCHANGED trial /\ trial.at = "create" /\ pc # "done"
           \/ Trial /\ UNCHANGED vars /\ pc = "done"
           \/ UNCHANGED <<vars, trial>>
  <1>1. CASE Verify /\ UNCHANGED trial
    BY <1>1 DEF TrialInv, Verify, MakeExecutor, SeedHidden, SetUp, CheckIntegrity, ApplyPatch,
       Build, RunTest, Judge, Reward, Close
  <1>2. CASE Trial
    BY <1>2 DEF TrialInv, Trial, CreateDir, ApplyInDir, BuildInDir, JudgeInDir, DestroyDir,
       RunInDir, Judged, At
  <1>. QED
    BY <1>1, <1>2 DEF BothNext

LEMMA TrialStep ==
    ASSUME VInv, JudgedOK, TrialInv, Trial, UNCHANGED vars, pc = "done"
    PROVE  TrialInv'
  <1>1. /\ UNCHANGED <<pc, task, patch, fits, mishap, hidden, applied, results, verdict, outcome, Tests>>
        /\ Tests \subseteq TestIds
        /\ patch \in Patches /\ applied \in BOOLEAN /\ fits \in BOOLEAN
        /\ results \in [TestIds -> {"todo", "passed", "failed"}]
    BY TaskShape DEF vars, VInv, TypeOK, Tests
  <1>2. /\ TrialType
        /\ trial.results \in [TestIds -> {"todo", "passed", "failed"}]
        /\ trial.applied \in BOOLEAN /\ trial.ok \in BOOLEAN /\ trial.mishap \in BOOLEAN
        /\ trial.verdict \in {"none", "resolved", "unresolved", "error"}
    BY DEF TrialInv, TrialType
  <1>3. ASSUME TrialType', TreeOK', RerunsOK', TrialVerdictOK'
        PROVE  TrialInv'
    BY <1>1, <1>3 DEF TrialInv
  <1>. USE DEF At, Judged, ChildTests
  <1>4. CASE CreateDir
    <2>1. TrialType'
      BY ZenonT(60), <1>2, <1>4 DEF CreateDir, TrialType
    <2>2. /\ UNCHANGED <<trial.applied, trial.results>> /\ trial.at = "create"
          /\ \/ /\ trial'.at = "apply" /\ UNCHANGED <<trial.ok, trial.verdict, trial.reward>>
             \/ /\ trial'.at = "done" /\ trial'.verdict = "error" /\ UNCHANGED trial.reward
      BY <1>2, <1>4 DEF CreateDir, TrialType
    <2>3. TreeOK'
      BY <1>1, <2>2 DEF TrialInv, TrialVerdictOK, TreeOK, Judgement
    <2>4. RerunsOK'
      BY <1>1, <2>2 DEF TrialInv, RerunsOK
    <2>5. TrialVerdictOK'
      BY <1>1, <1>2, <2>2 DEF TrialInv, TrialVerdictOK, Judgement
    <2>. QED
      BY <1>3, <2>1, <2>3, <2>4, <2>5
  <1>5. CASE ApplyInDir
    <2>0. /\ trial.at = "apply" /\ Fits \subseteq BOOLEAN
          /\ \/ patch = "empty" /\ trial' = [trial EXCEPT !.at = "build"]
             \/ /\ patch # "empty"
                /\ trial' = [trial EXCEPT !.at = "build", !.ok = FALSE, !.mishap = TRUE]
             \/ \E fit \in Fits : patch # "empty" /\
                  trial' = [trial EXCEPT !.at = "build", !.applied = fit, !.ok = fit]
             \/ patch # "empty" /\ trial' = [trial EXCEPT !.at = "destroy", !.ended = "raised"]
      BY <1>1, <1>5 DEF ApplyInDir, Fails, Fits
    <2>1. TrialType'
      BY ZenonT(60), <1>2, <2>0 DEF TrialType
    <2>2. /\ UNCHANGED <<trial.results, trial.verdict, trial.reward, trial.dir>>
          /\ trial.at = "apply"
          /\ \/ /\ patch = "empty" /\ trial'.at = "build"
                /\ UNCHANGED <<trial.applied, trial.ok, trial.mishap>>
             \/ /\ patch # "empty" /\ trial'.at = "build" /\ UNCHANGED trial.applied
                /\ trial'.ok = FALSE /\ trial'.mishap = TRUE
             \/ /\ patch # "empty" /\ trial'.at = "build" /\ UNCHANGED trial.mishap
                /\ trial'.applied \in Fits /\ trial'.ok = trial'.applied
             \/ /\ patch # "empty" /\ trial'.at = "destroy"
                /\ UNCHANGED <<trial.applied, trial.ok, trial.mishap>>
      <3>1. CASE patch = "empty" /\ trial' = [trial EXCEPT !.at = "build"]
        BY <1>2, <2>0, <3>1 DEF TrialType
      <3>2. CASE /\ patch # "empty"
                 /\ trial' = [trial EXCEPT !.at = "build", !.ok = FALSE, !.mishap = TRUE]
        BY <1>2, <2>0, <3>2 DEF TrialType
      <3>3. ASSUME NEW fit \in Fits, patch # "empty",
                   trial' = [trial EXCEPT !.at = "build", !.applied = fit, !.ok = fit]
            PROVE  /\ UNCHANGED <<trial.results, trial.verdict, trial.reward, trial.dir>>
                   /\ UNCHANGED trial.mishap
                   /\ trial'.at = "build" /\ trial'.applied = fit /\ trial'.ok = fit
        BY <1>2, <2>0, <3>3 DEF TrialType
      <3>4. CASE patch # "empty" /\ trial' = [trial EXCEPT !.at = "destroy", !.ended = "raised"]
        BY <1>2, <2>0, <3>4 DEF TrialType
      <3>. QED
        BY <2>0, <3>1, <3>2, <3>3, <3>4
    <2>3. TreeOK'
      <3>1. CASE patch = "empty"
        BY <1>1, <1>2, <2>2, <3>1 DEF TrialInv, TrialVerdictOK, TreeOK, Judgement
      <3>2. CASE patch # "empty" /\ trial'.at = "build"
        <4>0. ~ trial.applied
          BY <2>2 DEF TrialInv, TreeOK
        <4>1. trial'.ok = trial'.applied
          BY <1>2, <2>2, <3>2, <4>0
        <4>2. ~ mishap /\ ~ trial'.mishap /\ ~ task.secret => trial'.applied = fits
          BY <2>2, <3>2 DEF Fits
        <4>3. trial'.ok = (patch = "empty" \/ trial'.applied)
          <5>1. trial'.applied \in BOOLEAN
            BY <2>1 DEF TrialType
          <5>. QED
            BY <3>2, <4>1, <5>1
        <4>. QED
          BY <1>1, <2>2, <3>2, <4>2, <4>3 DEF TreeOK
      <3>3. CASE patch # "empty" /\ trial'.at = "destroy"
        BY <1>1, <1>2, <2>2, <3>3 DEF TrialInv, TrialVerdictOK, TreeOK, Judgement
      <3>. QED
        BY <2>2, <3>1, <3>2, <3>3
    <2>4. RerunsOK'
      BY <1>1, <2>2 DEF TrialInv, RerunsOK
    <2>5. TrialVerdictOK'
      BY <1>1, <1>2, <2>2 DEF TrialInv, TrialVerdictOK, Judgement
    <2>. QED
      BY <1>3, <2>1, <2>3, <2>4, <2>5
  <1>6. CASE BuildInDir
    <2>1. TrialType'
      BY ZenonT(60), <1>2, <1>6 DEF BuildInDir, Fails, TrialType
    <2>2. /\ trial.at = "build" /\ trial'.at \in {"test", "destroy"}
          /\ UNCHANGED <<trial.results, trial.verdict, trial.reward, trial.dir, trial.applied,
                         trial.ok>>
          /\ trial.mishap => trial'.mishap
      BY <1>2, <1>6 DEF BuildInDir, Fails, TrialType
    <2>3. TreeOK'
      BY <1>1, <2>2 DEF TrialInv, TreeOK, Judgement
    <2>4. RerunsOK'
      BY <1>1, <2>2 DEF TrialInv, RerunsOK
    <2>5. TrialVerdictOK'
      BY <1>1, <1>2, <2>2 DEF TrialInv, TrialVerdictOK, Judgement
    <2>. QED
      BY <1>3, <2>1, <2>3, <2>4, <2>5
  <1>7. ASSUME NEW t \in TestIds, RunInDir(t)
        PROVE  TrialInv'
    <2>1. TrialType'
      <3>1. CASE Fails
        BY <1>2, <3>1 DEF Fails, TrialType
      <3>2. CASE trial' = [trial EXCEPT !.results[t] = "failed", !.mishap = TRUE]
        BY <1>2, <3>2 DEF TrialType
      <3>3. ASSUME NEW how,
                   trial' = [trial EXCEPT !.results[t] =
                               IF how = "passes" THEN "passed" ELSE "failed"]
            PROVE  TrialType'
        <4>1. PICK r \in {"passed", "failed"} : trial' = [trial EXCEPT !.results[t] = r]
          BY <3>3
        <4>. QED
          BY <1>2, <4>1 DEF TrialType
      <3>. QED
        BY <1>7, <3>1, <3>2, <3>3 DEF RunInDir
    <2>2. /\ trial.at = "test" /\ trial.results[t] = "todo"
          /\ UNCHANGED <<trial.verdict, trial.reward, trial.dir, trial.applied, trial.ok>>
          /\ trial.mishap => trial'.mishap
          /\ \/ trial'.at = "destroy" /\ UNCHANGED <<trial.results, trial.mishap>>
             \/ UNCHANGED trial.at /\ trial'.mishap
             \/ /\ UNCHANGED <<trial.at, trial.mishap>>
                /\ \E how \in Behaves(t) :
                      /\ ~ Raises(how)
                      /\ trial'.results =
                           [trial.results EXCEPT ![t] = IF how = "passes" THEN "passed" ELSE "failed"]
      <3>1. CASE Fails
        BY <1>2, <1>7, <3>1 DEF RunInDir, Fails, TrialType
      <3>2. CASE trial' = [trial EXCEPT !.results[t] = "failed", !.mishap = TRUE]
        BY <1>2, <1>7, <3>2 DEF RunInDir, TrialType
      <3>3. ASSUME NEW how \in Behaves(t), ~ Raises(how),
                   trial' = [trial EXCEPT !.results[t] =
                               IF how = "passes" THEN "passed" ELSE "failed"]
            PROVE  /\ UNCHANGED <<trial.verdict, trial.reward, trial.dir, trial.applied,
                                  trial.ok, trial.at, trial.mishap>>
                   /\ trial'.results =
                        [trial.results EXCEPT ![t] = IF how = "passes" THEN "passed" ELSE "failed"]
        BY <1>2, <3>3 DEF TrialType
      <3>. QED
        BY <1>7, <3>1, <3>2, <3>3 DEF RunInDir
    <2>3. TreeOK'
      BY <1>1, <2>2 DEF TrialInv, TreeOK, Judgement
    <2>4. RerunsOK'
      <3>0. CASE UNCHANGED trial.at /\ trial'.mishap
        BY <2>2, <3>0 DEF RerunsOK, SameTree
      <3>1. UNCHANGED trial.mishap => SameTree' = SameTree
        BY <1>1, <2>2 DEF SameTree
      <3>2. CASE UNCHANGED trial.results /\ UNCHANGED trial.mishap
        BY <1>1, <2>2, <3>1, <3>2 DEF TrialInv, RerunsOK
      <3>3. ASSUME NEW how \in Behaves(t), ~ Raises(how), SameTree, results[t] # "todo"
            PROVE  (IF how = "passes" THEN "passed" ELSE "failed") = results[t]
        BY <1>1, <3>3 DEF Behaves, Raises
      <3>4. CASE trial'.at = "test" /\ UNCHANGED trial.mishap /\ \E how \in Behaves(t) :
                   /\ ~ Raises(how)
                   /\ trial'.results =
                        [trial.results EXCEPT ![t] = IF how = "passes" THEN "passed" ELSE "failed"]
        <4>1. PICK how \in Behaves(t) :
                   /\ ~ Raises(how)
                   /\ trial'.results =
                        [trial.results EXCEPT ![t] = IF how = "passes" THEN "passed" ELSE "failed"]
          BY <3>4
        <4>2. \A u \in TestIds : trial'.results[u] =
                 IF u = t THEN (IF how = "passes" THEN "passed" ELSE "failed") ELSE trial.results[u]
          BY <1>2, <4>1
        <4>3. ASSUME SameTree, NEW u \in TestIds, trial'.results[u] # "todo", results[u] # "todo"
              PROVE  trial'.results[u] = results[u]
          BY <2>2, <3>3, <4>1, <4>2, <4>3 DEF TrialInv, RerunsOK
        <4>. QED
          BY <1>1, <3>1, <3>4, <4>3 DEF RerunsOK
      <3>. QED
        BY <2>2, <3>0, <3>2, <3>4
    <2>5. TrialVerdictOK'
      BY <1>1, <1>2, <2>2 DEF TrialInv, TrialVerdictOK, Judgement
    <2>. QED
      BY <1>3, <2>1, <2>3, <2>4, <2>5
  <1>8. CASE JudgeInDir
    <2>1. (AllPass(task.f2p) /\ AllPass(task.p2p)) <=> AllPass(Tests)
      BY DEF AllPass, Tests
    <2>2. /\ trial.at = "test" /\ trial'.at = "destroy"
          /\ \A t \in Tests : trial.results[t] # "todo"
          /\ UNCHANGED <<trial.results, trial.dir, trial.applied, trial.ok, trial.mishap>>
          /\ trial'.verdict = IF TrialPasses THEN "resolved" ELSE "unresolved"
          /\ trial'.reward = IF TrialPasses THEN 1 ELSE 0
      BY <1>2, <1>8, <2>1 DEF JudgeInDir, TrialType, TrialPasses
    <2>3. TrialType'
      BY <1>2, <1>8 DEF JudgeInDir, TrialType
    <2>4. TreeOK'
      BY <1>1, <2>2 DEF TrialInv, TreeOK, Judgement
    <2>5. RerunsOK'
      BY <1>1, <2>2 DEF TrialInv, RerunsOK, SameTree
    <2>6. TrialPasses' = TrialPasses
      BY <1>1, <2>2 DEF TrialPasses, AllPass
    <2>7. TrialVerdictOK'
      BY <1>1, <1>2, <2>2, <2>6 DEF TrialInv, TrialVerdictOK, Judgement
    <2>. QED
      BY <1>3, <2>3, <2>4, <2>5, <2>7
  <1>9. CASE DestroyDir
    <2>1. TrialType'
      BY <1>2, <1>9 DEF DestroyDir, TrialType
    <2>2. /\ trial.at = "destroy" /\ trial'.at = "done" /\ trial'.dir = "removed"
          /\ UNCHANGED <<trial.results, trial.applied, trial.ok, trial.mishap, trial.verdict,
                         trial.reward>>
      BY <1>2, <1>9 DEF DestroyDir, TrialType
    <2>3. TreeOK'
      BY <1>1, <2>2 DEF TrialInv, TreeOK, Judgement
    <2>4. RerunsOK'
      BY <1>1, <2>2 DEF TrialInv, RerunsOK, SameTree
    <2>5. TrialPasses' = TrialPasses
      BY <1>1, <2>2 DEF TrialPasses, AllPass
    <2>6. TrialVerdictOK'
      BY <1>1, <1>2, <2>2, <2>5 DEF TrialInv, TrialVerdictOK, Judgement
    <2>. QED
      BY <1>3, <2>1, <2>3, <2>4, <2>6
  <1>. QED
    BY <1>4, <1>5, <1>6, <1>7, <1>8, <1>9 DEF Trial

LEMMA BothInvariance == BothSpec => [](VInv /\ JudgedOK /\ TrialInv)
  <1>1. BothInit => VInv /\ JudgedOK /\ TrialInv
    <2>. SUFFICES ASSUME Init, TrialInit
                  PROVE  JudgedOK /\ TrialInv
      BY InitOK DEF BothInit
    <2>1. JudgedOK
      BY DEF Init, JudgedOK, Judgement
    <2>2. TrialInv
      BY DEF TrialInit, TrialInv, TrialType, TreeOK, RerunsOK, TrialVerdictOK, Judgement, ChildTests
    <2>. QED
      BY <2>1, <2>2
  <1>2. VInv /\ JudgedOK /\ TrialInv /\ [BothNext]_<<vars, trial>>
          => (VInv /\ JudgedOK /\ TrialInv)'
    <2>. SUFFICES ASSUME VInv, JudgedOK, TrialInv, [BothNext]_<<vars, trial>>
                  PROVE  VInv' /\ JudgedOK' /\ TrialInv'
      OBVIOUS
    <2>1. [Next]_vars
      BY Turns DEF Next
    <2>2. VInv' /\ JudgedOK'
      BY <2>1, TypeStep, WorkspaceStep, WitnessStep, JudgementStep, JudgedStep DEF VInv
    <2>3. CASE Verify /\ UNCHANGED trial /\ trial.at = "create" /\ pc # "done"
      <3>1. UNCHANGED <<patch, fits>>
        BY <2>3 DEF Verify, MakeExecutor, SeedHidden, SetUp, CheckIntegrity, ApplyPatch, Build,
           RunTest, Judge, Reward, Close, held, inputs
      <3>. QED
        BY <2>2, <2>3, <3>1 DEF TrialInv, TrialType, TreeOK, RerunsOK, TrialVerdictOK, Judgement, ChildTests
    <2>4. CASE Trial /\ UNCHANGED vars /\ pc = "done"
      BY <2>2, <2>4, TrialStep
    <2>5. CASE UNCHANGED <<vars, trial>>
      BY <2>2, <2>5 DEF vars, TrialInv, TrialType, TreeOK, RerunsOK, TrialVerdictOK, Judgement, ChildTests,
         SameTree, TrialPasses, AllPass, Tests
    <2>. QED
      BY <2>2, <2>3, <2>4, <2>5, Turns
  <1>. QED
    BY <1>1, <1>2, PTL DEF BothSpec

(* Where verify_clean and the verifier on the training side both judge a    *)
(* patch that verify_clean lets through, on a task without hidden tests,    *)
(* and neither had a command cut or a failing git init, they give the same  *)
(* verdict and the same reward; a reward of the latter is earned; and its   *)
(* directory goes with the run.                                             *)
THEOREM VerifiersGiveTheSame == BothSpec => []VerifiersAgree
  <1>1. VInv /\ JudgedOK /\ TrialInv => VerifiersAgree
    <2>. SUFFICES ASSUME VInv, JudgedOK, TrialInv, pc = "done", At("done")
                  PROVE  VerifiersAgree
      BY DEF VerifiersAgree
    <2>1. ASSUME Judgement(verdict), Judgement(trial.verdict), patch \in Passing,
                 ~ task.secret, ~ mishap, ~ trial.mishap
          PROVE  verdict = trial.verdict /\ reward = trial.reward
      <3>1. SameTree /\ trial.ok = integrity
        BY <2>1 DEF VInv, TypeOK, JudgedOK, TrialInv, TrialType, TreeOK, SameTree, Judgement
      <3>2. \A t \in Tests : ChildTests[t] = results[t]
        BY <2>1, <3>1, TaskShape
           DEF VInv, TypeOK, JudgedOK, TrialInv, RerunsOK, TrialVerdictOK, At
      <3>3. TrialPasses <=> TestsPass
        BY <3>1, <3>2 DEF TrialPasses, TestsPass, AllPass
      <3>4. /\ verdict = "resolved" <=> TestsPass
            /\ reward = BinaryReward
        BY <2>1 DEF VInv, VerdictOK, RewardOK, JudgedOK, Judgement
      <3>. QED
        BY <2>1, <3>3, <3>4 DEF TrialInv, TrialVerdictOK, Judgement, BinaryReward, IsResolved
    <2>2. trial.reward = 1 => trial.applied = (patch # "empty") /\ AllPass(Tests)
      BY DEF TrialInv, TrialType, TreeOK, TrialVerdictOK, TrialPasses, Judgement
    <2>3. trial.dir = "there" => trial.verdict = "error"
      BY DEF TrialInv, TrialVerdictOK, At
    <2>. QED
      BY <2>1, <2>2, <2>3 DEF VerifiersAgree, Judgement, Passing
  <1>. QED
    BY <1>1, BothInvariance, PTL
=============================================================================
