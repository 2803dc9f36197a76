----------------------------- MODULE AgentLoop -----------------------------
(***************************************************************************)
(* AgentLoop.run (agent/loop.py): one rollout, from backend.create to the  *)
(* validated trajectory, against a policy and a backend that may return or *)
(* raise at every call, and an interrupt (KeyboardInterrupt, SystemExit)   *)
(* that no `except Exception` catches.                                     *)
(*                                                                         *)
(* A definition Mut<Name> is <Name> with a plausible bug.  Nothing uses it: *)
(* it is put in place of <Name> to see that a property catches the bug.    *)
(***************************************************************************)
EXTENDS TrajectoryFormat

CONSTANTS
    MaxSteps,   \* max_steps
    Faults      \* which calls may fail

FaultKinds == {"create", "decide", "execute", "export", "destroy", "interrupt"}

\* The id of a call is its step; none is the one that stands for no call.
ASSUME ConstantsOK ==
    MaxSteps \in Nat /\ Faults \subseteq FaultKinds /\ NoCall \notin Nat \ {0}

VARIABLES
    pc,           \* the statement of run about to be executed
    step,         \* iterations of the for loop begun
    chosen,       \* the action of the decision in hand
    messages,     \* run's local variables of these names ...
    turns,
    termination,
    patch,
    interrupted,  \* an exception is on its way through the finally block
    outcome,      \* "none", then "returned" or what run raised; an interrupt is
                  \* "cut" if the finally block did not run to its end
    env,          \* the backend's side of the environment
    calls         \* history: the backend calls made, in order

vars == <<pc, step, chosen, messages, turns, termination, patch, interrupted,
          outcome, env, calls>>

Reasons == {"agent_finished", "max_steps_exceeded", "agent_error",
            "environment_error", "interrupted"}

MutStepsLeft == step <= MaxSteps
StepsLeft == step < MaxSteps

Calling(name) == calls' = Append(calls, name)

-----------------------------------------------------------------------------
\* `env = self.backend.create(task)`, outside the try.
Create ==
    /\ pc = "create"
    /\ Calling("create")
    /\ \/ /\ env' = "live" /\ pc' = "loop"
          /\ UNCHANGED outcome
       \/ /\ "create" \in Faults
          /\ outcome' = "create_raised" /\ pc' = "done"
          /\ UNCHANGED env
    /\ UNCHANGED <<step, chosen, messages, turns, termination, patch, interrupted>>

Stop(reason) == termination' = reason /\ pc' = "export"

\* The for loop is exhausted: its else branch.
Exhausted ==
    /\ pc = "loop" /\ step = MaxSteps
    /\ Stop("max_steps_exceeded")
    /\ UNCHANGED <<step, chosen, messages, turns, patch, interrupted, outcome, env, calls>>

\* policy.decide returns an action; the assistant message is appended.
Decide(action) ==
    /\ pc = "loop" /\ StepsLeft
    /\ step' = step + 1
    /\ chosen' = action
    /\ messages' = Append(messages, Assistant(step + 1, action = "finish"))
    /\ pc' = "execute"
    /\ UNCHANGED <<turns, termination, patch, interrupted, outcome, env, calls>>

\* policy.decide raises, or returns None.
DecideFails ==
    /\ "decide" \in Faults
    /\ pc = "loop" /\ StepsLeft
    /\ step' = step + 1
    /\ Stop("agent_error")
    /\ UNCHANGED <<chosen, messages, turns, patch, interrupted, outcome, env, calls>>

Record(observed) ==
    turns' = Append(turns, Turn(Last(messages), chosen = "finish", observed))

\* backend.execute returns an observation.
MutExecuteTool ==
    /\ pc = "execute" /\ chosen # "finish"
    /\ Calling("execute")
    /\ Record(TRUE)
    /\ pc' = "loop"
    /\ UNCHANGED <<step, chosen, messages, termination, patch, interrupted, outcome, env>>
ExecuteTool ==
    /\ pc = "execute" /\ chosen # "finish"
    /\ Calling("execute")
    /\ Record(TRUE)
    /\ messages' = Append(messages, Tool(Last(messages).id))
    /\ pc' = "loop"
    /\ UNCHANGED <<step, chosen, termination, patch, interrupted, outcome, env>>

ExecuteFinish ==
    /\ pc = "execute" /\ chosen = "finish"
    /\ Calling("execute")
    /\ Record(FALSE)
    /\ Stop("agent_finished")
    /\ UNCHANGED <<step, chosen, messages, patch, interrupted, outcome, env>>

\* backend.execute raises, whatever the action: the turn is kept without an
\* observation.
MutExecuteFails ==
    /\ "execute" \in Faults
    /\ pc = "execute"
    /\ Calling("execute")
    /\ Record(FALSE)
    /\ pc' = "loop"
    /\ UNCHANGED <<step, chosen, messages, termination, patch, interrupted, outcome, env>>
ExecuteFails ==
    /\ "execute" \in Faults
    /\ pc = "execute"
    /\ Calling("execute")
    /\ Record(FALSE)
    /\ Stop("environment_error")
    /\ UNCHANGED <<step, chosen, messages, patch, interrupted, outcome, env>>

\* An exception that is no Exception leaves the try block, perhaps from inside
\* the call of execute.
Striking ==
    /\ "interrupt" \in Faults
    /\ \/ pc \in {"loop", "execute"} /\ UNCHANGED calls
       \/ pc = "execute" /\ Calling("execute")
MutInterrupt ==
    /\ Striking
    /\ pc' = "done" /\ outcome' = "interrupted"
    /\ UNCHANGED <<step, chosen, messages, turns, termination, patch, interrupted, env>>
Interrupt ==
    /\ Striking
    /\ interrupted' = TRUE
    /\ pc' = "export"
    /\ UNCHANGED <<step, chosen, messages, turns, termination, patch, outcome, env>>

\* Outside the try block an interrupt leaves run at once: in create or between
\* it and the try, and in the finally block, where only an Exception of
\* export_patch and destroy is caught; before, inside or after the call.
CutShort ==
    /\ "interrupt" \in Faults
    /\ \/ pc = "create" /\ Calling("create") /\ env' \in {"none", "live"}
       \/ pc \in {"export", "destroy"} /\ UNCHANGED <<calls, env>>
       \/ pc = "export" /\ Calling("export") /\ UNCHANGED env
       \/ pc = "destroy" /\ Calling("destroy") /\ env' \in {env, "gone"}
    /\ pc' = "done" /\ outcome' = "cut"
    /\ UNCHANGED <<step, chosen, messages, turns, termination, patch, interrupted>>

\* After the finally block.
CutLate ==
    /\ "interrupt" \in Faults
    /\ pc = "validate"
    /\ pc' = "done" /\ outcome' = "interrupted"
    /\ UNCHANGED <<step, chosen, messages, turns, termination, patch, interrupted, env, calls>>

\* finally: the patch is exported first, and its failure swallowed.
ExportPatch ==
    /\ pc = "export"
    /\ Calling("export")
    /\ \/ patch' = "diff"
       \/ "export" \in Faults /\ patch' = "None"
    /\ pc' = "destroy"
    /\ UNCHANGED <<step, chosen, messages, turns, termination, interrupted, outcome, env>>

\* finally: then the environment is destroyed, and a failure swallowed.
Destroy ==
    /\ pc = "destroy"
    /\ Calling("destroy")
    /\ \/ env' = "gone"
       \/ "destroy" \in Faults /\ UNCHANGED env
    /\ IF interrupted
         THEN pc' = "done" /\ outcome' = "interrupted"
         ELSE pc' = "validate" /\ UNCHANGED outcome
    /\ UNCHANGED <<step, chosen, messages, turns, termination, patch, interrupted>>

\* validate_trajectory(trajectory), then return or RuntimeError.
Validate ==
    /\ pc = "validate"
    /\ outcome' = IF Valid(messages, turns, termination) THEN "returned" ELSE "invalid"
    /\ pc' = "done"
    /\ UNCHANGED <<step, chosen, messages, turns, termination, patch, interrupted, env, calls>>

-----------------------------------------------------------------------------
Init ==
    /\ pc = "create"
    /\ step = 0 /\ chosen = "none"
    /\ messages = <<System, User>> /\ turns = << >>
    /\ termination = "interrupted" /\ patch = "None"
    /\ interrupted = FALSE /\ outcome = "none"
    /\ env = "none" /\ calls = << >>

Run ==
    \/ Create \/ Exhausted \/ DecideFails
    \/ \E action \in {"tool", "finish"} : Decide(action)
    \/ ExecuteTool \/ ExecuteFinish \/ ExecuteFails
    \/ ExportPatch \/ Destroy \/ Validate

Done == pc = "done" /\ UNCHANGED vars

Next == Run \/ Interrupt \/ CutShort \/ CutLate \/ Done

Spec == Init /\ [][Next]_vars

-----------------------------------------------------------------------------
TypeOK ==
    /\ pc \in {"create", "loop", "execute", "export", "destroy", "validate", "done"}
    /\ step \in 0 .. MaxSteps
    /\ chosen \in {"none", "tool", "finish"}
    /\ Len(messages) <= 2 + 2 * MaxSteps /\ Len(turns) <= step
    /\ termination \in Reasons
    /\ patch \in {"None", "diff"}
    /\ interrupted \in BOOLEAN
    /\ outcome \in {"none", "returned", "invalid", "create_raised", "interrupted", "cut"}
    /\ env \in {"none", "live", "gone"}
    /\ Len(calls) <= MaxSteps + 3

(* By whatever exit run ends, nothing is called on the environment after    *)
(* export_patch but one destroy, and no destroy comes without the export;   *)
(* and every exit with an environment has destroyed it, but for an          *)
(* interrupt that strikes before the try block or inside the finally block. *)
LifecycleClosed ==
    /\ \A i \in DOMAIN calls :
         /\ calls[i] = "export" => \A j \in DOMAIN calls :
              j > i => j = i + 1 /\ calls[j] = "destroy"
         /\ calls[i] = "destroy" => i > 1 /\ calls[i - 1] = "export"
    /\ pc = "done" /\ env # "none" /\ outcome # "cut" =>
         calls # << >> /\ Last(calls) = "destroy"

(* "backend is created and destroyed inside run (the life cycle does not    *)
(* leak)" (loop.py:56), of a rollout that has taken a step.                 *)
LifecycleNeverLeaks == pc = "done" /\ step > 0 => Last(calls) = "destroy"

(* "fix the loop, not the validator" (loop.py:158): every trajectory run    *)
(* builds passes validate_trajectory, and run raises only when create did   *)
(* or on an interrupt.                                                      *)
NeverInvalid == outcome # "invalid"

(* What the code delivers: the one rollout whose trajectory the validator   *)
(* refuses is that of a finish whose execute raised.                        *)
InvalidOnlyAfterFailedFinish ==
    outcome = "invalid" <=>
        /\ pc = "done" /\ outcome \notin {"create_raised", "interrupted", "cut"}
        /\ termination = "environment_error" /\ chosen = "finish"

(* A returned trajectory tells how the rollout went: finished means every   *)
(* step before was observed and the last is finish, exceeded means all      *)
(* MaxSteps were observed, and `interrupted` is never returned.             *)
ReasonTellsTheStory ==
    outcome = "returned" =>
        /\ termination # "interrupted"
        /\ termination = "agent_finished" =>
             /\ Len(turns) = step /\ Last(turns).finish
             /\ \A i \in 1 .. step - 1 : turns[i].observed
        /\ termination = "max_steps_exceeded" =>
             Len(turns) = MaxSteps /\ \A i \in 1 .. MaxSteps : turns[i].observed
        /\ termination = "agent_error" =>
             Len(turns) = step - 1 /\ \A i \in 1 .. step - 1 : turns[i].observed

=============================================================================
