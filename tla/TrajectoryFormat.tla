-------------------------- MODULE TrajectoryFormat --------------------------
(***************************************************************************)
(* The structural part of protocol/validate.py's validate_trajectory: the  *)
(* order of the messages, the chain of tool_call ids, the agreement of the *)
(* termination reason with the last message, and the agreement of the      *)
(* turns with the messages.  A message keeps its role, the id of the tool  *)
(* call it makes or answers (NoCall without one) and whether that call is  *)
(* `finish`; what it says is left out.                                     *)
(***************************************************************************)
EXTENDS Integers, Sequences, SequencesExt

CONSTANT NoCall

Message(role, id, fin) == [role |-> role, id |-> id, fin |-> fin]
System              == Message("system", NoCall, FALSE)
User                == Message("user", NoCall, FALSE)
Assistant(id, fin)  == Message("assistant", id, fin)
Tool(id)            == Message("tool", id, FALSE)

\* AgentTurn: the assistant message, whether its action is finish, and
\* whether there is an observation.
Turn(m, fin, obs) == [message |-> m, finish |-> fin, observed |-> obs]

-----------------------------------------------------------------------------
\* Section 1: system, one user, then assistants and tools.
OrderOK(msgs) ==
    /\ msgs # << >> /\ msgs[1].role = "system"
    /\ \A i \in DOMAIN msgs :
         /\ msgs[i].role = "system" => i = 1
         /\ msgs[i].role = "user" => i = 2
         /\ msgs[i].role = "assistant" => i > 1 /\ msgs[i - 1].role # "assistant"
         /\ msgs[i].role = "tool" => i > 1 /\ msgs[i - 1].role = "assistant"
    /\ \E i \in DOMAIN msgs : msgs[i].role = "user"

\* Section 1: a tool message answers an earlier call that is still open.
ChainOK(msgs) ==
    \A i \in DOMAIN msgs : msgs[i].role = "tool" =>
        \E j \in 1 .. i - 1 :
            /\ msgs[j].role = "assistant" /\ msgs[j].id = msgs[i].id /\ msgs[j].id # NoCall
            /\ \A k \in j + 1 .. i - 1 : ~ (msgs[k].role = "tool" /\ msgs[k].id = msgs[i].id)

\* CanonicalMessage.is_finish of the last message.
LastIsFinish(msgs) == msgs # << >> /\ Last(msgs).role = "assistant" /\ Last(msgs).fin

\* Section 2.
TerminationOK(msgs, reason) == LastIsFinish(msgs) <=> reason = "agent_finished"

\* Section 3: what the turns render to, and the messages they stand for.
Rendered(turn) ==
    IF turn.observed /\ turn.message.id # NoCall
      THEN <<turn.message, Tool(turn.message.id)>> ELSE <<turn.message>>

Rendering(turns) == FlattenSeq([i \in DOMAIN turns |-> Rendered(turns[i])])

Core(msgs) ==
    FlattenSeq([i \in DOMAIN msgs |->
                   IF msgs[i].role \in {"assistant", "tool"} THEN <<msgs[i]>> ELSE << >>])

TurnsOK(msgs, turns) ==
    turns # << >> =>
        /\ \A i \in DOMAIN turns :
             IF turns[i].message.id = NoCall
               THEN i = Len(turns) /\ ~ LastIsFinish(msgs)
               ELSE turns[i].message.fin = turns[i].finish
        /\ Rendering(turns) = Core(msgs)

Valid(msgs, turns, reason) ==
    OrderOK(msgs) /\ ChainOK(msgs) /\ TerminationOK(msgs, reason) /\ TurnsOK(msgs, turns)

=============================================================================
