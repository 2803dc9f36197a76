------------------------ MODULE IdempotentRpcProofs ------------------------
(***************************************************************************)
(* Theorems about IdempotentRpc, for every set of calls, every number of   *)
(* attempts, every cap and every choice of faults: types, what an answer   *)
(* is worth, the promise it implements, and the idempotency table.         *)
(***************************************************************************)
EXTENDS RpcPromise, TLAPS, FiniteSetTheorems, SequenceTheorems

LEMMA HandlerPair ==
    ASSUME NEW h \in Handlers
    PROVE  h[1] \in Calls /\ h[2] \in Attempts /\ h = <<h[1], h[2]>>
  BY DEF Handlers

\* Removing one position of a sequence gives a sequence of the same elements.
LEMMA RemovalType ==
    ASSUME NEW S, NEW s \in Seq(S), NEW i \in 1 .. Len(s)
    PROVE  SubSeq(s, 1, i - 1) \o SubSeq(s, i + 1, Len(s)) \in Seq(S)
  <1>1. SubSeq(s, 1, i - 1) \in Seq(S)
    OBVIOUS
  <1>2. SubSeq(s, i + 1, Len(s)) \in Seq(S)
    OBVIOUS
  <1>. QED
    BY <1>1, <1>2

\* An idle call has sent nothing, a waiting one has sent something: without
\* this the attempt counter is not seen to stay within MaxAttempts.
PhaseOK ==
    \A c \in Calls :
        /\ call[c] = "idle" => attempt[c] = 0
        /\ call[c] = "waiting" => attempt[c] > 0

TypeInv == TypeOK /\ PhaseOK

LEMMA CurrentHandler ==
    ASSUME TypeInv, NEW c \in Calls, call[c] = "waiting"
    PROVE  /\ Current(c) \in Handlers
           /\ Current(c)[1] = c
           /\ reply[Current(c)].by \in 0 .. MaxAttempts
  <1>1. Current(c) \in Handlers
    BY DEF TypeInv, TypeOK, PhaseOK, Current, Handlers, Attempts
  <1>2. reply[Current(c)] \in Replies
    BY <1>1 DEF TypeInv, TypeOK
  <1>. QED
    BY <1>1, <1>2 DEF Replies, Current

\* The three ways a step moves a handler or records a cause keep the types.
LEMMA GoToType ==
    ASSUME TypeOK, NEW h \in Handlers, NEW place \in Places, GoTo(h, place)
    PROVE  pc' \in [Handlers -> Places]
  BY DEF TypeOK, GoTo

LEMMA AnswerType ==
    ASSUME TypeOK, NEW h \in Handlers, NEW r \in Replies, Answer(h, r)
    PROVE  pc' \in [Handlers -> Places] /\ reply' \in [Handlers -> Replies]
  BY DEF TypeOK, Answer, GoTo, Places

LEMMA BlameType ==
    ASSUME TypeOK, NEW c \in Calls, NEW why \in Causes, Blame(c, why)
    PROVE  cause' \in [Calls -> SUBSET Causes]
  BY DEF TypeOK, Blame

LEMMA ReplyValues ==
    /\ \A s \in {"none", "4xx", "5xx"} : Error(s) \in Replies
    /\ \A n \in 0 .. MaxAttempts : Ok(n) \in Replies
  BY ConstantsOK DEF Error, Ok, Replies

\* Every step keeps every variable in its type and PhaseOK true.
LEMMA TypeInvariance == Spec => []TypeInv
  <1>. USE ConstantsOK DEF TypeInv, TypeOK, PhaseOK, Attempts
  <1>1. Init => TypeInv
    BY DEF Init, Places, Unsent, Replies, Error
  <1>2. TypeInv /\ [Next]_vars => TypeInv'
    <2>. SUFFICES ASSUME TypeInv, [Next]_vars
                  PROVE  TypeInv'
      OBVIOUS
    <2>1. ASSUME NEW c \in Calls, Send(c)
          PROVE  TypeInv'
      BY <2>1 DEF Send, MaySend, RetriesLeft, GoTo, Places, Handlers
    <2>2. ASSUME NEW c \in Calls, Receive(c)
          PROVE  TypeInv'
      <3>1. answer' \in [Calls -> 0 .. MaxAttempts]
        BY <2>2, CurrentHandler DEF Receive
      <3>2. call' \in [Calls -> {"idle", "waiting", "backoff", "ok", "failed"}]
        BY <2>2 DEF Receive, RetryOrFail
      <3>3. pc' \in [Handlers -> Places]
        BY <2>2 DEF Receive, GoTo, Places, Over
      <3>4. PhaseOK'
        BY <2>2 DEF Receive, RetryOrFail
      <3>. QED
        BY <2>2, <3>1, <3>2, <3>3, <3>4 DEF Receive
    <2>3. ASSUME NEW c \in Calls, TransportError(c) \/ GiveUpWaiting(c)
          PROVE  TypeInv'
      <3>1. /\ call' \in [Calls -> {"idle", "waiting", "backoff", "ok", "failed"}]
            /\ PhaseOK'
        BY <2>3 DEF TransportError, GiveUpWaiting, RetryOrFail
      <3>2. cause' \in [Calls -> SUBSET Causes]
        BY <2>3, BlameType DEF TransportError, GiveUpWaiting, Causes
      <3>. QED
        BY <2>3, <3>1, <3>2 DEF TransportError, GiveUpWaiting
    <2>4. ASSUME NEW h \in Handlers, Lookup(h)
          PROVE  TypeInv'
      BY <2>4 DEF Lookup, GoTo, Places, Serving, clientVars, tableVars
    <2>5. ASSUME NEW h \in Handlers, Touch(h)
          PROVE  TypeInv'
      <3>1. ASSUME NEW i \in 1 .. Len(order),
                   order' = SubSeq(order, 1, i - 1) \o SubSeq(order, i + 1, Len(order))
                              \o <<h[1]>>
            PROVE  order' \in Seq(Calls)
        <4>1. SubSeq(order, 1, i - 1) \o SubSeq(order, i + 1, Len(order)) \in Seq(Calls)
          BY RemovalType
        <4>2. <<h[1]>> \in Seq(Calls)
          BY HandlerPair
        <4>. QED
          BY SMTT(30), <3>1, <4>1, <4>2
      <3>2. order' \in Seq(Calls)
        BY <2>5, <3>1 DEF Touch
      <3>3. pc' \in [Handlers -> Places] /\ reply' \in [Handlers -> Replies]
        <4>1. CASE GoTo(h, "read") /\ UNCHANGED reply
          BY <4>1, GoToType DEF Places, Serving
        <4>2. CASE Answer(h, Error("5xx"))
          BY <4>2, AnswerType, ReplyValues
        <4>. QED
          BY <2>5, <4>1, <4>2 DEF Touch
      <3>. QED
        BY <2>5, <3>2, <3>3 DEF Touch, clientVars
    <2>6. ASSUME NEW h \in Handlers, ReadEntry(h)
          PROVE  TypeInv'
      <3>1. saved[h[1]] \in 0 .. MaxAttempts
        BY HandlerPair
      <3>2. pc' \in [Handlers -> Places] /\ reply' \in [Handlers -> Replies]
        BY <2>6, <3>1, AnswerType, ReplyValues DEF ReadEntry
      <3>. QED
        BY <2>6, <3>2 DEF ReadEntry, clientVars, tableVars
    <2>7. ASSUME NEW h \in Handlers, Apply(h)
          PROVE  TypeInv'
      BY <2>7 DEF Apply, GoTo, Places, Serving, clientVars, tableVars
    <2>8. ASSUME NEW h \in Handlers, Reject(h) \/ Raise(h)
          PROVE  TypeInv'
      <3>1. pc' \in [Handlers -> Places] /\ reply' \in [Handlers -> Replies]
        BY <2>8, AnswerType, ReplyValues DEF Reject, Raise
      <3>2. cause' \in [Calls -> SUBSET Causes]
        BY <2>8, BlameType, HandlerPair DEF Reject, Raise, Causes
      <3>. QED
        BY <2>8, <3>1, <3>2 DEF Reject, Raise, clientVars, tableVars
    <2>9. ASSUME NEW h \in Handlers, ReturnOk(h)
          PROVE  TypeInv'
      <3>1. reply' \in [Handlers -> Replies]
        BY <2>9, ReplyValues, HandlerPair DEF ReturnOk
      <3>2. pc' \in [Handlers -> Places]
        BY <2>9, GoToType DEF ReturnOk, Places, Serving
      <3>. QED
        BY <2>9, <3>1, <3>2 DEF ReturnOk, clientVars, tableVars
    <2>10. ASSUME NEW h \in Handlers, Store(h)
           PROVE  TypeInv'
      <3>1. saved' \in [Calls -> 0 .. MaxAttempts] /\ order' \in Seq(Calls)
        BY <2>10, HandlerPair DEF Store
      <3>2. pc' \in [Handlers -> Places]
        BY <2>10, GoToType DEF Store, Places, Serving
      <3>. QED
        BY <2>10, <3>1, <3>2 DEF Store, clientVars
    <2>11. ASSUME NEW h \in Handlers, CheckCap(h) \/ CountHalf(h)
           PROVE  TypeInv'
      <3>1. Len(order) \div 2 \in Nat
        OBVIOUS
      <3>. QED
        BY <2>11, <3>1 DEF CheckCap, CountHalf, GoTo, Places, Serving, clientVars, tableVars
    <2>12. ASSUME NEW h \in Handlers, PopItem(h)
           PROVE  TypeInv'
      <3>1. CASE pops[h] > 0 /\ order # << >>
        <4>1. order[1] \in Calls /\ 1 \in 1 .. Len(order)
          BY <3>1
        <4>2. order' \in Seq(Calls)
          <5>1. order' = SubSeq(order, 1, 1 - 1) \o SubSeq(order, 1 + 1, Len(order))
            BY <2>12, <3>1 DEF PopItem, Oldest
          <5>. HIDE DEF TypeInv, TypeOK
          <5>2. order \in Seq(Calls)
            BY DEF TypeInv, TypeOK
          <5>. QED
            BY <4>1, <5>1, <5>2, RemovalType
        <4>3. cause' \in [Calls -> SUBSET Causes]
          BY <2>12, <3>1, <4>1, BlameType DEF PopItem, Causes, Oldest
        <4>4. /\ pops' = [pops EXCEPT ![h] = @ - 1]
              /\ saved' = [saved EXCEPT ![order[1]] = 0]
              /\ UNCHANGED <<call, attempt, answer, pc, reply, effects>>
          BY SMTT(30), <2>12, <3>1 DEF PopItem, Oldest, clientVars
        <4>5. pops' \in [Handlers -> Nat] /\ saved' \in [Calls -> 0 .. MaxAttempts]
          BY <3>1, <4>1, <4>4
        <4>. QED
          BY <4>2, <4>3, <4>4, <4>5
      <3>2. CASE ~ (pops[h] > 0 /\ order # << >>)
        <4>1. pc' \in [Handlers -> Places] /\ reply' \in [Handlers -> Replies]
          BY <2>12, <3>2, GoToType, AnswerType, ReplyValues DEF PopItem, Places
        <4>2. pops' \in [Handlers -> Nat]
          <5>1. pops' = pops \/ pops' = [pops EXCEPT ![h] = 0]
            BY <2>12, <3>2 DEF PopItem
          <5>2. pops \in [Handlers -> Nat]
            OBVIOUS
          <5>. HIDE DEF TypeInv, TypeOK
          <5>. QED
            BY <5>1, <5>2
        <4>. QED
          BY <2>12, <3>2, <4>1, <4>2 DEF PopItem, clientVars, tableVars
      <3>. QED
        BY <3>1, <3>2
    <2>13. ASSUME NEW h \in Handlers, Lose(h)
           PROVE  TypeInv'
      BY <2>13 DEF Lose, GoTo, Places, Over, clientVars, tableVars
    <2>14. CASE Restart
      BY <2>14 DEF Restart, Places, Over, Causes, clientVars
    <2>15. CASE UNCHANGED vars
      BY <2>15 DEF vars
    <2>. QED
      BY <2>1, <2>2, <2>3, <2>4, <2>5, <2>6, <2>7, <2>8, <2>9, <2>10, <2>11,
         <2>12, <2>13, <2>14, <2>15 DEF Next, Client, Handler, Finished
  <1>. QED
    BY <1>1, <1>2, PTL DEF Spec

(* TypeOK is an invariant: in particular no call makes more than            *)
(* MaxAttempts attempts and every key of the table is a call.               *)
THEOREM TypeCorrect == Spec => []TypeOK
  <1>1. TypeInv => TypeOK
    BY DEF TypeInv
  <1>. QED
    BY <1>1, TypeInvariance, PTL

-----------------------------------------------------------------------------
(* The client's discipline: attempts are sent in order, and a client that   *)
(* never gave up early has at most one attempt alive, the current one.      *)
Disciplined(c, n) ==
    /\ n > attempt[c] => pc[<<c, n>>] = "unsent"
    /\ /\ "overlap" \notin cause[c]
       /\ n < attempt[c] \/ (n = attempt[c] /\ call[c] # "waiting")
       => pc[<<c, n>>] \in Over

Discipline == \A c \in Calls, n \in Attempts : Disciplined(c, n)

\* What every step of a handler, or the loss of its message, has in common.
LEMMA HandlerStep ==
    ASSUME TypeInv, NEW h \in Handlers, Handler(h) \/ Lose(h)
    PROVE  /\ UNCHANGED <<call, attempt, answer>>
           /\ pc[h] \notin Unsent \cup Over
           /\ \E p \in Places : pc' = [pc EXCEPT ![h] = p]
           /\ \A c \in Calls : cause[c] \subseteq cause'[c]
  <1>1. UNCHANGED <<call, attempt, answer>>
    BY DEF Handler, Lookup, Touch, ReadEntry, Apply, Reject, Raise, ReturnOk, Store,
           CheckCap, CountHalf, PopItem, Lose, clientVars
  <1>2. pc[h] \notin Unsent \cup Over
    BY DEF Handler, Lookup, Touch, ReadEntry, Apply, Reject, Raise, ReturnOk, Store,
           CheckCap, CountHalf, PopItem, Lose, Unsent, Over
  <1>3. \E p \in Places : pc' = [pc EXCEPT ![h] = p]
    <2>1. CASE Lookup(h) \/ Touch(h) \/ ReadEntry(h)
      BY <2>1 DEF Lookup, Touch, ReadEntry, Answer, GoTo, Places, Serving
    <2>2. CASE Apply(h) \/ Reject(h) \/ Raise(h) \/ ReturnOk(h)
      BY <2>2 DEF Apply, Reject, Raise, ReturnOk, Answer, GoTo, Places, Serving
    <2>3. CASE Store(h) \/ CheckCap(h) \/ CountHalf(h) \/ Lose(h)
      BY <2>3 DEF Store, CheckCap, CountHalf, Lose, GoTo, Places, Serving, Over
    <2>4. CASE PopItem(h)
      <3>1. CASE UNCHANGED pc
        <4>1. pc' = [pc EXCEPT ![h] = pc[h]] /\ pc[h] \in Places
          BY <3>1 DEF TypeInv, TypeOK
        <4>. QED
          BY <4>1
      <3>2. CASE GoTo(h, "reply")
        BY <3>2 DEF GoTo, Places
      <3>. QED
        BY <2>4, <3>1, <3>2 DEF PopItem, Answer
    <2>. QED
      BY <2>1, <2>2, <2>3, <2>4 DEF Handler
  <1>4. \A c \in Calls : cause[c] \subseteq cause'[c]
    <2>1. CASE UNCHANGED cause
      BY <2>1
    <2>2. CASE \E d, why : Blame(d, why)
      BY <2>2 DEF Blame, TypeInv, TypeOK
    <2>. QED
      BY <2>1, <2>2 DEF Handler, Lookup, Touch, ReadEntry, Apply, Reject, Raise,
         ReturnOk, Store, CheckCap, CountHalf, PopItem, Lose
  <1>. QED
    BY <1>1, <1>2, <1>3, <1>4

LEMMA Numbers ==
    ASSUME TypeInv
    PROVE  Attempts \subseteq Nat /\ attempt \in [Calls -> Nat]
  BY ConstantsOK DEF TypeInv, TypeOK, Attempts

\* A call has an attempt left when it sends one.
LEMMA NextAttempt ==
    ASSUME TypeInv, NEW c \in Calls, MaySend(c)
    PROVE  attempt[c] + 1 \in Attempts
  <1>1. attempt[c] \in Nat /\ MaxAttempts \in Nat \ {0}
    BY ConstantsOK, Numbers
  <1>2. CASE call[c] = "idle"
    <2>1. attempt[c] = 0
      BY <1>2 DEF TypeInv, PhaseOK
    <2>. QED
      BY <1>1, <2>1 DEF Attempts
  <1>3. CASE RetriesLeft(c)
    <2>1. attempt[c] < MaxAttempts
      BY <1>3 DEF RetriesLeft
    <2>. QED
      BY <1>1, <2>1 DEF Attempts
  <1>. QED
    BY <1>2, <1>3, Zenon DEF MaySend

LEMMA DisciplineStep ==
    ASSUME TypeInv, Discipline, [Next]_vars
    PROVE  Discipline'
  <1>. USE DEF Discipline, Disciplined, Attempts
  <1>1. ASSUME NEW c \in Calls, Send(c)
        PROVE  Discipline'
    <2>1. attempt[c] + 1 \in Attempts
      BY <1>1, NextAttempt, Zenon DEF Send
    <2>2. <<c, attempt[c] + 1>> \in Handlers /\ attempt[c] \in 0 .. MaxAttempts
      BY <2>1 DEF Handlers, TypeInv, TypeOK
    <2>3. \A d \in Calls, n \in Attempts :
             pc'[<<d, n>>] = IF <<d, n>> = <<c, attempt[c] + 1>> THEN "sent" ELSE pc[<<d, n>>]
      BY <1>1, <2>2 DEF Send, GoTo, TypeInv, TypeOK, Handlers
    <2>4. /\ attempt' = [attempt EXCEPT ![c] = @ + 1]
          /\ call' = [call EXCEPT ![c] = "waiting"]
          /\ call[c] # "waiting"
          /\ UNCHANGED cause
      BY <1>1 DEF Send, MaySend
    <2>5. /\ call \in [Calls -> {"idle", "waiting", "backoff", "ok", "failed"}]
          /\ attempt \in [Calls -> 0 .. MaxAttempts]
      BY DEF TypeInv, TypeOK
    <2>. HIDE DEF Attempts
    <2>6. ASSUME NEW n \in Attempts
          PROVE  /\ n > attempt'[c] => pc'[<<c, n>>] = "unsent"
                 /\ "overlap" \notin cause[c] /\ n < attempt'[c] => pc'[<<c, n>>] \in Over
      BY <2>2, <2>3, <2>4, <2>5 DEF Attempts
    <2>7. ASSUME NEW d \in Calls, d # c, NEW n \in Attempts
          PROVE  pc'[<<d, n>>] = pc[<<d, n>>] /\ call'[d] = call[d] /\ attempt'[d] = attempt[d]
      BY <2>3, <2>4, <2>5, <2>7
    <2>8. ASSUME NEW d \in Calls, NEW n \in Attempts
          PROVE  Disciplined(d, n)'
      <3>1. CASE d = c
        BY <2>4, <2>6, <3>1, <2>5, Numbers
      <3>2. CASE d # c
        BY <2>4, <2>7, <3>2
      <3>. QED
        BY <3>1, <3>2
    <2>. QED
      BY <2>8
  <1>2. ASSUME NEW c \in Calls, Receive(c)
        PROVE  Discipline'
    <2>1. Current(c) \in Handlers /\ call[c] = "waiting" /\ pc' = [pc EXCEPT ![Current(c)] = "done"]
      BY <1>2, CurrentHandler DEF Receive, GoTo
    <2>2. \A d \in Calls, n \in Attempts :
             pc'[<<d, n>>] = IF <<d, n>> = <<c, attempt[c]>> THEN "done" ELSE pc[<<d, n>>]
      BY <2>1 DEF Current, TypeInv, TypeOK, Handlers
    <2>3. \A d \in Calls : d # c => call'[d] = call[d]
      BY <1>2 DEF Receive, RetryOrFail, TypeInv, TypeOK
    <2>4. UNCHANGED <<attempt, cause>> /\ pc[Current(c)] = "reply"
      BY <1>2 DEF Receive
    <2>5. attempt \in [Calls -> Nat]
      BY DEF TypeInv, TypeOK
    <2>6. ASSUME NEW n \in Attempts
          PROVE  /\ n > attempt[c] => pc'[<<c, n>>] = "unsent"
                 /\ "overlap" \notin cause[c] /\ n <= attempt[c] => pc'[<<c, n>>] \in Over
      BY <2>2, <2>4, <2>5 DEF Over
    <2>7. ASSUME NEW d \in Calls, d # c, NEW n \in Attempts
          PROVE  pc'[<<d, n>>] = pc[<<d, n>>] /\ call'[d] = call[d]
      BY <2>2, <2>3, <2>7
    <2>. HIDE DEF Attempts
    <2>8. ASSUME NEW d \in Calls, NEW n \in Attempts
          PROVE  Disciplined(d, n)'
      <3>1. CASE d = c
        BY <2>4, <2>6, <3>1, Numbers
      <3>2. CASE d # c
        BY <2>4, <2>7, <3>2
      <3>. QED
        BY <3>1, <3>2
    <2>. QED
      BY <2>8
  <1>3. ASSUME NEW c \in Calls, TransportError(c)
        PROVE  Discipline'
    BY ZenonT(60), <1>3, CurrentHandler
       DEF TransportError, RetryOrFail, TypeInv, TypeOK, Current, Over
  <1>4. ASSUME NEW c \in Calls, GiveUpWaiting(c)
        PROVE  Discipline'
    BY <1>4 DEF GiveUpWaiting, RetryOrFail, Blame, TypeInv, TypeOK
  <1>5. ASSUME NEW h \in Handlers, Handler(h) \/ Lose(h)
        PROVE  Discipline'
    <2>1. PICK p \in Places : pc' = [pc EXCEPT ![h] = p]
      BY <1>5, HandlerStep
    <2>2. ASSUME NEW c \in Calls, NEW n \in Attempts, h # <<c, n>>
          PROVE  pc'[<<c, n>>] = pc[<<c, n>>]
      BY <2>1, <2>2 DEF TypeInv, TypeOK, Handlers
    <2>3. pc[h] # "unsent" /\ pc[h] \notin Over
      BY <1>5, HandlerStep DEF Unsent
    <2>4. \A c \in Calls : cause[c] \subseteq cause'[c]
      BY <1>5, HandlerStep
    <2>5. UNCHANGED <<call, attempt>>
      BY <1>5, HandlerStep
    <2>. QED
      BY <2>2, <2>3, <2>4, <2>5
  <1>6. CASE Restart
    BY <1>6 DEF Restart, TypeInv, TypeOK, Handlers, clientVars, Serving, Over
  <1>7. CASE UNCHANGED vars
    BY <1>7 DEF vars
  <1>. QED
    BY <1>1, <1>2, <1>3, <1>4, <1>5, <1>6, <1>7 DEF Next, Client, Finished

-----------------------------------------------------------------------------
(* Every result that is about to be stored, is stored, travels or has been  *)
(* returned belongs to an execution of its own call.                        *)
Sound ==
    /\ \A h \in Handlers : pc[h] \in {"applied", "store"} => h \in effects
    /\ \A c \in Calls : saved[c] # 0 => <<c, saved[c]>> \in effects
    /\ \A h \in Handlers : reply[h].status = "ok" => <<h[1], reply[h].by>> \in effects
    /\ AnswerSound

\* The reply of a handler changes only to what Answer or ReturnOk put there.
LEMMA SoundAnswer ==
    ASSUME TypeInv, Sound, NEW h \in Handlers, NEW r \in Replies, Answer(h, r),
           UNCHANGED <<call, answer, effects, saved>>,
           r.status = "ok" => <<h[1], r.by>> \in effects
    PROVE  Sound'
  BY DEF Sound, AnswerSound, Answer, GoTo, TypeInv, TypeOK

LEMMA SoundStep ==
    ASSUME TypeInv, Sound, [Next]_vars
    PROVE  Sound'
  <1>1. ASSUME NEW c \in Calls, Send(c)
        PROVE  Sound'
    BY <1>1 DEF Sound, AnswerSound, Send, MaySend, GoTo, TypeInv, TypeOK
  <1>2. ASSUME NEW c \in Calls, Receive(c)
        PROVE  Sound'
    <2>1. Current(c) \in Handlers /\ Current(c)[1] = c
      BY <1>2, CurrentHandler DEF Receive
    <2>2. AnswerSound'
      BY <1>2, <2>1 DEF Sound, AnswerSound, Receive, RetryOrFail, TypeInv, TypeOK
    <2>3. \A h \in Handlers : pc'[h] \in {"applied", "store"} => pc[h] \in {"applied", "store"}
      BY <1>2, <2>1 DEF Receive, GoTo, TypeInv, TypeOK
    <2>. QED
      BY <1>2, <2>2, <2>3 DEF Sound, Receive
  <1>3. ASSUME NEW c \in Calls, TransportError(c) \/ GiveUpWaiting(c)
        PROVE  Sound'
    BY <1>3 DEF Sound, AnswerSound, TransportError, GiveUpWaiting, RetryOrFail, TypeInv, TypeOK
  <1>4. ASSUME NEW h \in Handlers, Lookup(h) \/ CheckCap(h) \/ CountHalf(h) \/ Lose(h)
        PROVE  Sound'
    BY <1>4 DEF Sound, AnswerSound, Lookup, CheckCap, CountHalf, Lose, GoTo, clientVars,
       tableVars, TypeInv, TypeOK
  <1>5. ASSUME NEW h \in Handlers, Touch(h)
        PROVE  Sound'
    <2>1. CASE GoTo(h, "read") /\ UNCHANGED reply
      BY <1>5, <2>1 DEF Sound, AnswerSound, Touch, GoTo, clientVars, TypeInv, TypeOK
    <2>2. CASE Answer(h, Error("5xx"))
      <3>1. Error("5xx").status # "ok"
        BY DEF Error
      <3>. QED
        BY <1>5, <2>2, <3>1, SoundAnswer, ReplyValues DEF Touch, clientVars
    <2>. QED
      BY <1>5, <2>1, <2>2 DEF Touch
  <1>6. ASSUME NEW h \in Handlers, ReadEntry(h)
        PROVE  Sound'
    <2>1. CASE saved[h[1]] # 0
      <3>1. /\ Ok(saved[h[1]]) \in Replies
            /\ <<h[1], Ok(saved[h[1]]).by>> \in effects
        BY <2>1, ReplyValues, HandlerPair DEF Sound, Ok, TypeInv, TypeOK
      <3>. QED
        BY <1>6, <2>1, <3>1, SoundAnswer DEF ReadEntry, clientVars, tableVars
    <2>2. CASE saved[h[1]] = 0
      <3>1. Error("5xx").status # "ok"
        BY DEF Error
      <3>. QED
        BY <1>6, <2>2, <3>1, SoundAnswer, ReplyValues DEF ReadEntry, clientVars, tableVars
    <2>. QED
      BY <2>1, <2>2
  <1>7. ASSUME NEW h \in Handlers, Apply(h)
        PROVE  Sound'
    BY <1>7 DEF Sound, AnswerSound, Apply, GoTo, clientVars, tableVars, TypeInv, TypeOK
  <1>8. ASSUME NEW h \in Handlers, Reject(h) \/ Raise(h)
        PROVE  Sound'
    <2>1. Error("4xx").status # "ok" /\ Error("5xx").status # "ok"
      BY DEF Error
    <2>. QED
      BY <1>8, <2>1, SoundAnswer, ReplyValues DEF Reject, Raise, clientVars, tableVars
  <1>9. ASSUME NEW h \in Handlers, ReturnOk(h)
        PROVE  Sound'
    <2>1. h \in effects /\ h = <<h[1], h[2]>>
      BY <1>9, HandlerPair DEF ReturnOk, Sound
    <2>2. \A g \in Handlers : pc'[g] \in {"applied", "store"} => g \in effects
      BY <1>9, <2>1 DEF ReturnOk, Sound, GoTo, TypeInv, TypeOK
    <2>3. \A g \in Handlers : reply'[g] = IF g = h THEN Ok(h[2]) ELSE reply[g]
      BY <1>9 DEF ReturnOk, TypeInv, TypeOK
    <2>. QED
      BY <1>9, <2>1, <2>2, <2>3
         DEF Sound, AnswerSound, ReturnOk, Ok, clientVars, tableVars
  <1>10. ASSUME NEW h \in Handlers, Store(h)
         PROVE  Sound'
    BY ZenonT(60), <1>10, HandlerPair
       DEF Sound, AnswerSound, Store, GoTo, clientVars, TypeInv, TypeOK
  <1>11. ASSUME NEW h \in Handlers, PopItem(h)
         PROVE  Sound'
    <2>1. \A c \in Calls : saved'[c] # 0 => saved'[c] = saved[c]
      BY <1>11 DEF PopItem, Oldest, tableVars, TypeInv, TypeOK
    <2>2. \A g \in Handlers :
             /\ pc'[g] \in {"applied", "store"} => pc[g] \in {"applied", "store"}
             /\ reply'[g].status = "ok" => reply'[g] = reply[g]
      BY <1>11 DEF PopItem, Answer, Error, GoTo, TypeInv, TypeOK
    <2>. QED
      BY <1>11, <2>1, <2>2 DEF Sound, AnswerSound, PopItem, clientVars
  <1>12. CASE Restart
    BY <1>12 DEF Sound, AnswerSound, Restart, clientVars, TypeInv, TypeOK
  <1>13. CASE UNCHANGED vars
    BY <1>13 DEF Sound, AnswerSound, vars
  <1>. QED
    BY <1>1, <1>2, <1>3, <1>4, <1>5, <1>6, <1>7, <1>8, <1>9, <1>10, <1>11, <1>12,
       <1>13 DEF Next, Client, Handler, Finished

(* A success that _request returns is the result of an execution of that    *)
(* very call, under every fault.                                            *)
THEOREM AnswersAreSound == Spec => []AnswerSound
  <1>1. Init => Sound
    BY DEF Init, Sound, AnswerSound, Error
  <1>2. TypeInv /\ Sound /\ [Next]_vars => Sound'
    BY SoundStep
  <1>3. Sound => AnswerSound
    BY DEF Sound
  <1>. QED
    BY <1>1, <1>2, <1>3, TypeInvariance, PTL DEF Spec

-----------------------------------------------------------------------------
(* What the table remembers of a call that nothing voided yet: a handler    *)
(* about to run fn() is the first one, and an execution that took place is  *)
(* in the table or about to be stored by the handler that made it.          *)
Storing(c) == \E h \in Handlers : h[1] = c /\ pc[h] \in {"applied", "store"}

Remembered(c) ==
    cause[c] = {} =>
        /\ \A h \in Handlers : h[1] = c /\ pc[h] = "run" => EffectsOf(c) = {}
        /\ EffectsOf(c) # {} => saved[c] # 0 \/ Storing(c)
        /\ \A g, h \in EffectsOf(c) : g = h

Memory == \A c \in Mutating : Remembered(c)

\* Two attempts of one call that are both being served are the same one,
\* unless the client gave up on one of them.
LEMMA OneAlive ==
    ASSUME TypeInv, Discipline, NEW g \in Handlers, NEW h \in Handlers, g[1] = h[1],
           "overlap" \notin cause[g[1]],
           pc[g] \notin Unsent \cup Over, pc[h] \notin Unsent \cup Over
    PROVE  g = h
  <1>1. \A n \in Attempts : pc[<<g[1], n>>] \notin Unsent \cup Over => n = attempt[g[1]]
    BY HandlerPair, Numbers DEF Discipline, Disciplined, Unsent
  <1>. QED
    BY <1>1, HandlerPair

\* A step that executes nothing, brings no handler to fn(), keeps the entry of
\* a call nothing voided and loses no execution on its way to the table.
LEMMA RememberedKept ==
    ASSUME TypeInv, NEW c \in Calls, Remembered(c),
           cause[c] \subseteq cause'[c],
           UNCHANGED effects,
           \A h \in Handlers : h[1] = c /\ pc'[h] = "run" => pc[h] = "run",
           cause'[c] = {} /\ saved[c] # 0 => saved'[c] # 0,
           cause'[c] = {} /\ Storing(c) => saved'[c] # 0 \/ Storing(c)'
    PROVE  Remembered(c)'
  <1>. SUFFICES ASSUME cause'[c] = {}
                PROVE  /\ \A h \in Handlers : h[1] = c /\ pc'[h] = "run" => EffectsOf(c) = {}
                       /\ EffectsOf(c) # {} => saved'[c] # 0 \/ Storing(c)'
                       /\ \A g, h \in EffectsOf(c) : g = h
    BY DEF Remembered, EffectsOf
  <1>1. cause[c] = {}
    OBVIOUS
  <1>. QED
    BY <1>1 DEF Remembered

LEMMA MemoryStep ==
    ASSUME TypeInv, Discipline, Memory, [Next]_vars
    PROVE  Memory'
  <1>. SUFFICES ASSUME NEW c \in Mutating
                PROVE  Remembered(c)'
    BY DEF Memory
  <1>. c \in Calls /\ Remembered(c)
    BY ConstantsOK DEF Memory
  <1>1. ASSUME NEW d \in Calls, Client(d)
        PROVE  Remembered(c)'
    <2>1. cause[c] \subseteq cause'[c]
      BY <1>1 DEF Client, Send, Receive, TransportError, GiveUpWaiting, Blame, TypeInv, TypeOK
    <2>2. UNCHANGED <<effects, saved>>
      BY <1>1 DEF Client, Send, Receive, TransportError, GiveUpWaiting
    <2>3. \A h \in Handlers : pc'[h] \in {pc[h], "sent", "done"}
      BY <1>1 DEF Client, Send, Receive, TransportError, GiveUpWaiting, GoTo, TypeInv, TypeOK
    <2>4. ASSUME NEW h \in Handlers, pc[h] \in {"applied", "store"}
          PROVE  pc'[h] = pc[h]
      <3>1. CASE Send(d)
        <4>1. attempt[d] + 1 \in Attempts /\ pc[<<d, attempt[d] + 1>>] = "unsent"
          BY <3>1, ConstantsOK, Numbers
             DEF Send, MaySend, RetriesLeft, TypeInv, TypeOK, PhaseOK, Attempts,
                 Discipline, Disciplined
        <4>. QED
          BY <2>4, <3>1, <4>1 DEF Send, GoTo, TypeInv, TypeOK
      <3>2. CASE Receive(d)
        BY <2>4, <3>2 DEF Receive, GoTo, TypeInv, TypeOK
      <3>3. CASE UNCHANGED pc
        BY <3>3
      <3>. QED
        BY <1>1, <3>1, <3>2, <3>3 DEF Client, TransportError, GiveUpWaiting
    <2>5. Storing(c) => Storing(c)'
      BY <2>4 DEF Storing
    <2>. QED
      BY <2>1, <2>2, <2>3, <2>5, RememberedKept
  <1>2. ASSUME NEW h \in Handlers, Lookup(h)
        PROVE  Remembered(c)'
    <2>1. CASE h[1] = c /\ saved[c] = 0 /\ cause[c] = {}
      <3>1. ~ Storing(c)
        BY <1>2, <2>1, OneAlive DEF Lookup, Storing, Unsent, Over
      <3>2. EffectsOf(c) = {}
        BY <2>1, <3>1 DEF Remembered
      <3>. QED
        BY <1>2, <3>2 DEF Lookup, Remembered, EffectsOf
    <2>2. CASE ~ (h[1] = c /\ saved[c] = 0 /\ cause[c] = {})
      <3>1. CASE cause[c] # {}
        BY <1>2, <3>1 DEF Lookup, Remembered
      <3>2. CASE ~ (h[1] = c /\ saved[c] = 0)
        <4>1. \A g \in Handlers : g[1] = c /\ pc'[g] = "run" => pc[g] = "run"
          BY <1>2, <3>2 DEF Lookup, GoTo, TypeInv, TypeOK
        <4>2. Storing(c) => Storing(c)'
          BY <1>2 DEF Lookup, GoTo, Storing, TypeInv, TypeOK
        <4>. QED
          BY <1>2, <4>1, <4>2, RememberedKept DEF Lookup, tableVars
      <3>. QED
        BY <2>2, <3>1, <3>2
    <2>. QED
      BY <2>1, <2>2
  <1>3. ASSUME NEW h \in Handlers, Apply(h)
        PROVE  Remembered(c)'
    <2>1. \A g \in Handlers : pc'[g] = IF g = h THEN "applied" ELSE pc[g]
      BY <1>3 DEF Apply, GoTo, TypeInv, TypeOK
    <2>2. CASE h[1] = c /\ cause[c] = {}
      <3>1. EffectsOf(c) = {}
        BY <1>3, <2>2 DEF Apply, Remembered
      <3>2. EffectsOf(c)' = {h}
        BY <1>3, <2>2, <3>1 DEF Apply, EffectsOf
      <3>3. Storing(c)'
        BY <2>1, <2>2 DEF Storing
      <3>4. ASSUME NEW g \in Handlers, g[1] = c, pc'[g] = "run"
            PROVE  FALSE
        <4>1. pc[g] = "run" /\ g # h
          BY <2>1, <3>4
        <4>. QED
          BY <1>3, <2>2, <3>4, <4>1, OneAlive DEF Apply, Unsent, Over
      <3>. QED
        BY <3>2, <3>3, <3>4 DEF Remembered
    <2>3. CASE h[1] # c
      <3>1. EffectsOf(c)' = EffectsOf(c)
        BY <1>3, <2>3 DEF Apply, EffectsOf
      <3>2. Storing(c) => Storing(c)'
        BY <2>1 DEF Storing
      <3>. QED
        BY <1>3, <2>1, <2>3, <3>1, <3>2 DEF Apply, Remembered, tableVars
    <2>4. CASE cause[c] # {}
      BY <1>3, <2>4 DEF Apply, Remembered
    <2>. QED
      BY <2>2, <2>3, <2>4
  <1>4. ASSUME NEW h \in Handlers, Raise(h)
        PROVE  Remembered(c)'
    <2>1. \A g \in Handlers : pc'[g] = IF g = h THEN "reply" ELSE pc[g]
      BY <1>4 DEF Raise, Answer, GoTo, TypeInv, TypeOK
    <2>2. cause[c] \subseteq cause'[c]
      BY <1>4 DEF Raise, Blame, TypeInv, TypeOK
    <2>3. cause'[c] = {} /\ Storing(c) => Storing(c)'
      <3>1. ASSUME cause'[c] = {}, h[1] = c
            PROVE  pc[h] # "applied" /\ pc[h] # "store"
        BY ZenonT(60), <1>4, <3>1 DEF Raise, Blame, TypeInv, TypeOK
      <3>. QED
        BY <2>1, <3>1 DEF Storing
    <2>. QED
      BY <1>4, <2>1, <2>2, <2>3, RememberedKept DEF Raise, tableVars
  <1>5. ASSUME NEW h \in Handlers,
               Touch(h) \/ ReadEntry(h) \/ Reject(h) \/ CheckCap(h) \/ CountHalf(h) \/ Lose(h)
        PROVE  Remembered(c)'
    <2>1. UNCHANGED <<cause, effects, saved>>
      BY <1>5 DEF Touch, ReadEntry, Reject, CheckCap, CountHalf, Lose, tableVars
    <2>2. /\ \A g \in Handlers : g # h => pc'[g] = pc[g]
          /\ pc[h] \notin {"applied", "store"} /\ pc'[h] # "run"
      BY <1>5 DEF Touch, ReadEntry, Reject, CheckCap, CountHalf, Lose, Answer, GoTo, TypeInv, TypeOK
    <2>3. Storing(c) => Storing(c)'
      BY <2>2 DEF Storing
    <2>. QED
      BY <2>1, <2>2, <2>3, RememberedKept
  <1>6. ASSUME NEW h \in Handlers, ReturnOk(h)
        PROVE  Remembered(c)'
    <2>1. \A g \in Handlers :
             pc'[g] = IF g # h THEN pc[g] ELSE IF h[1] \in Mutating THEN "store" ELSE "reply"
      BY <1>6 DEF ReturnOk, GoTo, TypeInv, TypeOK
    <2>2. Storing(c) => Storing(c)'
      BY <2>1 DEF Storing
    <2>. QED
      BY <1>6, <2>1, <2>2, RememberedKept DEF ReturnOk, tableVars
  <1>7. ASSUME NEW h \in Handlers, Store(h)
        PROVE  Remembered(c)'
    <2>1. \A g \in Handlers : pc'[g] = IF g = h THEN "check" ELSE pc[g]
      BY <1>7 DEF Store, GoTo, TypeInv, TypeOK
    <2>2. saved'[h[1]] # 0 /\ \A d \in Calls : saved[d] # 0 => saved'[d] # 0
      BY SMTT(30), <1>7, HandlerPair DEF Store, TypeInv, TypeOK, Attempts
    <2>3. Storing(c) => saved'[c] # 0 \/ Storing(c)'
      BY <2>1, <2>2 DEF Storing
    <2>. QED
      BY <1>7, <2>1, <2>2, <2>3, RememberedKept DEF Store
  <1>8. ASSUME NEW h \in Handlers, PopItem(h)
        PROVE  Remembered(c)'
    <2>1. \A g \in Handlers : pc'[g] = pc[g] \/ (g = h /\ pc'[g] = "reply")
      BY <1>8 DEF PopItem, Answer, GoTo, TypeInv, TypeOK
    <2>2. pc[h] = "pop" /\ UNCHANGED effects
      BY <1>8 DEF PopItem
    <2>3. cause'[c] = {} /\ saved[c] # 0 => saved'[c] # 0
      BY ZenonT(60), <1>8 DEF PopItem, Oldest, Blame, tableVars, TypeInv, TypeOK
    <2>4. cause[c] \subseteq cause'[c]
      BY <1>8, HandlerStep DEF Handler
    <2>5. Storing(c) => Storing(c)'
      BY <2>1, <2>2 DEF Storing
    <2>. QED
      BY <2>1, <2>2, <2>3, <2>4, <2>5, RememberedKept
  <1>9. CASE Restart
    <2>1. CASE EffectsOf(c) = {}
      BY <1>9, <2>1 DEF Restart, Remembered, EffectsOf
    <2>2. CASE EffectsOf(c) # {}
      BY <1>9, <2>2 DEF Restart, Remembered
    <2>. QED
      BY <2>1, <2>2
  <1>10. CASE UNCHANGED vars
    BY <1>10 DEF vars, Remembered, Storing, EffectsOf
  <1>. QED
    BY <1>1, <1>2, <1>3, <1>4, <1>5, <1>6, <1>7, <1>8, <1>9, <1>10
       DEF Next, Handler, Finished

(* A mutating call executes twice only after an overlap, an eviction, an    *)
(* error after the effect, or a restart hit that very call; so the promise  *)
(* of server.py:18-21 holds for every call those four spare.                *)
THEOREM AtMostOnceUnlessVoided == Spec => []AtMostOnceUnlessCaused
  <1>1. Init => Discipline /\ Memory
    BY ConstantsOK
       DEF Init, Discipline, Disciplined, Memory, Remembered, EffectsOf, Handlers, Attempts
  <1>2. TypeInv /\ (Discipline /\ Memory) /\ [Next]_vars => (Discipline /\ Memory)'
    BY DisciplineStep, MemoryStep
  <1>3. Memory => AtMostOnceUnlessCaused
    BY DEF Memory, Remembered, AtMostOnceUnlessCaused
  <1>. QED
    BY <1>1, <1>2, <1>3, TypeInvariance, PTL DEF Spec

-----------------------------------------------------------------------------
\* While the client did not give up early on c, only the handler of a call
\* that still waits can execute fn().
LEMMA ExecutesWhileWaiting ==
    ASSUME TypeInv, Discipline, [Next]_vars, NEW c \in Calls,
           Ended(c), "overlap" \notin cause[c]
    PROVE  EffectsOf(c)' = EffectsOf(c)
  <1>1. ASSUME NEW h \in Handlers, Apply(h)
        PROVE  h[1] # c
    <2>1. pc[h] \notin Unsent \cup Over
      BY <1>1 DEF Apply, Unsent, Over
    <2>2. ASSUME h[1] = c
          PROVE  FALSE
      <3>1. h[2] = attempt[c] => pc[h] \in Over
        BY <2>2, HandlerPair DEF Discipline, Disciplined, Ended
      <3>2. h[2] <= attempt[c] /\ h[2] >= attempt[c]
        BY <2>1, <2>2, HandlerPair, Numbers DEF Discipline, Disciplined, Unsent
      <3>. QED
        BY <2>1, <3>1, <3>2, HandlerPair, Numbers
    <2>. QED
      BY <2>2
  <1>2. ASSUME NEW h \in Handlers, Apply(h)
        PROVE  EffectsOf(c)' = EffectsOf(c)
    BY <1>1, <1>2 DEF Apply, EffectsOf
  <1>3. CASE UNCHANGED effects
    BY <1>3 DEF EffectsOf
  <1>4. UNCHANGED effects \/ \E h \in Handlers : Apply(h)
    BY DEF Next, Client, Handler, Finished, Restart, Send, Receive, TransportError,
       GiveUpWaiting, Lookup, Touch, ReadEntry, Reject, Raise, ReturnOk, Store,
       CheckCap, CountHalf, PopItem, Lose, vars
  <1>. QED
    BY <1>2, <1>3, <1>4

\* Nothing reopens a call that has returned or raised.
LEMMA EndedStays ==
    ASSUME TypeInv, [Next]_vars, NEW c \in Calls, Ended(c)
    PROVE  call'[c] = call[c]
  <1>1. ASSUME NEW d \in Calls, Client(d)
        PROVE  call'[c] = call[c]
    BY <1>1 DEF Client, Send, MaySend, Receive, TransportError, GiveUpWaiting,
       RetryOrFail, Ended, TypeInv, TypeOK
  <1>2. ASSUME NEW h \in Handlers, Handler(h) \/ Lose(h)
        PROVE  call'[c] = call[c]
    BY <1>2, HandlerStep
  <1>3. CASE Restart \/ UNCHANGED vars
    BY <1>3 DEF Restart, clientVars, vars
  <1>. QED
    BY <1>1, <1>2, <1>3 DEF Next, Finished

(* Once _request has returned or raised, no step reopens the call, and none *)
(* executes fn for it unless the client gave up on an attempt in progress.  *)
THEOREM EndedIsFinal == Spec => EndedCallsAreQuiet
  <1>1. Init => Discipline
    BY DEF Init, Discipline, Disciplined, Attempts, Handlers
  <1>2. TypeInv /\ Discipline /\ [Next]_vars => Discipline'
    BY DisciplineStep
  <1>3. TypeInv /\ Discipline /\ [Next]_vars =>
           [\A c \in Calls : Ended(c) =>
              /\ call'[c] = call[c]
              /\ "overlap" \notin cause[c] => EffectsOf(c)' = EffectsOf(c)]_vars
    BY ExecutesWhileWaiting, EndedStays
  <1>. QED
    BY <1>1, <1>2, <1>3, TypeInvariance, PTL DEF Spec, EndedCallsAreQuiet

-----------------------------------------------------------------------------
(* The refinement of the abstract call: every step of the pipeline is a     *)
(* step of AtMostOnceRpc or leaves its state alone.                         *)

\* Only a call that has begun executes, is in the table or loses its promise.
Begun == {c \in Calls : call[c] # "idle"}
BegunOK == order \in Seq(Begun) /\ \A h \in effects : h[1] \in Begun

LEMMA SentHasBegun ==
    ASSUME TypeInv, Discipline, NEW h \in Handlers, pc[h] # "unsent"
    PROVE  h[1] \in Begun
  <1>1. h[2] \in Attempts /\ attempt[h[1]] \in Nat /\ h[2] <= attempt[h[1]]
    BY HandlerPair, Numbers DEF Discipline, Disciplined
  <1>2. attempt[h[1]] # 0
    BY <1>1, ConstantsOK DEF Attempts
  <1>. QED
    BY <1>2, HandlerPair DEF TypeInv, PhaseOK, Begun

LEMMA BegunGrows ==
    ASSUME TypeInv, [Next]_vars
    PROVE  Begun \subseteq Begun'
  <1>1. ASSUME NEW c \in Calls, Client(c)
        PROVE  Begun \subseteq Begun'
    BY <1>1 DEF Client, Send, Receive, TransportError, GiveUpWaiting, RetryOrFail, Begun,
       TypeInv, TypeOK
  <1>2. ASSUME NEW h \in Handlers, Handler(h) \/ Lose(h)
        PROVE  Begun \subseteq Begun'
    BY <1>2, HandlerStep DEF Begun
  <1>3. CASE Restart \/ UNCHANGED vars
    BY <1>3 DEF Restart, clientVars, vars, Begun
  <1>. QED
    BY <1>1, <1>2, <1>3 DEF Next, Finished

LEMMA BegunStep ==
    ASSUME TypeInv, Discipline, BegunOK, [Next]_vars
    PROVE  BegunOK'
  <1>1. Begun \subseteq Begun'
    BY BegunGrows
  <1>2. order \in Seq(Begun') /\ \A h \in effects : h[1] \in Begun'
    <2>1. \A i \in 1 .. Len(order) : order[i] \in Begun'
      BY <1>1 DEF BegunOK
    <2>. QED
      BY <1>1, <2>1 DEF BegunOK
  <1>3. ASSUME UNCHANGED <<order, effects>>
        PROVE  BegunOK'
    BY <1>2, <1>3 DEF BegunOK
  <1>4. ASSUME NEW h \in Handlers, Apply(h)
        PROVE  BegunOK'
    <2>1. h[1] \in Begun'
      BY <1>1, <1>4, SentHasBegun DEF Apply
    <2>. QED
      BY <1>2, <1>4, <2>1 DEF Apply, BegunOK, tableVars
  <1>5. ASSUME NEW h \in Handlers, Store(h)
        PROVE  BegunOK'
    <2>1. h[1] \in Begun'
      BY <1>1, <1>5, SentHasBegun DEF Store
    <2>. QED
      BY <1>2, <1>5, <2>1 DEF Store, BegunOK
  <1>6. ASSUME NEW h \in Handlers, Touch(h)
        PROVE  BegunOK'
    <2>1. h[1] \in Begun'
      BY <1>1, <1>6, SentHasBegun DEF Touch
    <2>2. ASSUME NEW i \in 1 .. Len(order),
                 order' = SubSeq(order, 1, i - 1) \o SubSeq(order, i + 1, Len(order)) \o <<h[1]>>
          PROVE  order' \in Seq(Begun')
      <3>1. SubSeq(order, 1, i - 1) \o SubSeq(order, i + 1, Len(order)) \in Seq(Begun')
        BY <1>2, RemovalType
      <3>. QED
        BY <2>1, <2>2, <3>1
    <2>3. order' \in Seq(Begun') /\ UNCHANGED effects
      BY <1>2, <1>6, <2>2 DEF Touch
    <2>. QED
      BY <1>2, <2>3 DEF BegunOK
  <1>7. ASSUME NEW h \in Handlers, PopItem(h)
        PROVE  BegunOK'
    <2>1. CASE order # << >> /\ order' = SubSeq(order, 1, 1 - 1) \o SubSeq(order, 1 + 1, Len(order))
      <3>1. 1 \in 1 .. Len(order)
        BY <1>2, <2>1
      <3>2. order' \in Seq(Begun')
        BY <1>2, <2>1, <3>1, RemovalType
      <3>. QED
        BY <1>2, <1>7, <3>2 DEF PopItem, BegunOK
    <2>2. CASE UNCHANGED order
      BY <1>2, <1>7, <2>2 DEF PopItem, BegunOK
    <2>. QED
      BY <1>7, <2>1, <2>2 DEF PopItem, Oldest, tableVars
  <1>8. CASE Restart
    BY <1>2, <1>8 DEF Restart, BegunOK
  <1>. QED
    BY <1>3, <1>4, <1>5, <1>6, <1>7, <1>8
       DEF Next, Client, Send, Receive, TransportError, GiveUpWaiting, Handler, Lookup,
           ReadEntry, Reject, Raise, ReturnOk, CheckCap, CountHalf, Lose, Finished, tableVars, vars

-----------------------------------------------------------------------------
\* A step that only voids promises of calls that have begun is a Withdraw,
\* also when it voids none.
LEMMA Withdrawing ==
    ASSUME UNCHANGED <<call, answer, effects>>,
           Voided \subseteq Voided', Voided' \subseteq Voided \cup Begun
    PROVE  Promise!Next
  <1>1. UNCHANGED <<Outcome, answer, effects>>
    BY DEF Outcome
  <1>2. Begun = {c \in Calls : Outcome[c] # "idle"}
    BY DEF Begun, Outcome
  <1>3. (Voided' \ Voided) \in SUBSET {c \in Calls : Outcome[c] # "idle"}
    BY <1>2
  <1>4. Voided' = Voided \cup (Voided' \ Voided)
    OBVIOUS
  <1>5. Promise!Withdraw
    BY <1>1, <1>3, <1>4 DEF Promise!Withdraw
  <1>. QED
    BY <1>5 DEF Promise!Next

\* The client gives up for good, and with it the promise or not.
LEMMA GivingUp ==
    ASSUME TypeInv, NEW c \in Calls, call[c] \in {"waiting", "backoff"},
           call' = [call EXCEPT ![c] = "failed"], UNCHANGED <<answer, effects>>,
           Voided' \in {Voided, Voided \cup {c}}
    PROVE  Promise!Next
  <1>1. Outcome[c] = "pending" /\ Outcome' = [Outcome EXCEPT ![c] = "failed"]
    BY DEF Outcome, TypeInv, TypeOK
  <1>2. Promise!GiveUp(c)
    BY <1>1 DEF Promise!GiveUp
  <1>. QED
    BY <1>2 DEF Promise!Next

LEMMA ClientRefines ==
    ASSUME TypeInv, Sound', NEW c \in Calls, Client(c)
    PROVE  Promise!Next \/ UNCHANGED <<Outcome, answer, effects, Voided>>
  <1>1. CASE Send(c)
    <2>1. UNCHANGED <<answer, effects, Voided>>
      BY <1>1 DEF Send, Voided
    <2>2. CASE call[c] = "backoff"
      <3>1. UNCHANGED Outcome
        BY <1>1, <2>2 DEF Send, Outcome, TypeInv, TypeOK
      <3>. QED
        BY <2>1, <3>1
    <2>3. CASE call[c] = "idle"
      <3>1. Outcome[c] = "idle" /\ Outcome' = [Outcome EXCEPT ![c] = "pending"]
        BY <1>1, <2>3 DEF Send, Outcome, TypeInv, TypeOK
      <3>2. Promise!Begin(c)
        BY <2>1, <3>1 DEF Promise!Begin
      <3>. QED
        BY <3>2 DEF Promise!Next
    <2>. QED
      BY <1>1, <2>2, <2>3 DEF Send, MaySend
  <1>2. CASE Receive(c)
    <2>1. UNCHANGED <<effects, cause>> /\ call[c] = "waiting" /\ Voided' = Voided
      BY <1>2 DEF Receive, Voided
    <2>2. CASE reply[Current(c)].status = "ok" /\ call' = [call EXCEPT ![c] = "ok"]
               /\ answer' = [answer EXCEPT ![c] = reply[Current(c)].by]
      <3>1. Outcome[c] = "pending" /\ Outcome' = [Outcome EXCEPT ![c] = "ok"]
        BY <2>1, <2>2 DEF Outcome, TypeInv, TypeOK
      <3>2. <<c, answer'[c]>> \in effects
        BY <2>1, <2>2 DEF Sound, AnswerSound, TypeInv, TypeOK
      <3>3. answer' = [answer EXCEPT ![c] = answer'[c]]
        BY <2>2 DEF TypeInv, TypeOK
      <3>4. Promise!Acknowledge(c)
        BY <2>1, <3>1, <3>2, <3>3 DEF Promise!Acknowledge
      <3>. QED
        BY <3>4 DEF Promise!Next
    <2>3. CASE call' = [call EXCEPT ![c] = "failed"] /\ UNCHANGED answer
      BY <2>1, <2>3, GivingUp
    <2>4. CASE call' = [call EXCEPT ![c] = "backoff"] /\ UNCHANGED answer
      BY <2>1, <2>4 DEF Outcome, TypeInv, TypeOK
    <2>. QED
      BY <1>2, <2>2, <2>3, <2>4 DEF Receive, RetryOrFail
  <1>3. CASE TransportError(c) \/ GiveUpWaiting(c)
    <2>1. UNCHANGED <<answer, effects>> /\ call[c] = "waiting" /\ RetryOrFail(c)
      BY <1>3 DEF TransportError, GiveUpWaiting
    <2>2. Voided' \in {Voided, Voided \cup {c}}
      BY <1>3 DEF TransportError, GiveUpWaiting, Blame, Voided, TypeInv, TypeOK
    <2>3. CASE call' = [call EXCEPT ![c] = "failed"]
      BY <2>1, <2>2, <2>3, GivingUp
    <2>4. CASE call' = [call EXCEPT ![c] = "backoff"]
      <3>1. UNCHANGED Outcome /\ Outcome[c] = "pending"
        BY <2>1, <2>4 DEF Outcome, TypeInv, TypeOK
      <3>2. {c} \in SUBSET {d \in Calls : Outcome[d] # "idle"}
        BY <3>1
      <3>3. Voided' = Voided \/ Promise!Withdraw
        BY <2>1, <2>2, <3>1, <3>2 DEF Promise!Withdraw
      <3>. QED
        BY <2>1, <3>1, <3>3 DEF Promise!Next
    <2>. QED
      BY <2>1, <2>3, <2>4 DEF RetryOrFail
  <1>. QED
    BY <1>1, <1>2, <1>3 DEF Client

\* fn() runs for a call that is pending and has not executed, or has lost the
\* promise.
LEMMA ApplyRefines ==
    ASSUME TypeInv, Discipline, Memory, NEW h \in Handlers, Apply(h)
    PROVE  Promise!Next
  <1>. DEFINE c == h[1]
  <1>1. c \in Calls /\ h = <<c, h[2]>> /\ h[2] \in Attempts
    BY HandlerPair
  <1>2. effects' = effects \cup {<<c, h[2]>>} /\ UNCHANGED <<Outcome, answer, Voided>>
    BY <1>1 DEF Apply, clientVars, Outcome, Voided
  <1>3. c \in Begun /\ Outcome[c] # "idle"
    BY <1>1, SentHasBegun DEF Apply, Begun, Outcome
  <1>4. ASSUME cause[c] = {}
        PROVE  Outcome[c] = "pending"
    <2>1. ~ (h[2] < attempt[c] \/ (h[2] = attempt[c] /\ call[c] # "waiting"))
      BY <1>1, <1>4 DEF Apply, Discipline, Disciplined, Over
    <2>2. ~ h[2] > attempt[c]
      BY <1>1 DEF Apply, Discipline, Disciplined
    <2>3. call[c] = "waiting"
      BY <1>1, <2>1, <2>2, Numbers
    <2>. QED
      BY <1>1, <2>3 DEF Outcome
  <1>5. ASSUME cause[c] = {}, c \in Mutating
        PROVE  Promise!Fresh(c)
    <2>1. EffectsOf(c) = {}
      BY <1>1, <1>5 DEF Apply, Memory, Remembered
    <2>. QED
      BY <2>1 DEF Promise!Fresh, EffectsOf
  <1>6. cause[c] # {} => c \in Voided
    BY <1>1 DEF Voided
  <1>7. Promise!Execute(c)
    BY <1>1, <1>2, <1>3, <1>4, <1>5, <1>6 DEF Promise!Execute
  <1>. QED
    BY <1>1, <1>7 DEF Promise!Next

\* Every other step of the server or the network.
LEMMA ServerRefines ==
    ASSUME TypeInv, Discipline, BegunOK,
           \/ \E h \in Handlers : Lose(h) \/ (Handler(h) /\ ~ Apply(h))
           \/ Restart
    PROVE  Promise!Next
  <1>1. ASSUME NEW h \in Handlers, Lose(h) \/ (Handler(h) /\ ~ Apply(h))
        PROVE  Promise!Next
    <2>1. UNCHANGED <<call, answer>> /\ h[1] \in Begun
      BY <1>1, HandlerStep, SentHasBegun DEF Unsent
    <2>2. UNCHANGED effects
      BY <1>1 DEF Handler, Lookup, Touch, ReadEntry, Reject, Raise, ReturnOk, Store,
         CheckCap, CountHalf, PopItem, Lose
    <2>3. UNCHANGED cause \/ \E d \in Begun, why \in Causes : Blame(d, why)
      <3>1. CASE PopItem(h)
        <4>1. order # << >> => order[1] \in Begun
          BY DEF BegunOK
        <4>. QED
          BY <3>1, <4>1 DEF PopItem, Oldest, Causes
      <3>2. CASE Raise(h)
        BY <2>1, <3>2 DEF Raise, Causes
      <3>3. CASE UNCHANGED cause
        BY <3>3
      <3>. QED
        BY <1>1, <3>1, <3>2, <3>3 DEF Handler, Lookup, Touch, ReadEntry, Reject, ReturnOk,
           Store, CheckCap, CountHalf, Lose
    <2>4. Voided \subseteq Voided' /\ Voided' \subseteq Voided \cup Begun
      BY <2>3 DEF Voided, Blame, TypeInv, TypeOK
    <2>. QED
      BY <2>1, <2>2, <2>4, Withdrawing
  <1>2. CASE Restart
    <2>1. UNCHANGED <<call, answer, effects>>
      BY <1>2 DEF Restart, clientVars
    <2>2. \A c \in Calls : EffectsOf(c) # {} => c \in Begun
      BY DEF EffectsOf, BegunOK
    <2>3. Voided \subseteq Voided' /\ Voided' \subseteq Voided \cup Begun
      BY <1>2, <2>2 DEF Restart, Voided
    <2>. QED
      BY <2>1, <2>3, Withdrawing
  <1>. QED
    BY <1>1, <1>2

(* The pipeline implements the call that AtMostOnceRpc promises: retries,   *)
(* evictions, errors and restarts are invisible to the caller, or withdraw  *)
(* the promise from the very calls they hit (server.py:18-21).              *)
THEOREM PromiseKept == Spec => ImplementsPromise
  <1>1. Init => Promise!Init
    BY DEF Init, Promise!Init, Outcome, Voided
  <1>2. Init => Discipline /\ Memory /\ Sound /\ BegunOK
    BY ConstantsOK
       DEF Init, Discipline, Disciplined, Memory, Remembered, EffectsOf, Handlers, Attempts,
           Sound, AnswerSound, Error, BegunOK
  <1>3. TypeInv /\ (Discipline /\ Memory /\ Sound /\ BegunOK) /\ [Next]_vars
          => (Discipline /\ Memory /\ Sound /\ BegunOK)'
    BY DisciplineStep, MemoryStep, SoundStep, BegunStep
  <1>4. TypeInv /\ (Discipline /\ Memory /\ Sound /\ BegunOK) /\ Sound' /\ [Next]_vars
          => [Promise!Next]_Promise!vars
    <2>. SUFFICES ASSUME TypeInv, Discipline, Memory, BegunOK, Sound', [Next]_vars
                  PROVE  Promise!Next \/ UNCHANGED <<Outcome, answer, effects, Voided>>
      BY DEF Promise!vars
    <2>1. ASSUME NEW c \in Calls, Client(c)
          PROVE  Promise!Next \/ UNCHANGED <<Outcome, answer, effects, Voided>>
      BY <2>1, ClientRefines
    <2>2. ASSUME NEW h \in Handlers, Handler(h) \/ Lose(h)
          PROVE  Promise!Next
      BY <2>2, ApplyRefines, ServerRefines
    <2>3. CASE Restart
      BY <2>3, ServerRefines
    <2>4. CASE UNCHANGED vars
      BY <2>4 DEF vars, Outcome, Voided
    <2>. QED
      BY <2>1, <2>2, <2>3, <2>4 DEF Next, Finished
  <1>. QED
    BY <1>1, <1>2, <1>3, <1>4, TypeInvariance, PTL DEF Spec, ImplementsPromise, Promise!Spec

-----------------------------------------------------------------------------
\* The idempotency table: its size under every choice of faults, and what a
\* single sequential client finds in it.

\* Removing one position of a sequence shifts what follows it by one.
Without(s, i) == SubSeq(s, 1, i - 1) \o SubSeq(s, i + 1, Len(s))

LEMMA Removal ==
    ASSUME NEW S, NEW s \in Seq(S), NEW i \in 1 .. Len(s)
    PROVE  /\ Without(s, i) \in Seq(S) /\ Len(Without(s, i)) = Len(s) - 1
           /\ \A k \in 1 .. Len(s) - 1 :
                 Without(s, i)[k] = IF k < i THEN s[k] ELSE s[k + 1]
  <1>. DEFINE a == SubSeq(s, 1, i - 1)
              b == SubSeq(s, i + 1, Len(s))
              r == Without(s, i)
  <1>1. /\ a \in Seq(S) /\ Len(a) = i - 1
        /\ \A k \in 1 .. i - 1 : a[k] = s[k]
    <2>1. \A k \in 1 .. i - 1 : s[k] \in S
      OBVIOUS
    <2>2. 1 \in Int /\ i - 1 \in Int
      OBVIOUS
    <2>3. /\ a \in Seq(S) /\ Len(a) = IF 1 <= i - 1 THEN i - 1 - 1 + 1 ELSE 0
          /\ \A k \in 1 .. i - 1 - 1 + 1 : a[k] = s[1 + k - 1]
      BY <2>1, <2>2, SubSeqProperties
    <2>. QED
      BY <2>3
  <1>2. /\ b \in Seq(S) /\ Len(b) = Len(s) - i
        /\ \A k \in 1 .. Len(s) - i : b[k] = s[i + k]
    <2>1. \A k \in i + 1 .. Len(s) : s[k] \in S
      OBVIOUS
    <2>2. i + 1 \in Int /\ Len(s) \in Int /\ Len(s) \in Nat
      OBVIOUS
    <2>3. /\ b \in Seq(S) /\ Len(b) = IF i + 1 <= Len(s) THEN Len(s) - (i + 1) + 1 ELSE 0
          /\ \A k \in 1 .. Len(s) - (i + 1) + 1 : b[k] = s[i + 1 + k - 1]
      BY <2>1, <2>2, SubSeqProperties
    <2>. QED
      BY <2>2, <2>3
  <1>3. r = a \o b /\ Len(s) \in Nat
    BY DEF Without
  <1>. HIDE DEF a, b, r
  <1>4. /\ r \in Seq(S) /\ Len(r) = Len(a) + Len(b)
        /\ \A k \in 1 .. Len(a) + Len(b) : r[k] = IF k <= Len(a) THEN a[k] ELSE b[k - Len(a)]
    <2>2. /\ a \o b \in Seq(S) /\ Len(a \o b) = Len(a) + Len(b)
          /\ \A k \in 1 .. Len(a) + Len(b) :
                (a \o b)[k] = IF k <= Len(a) THEN a[k] ELSE b[k - Len(a)]
      BY Zenon, <1>1, <1>2, ConcatProperties
    <2>. QED
      BY Zenon, <1>3, <2>2
  <1>5. \A k \in 1 .. (i - 1) + (Len(s) - i) :
           r[k] = IF k <= i - 1 THEN a[k] ELSE b[k - (i - 1)]
    BY Zenon, <1>1, <1>2, <1>4
  <1>6. \A k \in 1 .. Len(s) - 1 : r[k] = IF k < i THEN s[k] ELSE s[k + 1]
    <2>. DEFINE n == Len(s)
    <2>1. n \in Nat /\ i \in 1 .. n
      BY <1>3
    <2>2. /\ \A k \in 1 .. i - 1 : a[k] = s[k]
          /\ \A k \in 1 .. n - i : b[k] = s[i + k]
          /\ \A k \in 1 .. (i - 1) + (n - i) :
                r[k] = IF k <= i - 1 THEN a[k] ELSE b[k - (i - 1)]
      BY Zenon, <1>1, <1>2, <1>5
    <2>. HIDE DEF n
    <2>3. ASSUME NEW k \in 1 .. n - 1, k < i
          PROVE  r[k] = s[k]
      <3>1. k \in 1 .. i - 1 /\ k \in 1 .. (i - 1) + (n - i) /\ k <= i - 1
        BY <2>1, <2>3
      <3>. QED
        BY Zenon, <2>2, <3>1
    <2>4. ASSUME NEW k \in 1 .. n - 1, ~ (k < i)
          PROVE  r[k] = s[k + 1]
      <3>1. /\ k \in 1 .. (i - 1) + (n - i) /\ ~ (k <= i - 1)
            /\ k - (i - 1) \in 1 .. n - i /\ i + (k - (i - 1)) = k + 1
        BY <2>1, <2>4
      <3>. QED
        BY Zenon, <2>2, <3>1
    <2>. QED
      BY Zenon, <2>3, <2>4 DEF n
  <1>7. Len(r) = Len(s) - 1
    <2>1. (i - 1) + (Len(s) - i) = Len(s) - 1
      BY <1>3
    <2>2. Len(r) = (i - 1) + (Len(s) - i)
      BY Zenon, <1>1, <1>2, <1>4
    <2>. QED
      BY Zenon, <2>1, <2>2
  <1>. QED
    BY <1>4, <1>6, <1>7 DEF r

-----------------------------------------------------------------------------
(* The handlers between the store and the end of the eviction loop, and     *)
(* those of them that have not yet made room for what they stored.  A       *)
(* handler whose loop has run out no longer counts, so the bound of         *)
(* CacheBound is kept by the stronger Room.                                 *)
Evicting == {h \in Handlers : pc[h] \in {"check", "count", "pop"}}
Filling  == {h \in Evicting : pc[h] = "pop" => pops[h] > 0}

Room == IsFiniteSet(Evicting) /\ Len(order) <= Cap + Cardinality(Filling)

LEMMA SmallerSet ==
    ASSUME NEW E, NEW F \in SUBSET E, IsFiniteSet(E)
    PROVE  /\ Cardinality(F) \in Nat /\ IsFiniteSet(F)
           /\ Cardinality(F) <= Cardinality(E) /\ Cardinality(E) \in Nat
  BY FS_Subset, FS_CardinalityType

LEMMA FillingFinite ==
    /\ IsFiniteSet(Evicting) => Cardinality(Filling) \in Nat /\ IsFiniteSet(Filling)
    /\ IsFiniteSet(Evicting') => Cardinality(Filling') \in Nat
  <1>1. Filling \in SUBSET Evicting /\ Filling' \in SUBSET Evicting'
    BY DEF Filling
  <1>. QED
    BY <1>1, SmallerSet

LEMMA RoomStep ==
    ASSUME TypeInv, TypeInv', Discipline, Room, [Next]_vars
    PROVE  Room'
  <1>. USE ConstantsOK
  <1>1. /\ IsFiniteSet(Filling) /\ Cardinality(Filling) \in Nat
        /\ IsFiniteSet(Evicting) /\ Len(order) <= Cap + Cardinality(Filling)
        /\ Len(order) \in Nat /\ Len(order') \in Nat
    BY FillingFinite DEF Room, TypeInv, TypeOK
  <1>2. ASSUME IsFiniteSet(Evicting'), Len(order') <= Cap
        PROVE  Room'
    BY <1>1, <1>2, FillingFinite DEF Room
  <1>3. ASSUME Evicting' = Evicting, Filling' = Filling, Len(order') <= Len(order)
        PROVE  Room'
    BY <1>1, <1>3 DEF Room
  <1>4. ASSUME NEW h \in Handlers, Store(h)
        PROVE  Room'
    <2>1. Evicting' = Evicting \cup {h} /\ Filling' = Filling \cup {h} /\ h \notin Filling
      BY <1>4 DEF Store, GoTo, Evicting, Filling, TypeInv, TypeOK
    <2>2. Len(order') <= Len(order) + 1
      BY <1>4, <1>1, HandlerPair DEF Store, TypeInv, TypeOK
    <2>3. IsFiniteSet(Evicting') /\ Cardinality(Filling') = Cardinality(Filling) + 1
      BY <1>1, <2>1, FS_AddElement
    <2>. QED
      BY <1>1, <2>2, <2>3 DEF Room
  <1>5. ASSUME NEW h \in Handlers, CheckCap(h)
        PROVE  Room'
    <2>1. CASE OverCap
      <3>1. Evicting' = Evicting /\ Filling' = Filling /\ order' = order
        BY <1>5, <2>1 DEF CheckCap, GoTo, Evicting, Filling, tableVars, TypeInv, TypeOK
      <3>. QED
        BY <1>1, <1>3, <3>1
    <2>2. CASE ~ OverCap
      <3>1. Evicting' = Evicting \ {h} /\ order' = order
        BY <1>5, <2>2 DEF CheckCap, GoTo, Evicting, tableVars, TypeInv, TypeOK
      <3>2. IsFiniteSet(Evicting') /\ Len(order') <= Cap
        BY <1>1, <2>2, <3>1, FS_RemoveElement DEF OverCap
      <3>. QED
        BY <1>2, <3>2
    <2>. QED
      BY <2>1, <2>2
  <1>6. ASSUME NEW h \in Handlers, CountHalf(h)
        PROVE  Room'
    <2>1. Evicting' = Evicting /\ order' = order /\ h \in Filling
      BY <1>6 DEF CountHalf, GoTo, Evicting, Filling, tableVars, TypeInv, TypeOK
    <2>2. CASE Len(order) \div 2 > 0
      <3>1. Filling' = Filling
        BY <1>6, <2>1, <2>2 DEF CountHalf, GoTo, Evicting, Filling, TypeInv, TypeOK
      <3>. QED
        BY <1>1, <1>3, <2>1, <3>1
    <2>3. CASE ~ (Len(order) \div 2 > 0)
      <3>1. Len(order) <= Cap
        BY <1>1, <2>3
      <3>. QED
        BY <1>1, <1>2, <2>1, <3>1
    <2>. QED
      BY <2>2, <2>3
  <1>7. ASSUME NEW h \in Handlers, PopItem(h)
        PROVE  Room'
    <2>1. CASE pops[h] = 0
      <3>1. Evicting' = Evicting \ {h} /\ Filling' = Filling /\ order' = order
        BY <1>7, <2>1 DEF PopItem, GoTo, Evicting, Filling, tableVars, TypeInv, TypeOK
      <3>2. IsFiniteSet(Evicting')
        BY <1>1, <3>1, FS_RemoveElement
      <3>. QED
        BY <1>1, <3>1, <3>2 DEF Room
    <2>2. CASE pops[h] > 0 /\ order # << >>
      <3>1. /\ pops' = [pops EXCEPT ![h] = @ - 1] /\ pc' = pc /\ pc[h] = "pop"
            /\ order' = Without(order, 1)
        BY <1>7, <2>2 DEF PopItem, Oldest, Without
      <3>2. Len(order') = Len(order) - 1
        <4>1. order \in Seq(Calls) /\ 1 \in 1 .. Len(order)
          BY <2>2 DEF TypeInv, TypeOK
        <4>. QED
          BY <3>1, <4>1, Removal
      <3>3. h \in Filling /\ Evicting' = Evicting
        BY <2>2, <3>1 DEF Evicting, Filling
      <3>4. Filling' = Filling \/ Filling' = Filling \ {h}
        <4>1. \A g \in Handlers : g # h => pops'[g] = pops[g]
          BY <3>1 DEF TypeInv, TypeOK
        <4>. QED
          BY <3>1, <3>3, <4>1 DEF Evicting, Filling
      <3>5. Cardinality(Filling \ {h}) = Cardinality(Filling) - 1
        BY <1>1, <3>3, FS_RemoveElement
      <3>6. Len(order') <= Cap + Cardinality(Filling')
        <4>1. \/ Cardinality(Filling') = Cardinality(Filling)
              \/ Cardinality(Filling') = Cardinality(Filling) - 1
          BY Zenon, <3>4, <3>5
        <4>2. IsFiniteSet(Evicting')
          BY <1>1, <3>3
        <4>. QED
          BY <1>1, <3>2, <4>1, <4>2, FillingFinite
      <3>. QED
        BY <1>1, <3>3, <3>6 DEF Room
    <2>3. CASE pops[h] > 0 /\ order = << >>
      <3>1. Evicting' = Evicting \ {h} /\ order' = order
        BY <1>7, <2>3 DEF PopItem, Answer, GoTo, Evicting, tableVars, TypeInv, TypeOK
      <3>2. IsFiniteSet(Evicting')
        BY <1>1, <3>1, FS_RemoveElement
      <3>3. Len(order') <= Cap
        BY <2>3, <3>1
      <3>. QED
        BY <1>2, <3>2, <3>3
    <2>. QED
      BY <1>7, <2>1, <2>2, <2>3 DEF PopItem
  <1>8. CASE Restart
    <2>1. Evicting' = {} /\ order' = << >>
      BY <1>8 DEF Restart, Evicting, Serving
    <2>2. IsFiniteSet(Evicting') /\ Len(order') <= Cap
      BY <2>1, FS_EmptySet
    <2>. QED
      BY <1>2, <2>2
  <1>9. ASSUME NEW h \in Handlers, Touch(h)
        PROVE  Room'
    <2>1. Evicting' = Evicting /\ Filling' = Filling
      BY <1>9 DEF Touch, Answer, GoTo, Evicting, Filling, TypeInv, TypeOK
    <2>2. Len(order') = Len(order)
      <3>1. CASE UNCHANGED order
        BY <3>1
      <3>2. ASSUME NEW i \in 1 .. Len(order),
                   order' = SubSeq(order, 1, i - 1) \o SubSeq(order, i + 1, Len(order))
                              \o <<h[1]>>
            PROVE  Len(order') = Len(order)
        <4>. DEFINE rest == Without(order, i)
        <4>1. rest \in Seq(Calls) /\ Len(rest) = Len(order) - 1
          <5>1. order \in Seq(Calls)
            BY DEF TypeInv, TypeOK
          <5>. QED
            BY Zenon, <3>2, <5>1, Removal
        <4>2. <<h[1]>> \in Seq(Calls) /\ order' = rest \o <<h[1]>>
          BY <3>2, HandlerPair DEF Without
        <4>. HIDE DEF rest
        <4>. QED
          BY <1>1, <4>1, <4>2
      <3>. QED
        BY <1>9, <3>1, <3>2 DEF Touch
    <2>. QED
      BY <1>1, <1>3, <2>1, <2>2
  <1>10. ASSUME NEW h \in Handlers,
                \/ Lookup(h) \/ ReadEntry(h) \/ Apply(h) \/ Reject(h) \/ Raise(h)
                \/ ReturnOk(h) \/ Lose(h)
         PROVE  Room'
    <2>1. UNCHANGED <<order, pops>> /\ pc[h] \notin {"check", "count", "pop"}
      BY <1>10 DEF Lookup, ReadEntry, Apply, Reject, Raise, ReturnOk, Lose, tableVars
    <2>2. \A g \in Handlers : pc'[g] = pc[g] \/ {pc[g], pc'[g]} \cap {"check", "count", "pop"} = {}
      BY <1>10 DEF Lookup, ReadEntry, Apply, Reject, Raise, ReturnOk, Lose, Answer, GoTo,
         TypeInv, TypeOK
    <2>3. Evicting' = Evicting /\ Filling' = Filling
      BY <2>1, <2>2 DEF Evicting, Filling
    <2>. QED
      BY <1>1, <1>3, <2>1, <2>3
  <1>11. ASSUME NEW c \in Calls, Client(c)
         PROVE  Room'
    <2>1. UNCHANGED <<order, pops>>
      BY <1>11 DEF Client, Send, Receive, TransportError, GiveUpWaiting
    <2>2. \A g \in Handlers : pc'[g] \in {pc[g], "sent", "done"}
      BY <1>11 DEF Client, Send, Receive, TransportError, GiveUpWaiting, GoTo, TypeInv, TypeOK
    <2>3. \A g \in Handlers : pc'[g] = pc[g] \/ pc[g] \notin {"check", "count", "pop"}
      <3>1. CASE Send(c)
        <4>1. attempt[c] + 1 \in Attempts /\ pc[<<c, attempt[c] + 1>>] = "unsent"
          BY <3>1, ConstantsOK, Numbers
             DEF Send, MaySend, RetriesLeft, TypeInv, TypeOK, PhaseOK, Attempts,
                 Discipline, Disciplined
        <4>. QED
          BY <3>1, <4>1 DEF Send, GoTo, TypeInv, TypeOK
      <3>2. CASE Receive(c)
        BY <3>2 DEF Receive, GoTo, TypeInv, TypeOK
      <3>3. CASE UNCHANGED pc
        BY <3>3
      <3>. QED
        BY <1>11, <3>1, <3>2, <3>3 DEF Client, TransportError, GiveUpWaiting
    <2>4. Evicting' = Evicting /\ Filling' = Filling
      BY <2>1, <2>2, <2>3 DEF Evicting, Filling
    <2>. QED
      BY <1>1, <1>3, <2>1, <2>4
  <1>12. CASE UNCHANGED vars
    BY <1>12, <1>1, <1>3 DEF vars, Evicting, Filling
  <1>. QED
    BY <1>4, <1>5, <1>6, <1>7, <1>8, <1>9, <1>10, <1>11, <1>12
       DEF Next, Handler, Finished

(* The OrderedDict never holds more than its cap plus one entry for every   *)
(* handler that has stored a result and not yet left the eviction loop.     *)
THEOREM TableIsBounded == Spec => []CacheBound
  <1>1. Init => Discipline
    BY DEF Init, Discipline, Disciplined, Attempts, Handlers
  <1>2. TypeInv /\ Discipline /\ [Next]_vars => Discipline'
    BY DisciplineStep
  <1>3. Init => Room
    <2>. SUFFICES ASSUME Init
                  PROVE  Room
      OBVIOUS
    <2>1. Evicting = {} /\ Filling = {} /\ order = << >>
      BY DEF Init, Evicting, Filling
    <2>. QED
      BY <2>1, FS_EmptySet, ConstantsOK DEF Room
  <1>4. TypeInv /\ TypeInv' /\ Discipline /\ Room /\ [Next]_vars => Room'
    BY RoomStep
  <1>5. Room /\ TypeInv => CacheBound
    <2>. SUFFICES ASSUME Room, TypeInv
                  PROVE  CacheBound
      OBVIOUS
    <2>1. Filling \in SUBSET Evicting
      BY DEF Filling
    <2>2. Cardinality(Filling) <= Cardinality(Evicting) /\ Cardinality(Evicting) \in Nat
          /\ Cardinality(Filling) \in Nat
      BY <2>1, SmallerSet DEF Room
    <2>. QED
      BY <2>2, ConstantsOK DEF Room, CacheBound, Evicting, TypeInv, TypeOK
  <1>. QED
    BY <1>1, <1>2, <1>3, <1>4, <1>5, TypeInvariance, PTL DEF Spec

-----------------------------------------------------------------------------
(* One sequential client that never gives up early has one handler alive at *)
(* a time, so the table is what a single thread makes of it: `saved` and    *)
(* `order` have the same keys, a handler that runs fn() found no entry, and *)
(* the handler that evicts has its own entry last and pops fewer items than *)
(* the table holds.                                                         *)
Alone == \A c \in Calls : "overlap" \notin cause[c]

TableOK ==
    /\ \A i, j \in 1 .. Len(order) : order[i] = order[j] => i = j
    /\ \A c \in Calls : saved[c] # 0 <=> \E i \in 1 .. Len(order) : order[i] = c

HandlerOK(h) ==
    /\ pc[h] \in {"run", "applied", "store"} /\ h[1] \in Mutating => saved[h[1]] = 0
    /\ pc[h] = "store" => h[1] \in Mutating
    /\ pc[h] \in {"check", "count", "pop"} => order # << >> /\ order[Len(order)] = h[1]
    /\ pc[h] = "pop" => pops[h] < Len(order)

CallsOK ==
    /\ \A c, d \in InFlight : c = d
    /\ \A c \in Calls : ~ Ended(c) => "evicted" \notin cause[c]
    /\ \A c \in Calls : call[c] = "idle" => saved[c] = 0

Solo == Alone => TableOK /\ CallsOK /\ \A h \in Handlers : HandlerOK(h)

LEMMA CausesGrow ==
    ASSUME TypeInv, [Next]_vars, Alone'
    PROVE  Alone
  <1>1. ASSUME NEW c \in Calls
        PROVE  cause[c] \subseteq cause'[c]
    <2>1. ASSUME NEW d \in Calls, Client(d)
          PROVE  cause[c] \subseteq cause'[c]
      BY <2>1 DEF Client, Send, Receive, TransportError, GiveUpWaiting, Blame, TypeInv, TypeOK
    <2>2. ASSUME NEW h \in Handlers, Handler(h) \/ Lose(h)
          PROVE  cause[c] \subseteq cause'[c]
      BY <2>2, HandlerStep
    <2>3. CASE Restart
      BY <2>3 DEF Restart
    <2>. QED
      BY <2>1, <2>2, <2>3 DEF Next, Finished, vars
  <1>. QED
    BY <1>1 DEF Alone

\* The only handler alive is that of the current attempt of the call in flight.
LEMMA OneBusy ==
    ASSUME TypeInv, Discipline, Alone, CallsOK, NEW g \in Handlers, NEW h \in Handlers,
           pc[g] \notin Unsent \cup Over, pc[h] \notin Unsent \cup Over
    PROVE  g = h /\ call[h[1]] = "waiting"
  <1>1. ASSUME NEW f \in Handlers, pc[f] \notin Unsent \cup Over
        PROVE  call[f[1]] = "waiting"
    <2>1. "overlap" \notin cause[f[1]] /\ f[1] \in Calls /\ f[2] \in Attempts
      BY HandlerPair DEF Alone
    <2>2. ~ (f[2] > attempt[f[1]]) /\ ~ (f[2] < attempt[f[1]])
      BY <1>1, <2>1, HandlerPair DEF Discipline, Disciplined, Unsent
    <2>3. f[2] = attempt[f[1]]
      BY <2>1, <2>2, Numbers
    <2>. QED
      BY <1>1, <2>1, <2>3, HandlerPair DEF Discipline, Disciplined
  <1>2. g[1] = h[1]
    BY <1>1, HandlerPair DEF CallsOK, InFlight
  <1>. QED
    BY <1>1, <1>2, OneAlive, HandlerPair DEF Alone

\* So a step of handler h leaves HandlerOK to be shown of h alone.
LEMMA SoloKept ==
    ASSUME TypeInv, Discipline, Alone, Solo, NEW h \in Handlers, Handler(h) \/ Lose(h),
           TableOK', HandlerOK(h)',
           \A c \in Calls : ~ Ended(c) => "evicted" \notin cause'[c],
           \A c \in Calls : call[c] = "idle" => saved'[c] = 0
    PROVE  Solo'
  <1>1. /\ UNCHANGED call /\ pc[h] \notin Unsent \cup Over
        /\ \A g \in Handlers : g # h => pc'[g] = pc[g]
    BY HandlerStep DEF TypeInv, TypeOK
  <1>2. CallsOK'
    BY <1>1 DEF Solo, CallsOK, InFlight, Ended
  <1>3. ASSUME NEW g \in Handlers, g # h
        PROVE  HandlerOK(g)'
    <2>1. pc'[g] \in Unsent \cup Over
      BY <1>1, <1>3, OneBusy DEF Solo
    <2>. QED
      BY <2>1 DEF HandlerOK, Unsent, Over
  <1>. QED
    BY <1>2, <1>3 DEF Solo

LEMMA SendSolo ==
    ASSUME MaxInFlight = 1, TypeInv, Discipline, Alone, Solo, NEW c \in Calls, Send(c)
    PROVE  Solo'
  <1>1. /\ attempt[c] + 1 \in Attempts /\ <<c, attempt[c] + 1>> \in Handlers
        /\ pc[<<c, attempt[c] + 1>>] = "unsent"
    <2>1. attempt[c] + 1 \in Attempts
      BY NextAttempt, Zenon DEF Send
    <2>2. attempt[c] + 1 > attempt[c]
      BY Numbers
    <2>. QED
      BY <2>1, <2>2 DEF Discipline, Disciplined, Handlers
  <1>2. \A h \in Handlers : pc'[h] = pc[h] \/ pc'[h] = "sent"
    BY <1>1 DEF Send, GoTo, TypeInv, TypeOK
  <1>3. UNCHANGED <<pops, saved, order, cause>> /\ call' = [call EXCEPT ![c] = "waiting"]
    BY DEF Send
  <1>4. \A d, e \in InFlight' : d = e
    <2>1. InFlight' = InFlight \cup {c}
      BY <1>3 DEF InFlight, TypeInv, TypeOK
    <2>2. CASE c \in InFlight
      BY <2>1, <2>2 DEF Solo, CallsOK
    <2>3. CASE c \notin InFlight
      <3>1. Cardinality(InFlight) < 1
        BY <2>3 DEF Send, MaySend, InFlight
      <3>2. InFlight = {} \/ \E d : InFlight = {d}
        BY DEF Solo, CallsOK
      <3>3. \A d : InFlight = {d} => FALSE
        BY <3>1, FS_Singleton
      <3>. QED
        BY <2>1, <3>2, <3>3
    <2>. QED
      BY <2>2, <2>3
  <1>5. CallsOK'
    BY <1>3, <1>4 DEF Solo, CallsOK, Ended, Send, MaySend, TypeInv, TypeOK
  <1>6. TableOK' /\ \A h \in Handlers : HandlerOK(h)'
    BY <1>2, <1>3 DEF Solo, TableOK, HandlerOK
  <1>. QED
    BY <1>5, <1>6 DEF Solo

\* Moving an entry to the end keeps the entries.
LEMMA TouchTable ==
    ASSUME TypeInv, TypeInv', TableOK, NEW h \in Handlers, Touch(h)
    PROVE  TableOK'
  <1>. DEFINE s == order
              n == Len(order)
              t == order'
  <1>1. UNCHANGED saved
    BY DEF Touch
  <1>2. CASE UNCHANGED order
    BY <1>1, <1>2 DEF TableOK
  <1>3. ASSUME NEW i \in 1 .. n, s[i] = h[1],
               t = SubSeq(s, 1, i - 1) \o SubSeq(s, i + 1, Len(s)) \o <<h[1]>>
        PROVE  TableOK'
    <2>. DEFINE r == Without(s, i)
    <2>1. s \in Seq(Calls) /\ n \in Nat
      BY DEF TypeInv, TypeOK
    <2>2. /\ r \in Seq(Calls) /\ Len(r) = n - 1
          /\ \A k \in 1 .. n - 1 : r[k] = IF k < i THEN s[k] ELSE s[k + 1]
      BY Zenon, <1>3, <2>1, Removal
    <2>3. t = r \o <<h[1]>> /\ <<h[1]>> \in Seq(Calls)
      BY <1>3, HandlerPair DEF Without
    <2>. HIDE DEF r
    <2>4. Len(t) = n /\ t[n] = s[i] /\ \A k \in 1 .. n - 1 : t[k] = r[k]
      <3>. HIDE DEF s, t, n
      <3>1. r \in Seq(Calls) /\ Len(r) = n - 1 /\ n \in Nat /\ <<s[i]>> \in Seq(Calls)
            /\ t = r \o <<s[i]>>
        BY Zenon, <1>3, <2>1, <2>2, <2>3
      <3>. QED
        BY ONLY <3>1
    <2>. HIDE DEF s, t, n
    <2>. DEFINE from(k) == IF k = n THEN i ELSE IF k < i THEN k ELSE k + 1
    <2>5. ASSUME NEW k \in 1 .. n
          PROVE  t[k] = s[from(k)] /\ from(k) \in 1 .. n
      <3>1. CASE k = n
        BY <2>1, <2>4, <3>1
      <3>2. CASE k # n
        <4>1. k \in 1 .. n - 1
          BY <2>1, <3>2
        <4>. QED
          BY <2>1, <2>2, <2>4, <3>2, <4>1
      <3>. QED
        BY <3>1, <3>2
    <2>6. ASSUME NEW j \in 1 .. n, NEW k \in 1 .. n, from(j) = from(k)
          PROVE  j = k
      BY <2>1, <2>6
    <2>7. ASSUME NEW j \in 1 .. n
          PROVE  \E k \in 1 .. n : from(k) = j
      <3>. DEFINE at == IF j = i THEN n ELSE IF j < i THEN j ELSE j - 1
      <3>1. at \in 1 .. n /\ from(at) = j
        BY <2>1
      <3>. QED
        BY <3>1
    <2>. HIDE DEF from
    <2>8. ASSUME NEW j \in 1 .. n, NEW k \in 1 .. n, t[j] = t[k]
          PROVE  j = k
      <3>1. \A x, y \in 1 .. n : s[x] = s[y] => x = y
        BY Zenon DEF TableOK, s, n
      <3>2. /\ t[j] = s[from(j)] /\ from(j) \in 1 .. n
            /\ t[k] = s[from(k)] /\ from(k) \in 1 .. n
        BY <2>5, Zenon
      <3>3. from(j) = from(k)
        BY <2>8, <3>1, <3>2, Zenon
      <3>. QED
        BY <2>6, <3>3, Zenon
    <2>9. \A c \in Calls : (\E k \in 1 .. n : t[k] = c) <=> \E j \in 1 .. n : s[j] = c
      BY <2>5, <2>7
    <2>. QED
      BY <1>1, <2>4, <2>8, <2>9 DEF TableOK, s, t, n
  <1>. QED
    BY <1>2, <1>3 DEF Touch

\* Storing under a key that is not there appends it.
LEMMA StoreTable ==
    ASSUME TypeInv, TypeInv', TableOK, NEW h \in Handlers, HandlerOK(h), Store(h)
    PROVE  TableOK' /\ order' # << >> /\ order'[Len(order')] = h[1]
  <1>. DEFINE s == order
              n == Len(order)
              t == order'
  <1>1. h[1] \in Calls /\ h[2] # 0 /\ saved[h[1]] = 0
    BY HandlerPair DEF Store, HandlerOK, Attempts
  <1>2. s \in Seq(Calls) /\ n \in Nat /\ t = Append(s, h[1])
    BY <1>1 DEF Store, TypeInv, TypeOK
  <1>3. Len(t) = n + 1 /\ t[n + 1] = h[1] /\ \A k \in 1 .. n : t[k] = s[k]
    BY <1>1, <1>2
  <1>4. \A c \in Calls : saved'[c] = IF c = h[1] THEN h[2] ELSE saved[c]
    BY DEF Store, TypeInv, TypeOK
  <1>. HIDE DEF s, t, n
  <1>5. \A k \in 1 .. n : t[k] # h[1]
    BY <1>1, <1>3 DEF TableOK, s, n
  <1>6. \A j, k \in 1 .. n + 1 : t[j] = t[k] => j = k
    <2>1. \A j \in 1 .. n + 1 : j = n + 1 \/ j \in 1 .. n
      BY <1>2
    <2>. QED
      BY <1>3, <1>5, <2>1 DEF TableOK, s, n
  <1>7. ASSUME NEW c \in Calls
        PROVE  saved'[c] # 0 <=> \E k \in 1 .. n + 1 : t[k] = c
    <2>1. CASE c = h[1]
      <3>1. n + 1 \in 1 .. n + 1
        BY <1>2
      <3>. QED
        BY <1>1, <1>3, <1>4, <2>1, <3>1
    <2>2. CASE c # h[1]
      <3>1. (\E k \in 1 .. n + 1 : t[k] = c) <=> \E k \in 1 .. n : s[k] = c
        BY <1>2, <1>3, <2>2
      <3>. QED
        BY <1>4, <2>2, <3>1 DEF TableOK, s, n
    <2>. QED
      BY <2>1, <2>2
  <1>8. TableOK'
    BY <1>3, <1>6, <1>7 DEF TableOK, t
  <1>9. order' # << >>
    BY <1>2, <1>3 DEF t
  <1>. QED
    BY <1>3, <1>8, <1>9 DEF t

\* The eviction of the oldest entry spares the last one.
LEMMA PopTable ==
    ASSUME TypeInv, TypeInv', TableOK, NEW h \in Handlers, HandlerOK(h), PopItem(h),
           pops[h] > 0
    PROVE  /\ TableOK'
           /\ order[1] # h[1] /\ order[1] \in Calls /\ saved[order[1]] # 0
           /\ saved' = [saved EXCEPT ![order[1]] = 0]
           /\ cause' = [cause EXCEPT ![order[1]] = @ \cup {"evicted"}]
           /\ pc' = pc /\ HandlerOK(h)'
  <1>. DEFINE s == order
              n == Len(s)
              t == order'
  <1>1. /\ s # << >> /\ s[n] = h[1] /\ pops[h] < n /\ pops[h] \in Nat /\ pc[h] = "pop"
        /\ s \in Seq(Calls) /\ n \in Nat
    BY DEF PopItem, HandlerOK, TypeInv, TypeOK
  <1>2. n > 1 /\ 1 \in 1 .. n /\ n \in 1 .. n /\ n # 1
    BY <1>1
  <1>3. /\ pops' = [pops EXCEPT ![h] = @ - 1]
        /\ saved' = [saved EXCEPT ![s[1]] = 0]
        /\ t = Without(s, 1)
        /\ cause' = [cause EXCEPT ![s[1]] = @ \cup {"evicted"}]
        /\ pc' = pc
    BY <1>1 DEF PopItem, Oldest, Blame, Without
  <1>4. /\ Len(t) = n - 1
        /\ \A k \in 1 .. n - 1 : t[k] = IF k < 1 THEN s[k] ELSE s[k + 1]
    <2>1. s \in Seq(Calls) /\ 1 \in 1 .. Len(s) /\ t = Without(s, 1)
      BY <1>1, <1>2, <1>3
    <2>. QED
      BY Zenon, <2>1, Removal
  <1>5. \A c \in Calls : saved'[c] = IF c = s[1] THEN 0 ELSE saved[c]
    BY <1>3 DEF TypeInv, TypeOK
  <1>6. pops'[h] = pops[h] - 1
    BY <1>3 DEF TypeInv, TypeOK
  <1>7. s[1] \in Calls /\ s[1] # s[n] /\ saved[s[1]] # 0
    BY <1>1, <1>2 DEF TableOK
  <1>. HIDE DEF s, t, n
  <1>8. \A k \in 1 .. n - 1 : t[k] = s[k + 1] /\ k + 1 \in 1 .. n /\ k + 1 # 1
    BY <1>1, <1>4
  <1>9. \A j, k \in 1 .. n - 1 : t[j] = t[k] => j = k
    <2>. SUFFICES ASSUME NEW j \in 1 .. n - 1, NEW k \in 1 .. n - 1, t[j] = t[k]
                  PROVE  j = k
      OBVIOUS
    <2>1. j + 1 = k + 1
      BY <1>8 DEF TableOK, s, n
    <2>. QED
      BY <2>1, <1>1
  <1>10. ASSUME NEW c \in Calls
         PROVE  saved'[c] # 0 <=> \E k \in 1 .. n - 1 : t[k] = c
    <2>1. CASE c = s[1]
      <3>1. ASSUME NEW k \in 1 .. n - 1
            PROVE  t[k] # c
        BY <1>2, <1>8, <2>1 DEF TableOK, s, n
      <3>. QED
        BY <1>5, <2>1, <3>1
    <2>2. CASE c # s[1]
      <3>1. ASSUME NEW j \in 1 .. n, s[j] = c
            PROVE  \E k \in 1 .. n - 1 : t[k] = c
        <4>1. j - 1 \in 1 .. n - 1 /\ (j - 1) + 1 = j
          BY <1>1, <2>2, <3>1
        <4>. QED
          BY <1>8, <3>1, <4>1
      <3>2. ASSUME NEW k \in 1 .. n - 1, t[k] = c
            PROVE  \E j \in 1 .. n : s[j] = c
        BY <1>8, <3>2
      <3>3. saved[c] # 0 <=> \E j \in 1 .. n : s[j] = c
        BY DEF TableOK, s, n
      <3>. QED
        BY <1>5, <2>2, <3>1, <3>2, <3>3
    <2>. QED
      BY <2>1, <2>2
  <1>11. TableOK'
    BY <1>4, <1>9, <1>10 DEF TableOK, t, n, s
  <1>12. HandlerOK(h)'
    <2>1. t[n - 1] = s[n]
      BY <1>1, <1>2, <1>8
    <2>2. t # << >> /\ pops[h] - 1 < n - 1
      BY <1>1, <1>2, <1>4
    <2>. QED
      BY <1>1, <1>3, <1>4, <1>6, <2>1, <2>2 DEF HandlerOK, t, n, s
  <1>. QED
    BY <1>1, <1>3, <1>7, <1>11, <1>12 DEF s

LEMMA HandlerSolo ==
    ASSUME TypeInv, TypeInv', Discipline, Alone, Solo, NEW h \in Handlers,
           Handler(h) \/ Lose(h)
    PROVE  Solo'
  <1>1. /\ TableOK /\ CallsOK /\ HandlerOK(h)
        /\ h \in DOMAIN pc /\ h \in DOMAIN pops
    BY DEF Solo, TypeInv, TypeOK
  <1>2. ASSUME UNCHANGED <<saved, cause>>, TableOK', HandlerOK(h)'
        PROVE  Solo'
    BY <1>1, <1>2, SoloKept DEF CallsOK
  <1>3. CASE \/ Lookup(h) \/ ReadEntry(h) \/ Apply(h) \/ Reject(h) \/ ReturnOk(h)
             \/ CheckCap(h) \/ Lose(h)
    <2>1. UNCHANGED <<saved, order, cause>>
      BY <1>3 DEF Lookup, ReadEntry, Apply, Reject, ReturnOk, CheckCap, Lose, tableVars
    <2>2. TableOK'
      BY <1>1, <2>1 DEF TableOK
    <2>3. HandlerOK(h)'
      BY <1>1, <1>3, <2>1
         DEF Lookup, ReadEntry, Apply, Reject, ReturnOk, CheckCap, Lose, Answer, GoTo, HandlerOK
    <2>. QED
      BY <1>2, <2>1, <2>2, <2>3
  <1>4. CASE Raise(h)
    <2>1. UNCHANGED <<saved, order>> /\ pc' = [pc EXCEPT ![h] = "reply"]
      BY <1>4 DEF Raise, tableVars, Answer, GoTo
    <2>2. TableOK' /\ HandlerOK(h)'
      BY <1>1, <2>1 DEF TableOK, HandlerOK
    <2>3. \A c \in Calls : "evicted" \in cause'[c] => "evicted" \in cause[c]
      <3>1. UNCHANGED cause \/ cause' = [cause EXCEPT ![h[1]] = @ \cup {"raised"}]
        BY <1>4 DEF Raise, Blame
      <3>2. CASE cause' = [cause EXCEPT ![h[1]] = @ \cup {"raised"}]
        <4>1. \A c \in Calls : cause'[c] = IF c = h[1] THEN cause[c] \cup {"raised"} ELSE cause[c]
          BY Zenon, <3>2 DEF TypeInv, TypeOK
        <4>2. ASSUME NEW c \in Calls, "evicted" \in cause'[c]
              PROVE  "evicted" \in cause[c]
          <5>1. cause'[c] = cause[c] \/ cause'[c] = cause[c] \cup {"raised"}
            BY Zenon, <4>1
          <5>2. "evicted" # "raised"
            OBVIOUS
          <5>. QED
            BY Zenon, <4>2, <5>1, <5>2
        <4>. QED
          BY <4>2
      <3>. QED
        BY <3>1, <3>2
    <2>. QED
      BY <1>1, <2>1, <2>2, <2>3, SoloKept DEF CallsOK
  <1>5. CASE Touch(h)
    <2>1. UNCHANGED <<saved, cause>> /\ TableOK'
      BY <1>1, <1>5, TouchTable DEF Touch
    <2>2. HandlerOK(h)'
      BY <1>1, <1>5 DEF Touch, Answer, GoTo, HandlerOK
    <2>. QED
      BY <1>2, <2>1, <2>2
  <1>6. CASE Store(h)
    <2>1. TableOK' /\ order' # << >> /\ order'[Len(order')] = h[1]
      BY <1>1, <1>6, StoreTable
    <2>2. HandlerOK(h)'
      BY <1>1, <1>6, <2>1 DEF Store, GoTo, HandlerOK
    <2>3. call[h[1]] = "waiting"
      BY <1>1, <1>6, OneBusy DEF Store, Unsent, Over
    <2>4. \A c \in Calls : call[c] = "idle" => saved'[c] = 0
      BY <1>1, <1>6, <2>3 DEF Store, CallsOK, TypeInv, TypeOK
    <2>. QED
      BY <1>1, <1>6, <2>1, <2>2, <2>4, SoloKept DEF Store, CallsOK
  <1>7. CASE CountHalf(h)
    <2>1. /\ UNCHANGED <<saved, order, cause>> /\ pc'[h] = "pop" /\ pc[h] = "count"
          /\ pops'[h] = Len(order) \div 2
      BY <1>1, <1>7 DEF CountHalf, GoTo, tableVars
    <2>2. Len(order) \div 2 < Len(order)
      <3>1. order # << >> /\ order \in Seq(Calls)
        BY <1>1, <2>1 DEF HandlerOK, TypeInv, TypeOK
      <3>2. Len(order) \in Nat /\ Len(order) > 0
        BY <3>1
      <3>. QED
        BY <3>2
    <2>3. TableOK' /\ HandlerOK(h)'
      BY <1>1, <2>1, <2>2 DEF TableOK, HandlerOK
    <2>. QED
      BY <1>2, <2>1, <2>3
  <1>8. CASE PopItem(h) /\ pops[h] > 0
    <2>1. /\ TableOK' /\ HandlerOK(h)'
          /\ order[1] # h[1] /\ order[1] \in Calls /\ saved[order[1]] # 0
          /\ saved' = [saved EXCEPT ![order[1]] = 0]
          /\ cause' = [cause EXCEPT ![order[1]] = @ \cup {"evicted"}]
      BY <1>1, <1>8, PopTable
    <2>2. call[h[1]] = "waiting" /\ h[1] \in InFlight
      BY <1>1, <1>8, OneBusy, HandlerPair DEF PopItem, Unsent, Over, InFlight
    <2>3. Ended(order[1])
      <3>1. call[order[1]] # "idle" /\ order[1] \notin InFlight
        BY <1>1, <2>1, <2>2 DEF CallsOK
      <3>. QED
        BY <2>1, <3>1 DEF InFlight, Ended, TypeInv, TypeOK
    <2>4. \A c \in Calls : ~ Ended(c) => "evicted" \notin cause'[c]
      BY <1>1, <2>1, <2>3 DEF CallsOK, TypeInv, TypeOK
    <2>5. \A c \in Calls : call[c] = "idle" => saved'[c] = 0
      BY <1>1, <2>1 DEF CallsOK, TypeInv, TypeOK
    <2>. QED
      BY <2>1, <2>4, <2>5, SoloKept
  <1>9. CASE PopItem(h) /\ ~ (pops[h] > 0)
    <2>1. UNCHANGED <<saved, order, cause>> /\ pc' = [pc EXCEPT ![h] = "reply"]
      BY <1>9 DEF PopItem, tableVars, GoTo
    <2>2. TableOK' /\ HandlerOK(h)'
      BY <1>1, <2>1 DEF TableOK, HandlerOK
    <2>. QED
      BY <1>2, <2>1, <2>2
  <1>. QED
    BY <1>3, <1>4, <1>5, <1>6, <1>7, <1>8, <1>9 DEF Handler

LEMMA SoloStep ==
    ASSUME MaxInFlight = 1, TypeInv, TypeInv', Discipline, Solo, [Next]_vars
    PROVE  Solo'
  <1>. SUFFICES ASSUME Alone'
                PROVE  Solo'
    BY DEF Solo
  <1>1. Alone /\ TableOK /\ CallsOK /\ \A h \in Handlers : HandlerOK(h)
    BY CausesGrow DEF Solo
  <1>2. ASSUME NEW c \in Calls, Receive(c) \/ TransportError(c)
        PROVE  Solo'
    <2>1. UNCHANGED <<pops, saved, order, cause>>
      BY <1>2 DEF Receive, TransportError
    <2>2. \A h \in Handlers : pc'[h] \in {pc[h], "done"}
      BY <1>2 DEF Receive, TransportError, GoTo, TypeInv, TypeOK
    <2>3. /\ call[c] = "waiting" /\ call'[c] \in {"backoff", "ok", "failed"}
          /\ \A d \in Calls : d # c => call'[d] = call[d]
      BY <1>2 DEF Receive, TransportError, RetryOrFail, TypeInv, TypeOK
    <2>4. \A d \in Calls : (d \in InFlight' => d \in InFlight) /\ (Ended(d) => Ended(d)')
                           /\ (call'[d] = "idle" => call[d] = "idle")
      BY <2>3 DEF InFlight, Ended
    <2>5. InFlight' \subseteq Calls
      BY DEF InFlight
    <2>6. CallsOK'
      BY <1>1, <2>1, <2>4, <2>5 DEF CallsOK
    <2>7. TableOK' /\ \A h \in Handlers : HandlerOK(h)'
      BY <1>1, <2>1, <2>2 DEF TableOK, HandlerOK
    <2>. QED
      BY <2>6, <2>7 DEF Solo
  <1>3. ASSUME NEW c \in Calls, GiveUpWaiting(c)
        PROVE  Solo'
    BY <1>3 DEF GiveUpWaiting, Blame, Alone, TypeInv, TypeOK
  <1>4. CASE Restart
    <2>1. /\ saved' = [c \in Calls |-> 0] /\ order' = << >> /\ UNCHANGED call
          /\ \A h \in Handlers : pc'[h] \notin Serving
          /\ \A c \in Calls : "evicted" \in cause'[c] => "evicted" \in cause[c]
      BY <1>4 DEF Restart, clientVars, Serving
    <2>2. TableOK' /\ \A h \in Handlers : HandlerOK(h)'
      BY <2>1 DEF TableOK, HandlerOK, Serving
    <2>3. CallsOK'
      BY <1>1, <2>1 DEF CallsOK, InFlight, Ended
    <2>. QED
      BY <2>2, <2>3 DEF Solo
  <1>5. CASE UNCHANGED vars
    BY <1>1, <1>5 DEF vars, Solo, TableOK, CallsOK, HandlerOK, InFlight, Ended
  <1>. QED
    BY <1>1, <1>2, <1>3, <1>4, <1>5, SendSolo, HandlerSolo DEF Next, Client, Finished

(* A single sequential client (one call in flight at a time) never loses    *)
(* the table entry of the call it is still retrying, unless it gave up on   *)
(* an attempt in progress before: whatever the cap, even one.               *)
THEOREM FreshEntriesKept ==
    ASSUME MaxInFlight = 1
    PROVE  Spec => []LiveEntriesKept
  <1>1. Init => Discipline
    BY DEF Init, Discipline, Disciplined, Attempts, Handlers
  <1>2. TypeInv /\ Discipline /\ [Next]_vars => Discipline'
    BY DisciplineStep
  <1>3. Init => Solo
    BY DEF Init, Solo, TableOK, CallsOK, HandlerOK, InFlight, Ended
  <1>4. TypeInv /\ TypeInv' /\ Discipline /\ Solo /\ [Next]_vars => Solo'
    BY SoloStep
  <1>5. Solo => LiveEntriesKept
    BY DEF Solo, CallsOK, Alone, LiveEntriesKept, InFlight, Ended
  <1>. QED
    BY <1>1, <1>2, <1>3, <1>4, <1>5, TypeInvariance, PTL DEF Spec
=============================================================================
