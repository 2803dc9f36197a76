--------------------------- MODULE IdempotentRpc ---------------------------
(***************************************************************************)
(* The request pipeline between RemoteEnvironmentBackend._request (client, *)
(* environment/remote.py) and the _idempotent wrapper of make_app (server, *)
(* environment/server.py).                                                 *)
(*                                                                         *)
(* A call is one invocation of _request: it has one request_id, reused by  *)
(* its attempts, so the call itself stands for the key (method, path, rid) *)
(* of the idempotency table.  Every attempt that reaches the server runs   *)
(* in its own thread-pool thread (the endpoints are sync `def`s), called a *)
(* handler here: the n-th attempt of call c is the handler <<c, n>>, and   *)
(* pc[<<c, n>>] follows it from the wire through _idempotent and back.     *)
(* Each step between two accesses to shared state is an action.            *)
(*                                                                         *)
(* A definition Mut<Name> is <Name> with a plausible bug.  Nothing uses it: *)
(* it is put in place of <Name> to see that a property catches the bug.    *)
(***************************************************************************)
EXTENDS Integers, Sequences, FiniteSets

CONSTANTS
    Calls,        \* the calls of all clients (one request_id each)
    Mutating,     \* those of them that carry a request_id (POST, DELETE)
    MaxAttempts,  \* max_retries + 1
    Cap,          \* IDEMPOTENCY_CACHE_CAP
    MaxInFlight,  \* how many client processes issue calls concurrently
    Faults        \* the faults the environment may inject

FaultKinds == {"loss", "overlap", "reject", "raise", "restart"}

ASSUME ConstantsOK ==
    /\ Mutating \subseteq Calls
    /\ MaxAttempts \in Nat \ {0}
    /\ Cap \in Nat \ {0}
    /\ MaxInFlight \in Nat \ {0}
    /\ Faults \subseteq FaultKinds

Attempts == 1 .. MaxAttempts
Handlers == Calls \X Attempts

VARIABLES
    call,      \* client: what _request is doing for each call
    attempt,   \* client: number of attempts sent so far
    answer,    \* client: the execution whose result the call returned, 0 = none
    pc,        \* per attempt: where the request, its handler or its reply is
    reply,     \* per handler: what it answers (status, execution replayed)
    pops,      \* per handler: popitem() calls left in the eviction loop
    saved,     \* idem as a mapping: the execution stored under the key, 0 = absent
    order,     \* idem as an OrderedDict: its keys, oldest first
    effects,   \* history: the executions of fn() whose effect took place
    cause      \* history: per call, what voided the promise of the table

clientVars == <<call, attempt, answer>>
tableVars  == <<saved, order>>
vars == <<call, attempt, answer, pc, reply, pops, saved, order, effects, cause>>

Unsent  == {"unsent"}
Serving == {"touch", "read", "run", "applied", "store", "check", "count", "pop"}
Over    == {"lost", "done"}
Places  == Unsent \cup {"sent", "reply"} \cup Serving \cup Over
Causes  == {"overlap", "evicted", "raised", "restart"}

Ok(n)    == [status |-> "ok",   by |-> n]
Error(s) == [status |-> s,      by |-> 0]
Replies  == [status : {"none", "ok", "4xx", "5xx"}, by : 0 .. MaxAttempts]

Ended(c)       == call[c] \in {"ok", "failed"}
InFlight       == {c \in Calls : call[c] \in {"waiting", "backoff"}}
Current(c)     == <<c, attempt[c]>>
EffectsOf(c)   == {h \in effects : h[1] = c}
Blame(c, why)  == cause' = [cause EXCEPT ![c] = @ \cup {why}]
GoTo(h, place) == pc' = [pc EXCEPT ![h] = place]

-----------------------------------------------------------------------------
(* The client: RemoteEnvironmentBackend._request.                          *)

MutRetriesLeft(c) == attempt[c] <= MaxAttempts
RetriesLeft(c) == attempt[c] < MaxAttempts

MutRetryOrFail(c) == call' = [call EXCEPT ![c] = "backoff"]
RetryOrFail(c) == call' = [call EXCEPT ![c] = IF RetriesLeft(c) THEN "backoff" ELSE "failed"]

\* A call may start, or wake up after time.sleep and try again.
MutMaySend(c) ==
    \/ call[c] = "idle" /\ Cardinality(InFlight) < MaxInFlight
    \/ call[c] \in {"backoff", "failed"} /\ RetriesLeft(c)
MaySend(c) ==
    \/ call[c] = "idle" /\ Cardinality(InFlight) < MaxInFlight
    \/ call[c] = "backoff" /\ RetriesLeft(c)

Send(c) ==
    /\ MaySend(c)
    /\ call' = [call EXCEPT ![c] = "waiting"]
    /\ attempt' = [attempt EXCEPT ![c] = @ + 1]
    /\ GoTo(<<c, attempt[c] + 1>>, "sent")
    /\ UNCHANGED <<answer, reply, pops, saved, order, effects, cause>>

\* A response arrives: 5xx is retried unless it was the last attempt, any
\* other status >= 400 is raised at once, the rest is returned.
Receive(c) ==
    LET h == Current(c) IN
    /\ call[c] = "waiting" /\ pc[h] = "reply"
    /\ \/ /\ reply[h].status = "ok"
          /\ call' = [call EXCEPT ![c] = "ok"]
          /\ answer' = [answer EXCEPT ![c] = reply[h].by]
       \/ reply[h].status = "5xx" /\ RetryOrFail(c) /\ UNCHANGED answer
       \/ /\ reply[h].status = "4xx"
          /\ call' = [call EXCEPT ![c] = "failed"]
          /\ UNCHANGED answer
    /\ GoTo(h, "done")
    /\ UNCHANGED <<attempt, reply, pops, saved, order, effects, cause>>

\* httpx.TransportError on an attempt that is known to be dead.
TransportError(c) ==
    /\ call[c] = "waiting" /\ pc[Current(c)] = "lost"
    /\ RetryOrFail(c)
    /\ UNCHANGED <<attempt, answer, pc, reply, pops, saved, order, effects, cause>>

\* httpx.TransportError (the 120 s read timeout, a dropped tunnel) while the
\* attempt is still travelling or its handler still works.
GiveUpWaiting(c) ==
    /\ "overlap" \in Faults
    /\ call[c] = "waiting" /\ pc[Current(c)] \in Serving \cup {"sent"}
    /\ RetryOrFail(c)
    /\ Blame(c, "overlap")
    /\ UNCHANGED <<attempt, answer, pc, reply, pops, saved, order, effects>>

-----------------------------------------------------------------------------
(* The server: _idempotent(method, path, rid, fn), one step per access.    *)

Answer(h, r) == GoTo(h, "reply") /\ reply' = [reply EXCEPT ![h] = r]

\* `if key in idem`: a request without request_id goes straight to fn().
MutLookup(h) ==
    /\ pc[h] = "sent"
    /\ GoTo(h, IF h[1] \in Mutating /\ saved[h[1]] # 0 THEN "touch" ELSE "run")
    /\ saved' = [saved EXCEPT ![h[1]] = IF @ = 0 THEN h[2] ELSE @]
    /\ order' = IF saved[h[1]] = 0 THEN Append(order, h[1]) ELSE order
    /\ UNCHANGED <<clientVars, reply, pops, effects, cause>>
Lookup(h) ==
    /\ pc[h] = "sent"
    /\ GoTo(h, IF h[1] \in Mutating /\ saved[h[1]] # 0 THEN "touch" ELSE "run")
    /\ UNCHANGED <<clientVars, reply, pops, tableVars, effects, cause>>

\* `idem.move_to_end(key)`: KeyError (a 500) when the key has gone meanwhile.
Touch(h) ==
    /\ pc[h] = "touch"
    /\ \/ \E i \in 1 .. Len(order) :
             /\ order[i] = h[1]
             /\ order' = SubSeq(order, 1, i - 1) \o SubSeq(order, i + 1, Len(order))
                           \o <<h[1]>>
             /\ GoTo(h, "read")
             /\ UNCHANGED reply
       \/ /\ \A i \in 1 .. Len(order) : order[i] # h[1]
          /\ Answer(h, Error("5xx"))
          /\ UNCHANGED order
    /\ UNCHANGED <<clientVars, pops, saved, effects, cause>>

\* `return idem[key]`: KeyError again when the key has gone meanwhile.
ReadEntry(h) ==
    /\ pc[h] = "read"
    /\ Answer(h, IF saved[h[1]] # 0 THEN Ok(saved[h[1]]) ELSE Error("5xx"))
    /\ UNCHANGED <<clientVars, pops, tableVars, effects, cause>>

\* `fn()` takes effect.
Apply(h) ==
    /\ pc[h] = "run"
    /\ effects' = effects \cup {h}
    /\ GoTo(h, "applied")
    /\ UNCHANGED <<clientVars, reply, pops, tableVars, cause>>

\* `fn()` raises HTTPException (404, 422) before it changed anything.
Reject(h) ==
    /\ "reject" \in Faults
    /\ pc[h] = "run"
    /\ Answer(h, Error("4xx"))
    /\ UNCHANGED <<clientVars, pops, tableVars, effects, cause>>

\* `fn()` raises anything else, before or after it took effect: a 500 that
\* is not entered in the table.
Raise(h) ==
    /\ "raise" \in Faults
    /\ pc[h] \in {"run", "applied"}
    /\ Answer(h, Error("5xx"))
    /\ IF pc[h] = "applied" THEN Blame(h[1], "raised") ELSE UNCHANGED cause
    /\ UNCHANGED <<clientVars, pops, tableVars, effects>>

\* `result = fn()` is bound; only a request with a request_id stores it.
ReturnOk(h) ==
    /\ pc[h] = "applied"
    /\ reply' = [reply EXCEPT ![h] = Ok(h[2])]
    /\ GoTo(h, IF h[1] \in Mutating THEN "store" ELSE "reply")
    /\ UNCHANGED <<clientVars, pops, tableVars, effects, cause>>

\* `idem[key] = result`: a key already present keeps its place in the order.
MutStore(h) ==
    /\ pc[h] = "store"
    /\ GoTo(h, "check")
    /\ UNCHANGED <<clientVars, reply, pops, tableVars, effects, cause>>
Store(h) ==
    /\ pc[h] = "store"
    /\ saved' = [saved EXCEPT ![h[1]] = h[2]]
    /\ order' = IF saved[h[1]] = 0 THEN Append(order, h[1]) ELSE order
    /\ GoTo(h, "check")
    /\ UNCHANGED <<clientVars, reply, pops, effects, cause>>

\* `if len(idem) > IDEMPOTENCY_CACHE_CAP`
MutOverCap == Len(order) > Cap + 1
OverCap == Len(order) > Cap

CheckCap(h) ==
    /\ pc[h] = "check"
    /\ GoTo(h, IF OverCap THEN "count" ELSE "reply")
    /\ UNCHANGED <<clientVars, reply, pops, tableVars, effects, cause>>

\* `range(len(idem) // 2)`, evaluated after the test of the line above.
CountHalf(h) ==
    /\ pc[h] = "count"
    /\ pops' = [pops EXCEPT ![h] = Len(order) \div 2]
    /\ GoTo(h, "pop")
    /\ UNCHANGED <<clientVars, reply, tableVars, effects, cause>>

\* `idem.popitem(last=False)`, or the end of the loop, or the KeyError of a
\* dictionary that other evictions have emptied.
MutOldest == Len(order)
Oldest == 1

PopItem(h) ==
    /\ pc[h] = "pop"
    /\ \/ /\ pops[h] = 0
          /\ GoTo(h, "reply")
          /\ UNCHANGED <<reply, pops, tableVars, cause>>
       \/ /\ pops[h] > 0 /\ order # << >>
          /\ pops' = [pops EXCEPT ![h] = @ - 1]
          /\ saved' = [saved EXCEPT ![order[Oldest]] = 0]
          /\ order' = SubSeq(order, 1, Oldest - 1) \o SubSeq(order, Oldest + 1, Len(order))
          /\ Blame(order[Oldest], "evicted")
          /\ UNCHANGED <<pc, reply>>
       \/ /\ pops[h] > 0 /\ order = << >>
          /\ pops' = [pops EXCEPT ![h] = 0]
          /\ Answer(h, Error("5xx"))
          /\ UNCHANGED <<tableVars, cause>>
    /\ UNCHANGED <<clientVars, effects>>

-----------------------------------------------------------------------------
(* The network and the server process.                                     *)

\* The request never reaches the server, or the response never gets back.
\* The loss of an attempt the client has given up on is not told from delay.
Lose(h) ==
    /\ "loss" \in Faults
    /\ call[h[1]] = "waiting" /\ h = Current(h[1])
    /\ pc[h] \in {"sent", "reply"}
    /\ GoTo(h, "lost")
    /\ UNCHANGED <<clientVars, reply, pops, tableVars, effects, cause>>

\* The server dies and comes back: make_app starts with an empty table, and
\* the handlers of the old process are gone.
Restart ==
    /\ "restart" \in Faults
    /\ pc' = [h \in Handlers |-> IF pc[h] \in Serving THEN "lost" ELSE pc[h]]
    /\ pops' = [h \in Handlers |-> 0]
    /\ saved' = [c \in Calls |-> 0]
    /\ order' = << >>
    /\ cause' = [c \in Calls |->
                   IF EffectsOf(c) = {} THEN cause[c] ELSE cause[c] \cup {"restart"}]
    /\ UNCHANGED <<clientVars, reply, effects>>

-----------------------------------------------------------------------------
Init ==
    /\ call = [c \in Calls |-> "idle"]
    /\ attempt = [c \in Calls |-> 0]
    /\ answer = [c \in Calls |-> 0]
    /\ pc = [h \in Handlers |-> "unsent"]
    /\ reply = [h \in Handlers |-> Error("none")]
    /\ pops = [h \in Handlers |-> 0]
    /\ saved = [c \in Calls |-> 0]
    /\ order = << >>
    /\ effects = {}
    /\ cause = [c \in Calls |-> {}]

Client(c) == Send(c) \/ Receive(c) \/ TransportError(c) \/ GiveUpWaiting(c)

Handler(h) ==
    \/ Lookup(h) \/ Touch(h) \/ ReadEntry(h)
    \/ Apply(h) \/ Reject(h) \/ Raise(h) \/ ReturnOk(h)
    \/ Store(h) \/ CheckCap(h) \/ CountHalf(h) \/ PopItem(h)

\* Every call is over and no request is left anywhere.
Finished ==
    /\ \A c \in Calls : Ended(c)
    /\ \A h \in Handlers : pc[h] \notin Serving \cup {"sent"}
    /\ UNCHANGED vars

Next ==
    \/ \E c \in Calls : Client(c)
    \/ \E h \in Handlers : Handler(h) \/ Lose(h)
    \/ Restart
    \/ Finished

Spec == Init /\ [][Next]_vars

\* The client's loop always goes on: httpx raises after `timeout` seconds and
\* time.sleep returns.  Nothing is assumed of the server or the network.
FairSpec == Spec /\ \A c \in Calls : WF_vars(Client(c))

-----------------------------------------------------------------------------
TypeOK ==
    /\ call \in [Calls -> {"idle", "waiting", "backoff", "ok", "failed"}]
    /\ attempt \in [Calls -> 0 .. MaxAttempts]
    /\ answer \in [Calls -> 0 .. MaxAttempts]
    /\ pc \in [Handlers -> Places]
    /\ reply \in [Handlers -> Replies]
    /\ pops \in [Handlers -> Nat]
    /\ saved \in [Calls -> 0 .. MaxAttempts]
    /\ order \in Seq(Calls)
    /\ effects \subseteq Handlers
    /\ cause \in [Calls -> SUBSET Causes]

(* server.py:18-21: a replayed request_id "is not executed again".  The     *)
(* promise, unconditionally: no two executions of one mutating call.        *)
AtMostOnce ==
    \A c \in Mutating : \A g, h \in EffectsOf(c) : g = h

(* What the code delivers: a mutating call executes twice only after one of *)
(* four events hit that very call: the client gave up on an attempt that    *)
(* was still being served, its table entry was evicted, fn() raised after   *)
(* its effect, or the server restarted after the effect.                    *)
AtMostOnceUnlessCaused ==
    \A c \in Mutating : cause[c] = {} => \A g, h \in EffectsOf(c) : g = h

(* A success that _request returns is the result of an execution of that    *)
(* very call, whatever overlaps, evictions, errors and restarts happened.   *)
AnswerSound == \A c \in Calls : call[c] = "ok" => <<c, answer[c]>> \in effects

(* The OrderedDict exceeds its cap by no more than the handlers that have   *)
(* stored a result and not yet left the eviction loop.                      *)
CacheBound ==
    Len(order) <= Cap + Cardinality({h \in Handlers : pc[h] \in {"check", "count", "pop"}})

(* Once _request has returned or raised, the call is over for good: unless  *)
(* the client gave up on an attempt in progress, no later step executes fn  *)
(* for it, and no step reopens it.                                          *)
EndedCallsAreQuiet ==
    [][\A c \in Calls : Ended(c) =>
         /\ call'[c] = call[c]
         /\ "overlap" \notin cause[c] => EffectsOf(c)' = EffectsOf(c)]_vars

(* A single sequential client never loses the entry of the call it is still *)
(* retrying, unless it gave up on an attempt in progress before: eviction   *)
(* takes the oldest half, never the freshest entry.                         *)
LiveEntriesKept ==
    \A c \in InFlight :
        "evicted" \in cause[c] => \E d \in Calls : "overlap" \in cause[d]

(* Every call that starts ends, with a result or an error, even when the    *)
(* server hangs and every message is lost.                                  *)
EveryCallEnds == \A c \in Calls : (call[c] = "waiting") ~> Ended(c)

=============================================================================
