----------------------------- MODULE DockerEnv -----------------------------
(***************************************************************************)
(* The life of Docker environments on the environment server: the env      *)
(* registry of make_app (environment/server.py), LocalDockerBackend        *)
(* (env_server/docker/backend.py) and DockerExecutor with its container    *)
(* (env_server/docker/executors.py).                                       *)
(*                                                                         *)
(* A request is one HTTP request served in a thread of its own; nothing in *)
(* the server serializes requests on the same environment.  Each request   *)
(* makes at most one environment (create) and at most one executor (create *)
(* or reset), so environments, executors and their containers are named    *)
(* after the request that makes them.  A step is what happens between two  *)
(* accesses to state that other threads share.                             *)
(*                                                                         *)
(* A definition Mut<Name> is <Name> with a plausible bug.  Nothing uses it: *)
(* it is put in place of <Name> to see that a property catches the bug.    *)
(***************************************************************************)
EXTENDS Integers, FiniteSets

CONSTANTS
    Requests,  \* the requests the server receives
    NoOne,     \* no environment, no executor
    Execs,     \* docker exec calls of one execute or export_patch
    Faults     \* the faults the environment may inject

FaultKinds == {"run", "seed", "setup", "rm", "timeout", "overlap"}

ASSUME ConstantsOK ==
    /\ NoOne \notin Requests
    /\ Execs \in Nat \ {0}
    /\ Faults \subseteq FaultKinds

Ops == {"create", "reset", "execute", "finish", "export", "destroy"}

VARIABLES
    op,          \* per request: the endpoint
    pc,          \* per request: where its thread is
    env,         \* per request: the environment it looked up or makes
    exe,         \* per request: the executor its thread holds
    left,        \* per request: docker exec calls to go
    result,      \* per request: how it ended
    envs,        \* server: the registry, `envs`
    executor,    \* per environment: EnvHandle.executor
    closed,      \* the environments with EnvHandle.closed
    finished,    \* the environments with EnvHandle.finished
    started,     \* the executors with DockerExecutor._started
    launching,   \* the requests between `docker run` and `_started = True`
    running,     \* daemon: the containers that exist
    workspace,   \* daemon: what /workspace of each container holds
    overlapped,  \* history: environments that served two requests at once
    unremoved,   \* history: containers whose `docker rm -f` failed
    strays       \* history: requests that ran a command where no set-up has been run

requestVars == <<op, env, left>>
handleVars  == <<executor, closed, finished>>
dockerVars  == <<started, launching, running, workspace>>
historyVars == <<overlapped, unremoved, strays>>
vars == <<op, pc, env, exe, left, result, envs, executor, closed, finished,
          started, launching, running, workspace, overlapped, unremoved, strays>>

Busy    == {"check", "recheck", "fetch", "exec", "run", "assign", "setup",
            "register", "close", "unset", "mark"}
Active(r) == pc[r] \in Busy
Known   == {v \in Requests : op[v] = "create" /\ result[v] = "ok"}

GoTo(r, place)   == pc' = [pc EXCEPT ![r] = place]
Finish(r, how)   == GoTo(r, "done") /\ result' = [result EXCEPT ![r] = how]
Continue(r, p)   == GoTo(r, p) /\ UNCHANGED result
Hold(r, e)       == exe' = [exe EXCEPT ![r] = e]

-----------------------------------------------------------------------------
(* server.py: the endpoints find the handle, or answer 404.                *)

BeginCreate(r) ==
    /\ pc[r] = "idle"
    /\ op' = [op EXCEPT ![r] = "create"]
    /\ env' = [env EXCEPT ![r] = r]
    /\ Hold(r, r)
    /\ Continue(r, "run")
    /\ UNCHANGED <<left, envs, handleVars, dockerVars, historyVars>>

Found(r, v, o) ==
    /\ op' = [op EXCEPT ![r] = o]
    /\ env' = [env EXCEPT ![r] = v]
    /\ left' = [left EXCEPT ![r] = Execs]
    /\ LET others == {q \in Requests : Active(q) /\ env[q] = v} IN
         /\ others # {} => "overlap" \in Faults
         /\ overlapped' = IF others # {} THEN overlapped \cup {v} ELSE overlapped
    /\ Continue(r, "check")
    /\ UNCHANGED <<exe, handleVars, dockerVars, unremoved, strays>>

\* reset_env, do_action, get_patch: `env = envs.get(env_id)`.
MutGetEnv(r, v, o) ==
    /\ pc[r] = "idle"
    /\ Found(r, v, o)
    /\ UNCHANGED envs
GetEnv(r, v, o) ==
    /\ pc[r] = "idle" /\ v \in envs
    /\ Found(r, v, o)
    /\ UNCHANGED envs

\* destroy_env: `env = envs.pop(env_id, None)`, before backend.destroy.
MutPopEnv(r, v) ==
    /\ pc[r] = "idle" /\ v \in envs
    /\ Found(r, v, "destroy")
    /\ UNCHANGED envs
PopEnv(r, v) ==
    /\ pc[r] = "idle" /\ v \in envs
    /\ Found(r, v, "destroy")
    /\ envs' = envs \ {v}

NotFound(r, v, o) ==
    /\ pc[r] = "idle" /\ v \in Known \ envs
    /\ op' = [op EXCEPT ![r] = o]
    /\ Finish(r, "404")
    /\ UNCHANGED <<env, exe, left, envs, handleVars, dockerVars, historyVars>>

-----------------------------------------------------------------------------
(* backend.py: what a request does with the handle.                        *)

\* The first line of reset, execute, export_patch and destroy.
CheckClosed(r) ==
    /\ pc[r] = "check"
    /\ IF env[r] \in closed
         THEN Finish(r, IF op[r] = "destroy" THEN "ok" ELSE "500")
         ELSE Continue(r, CASE op[r] \in {"reset", "destroy"} -> "close"
                            [] op[r] = "finish" -> "recheck"
                            [] OTHER -> "fetch")
    /\ UNCHANGED <<exe, requestVars, envs, handleVars, dockerVars, historyVars>>

\* FinishAction calls export_patch, which checks again.
RecheckClosed(r) ==
    /\ pc[r] = "recheck"
    /\ IF env[r] \in closed THEN Finish(r, "500") ELSE Continue(r, "fetch")
    /\ UNCHANGED <<exe, requestVars, envs, handleVars, dockerVars, historyVars>>

\* `env.executor` is read: once for a tool call, before every command of
\* export_patch and of reset's set-up.
Fetch(r) ==
    /\ pc[r] = "fetch"
    /\ Hold(r, executor[env[r]])
    /\ Continue(r, IF op[r] = "reset" THEN "setup" ELSE "exec")
    /\ UNCHANGED <<requestVars, envs, handleVars, dockerVars, historyVars>>

\* reset: `env.executor = self._make_executor(...)`, already seeded.
MutAssign(r) ==
    /\ pc[r] = "assign"
    /\ Continue(r, "fetch")
    /\ UNCHANGED <<exe, requestVars, envs, handleVars, dockerVars, historyVars>>
Assign(r) ==
    /\ pc[r] = "assign"
    /\ executor' = [executor EXCEPT ![env[r]] = r]
    /\ Continue(r, "fetch")
    /\ UNCHANGED <<exe, requestVars, envs, closed, finished, dockerVars, historyVars>>

\* create returns the handle, create_env enters it in the registry.
Register(r) ==
    /\ pc[r] = "register"
    /\ envs' = envs \cup {r}
    /\ executor' = [executor EXCEPT ![r] = r]
    /\ Finish(r, "ok")
    /\ UNCHANGED <<exe, requestVars, closed, finished, dockerVars, historyVars>>

\* destroy: `env.closed = True`.
MutMarkClosed(r) ==
    /\ pc[r] = "mark"
    /\ Finish(r, "ok")
    /\ UNCHANGED <<exe, requestVars, envs, handleVars, dockerVars, historyVars>>
MarkClosed(r) ==
    /\ pc[r] = "mark"
    /\ closed' = closed \cup {env[r]}
    /\ Finish(r, "ok")
    /\ UNCHANGED <<exe, requestVars, envs, executor, finished, dockerVars, historyVars>>

-----------------------------------------------------------------------------
(* executors.py: start, seed_from_snapshot, _exec and close.               *)

NeedsStart(r) == pc[r] \in {"run", "setup", "exec"} /\ exe[r] \notin started
Ready(r)      == exe[r] \in started /\ r \notin launching

\* start(): `docker run` unless _started; the name may be taken.
DockerRun(r) ==
    /\ NeedsStart(r) /\ r \notin launching
    /\ \/ /\ exe[r] \notin running
          /\ running' = running \cup {exe[r]}
          /\ workspace' = [workspace EXCEPT ![exe[r]] = "image"]
          /\ launching' = launching \cup {r}
          /\ UNCHANGED <<pc, result>>
       \/ /\ exe[r] \in running \/ "run" \in Faults
          /\ Finish(r, "500")
          /\ UNCHANGED <<running, workspace, launching>>
    /\ UNCHANGED <<exe, requestVars, envs, handleVars, started, historyVars>>

\* start(): `self._started = True`.
MarkStarted(r) ==
    /\ r \in launching
    /\ started' = started \cup {exe[r]}
    /\ launching' = launching \ {r}
    /\ UNCHANGED <<pc, exe, requestVars, result, envs, handleVars, running,
                   workspace, historyVars>>

\* seed_from_snapshot after start(): docker cp and tar, or OSError.
Seed(r) ==
    /\ pc[r] = "run" /\ Ready(r)
    /\ \/ /\ exe[r] \in running
          /\ workspace' = [workspace EXCEPT ![exe[r]] = "snapshot"]
          /\ Continue(r, IF op[r] = "reset" THEN "assign" ELSE "setup")
       \/ /\ exe[r] \notin running \/ "seed" \in Faults
          /\ Finish(r, "500")
          /\ UNCHANGED workspace
    /\ UNCHANGED <<exe, requestVars, envs, handleVars, started, launching, running,
                   historyVars>>

\* The set-up commands and git_init_workspace: nobody looks at the exit code or
\* the timeout of any of them, only write_text raises.  reset clears `finished`
\* at the end.
Setup(r) ==
    /\ pc[r] = "setup" /\ Ready(r)
    /\ \/ /\ exe[r] \in running
          /\ \E made \in {"baseline"} \cup (IF "setup" \in Faults THEN {"unready"} ELSE {}) :
               workspace' = [workspace EXCEPT ![exe[r]] = IF @ = "snapshot" THEN made ELSE @]
          /\ IF op[r] = "reset"
               THEN finished' = finished \ {env[r]} /\ Finish(r, "ok")
               ELSE UNCHANGED finished /\ Continue(r, "register")
       \/ /\ exe[r] \notin running \/ "setup" \in Faults
          /\ Finish(r, "500")
          /\ UNCHANGED <<workspace, finished>>
    /\ UNCHANGED <<exe, requestVars, envs, executor, closed, started, launching,
                   running, historyVars>>

\* One docker exec of a tool call or of export_patch.  Its exit code is data:
\* a container that is gone or holds something else raises nothing.
OffSetUp(e) == e \notin running \/ workspace[e] \notin {"baseline", "unready"}

Exec(r) ==
    /\ pc[r] = "exec" /\ Ready(r)
    /\ left' = [left EXCEPT ![r] = @ - 1]
    /\ strays' = IF OffSetUp(exe[r]) THEN strays \cup {r} ELSE strays
    /\ \/ /\ left[r] > 1
          /\ Continue(r, IF op[r] = "execute" THEN "exec" ELSE "fetch")
          /\ UNCHANGED finished
       \/ /\ left[r] = 1
          /\ Finish(r, "ok")
          /\ finished' = IF op[r] = "finish" THEN finished \cup {env[r]} ELSE finished
       \/ /\ left[r] = 1 /\ op[r] # "execute" /\ "timeout" \in Faults
          /\ Finish(r, "500")
          /\ UNCHANGED finished
    /\ UNCHANGED <<op, env, exe, envs, executor, closed, dockerVars, overlapped, unremoved>>

\* After close(): destroy marks the handle, reset makes a new executor.
MutAfterClose(r) ==
    IF op[r] = "destroy"
      THEN Continue(r, IF executor[env[r]] \in running THEN "close" ELSE "mark") /\ UNCHANGED exe
      ELSE Continue(r, "run") /\ Hold(r, r)
AfterClose(r) ==
    IF op[r] = "destroy" THEN Continue(r, "mark") /\ UNCHANGED exe
                         ELSE Continue(r, "run") /\ Hold(r, r)

\* close(): nothing unless _started, else `docker rm -f`, whose failure is
\* not looked at.
MutCloseStarted(r) == FALSE
CloseStarted(r) == executor[env[r]] \in started

Close(r) ==
    /\ pc[r] = "close"
    /\ \/ /\ CloseStarted(r)
          /\ Hold(r, executor[env[r]]) /\ Continue(r, "unset")
          /\ \/ /\ running' = running \ {executor[env[r]]}
                /\ UNCHANGED unremoved
             \/ /\ "rm" \in Faults
                /\ unremoved' = unremoved \cup {executor[env[r]]}
                /\ UNCHANGED running
       \/ /\ ~ CloseStarted(r)
          /\ AfterClose(r)
          /\ UNCHANGED <<running, unremoved>>
    /\ UNCHANGED <<requestVars, envs, handleVars, started, launching, workspace,
                   overlapped, strays>>

\* close(): `self._started = False`.
Unset(r) ==
    /\ pc[r] = "unset"
    /\ started' = started \ {exe[r]}
    /\ AfterClose(r)
    /\ UNCHANGED <<requestVars, envs, handleVars, launching, running, workspace, historyVars>>

-----------------------------------------------------------------------------
Init ==
    /\ op = [r \in Requests |-> "none"]
    /\ pc = [r \in Requests |-> "idle"]
    /\ env = [r \in Requests |-> NoOne]
    /\ exe = [r \in Requests |-> NoOne]
    /\ left = [r \in Requests |-> 0]
    /\ result = [r \in Requests |-> "none"]
    /\ envs = {} /\ closed = {} /\ finished = {}
    /\ executor = [r \in Requests |-> NoOne]
    /\ started = {} /\ launching = {} /\ running = {}
    /\ workspace = [r \in Requests |-> "none"]
    /\ overlapped = {} /\ unremoved = {} /\ strays = {}

Arrive(r) ==
    \/ BeginCreate(r)
    \/ \E v \in Requests :
         \/ PopEnv(r, v)
         \/ \E o \in Ops \ {"create", "destroy"} : GetEnv(r, v, o)
         \/ \E o \in Ops \ {"create"} : NotFound(r, v, o)

Serve(r) ==
    \/ CheckClosed(r) \/ RecheckClosed(r) \/ Fetch(r) \/ Assign(r) \/ Register(r)
    \/ MarkClosed(r) \/ DockerRun(r) \/ MarkStarted(r) \/ Seed(r) \/ Setup(r)
    \/ Exec(r) \/ Close(r) \/ Unset(r)

\* Every request has been answered.
AllServed == (\A r \in Requests : pc[r] = "done") /\ UNCHANGED vars

Next == (\E r \in Requests : Arrive(r) \/ Serve(r)) \/ AllServed

Spec == Init /\ [][Next]_vars

\* A thread that serves a request runs on: docker commands end.
FairSpec == Spec /\ \A r \in Requests : WF_vars(Serve(r))

-----------------------------------------------------------------------------
TypeOK ==
    /\ op \in [Requests -> Ops \cup {"none"}]
    /\ pc \in [Requests -> Busy \cup {"idle", "done"}]
    /\ env \in [Requests -> Requests \cup {NoOne}]
    /\ exe \in [Requests -> Requests \cup {NoOne}]
    /\ left \in [Requests -> 0 .. Execs]
    /\ result \in [Requests -> {"none", "ok", "404", "500", "lost"}]  \* lost: in a crash
    /\ executor \in [Requests -> Requests \cup {NoOne}]
    /\ workspace \in [Requests -> {"none", "image", "snapshot", "unready", "baseline"}]
    /\ envs \subseteq Requests /\ closed \subseteq Requests /\ finished \subseteq Requests
    /\ started \subseteq Requests /\ launching \subseteq Requests
    /\ running \subseteq Requests /\ overlapped \subseteq Requests
    /\ unremoved \subseteq Requests /\ strays \subseteq Requests

\* Somebody can still remove container e: a registered environment uses it,
\* a request that holds it is still being served, or is about to remove it.
Owned(e) ==
    \/ \E v \in envs : executor[v] = e
    \/ \E r \in Requests : Active(r) /\ exe[r] = e
    \/ \E r \in Requests : Active(r) /\ op[r] = "destroy" /\ executor[env[r]] = e

(* "Containers are destroyed after use, no leaks" (the two-end connection   *)
(* guide, line 22): every container that exists can still be removed by     *)
(* the server that started it.                                              *)
NoOrphan == \A e \in running : Owned(e)

(* What the code delivers: a container is orphaned only if the request that *)
(* made it failed, its environment served two requests at once, or its      *)
(* removal failed unnoticed.                                                *)
OrphanHasCause ==
    \A e \in running :
        Owned(e) \/ result[e] = "500" \/ env[e] \in overlapped \/ e \in unremoved

\* A reset of environment v ended with an error.
ResetFailed(v) ==
    \E q \in Requests : op[q] = "reset" /\ env[q] = v /\ result[q] = "500"

(* A tool call or an export runs where the create or the last reset of its  *)
(* environment has put the snapshot and run the set-up, whether its commands *)
(* succeeded or not; never on an empty, half-made or vanished container,    *)
(* except after two requests overlapped on the environment or a reset of it *)
(* failed.                                                                  *)
RunsOnSetUp ==
    \A r \in strays : env[r] \in overlapped \/ ResetFailed(env[r])

(* "Drop all changes of the agent, restore the initial state after create   *)
(* (the baseline after set-up)" (backend.py:212): what runs in a container  *)
(* that a successful reset has made finds the baseline there.               *)
ResetRestores ==
    \A q, r \in Requests :
        pc[q] = "exec" /\ exe[q] = r /\ r \in running /\ op[r] = "reset" /\ result[r] = "ok" =>
            workspace[r] = "baseline"

(* However many DELETEs race, one request at most destroys an environment,  *)
(* and no request finds the environment again: a DELETE in progress and a   *)
(* closed environment are out of the registry.                              *)
DestroyedOnce ==
    /\ \A q, r \in Requests :
         op[q] = "destroy" /\ op[r] = "destroy" /\ env[q] = env[r] /\ env[q] # NoOne => q = r
    /\ \A r \in Requests : op[r] = "destroy" => env[r] \notin envs
    /\ closed \cap envs = {}

(* Once a DELETE has succeeded, an environment that never served two        *)
(* requests at once is closed, its executor is stopped and its container is *)
(* gone, unless `docker rm` failed unnoticed.                               *)
DestroyReleases ==
    \A r \in Requests :
        op[r] = "destroy" /\ result[r] = "ok" /\ env[r] \notin overlapped =>
            /\ env[r] \in closed
            /\ executor[env[r]] \notin started
            /\ executor[env[r]] \in running => executor[env[r]] \in unremoved

(* Every request that arrives is answered.                                  *)
EveryRequestEnds == \A r \in Requests : Active(r) ~> pc[r] = "done"

=============================================================================
