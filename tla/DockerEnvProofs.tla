-------------------------- MODULE DockerEnvProofs --------------------------
(***************************************************************************)
(* Theorems about DockerEnv, for every set of requests, every number of    *)
(* commands and every choice of faults, and, from the last line of dashes  *)
(* on, about ServerLife, for every number of crashes and restarts and      *)
(* every behaviour of the other server.                                    *)
(***************************************************************************)
EXTENDS ServerLife, TLAPS

\* The places of operations that find their environment in the registry.
Backend == {"check", "recheck", "fetch", "exec", "assign", "close", "unset", "mark"}

\* A request that has not arrived has nothing.
IdleOK == \A r \in Requests : pc[r] = "idle" => op[r] = "none" /\ env[r] = NoOne

\* What a thread works on exists: its environment has an executor, and the
\* executor it is to start or to stop is one.
HoldsOK ==
    \A r \in Requests :
        /\ pc[r] \in Backend => op[r] \in Ops \ {"create"}
        /\ pc[r] \in Busy /\ op[r] # "create" =>
             env[r] \in Requests /\ executor[env[r]] \in Requests
        /\ pc[r] \in {"run", "setup", "exec", "unset"} => exe[r] \in Requests
        /\ r \in launching => pc[r] \in {"run", "setup", "exec"}
        /\ pc[r] = "mark" => op[r] = "destroy"
        /\ pc[r] \in Busy => op[r] \in Ops

RegistryOK == \A v \in envs : executor[v] \in Requests

DInv == TypeOK /\ IdleOK /\ HoldsOK /\ RegistryOK

LEMMA InitOK == Init => DInv
  BY ConstantsOK DEF Init, DInv, TypeOK, IdleOK, HoldsOK, RegistryOK, Busy, Backend, Ops

LEMMA TypeStep ==
    ASSUME DInv, [Next]_vars
    PROVE  TypeOK'
  <1>. USE DEF DInv, TypeOK, HoldsOK, Busy, Backend, requestVars, handleVars, dockerVars,
         historyVars, GoTo, Finish, Continue, Hold
  <1>1. ASSUME NEW r \in Requests, BeginCreate(r)
        PROVE  TypeOK'
    BY <1>1 DEF BeginCreate, Ops
  <1>2. ASSUME NEW r \in Requests, CheckClosed(r)
        PROVE  TypeOK'
    BY <1>2 DEF CheckClosed
  <1>3. ASSUME NEW r \in Requests, RecheckClosed(r)
        PROVE  TypeOK'
    BY <1>3 DEF RecheckClosed
  <1>4. ASSUME NEW r \in Requests, Fetch(r)
        PROVE  TypeOK'
    BY <1>4 DEF Fetch
  <1>5. ASSUME NEW r \in Requests, Assign(r)
        PROVE  TypeOK'
    BY <1>5 DEF Assign
  <1>6. ASSUME NEW r \in Requests, Register(r)
        PROVE  TypeOK'
    BY <1>6 DEF Register
  <1>7. ASSUME NEW r \in Requests, MarkClosed(r)
        PROVE  TypeOK'
    BY <1>7 DEF MarkClosed
  <1>8. ASSUME NEW r \in Requests, DockerRun(r)
        PROVE  TypeOK'
    BY <1>8 DEF DockerRun, NeedsStart
  <1>9. ASSUME NEW r \in Requests, MarkStarted(r)
        PROVE  TypeOK'
    BY <1>9 DEF MarkStarted
  <1>10. ASSUME NEW r \in Requests, Seed(r)
        PROVE  TypeOK'
    BY <1>10 DEF Seed, Ready
  <1>11. ASSUME NEW r \in Requests, Setup(r)
        PROVE  TypeOK'
    BY <1>11 DEF Setup, Ready
  <1>12. ASSUME NEW r \in Requests, Exec(r)
        PROVE  TypeOK'
    BY <1>12, ConstantsOK DEF Exec, Ready
  <1>13. ASSUME NEW r \in Requests, Close(r)
        PROVE  TypeOK'
    BY <1>13 DEF Close, CloseStarted, AfterClose
  <1>14. ASSUME NEW r \in Requests, Unset(r)
        PROVE  TypeOK'
    BY <1>14 DEF Unset, AfterClose
  <1>15. ASSUME NEW r \in Requests, NEW v \in Requests, PopEnv(r, v)
        PROVE  TypeOK'
    BY <1>15, ConstantsOK DEF PopEnv, Found, Ops
  <1>16. ASSUME NEW r \in Requests, NEW v \in Requests, NEW o \in Ops \ {"create", "destroy"},
               GetEnv(r, v, o)
        PROVE  TypeOK'
    BY <1>16, ConstantsOK DEF GetEnv, Found, Ops
  <1>17. ASSUME NEW r \in Requests, NEW v \in Requests, NEW o \in Ops \ {"create"},
               NotFound(r, v, o)
        PROVE  TypeOK'
    BY <1>17 DEF NotFound, Known, Ops
  <1>18. CASE UNCHANGED vars
    BY <1>18 DEF vars
  <1>. QED
    BY <1>1, <1>2, <1>3, <1>4, <1>5, <1>6, <1>7, <1>8, <1>9, <1>10, <1>11, <1>12,
       <1>13, <1>14, <1>15, <1>16, <1>17, <1>18
    DEF Next, Arrive, Serve, AllServed

LEMMA HoldsStep ==
    ASSUME DInv, [Next]_vars
    PROVE  IdleOK' /\ HoldsOK' /\ RegistryOK'
  <1>. USE DEF DInv, TypeOK, IdleOK, HoldsOK, RegistryOK, Busy, Backend, Ops, requestVars,
         handleVars, dockerVars, historyVars, GoTo, Finish, Continue, Hold
  <1>1. ASSUME NEW r \in Requests, BeginCreate(r)
        PROVE  IdleOK' /\ HoldsOK' /\ RegistryOK'
    BY <1>1 DEF BeginCreate
  <1>2. ASSUME NEW r \in Requests, CheckClosed(r)
        PROVE  IdleOK' /\ HoldsOK' /\ RegistryOK'
    BY <1>2 DEF CheckClosed
  <1>3. ASSUME NEW r \in Requests, RecheckClosed(r)
        PROVE  IdleOK' /\ HoldsOK' /\ RegistryOK'
    BY <1>3 DEF RecheckClosed
  <1>4. ASSUME NEW r \in Requests, Fetch(r)
        PROVE  IdleOK' /\ HoldsOK' /\ RegistryOK'
    BY <1>4 DEF Fetch
  <1>5. ASSUME NEW r \in Requests, Assign(r)
        PROVE  IdleOK' /\ HoldsOK' /\ RegistryOK'
    BY <1>5 DEF Assign
  <1>6. ASSUME NEW r \in Requests, Register(r)
        PROVE  IdleOK' /\ HoldsOK' /\ RegistryOK'
    BY <1>6 DEF Register
  <1>7. ASSUME NEW r \in Requests, MarkClosed(r)
        PROVE  IdleOK' /\ HoldsOK' /\ RegistryOK'
    BY <1>7 DEF MarkClosed
  <1>8. ASSUME NEW r \in Requests, DockerRun(r)
        PROVE  IdleOK' /\ HoldsOK' /\ RegistryOK'
    BY <1>8 DEF DockerRun, NeedsStart
  <1>9. ASSUME NEW r \in Requests, MarkStarted(r)
        PROVE  IdleOK' /\ HoldsOK' /\ RegistryOK'
    BY <1>9 DEF MarkStarted
  <1>10. ASSUME NEW r \in Requests, Seed(r)
        PROVE  IdleOK' /\ HoldsOK' /\ RegistryOK'
    BY <1>10 DEF Seed, Ready
  <1>11. ASSUME NEW r \in Requests, Setup(r)
        PROVE  IdleOK' /\ HoldsOK' /\ RegistryOK'
    BY <1>11 DEF Setup, Ready
  <1>12. ASSUME NEW r \in Requests, Exec(r)
        PROVE  IdleOK' /\ HoldsOK' /\ RegistryOK'
    BY <1>12 DEF Exec, Ready
  <1>13. ASSUME NEW r \in Requests, Close(r)
        PROVE  IdleOK' /\ HoldsOK' /\ RegistryOK'
    BY <1>13 DEF Close, CloseStarted, AfterClose
  <1>14. ASSUME NEW r \in Requests, Unset(r)
        PROVE  IdleOK' /\ HoldsOK' /\ RegistryOK'
    BY <1>14 DEF Unset, AfterClose
  <1>15. ASSUME NEW r \in Requests, NEW v \in Requests, PopEnv(r, v)
        PROVE  IdleOK' /\ HoldsOK' /\ RegistryOK'
    BY <1>15 DEF PopEnv, Found
  <1>16. ASSUME NEW r \in Requests, NEW v \in Requests, NEW o \in Ops \ {"create", "destroy"},
               GetEnv(r, v, o)
        PROVE  IdleOK' /\ HoldsOK' /\ RegistryOK'
    BY <1>16 DEF GetEnv, Found, Ops
  <1>17. ASSUME NEW r \in Requests, NEW v \in Requests, NEW o \in Ops \ {"create"},
               NotFound(r, v, o)
        PROVE  IdleOK' /\ HoldsOK' /\ RegistryOK'
    BY <1>17 DEF NotFound, Known, Ops
  <1>18. CASE UNCHANGED vars
    BY <1>18 DEF vars
  <1>. QED
    BY <1>1, <1>2, <1>3, <1>4, <1>5, <1>6, <1>7, <1>8, <1>9, <1>10, <1>11, <1>12,
       <1>13, <1>14, <1>15, <1>16, <1>17, <1>18
    DEF Next, Arrive, Serve, AllServed

LEMMA DInvariance == Spec => []DInv
  <1>1. DInv /\ [Next]_vars => DInv'
    <2>. SUFFICES ASSUME DInv, [Next]_vars PROVE DInv'
      OBVIOUS
    <2>. QED
      BY TypeStep, HoldsStep DEF DInv
  <1>. QED
    BY InitOK, <1>1, PTL DEF Spec

(* Every variable of the environment server keeps its type.                 *)
THEOREM EnvTypeCorrect == Spec => []TypeOK
  <1>1. DInv => TypeOK
    BY DEF DInv
  <1>. QED
    BY DInvariance, <1>1, PTL

-----------------------------------------------------------------------------
\* An environment comes into the registry when its create ends, and a closed
\* one was closed by a DELETE.
TargetsOK ==
    /\ \A v \in envs : pc[v] = "done"
    /\ \A r \in Requests : op[r] = "destroy" /\ env[r] # NoOne => pc[env[r]] = "done"
    /\ \A v \in closed : \E r \in Requests : op[r] = "destroy" /\ env[r] = v

DestroyInv == TargetsOK /\ DestroyedOnce

LEMMA DestroyStep ==
    ASSUME DInv, DestroyInv, [Next]_vars
    PROVE  DestroyInv'
  <1>. USE DEF DInv, TypeOK, IdleOK, HoldsOK, TargetsOK, DestroyedOnce, DestroyInv, Busy,
         Backend, requestVars, handleVars, dockerVars, historyVars, GoTo, Finish, Continue, Hold
  <1>1. ASSUME NEW r \in Requests, BeginCreate(r)
        PROVE  DestroyInv'
    BY <1>1 DEF BeginCreate
  <1>2. ASSUME NEW r \in Requests, CheckClosed(r)
        PROVE  DestroyInv'
    BY <1>2 DEF CheckClosed
  <1>3. ASSUME NEW r \in Requests, RecheckClosed(r)
        PROVE  DestroyInv'
    BY <1>3 DEF RecheckClosed
  <1>4. ASSUME NEW r \in Requests, Fetch(r)
        PROVE  DestroyInv'
    BY <1>4 DEF Fetch
  <1>5. ASSUME NEW r \in Requests, Assign(r)
        PROVE  DestroyInv'
    BY <1>5 DEF Assign
  <1>6. ASSUME NEW r \in Requests, Register(r)
        PROVE  DestroyInv'
    <2>1. pc[r] = "register" /\ pc' = [pc EXCEPT ![r] = "done"] /\ envs' = envs \cup {r}
      BY <1>6 DEF Register
    <2>2. UNCHANGED <<op, env, closed>>
      BY <1>6 DEF Register
    <2>3. \A q \in Requests : op[q] = "destroy" => env[q] # r
      BY <2>1, ConstantsOK
    <2>4. r \notin closed
      BY <2>3
    <2>. QED
      BY <2>1, <2>2, <2>3, <2>4
  <1>7. ASSUME NEW r \in Requests, MarkClosed(r)
        PROVE  DestroyInv'
    BY <1>7 DEF MarkClosed
  <1>8. ASSUME NEW r \in Requests, DockerRun(r)
        PROVE  DestroyInv'
    BY <1>8 DEF DockerRun, NeedsStart
  <1>9. ASSUME NEW r \in Requests, MarkStarted(r)
        PROVE  DestroyInv'
    BY <1>9 DEF MarkStarted
  <1>10. ASSUME NEW r \in Requests, Seed(r)
        PROVE  DestroyInv'
    BY <1>10 DEF Seed, Ready
  <1>11. ASSUME NEW r \in Requests, Setup(r)
        PROVE  DestroyInv'
    BY <1>11 DEF Setup, Ready
  <1>12. ASSUME NEW r \in Requests, Exec(r)
        PROVE  DestroyInv'
    BY <1>12 DEF Exec, Ready
  <1>13. ASSUME NEW r \in Requests, Close(r)
        PROVE  DestroyInv'
    BY <1>13 DEF Close, CloseStarted, AfterClose
  <1>14. ASSUME NEW r \in Requests, Unset(r)
        PROVE  DestroyInv'
    BY <1>14 DEF Unset, AfterClose
  <1>15. ASSUME NEW r \in Requests, NEW v \in Requests, PopEnv(r, v)
        PROVE  DestroyInv'
    BY <1>15 DEF PopEnv, Found
  <1>16. ASSUME NEW r \in Requests, NEW v \in Requests, NEW o \in Ops \ {"create", "destroy"},
               GetEnv(r, v, o)
        PROVE  DestroyInv'
    BY <1>16 DEF GetEnv, Found, Ops
  <1>17. ASSUME NEW r \in Requests, NEW v \in Requests, NEW o \in Ops \ {"create"},
               NotFound(r, v, o)
        PROVE  DestroyInv'
    BY <1>17, ConstantsOK DEF NotFound, Known, Ops
  <1>18. CASE UNCHANGED vars
    BY <1>18 DEF vars
  <1>. QED
    BY <1>1, <1>2, <1>3, <1>4, <1>5, <1>6, <1>7, <1>8, <1>9, <1>10, <1>11, <1>12,
       <1>13, <1>14, <1>15, <1>16, <1>17, <1>18
    DEF Next, Arrive, Serve, AllServed

(* However many DELETEs race, one at most reaches the backend, and the      *)
(* environment is never found again (server.py: destroy_env).               *)
THEOREM DestroyedAtMostOnce == Spec => []DestroyedOnce
  <1>1. Init => DestroyInv
    BY ConstantsOK DEF Init, DestroyInv, TargetsOK, DestroyedOnce
  <1>2. DInv /\ DestroyInv /\ [Next]_vars => DestroyInv'
    BY DestroyStep
  <1>3. DestroyInv => DestroyedOnce
    BY DEF DestroyInv
  <1>. QED
    BY DInvariance, <1>1, <1>2, <1>3, PTL DEF Spec

-----------------------------------------------------------------------------
(* What DockerEnv promises of containers while no two requests overlap on   *)
(* an environment.                                                          *)

\* Where each operation can be.
PlacesOK ==
    \A r \in Requests :
        /\ pc[r] \in {"run", "setup"} => op[r] \in {"create", "reset"}
        /\ pc[r] = "register" => op[r] = "create"
        /\ pc[r] = "assign" => op[r] = "reset"
        /\ pc[r] \in {"close", "unset"} => op[r] \in {"destroy", "reset"}
        /\ pc[r] \in {"exec", "fetch", "recheck"} => op[r] # "destroy"
        /\ pc[r] \in {"exec", "recheck"} => op[r] # "reset"
        /\ result[r] \in {"ok", "500"} => pc[r] = "done"
        /\ pc[r] = "idle" => exe[r] = NoOne

\* An environment is named after a create, a found one after one that ended.
NamesOK ==
    /\ \A v \in envs : op[v] = "create"
    /\ \A r \in Requests :
        /\ op[r] = "create" => env[r] = r
        /\ env[r] \in Requests /\ op[r] # "create" =>
             pc[env[r]] = "done" /\ op[env[r]] = "create"
        /\ Active(r) \/ result[r] \in {"ok", "500"} => env[r] \in Requests

\* Every executor belongs to one environment.
Belongs(e, v) == e \in Requests => v \in Requests /\ env[e] = v
OwnersOK == \A r \in Requests : Belongs(exe[r], env[r]) /\ Belongs(executor[r], r)

\* A request alone on an environment: nobody else is served on it, and once it
\* is a DELETE nobody else will be.
Sole(v) == v \notin overlapped
SoleOK ==
    /\ \A q, r \in Requests :
         Active(q) /\ Active(r) /\ env[q] = env[r] /\ Sole(env[r]) => q = r
    /\ \A q, r \in Requests :
         Active(q) /\ op[r] = "destroy" /\ env[q] = env[r] /\ Sole(env[r]) => q = r
    /\ \A r \in Requests :
         Active(r) /\ op[r] \notin {"create", "destroy"} /\ Sole(env[r]) => env[r] \in envs
    /\ \A v \in closed : \E r \in Requests : op[r] = "destroy" /\ env[r] = v /\ pc[r] = "done"

\* The executor that such a request holds.
SoleHoldsOK ==
    \A r \in Requests : Active(r) /\ Sole(env[r]) =>
        IF op[r] = "create" \/ pc[r] \in {"run", "assign"} THEN exe[r] = r
        ELSE exe[r] \in {NoOne, executor[env[r]]}

\* A new executor is nobody's before it is assigned.
FreshOK ==
    \A r \in Requests :
        pc[r] \in {"idle", "check", "close", "unset", "run", "assign"} =>
            \A v \in Requests : executor[v] # r

\* A container whose executor is not marked started has a cause, and one
\* that `docker rm` was called for is gone or the call failed.
Gone(e) == e \in running => e \in unremoved
StoppedOK ==
    /\ \A e \in running \ started :
         \/ ~ Sole(env[e]) \/ e \in unremoved
         \/ \E q \in launching : exe[q] = e
    /\ \A r \in Requests : pc[r] = "unset" /\ Sole(env[r]) => Gone(exe[r])
    /\ \A r \in Requests :
         op[r] = "reset" /\ pc[r] \in {"run", "assign"} /\ Sole(env[r]) => Gone(executor[env[r]])

\* How far a DELETE has come.
ReleasedOK ==
    \A r \in Requests :
        op[r] = "destroy" /\ (pc[r] = "mark" \/ result[r] = "ok") /\ Sole(env[r]) =>
            /\ executor[env[r]] \notin started /\ Gone(executor[env[r]])
            /\ result[r] = "ok" => env[r] \in closed

\* What is mounted in the executors that commands are about to run in.
Based(e, what) == e \in started /\ e \in running /\ workspace[e] \in what
BasedOK ==
    /\ \A r \in Requests : Active(r) /\ Sole(env[r]) =>
         /\ pc[r] = "assign" \/ (op[r] = "create" /\ pc[r] = "setup") => Based(r, {"snapshot"})
         /\ pc[r] = "register" => Based(r, {"unready", "baseline"})
         /\ op[r] = "reset" /\ pc[r] \in {"fetch", "setup"} =>
              Based(executor[env[r]], {"snapshot"})
    /\ \A v \in envs :
         \/ ~ Sole(v) \/ ResetFailed(v)
         \/ \E q \in Requests : Active(q) /\ op[q] = "reset" /\ env[q] = v
         \/ Based(executor[v], {"unready", "baseline"})

ReleaseInv ==
    /\ DInv /\ DestroyInv /\ PlacesOK /\ NamesOK /\ OwnersOK /\ SoleOK /\ SoleHoldsOK
    /\ FreshOK /\ StoppedOK /\ ReleasedOK /\ OrphanHasCause

-----------------------------------------------------------------------------
LEMMA DockerCases ==
    ASSUME [Next]_vars
    PROVE  \/ \E r \in Requests : BeginCreate(r)
           \/ \E r, v \in Requests : PopEnv(r, v) \/ \E o \in Ops \ {"create", "destroy"} : GetEnv(r, v, o)
           \/ \E r, v \in Requests : \E o \in Ops \ {"create"} : NotFound(r, v, o)
           \/ \E r \in Requests : CheckClosed(r) \/ RecheckClosed(r) \/ Fetch(r)
           \/ \E r \in Requests : Assign(r) \/ Register(r)
           \/ \E r \in Requests : MarkClosed(r)
           \/ \E r \in Requests : DockerRun(r) \/ MarkStarted(r)
           \/ \E r \in Requests : Seed(r) \/ Setup(r)
           \/ \E r \in Requests : Exec(r)
           \/ \E r \in Requests : Close(r)
           \/ \E r \in Requests : Unset(r)
           \/ UNCHANGED vars
  BY Zenon DEF Next, Arrive, Serve, AllServed

\* What finding environment v does.
Finding(r, v, o) ==
    /\ pc[r] = "idle" /\ v \in envs
    /\ op' = [op EXCEPT ![r] = o] /\ env' = [env EXCEPT ![r] = v]
    /\ pc' = [pc EXCEPT ![r] = "check"]
    /\ envs' = (IF o = "destroy" THEN envs \ {v} ELSE envs)
    /\ overlapped \subseteq overlapped'
    /\ \A q \in Requests : Active(q) /\ env[q] = v => v \in overlapped'
    /\ UNCHANGED <<result, exe, executor, closed, finished, started, launching,
                   running, workspace, unremoved, strays>>

LEMMA Finds ==
    ASSUME NEW r \in Requests, NEW v \in Requests,
           PopEnv(r, v) \/ \E o \in Ops \ {"create", "destroy"} : GetEnv(r, v, o)
    PROVE  \E o \in Ops \ {"create"} : Finding(r, v, o)
  <1>. USE DEF Finding, Found, GoTo, Continue, handleVars, dockerVars
  <1>1. CASE PopEnv(r, v)
    BY <1>1 DEF PopEnv, Ops
  <1>2. ASSUME NEW o \in Ops \ {"create", "destroy"}, GetEnv(r, v, o)
        PROVE  \A q \in Requests : Active(q) /\ env[q] = v => v \in overlapped'
    BY <1>2 DEF GetEnv
  <1>3. ASSUME NEW o \in Ops \ {"create", "destroy"}, GetEnv(r, v, o)
        PROVE  /\ pc[r] = "idle" /\ v \in envs
               /\ op' = [op EXCEPT ![r] = o] /\ env' = [env EXCEPT ![r] = v]
               /\ pc' = [pc EXCEPT ![r] = "check"]
               /\ envs' = envs /\ overlapped \subseteq overlapped'
               /\ UNCHANGED <<result, exe, executor, closed, finished, started, launching,
                              running, workspace, unremoved, strays>>
    BY <1>3 DEF GetEnv
  <1>. QED
    BY <1>1, <1>2, <1>3

LEMMA PlacesStep ==
    ASSUME DInv, PlacesOK, [Next]_vars
    PROVE  PlacesOK'
  <1>. USE ConstantsOK DEF DInv, TypeOK, IdleOK, HoldsOK, PlacesOK, Ops,
           requestVars, handleVars, dockerVars, historyVars, GoTo, Finish, Continue, Hold, Busy,
           Backend, Active
  <1>1. ASSUME NEW r \in Requests, BeginCreate(r)
        PROVE  PlacesOK'
    BY <1>1 DEF BeginCreate
  <1>2. ASSUME NEW r \in Requests, NEW v \in Requests,
               PopEnv(r, v) \/ \E o \in Ops \ {"create", "destroy"} : GetEnv(r, v, o)
        PROVE  PlacesOK'
    BY <1>2 DEF PopEnv, GetEnv, Found
  <1>3. ASSUME NEW r \in Requests, NEW v \in Requests, NEW o \in Ops \ {"create"},
               NotFound(r, v, o)
        PROVE  PlacesOK'
    BY <1>3 DEF NotFound, Known
  <1>4. ASSUME NEW r \in Requests, CheckClosed(r) \/ RecheckClosed(r) \/ Fetch(r)
        PROVE  PlacesOK'
    BY <1>4 DEF CheckClosed, RecheckClosed, Fetch
  <1>5. ASSUME NEW r \in Requests, Assign(r) \/ Register(r)
        PROVE  PlacesOK'
    BY <1>5 DEF Assign, Register
  <1>6. ASSUME NEW r \in Requests, MarkClosed(r)
        PROVE  PlacesOK'
    BY <1>6 DEF MarkClosed
  <1>7. ASSUME NEW r \in Requests, DockerRun(r) \/ MarkStarted(r)
        PROVE  PlacesOK'
    BY <1>7 DEF DockerRun, NeedsStart, MarkStarted
  <1>8. ASSUME NEW r \in Requests, Seed(r) \/ Setup(r)
        PROVE  PlacesOK'
    BY <1>8 DEF Seed, Setup, Ready
  <1>9. ASSUME NEW r \in Requests, Exec(r)
        PROVE  PlacesOK'
    BY <1>9 DEF Exec, Ready
  <1>10. ASSUME NEW r \in Requests, Close(r)
        PROVE  PlacesOK'
    BY <1>10 DEF Close, CloseStarted, AfterClose
  <1>11. ASSUME NEW r \in Requests, Unset(r)
        PROVE  PlacesOK'
    BY <1>11 DEF Unset, AfterClose
  <1>12. CASE UNCHANGED vars
    BY <1>12 DEF vars
  <1>. QED
    BY <1>1, <1>2, <1>3, <1>4, <1>5, <1>6, <1>7, <1>8, <1>9, <1>10, <1>11, <1>12, DockerCases

LEMMA NamesStep ==
    ASSUME DInv, DestroyInv, PlacesOK, NamesOK, [Next]_vars
    PROVE  NamesOK'
  <1>. USE ConstantsOK DEF DInv, TypeOK, IdleOK, HoldsOK, RegistryOK, PlacesOK, NamesOK,
           DestroyInv, TargetsOK, Ops,
           requestVars, handleVars, dockerVars, historyVars, GoTo, Finish, Continue, Hold, Busy,
           Backend, Active
  <1>1. ASSUME NEW r \in Requests, BeginCreate(r)
        PROVE  NamesOK'
    BY <1>1 DEF BeginCreate
  <1>2. ASSUME NEW r \in Requests, NEW v \in Requests,
               PopEnv(r, v) \/ \E o \in Ops \ {"create", "destroy"} : GetEnv(r, v, o)
        PROVE  NamesOK'
    BY SMTT(30), <1>2, Finds DEF Finding
  <1>3. ASSUME NEW r \in Requests, NEW v \in Requests, NEW o \in Ops \ {"create"},
               NotFound(r, v, o)
        PROVE  NamesOK'
    BY <1>3 DEF NotFound, Known
  <1>4. ASSUME NEW r \in Requests, CheckClosed(r) \/ RecheckClosed(r) \/ Fetch(r)
        PROVE  NamesOK'
    BY <1>4 DEF CheckClosed, RecheckClosed, Fetch
  <1>5. ASSUME NEW r \in Requests, Assign(r) \/ Register(r)
        PROVE  NamesOK'
    BY <1>5 DEF Assign, Register
  <1>6. ASSUME NEW r \in Requests, MarkClosed(r)
        PROVE  NamesOK'
    BY <1>6 DEF MarkClosed
  <1>7. ASSUME NEW r \in Requests, DockerRun(r) \/ MarkStarted(r)
        PROVE  NamesOK'
    BY <1>7 DEF DockerRun, NeedsStart, MarkStarted
  <1>8. ASSUME NEW r \in Requests, Seed(r) \/ Setup(r)
        PROVE  NamesOK'
    BY <1>8 DEF Seed, Setup, Ready
  <1>9. ASSUME NEW r \in Requests, Exec(r)
        PROVE  NamesOK'
    BY <1>9 DEF Exec, Ready
  <1>10. ASSUME NEW r \in Requests, Close(r)
        PROVE  NamesOK'
    BY <1>10 DEF Close, CloseStarted, AfterClose
  <1>11. ASSUME NEW r \in Requests, Unset(r)
        PROVE  NamesOK'
    BY <1>11 DEF Unset, AfterClose
  <1>12. CASE UNCHANGED vars
    BY <1>12 DEF vars
  <1>. QED
    BY <1>1, <1>2, <1>3, <1>4, <1>5, <1>6, <1>7, <1>8, <1>9, <1>10, <1>11, <1>12, DockerCases

LEMMA OwnersStep ==
    ASSUME DInv, PlacesOK, NamesOK, OwnersOK, [Next]_vars
    PROVE  OwnersOK'
  <1>. USE ConstantsOK DEF DInv, TypeOK, IdleOK, HoldsOK, RegistryOK, PlacesOK, NamesOK,
           OwnersOK, Belongs, Ops,
           requestVars, handleVars, dockerVars, historyVars, GoTo, Finish, Continue, Hold, Busy,
           Backend, Active
  <1>1. ASSUME NEW r \in Requests, BeginCreate(r)
        PROVE  OwnersOK'
    BY <1>1 DEF BeginCreate
  <1>2. ASSUME NEW r \in Requests, NEW v \in Requests,
               PopEnv(r, v) \/ \E o \in Ops \ {"create", "destroy"} : GetEnv(r, v, o)
        PROVE  OwnersOK'
    BY <1>2 DEF PopEnv, GetEnv, Found
  <1>3. ASSUME NEW r \in Requests, NEW v \in Requests, NEW o \in Ops \ {"create"},
               NotFound(r, v, o)
        PROVE  OwnersOK'
    BY <1>3 DEF NotFound, Known
  <1>4. ASSUME NEW r \in Requests, CheckClosed(r) \/ RecheckClosed(r) \/ Fetch(r)
        PROVE  OwnersOK'
    BY <1>4 DEF CheckClosed, RecheckClosed, Fetch
  <1>5. ASSUME NEW r \in Requests, Assign(r) \/ Register(r)
        PROVE  OwnersOK'
    BY <1>5 DEF Assign, Register
  <1>6. ASSUME NEW r \in Requests, MarkClosed(r)
        PROVE  OwnersOK'
    BY <1>6 DEF MarkClosed
  <1>7. ASSUME NEW r \in Requests, DockerRun(r) \/ MarkStarted(r)
        PROVE  OwnersOK'
    BY <1>7 DEF DockerRun, NeedsStart, MarkStarted
  <1>8. ASSUME NEW r \in Requests, Seed(r) \/ Setup(r)
        PROVE  OwnersOK'
    BY <1>8 DEF Seed, Setup, Ready
  <1>9. ASSUME NEW r \in Requests, Exec(r)
        PROVE  OwnersOK'
    BY <1>9 DEF Exec, Ready
  <1>10. ASSUME NEW r \in Requests, Close(r)
        PROVE  OwnersOK'
    BY <1>10 DEF Close, CloseStarted, AfterClose
  <1>11. ASSUME NEW r \in Requests, Unset(r)
        PROVE  OwnersOK'
    BY <1>11 DEF Unset, AfterClose
  <1>12. CASE UNCHANGED vars
    BY <1>12 DEF vars
  <1>. QED
    BY <1>1, <1>2, <1>3, <1>4, <1>5, <1>6, <1>7, <1>8, <1>9, <1>10, <1>11, <1>12, DockerCases

LEMMA SoleStep ==
    ASSUME DInv, DestroyInv, PlacesOK, NamesOK, SoleOK, [Next]_vars
    PROVE  SoleOK'
  <1>. USE ConstantsOK DEF DInv, TypeOK, IdleOK, HoldsOK, RegistryOK, PlacesOK, NamesOK,
           DestroyInv, DestroyedOnce, TargetsOK, Sole, SoleOK, Ops,
           requestVars, handleVars, dockerVars, historyVars, GoTo, Finish, Continue, Hold, Busy,
           Backend, Active
  <1>1. ASSUME NEW r \in Requests, BeginCreate(r)
        PROVE  SoleOK'
    BY <1>1 DEF BeginCreate
  <1>2. ASSUME NEW r \in Requests, NEW v \in Requests,
               PopEnv(r, v) \/ \E o \in Ops \ {"create", "destroy"} : GetEnv(r, v, o)
        PROVE  SoleOK'
    <2>1. PICK o \in Ops \ {"create"} : Finding(r, v, o)
      BY <1>2, Finds
    <2>. USE <2>1 DEF Finding
    <2>2. \A p, q \in Requests :
            Active(p)' /\ Active(q)' /\ env'[p] = env'[q] /\ env'[q] \notin overlapped' => p = q
      OBVIOUS
    <2>3. \A p, q \in Requests :
            Active(p)' /\ op'[q] = "destroy" /\ env'[p] = env'[q] /\ env'[q] \notin overlapped'
              => p = q
      OBVIOUS
    <2>4. \A q \in Requests :
            Active(q)' /\ op'[q] \notin {"create", "destroy"} /\ env'[q] \notin overlapped'
              => env'[q] \in envs'
      OBVIOUS
    <2>5. \A w \in closed' : \E q \in Requests : op'[q] = "destroy" /\ env'[q] = w /\ pc'[q] = "done"
      OBVIOUS
    <2>. QED
      BY <2>2, <2>3, <2>4, <2>5
  <1>3. ASSUME NEW r \in Requests, NEW v \in Requests, NEW o \in Ops \ {"create"},
               NotFound(r, v, o)
        PROVE  SoleOK'
    BY <1>3 DEF NotFound, Known
  <1>4. ASSUME NEW r \in Requests, CheckClosed(r) \/ RecheckClosed(r) \/ Fetch(r)
        PROVE  SoleOK'
    BY <1>4 DEF CheckClosed, RecheckClosed, Fetch
  <1>5. ASSUME NEW r \in Requests, Assign(r) \/ Register(r)
        PROVE  SoleOK'
    BY <1>5 DEF Assign, Register
  <1>6. ASSUME NEW r \in Requests, MarkClosed(r)
        PROVE  SoleOK'
    BY <1>6 DEF MarkClosed
  <1>7. ASSUME NEW r \in Requests, DockerRun(r) \/ MarkStarted(r)
        PROVE  SoleOK'
    BY <1>7 DEF DockerRun, NeedsStart, MarkStarted
  <1>8. ASSUME NEW r \in Requests, Seed(r) \/ Setup(r)
        PROVE  SoleOK'
    BY <1>8 DEF Seed, Setup, Ready
  <1>9. ASSUME NEW r \in Requests, Exec(r)
        PROVE  SoleOK'
    BY <1>9 DEF Exec, Ready
  <1>10. ASSUME NEW r \in Requests, Close(r)
        PROVE  SoleOK'
    BY <1>10 DEF Close, CloseStarted, AfterClose
  <1>11. ASSUME NEW r \in Requests, Unset(r)
        PROVE  SoleOK'
    BY <1>11 DEF Unset, AfterClose
  <1>12. CASE UNCHANGED vars
    BY <1>12 DEF vars
  <1>. QED
    BY <1>1, <1>2, <1>3, <1>4, <1>5, <1>6, <1>7, <1>8, <1>9, <1>10, <1>11, <1>12, DockerCases

LEMMA SoleHoldsStep ==
    ASSUME DInv, PlacesOK, NamesOK, SoleOK, SoleHoldsOK, [Next]_vars
    PROVE  SoleHoldsOK'
  <1>. USE ConstantsOK DEF DInv, TypeOK, IdleOK, HoldsOK, RegistryOK, PlacesOK, NamesOK,
           Sole, SoleOK, SoleHoldsOK, Ops,
           requestVars, handleVars, dockerVars, historyVars, GoTo, Finish, Continue, Hold, Busy,
           Backend, Active
  <1>1. ASSUME NEW r \in Requests, BeginCreate(r)
        PROVE  SoleHoldsOK'
    BY <1>1 DEF BeginCreate
  <1>2. ASSUME NEW r \in Requests, NEW v \in Requests,
               PopEnv(r, v) \/ \E o \in Ops \ {"create", "destroy"} : GetEnv(r, v, o)
        PROVE  SoleHoldsOK'
    BY <1>2 DEF PopEnv, GetEnv, Found
  <1>3. ASSUME NEW r \in Requests, NEW v \in Requests, NEW o \in Ops \ {"create"},
               NotFound(r, v, o)
        PROVE  SoleHoldsOK'
    BY <1>3 DEF NotFound, Known
  <1>4. ASSUME NEW r \in Requests, CheckClosed(r) \/ RecheckClosed(r) \/ Fetch(r)
        PROVE  SoleHoldsOK'
    BY <1>4 DEF CheckClosed, RecheckClosed, Fetch
  <1>5. ASSUME NEW r \in Requests, Assign(r) \/ Register(r)
        PROVE  SoleHoldsOK'
    BY <1>5 DEF Assign, Register
  <1>6. ASSUME NEW r \in Requests, MarkClosed(r)
        PROVE  SoleHoldsOK'
    BY <1>6 DEF MarkClosed
  <1>7. ASSUME NEW r \in Requests, DockerRun(r) \/ MarkStarted(r)
        PROVE  SoleHoldsOK'
    BY <1>7 DEF DockerRun, NeedsStart, MarkStarted
  <1>8. ASSUME NEW r \in Requests, Seed(r) \/ Setup(r)
        PROVE  SoleHoldsOK'
    BY <1>8 DEF Seed, Setup, Ready
  <1>9. ASSUME NEW r \in Requests, Exec(r)
        PROVE  SoleHoldsOK'
    BY <1>9 DEF Exec, Ready
  <1>10. ASSUME NEW r \in Requests, Close(r)
        PROVE  SoleHoldsOK'
    BY <1>10 DEF Close, CloseStarted, AfterClose
  <1>11. ASSUME NEW r \in Requests, Unset(r)
        PROVE  SoleHoldsOK'
    BY <1>11 DEF Unset, AfterClose
  <1>12. CASE UNCHANGED vars
    BY <1>12 DEF vars
  <1>. QED
    BY <1>1, <1>2, <1>3, <1>4, <1>5, <1>6, <1>7, <1>8, <1>9, <1>10, <1>11, <1>12, DockerCases

LEMMA FreshStep ==
    ASSUME DInv, PlacesOK, NamesOK, FreshOK, [Next]_vars
    PROVE  FreshOK'
  <1>. USE ConstantsOK DEF DInv, TypeOK, IdleOK, HoldsOK, PlacesOK, FreshOK, Ops,
           requestVars, handleVars, dockerVars, historyVars, GoTo, Finish, Continue, Hold, Busy,
           Backend, Active
  <1>1. ASSUME NEW r \in Requests, BeginCreate(r)
        PROVE  FreshOK'
    BY <1>1 DEF BeginCreate
  <1>2. ASSUME NEW r \in Requests, NEW v \in Requests,
               PopEnv(r, v) \/ \E o \in Ops \ {"create", "destroy"} : GetEnv(r, v, o)
        PROVE  FreshOK'
    BY <1>2 DEF PopEnv, GetEnv, Found
  <1>3. ASSUME NEW r \in Requests, NEW v \in Requests, NEW o \in Ops \ {"create"},
               NotFound(r, v, o)
        PROVE  FreshOK'
    BY <1>3 DEF NotFound, Known
  <1>4. ASSUME NEW r \in Requests, CheckClosed(r) \/ RecheckClosed(r) \/ Fetch(r)
        PROVE  FreshOK'
    BY <1>4 DEF CheckClosed, RecheckClosed, Fetch
  <1>5. ASSUME NEW r \in Requests, Assign(r) \/ Register(r)
        PROVE  FreshOK'
    BY <1>5 DEF Assign, Register
  <1>6. ASSUME NEW r \in Requests, MarkClosed(r)
        PROVE  FreshOK'
    BY <1>6 DEF MarkClosed
  <1>7. ASSUME NEW r \in Requests, DockerRun(r) \/ MarkStarted(r)
        PROVE  FreshOK'
    BY <1>7 DEF DockerRun, NeedsStart, MarkStarted
  <1>8. ASSUME NEW r \in Requests, Seed(r) \/ Setup(r)
        PROVE  FreshOK'
    BY <1>8 DEF Seed, Setup, Ready
  <1>9. ASSUME NEW r \in Requests, Exec(r)
        PROVE  FreshOK'
    BY <1>9 DEF Exec, Ready
  <1>10. ASSUME NEW r \in Requests, Close(r)
        PROVE  FreshOK'
    BY <1>10 DEF Close, CloseStarted, AfterClose
  <1>11. ASSUME NEW r \in Requests, Unset(r)
        PROVE  FreshOK'
    BY <1>11 DEF Unset, AfterClose
  <1>12. CASE UNCHANGED vars
    BY <1>12 DEF vars
  <1>. QED
    BY <1>1, <1>2, <1>3, <1>4, <1>5, <1>6, <1>7, <1>8, <1>9, <1>10, <1>11, <1>12, DockerCases

LEMMA StoppedStep ==
    ASSUME DInv, PlacesOK, NamesOK, OwnersOK, SoleOK, SoleHoldsOK, FreshOK, StoppedOK, [Next]_vars
    PROVE  StoppedOK'
  <1>. USE ConstantsOK DEF DInv, TypeOK, IdleOK, HoldsOK, RegistryOK, PlacesOK, NamesOK,
           OwnersOK, Belongs, Sole, SoleOK, SoleHoldsOK, FreshOK, StoppedOK, Gone, Ops,
           requestVars, handleVars, dockerVars, historyVars, GoTo, Finish, Continue, Hold, Busy,
           Backend, Active
  <1>1. ASSUME NEW r \in Requests, BeginCreate(r)
        PROVE  StoppedOK'
    BY <1>1 DEF BeginCreate
  <1>2. ASSUME NEW r \in Requests, NEW v \in Requests,
               PopEnv(r, v) \/ \E o \in Ops \ {"create", "destroy"} : GetEnv(r, v, o)
        PROVE  StoppedOK'
    BY SMTT(30), <1>2 DEF PopEnv, GetEnv, Found
  <1>3. ASSUME NEW r \in Requests, NEW v \in Requests, NEW o \in Ops \ {"create"},
               NotFound(r, v, o)
        PROVE  StoppedOK'
    BY <1>3 DEF NotFound, Known
  <1>4. ASSUME NEW r \in Requests, CheckClosed(r) \/ RecheckClosed(r) \/ Fetch(r)
        PROVE  StoppedOK'
    BY <1>4 DEF CheckClosed, RecheckClosed, Fetch
  <1>5. ASSUME NEW r \in Requests, Assign(r) \/ Register(r)
        PROVE  StoppedOK'
    BY <1>5 DEF Assign, Register
  <1>6. ASSUME NEW r \in Requests, MarkClosed(r)
        PROVE  StoppedOK'
    BY <1>6 DEF MarkClosed
  <1>7. ASSUME NEW r \in Requests, DockerRun(r) \/ MarkStarted(r)
        PROVE  StoppedOK'
    BY <1>7 DEF DockerRun, NeedsStart, MarkStarted
  <1>8. ASSUME NEW r \in Requests, Seed(r) \/ Setup(r)
        PROVE  StoppedOK'
    BY <1>8 DEF Seed, Setup, Ready
  <1>9. ASSUME NEW r \in Requests, Exec(r)
        PROVE  StoppedOK'
    BY <1>9 DEF Exec, Ready
  <1>10. ASSUME NEW r \in Requests, Close(r)
        PROVE  StoppedOK'
    BY <1>10 DEF Close, CloseStarted, AfterClose
  <1>11. ASSUME NEW r \in Requests, Unset(r)
        PROVE  StoppedOK'
    BY <1>11 DEF Unset, AfterClose
  <1>12. CASE UNCHANGED vars
    BY <1>12 DEF vars
  <1>. QED
    BY <1>1, <1>2, <1>3, <1>4, <1>5, <1>6, <1>7, <1>8, <1>9, <1>10, <1>11, <1>12, DockerCases

LEMMA ReleasedStep ==
    ASSUME DInv, DestroyInv, PlacesOK, NamesOK, OwnersOK, SoleOK, SoleHoldsOK, StoppedOK, ReleasedOK, [Next]_vars
    PROVE  ReleasedOK'
  <1>. USE ConstantsOK DEF DInv, TypeOK, IdleOK, HoldsOK, RegistryOK, DestroyInv,
           DestroyedOnce, PlacesOK, NamesOK, OwnersOK, Belongs, Sole, SoleOK, SoleHoldsOK, StoppedOK,
           ReleasedOK, Gone, Ops,
           requestVars, handleVars, dockerVars, historyVars, GoTo, Finish, Continue, Hold, Busy,
           Backend, Active
  <1>1. ASSUME NEW r \in Requests, BeginCreate(r)
        PROVE  ReleasedOK'
    BY <1>1 DEF BeginCreate
  <1>2. ASSUME NEW r \in Requests, NEW v \in Requests,
               PopEnv(r, v) \/ \E o \in Ops \ {"create", "destroy"} : GetEnv(r, v, o)
        PROVE  ReleasedOK'
    BY <1>2 DEF PopEnv, GetEnv, Found
  <1>3. ASSUME NEW r \in Requests, NEW v \in Requests, NEW o \in Ops \ {"create"},
               NotFound(r, v, o)
        PROVE  ReleasedOK'
    BY <1>3 DEF NotFound, Known
  <1>4. ASSUME NEW r \in Requests, CheckClosed(r) \/ RecheckClosed(r) \/ Fetch(r)
        PROVE  ReleasedOK'
    BY <1>4 DEF CheckClosed, RecheckClosed, Fetch
  <1>5. ASSUME NEW r \in Requests, Assign(r) \/ Register(r)
        PROVE  ReleasedOK'
    BY <1>5 DEF Assign, Register
  <1>6. ASSUME NEW r \in Requests, MarkClosed(r)
        PROVE  ReleasedOK'
    BY <1>6 DEF MarkClosed
  <1>7. ASSUME NEW r \in Requests, DockerRun(r) \/ MarkStarted(r)
        PROVE  ReleasedOK'
    BY <1>7 DEF DockerRun, NeedsStart, MarkStarted
  <1>8. ASSUME NEW r \in Requests, Seed(r) \/ Setup(r)
        PROVE  ReleasedOK'
    BY <1>8 DEF Seed, Setup, Ready
  <1>9. ASSUME NEW r \in Requests, Exec(r)
        PROVE  ReleasedOK'
    BY <1>9 DEF Exec, Ready
  <1>10. ASSUME NEW r \in Requests, Close(r)
        PROVE  ReleasedOK'
    BY <1>10 DEF Close, CloseStarted, AfterClose
  <1>11. ASSUME NEW r \in Requests, Unset(r)
        PROVE  ReleasedOK'
    BY <1>11 DEF Unset, AfterClose
  <1>12. CASE UNCHANGED vars
    BY <1>12 DEF vars
  <1>. QED
    BY <1>1, <1>2, <1>3, <1>4, <1>5, <1>6, <1>7, <1>8, <1>9, <1>10, <1>11, <1>12, DockerCases

LEMMA OrphanStep ==
    ASSUME ReleaseInv, [Next]_vars
    PROVE  OrphanHasCause'
  <1>. USE ConstantsOK DEF ReleaseInv, DInv, TypeOK, IdleOK, HoldsOK, RegistryOK,
           DestroyInv, DestroyedOnce, PlacesOK, NamesOK, OwnersOK, Belongs, Sole, SoleOK,
           SoleHoldsOK, FreshOK, StoppedOK, ReleasedOK, Gone, OrphanHasCause, Owned, Ops,
           requestVars, handleVars, dockerVars, historyVars, GoTo, Finish, Continue, Hold, Busy,
           Backend, Active
  <1>1. ASSUME NEW r \in Requests, BeginCreate(r)
        PROVE  OrphanHasCause'
    <2>1. /\ pc[r] = "idle" /\ pc' = [pc EXCEPT ![r] = "run"]
          /\ op' = [op EXCEPT ![r] = "create"] /\ env' = [env EXCEPT ![r] = r] /\ exe' = [exe EXCEPT ![r] = r]
          /\ UNCHANGED <<result, envs, executor, running, overlapped, unremoved>>
      BY <1>1 DEF BeginCreate
    <2>2. ASSUME NEW e \in running, Owned(e)
          PROVE  Owned(e)'
      BY <2>1, <2>2
    <2>3. \A e \in running : env[e] \in overlapped => env'[e] \in overlapped'
      BY <2>1
    <2>. QED
      BY <2>1, <2>2, <2>3
  <1>2. ASSUME NEW r \in Requests, NEW v \in Requests,
               PopEnv(r, v) \/ \E o \in Ops \ {"create", "destroy"} : GetEnv(r, v, o)
        PROVE  OrphanHasCause'
    <2>1. PICK o \in Ops \ {"create"} : Finding(r, v, o)
      BY <1>2, Finds
    <2>. USE <2>1 DEF Finding
    <2>2. ASSUME NEW e \in running, Owned(e)
          PROVE  Owned(e)'
      <3>1. CASE \E w \in envs : executor[w] = e
        BY <3>1
      <3>2. CASE \E q \in Requests : Active(q) /\ exe[q] = e
        BY <3>2
      <3>3. CASE \E q \in Requests : Active(q) /\ op[q] = "destroy" /\ executor[env[q]] = e
        BY <3>3
      <3>. QED
        BY <2>2, <3>1, <3>2, <3>3
    <2>3. \A e \in running : env[e] \in overlapped => env'[e] \in overlapped'
      OBVIOUS
    <2>. QED
      BY <2>2, <2>3
  <1>3. ASSUME NEW r \in Requests, NEW v \in Requests, NEW o \in Ops \ {"create"},
               NotFound(r, v, o)
        PROVE  OrphanHasCause'
    BY <1>3 DEF NotFound, Known
  <1>4. ASSUME NEW r \in Requests, CheckClosed(r) \/ RecheckClosed(r) \/ Fetch(r)
        PROVE  OrphanHasCause'
    BY SMTT(30), <1>4 DEF CheckClosed, RecheckClosed, Fetch
  <1>5. ASSUME NEW r \in Requests, Assign(r) \/ Register(r)
        PROVE  OrphanHasCause'
    BY SMTT(30), <1>5 DEF Assign, Register
  <1>6. ASSUME NEW r \in Requests, MarkClosed(r)
        PROVE  OrphanHasCause'
    BY <1>6 DEF MarkClosed
  <1>7. ASSUME NEW r \in Requests, DockerRun(r) \/ MarkStarted(r)
        PROVE  OrphanHasCause'
    BY <1>7 DEF DockerRun, NeedsStart, MarkStarted
  <1>8. ASSUME NEW r \in Requests, Seed(r) \/ Setup(r)
        PROVE  OrphanHasCause'
    <2>1. CASE Seed(r)
      BY SMTT(30), <2>1 DEF Seed, Ready
    <2>2. CASE Setup(r)
      BY SMTT(30), <2>2 DEF Setup, Ready
    <2>. QED
      BY <1>8, <2>1, <2>2
  <1>9. ASSUME NEW r \in Requests, Exec(r)
        PROVE  OrphanHasCause'
    BY <1>9 DEF Exec, Ready
  <1>10. ASSUME NEW r \in Requests, Close(r)
        PROVE  OrphanHasCause'
    BY <1>10 DEF Close, CloseStarted, AfterClose
  <1>11. ASSUME NEW r \in Requests, Unset(r)
        PROVE  OrphanHasCause'
    BY <1>11 DEF Unset, AfterClose
  <1>12. CASE UNCHANGED vars
    BY <1>12 DEF vars
  <1>. QED
    BY SMTT(30), <1>1, <1>2, <1>3, <1>4, <1>5, <1>6, <1>7, <1>8, <1>9, <1>10, <1>11, <1>12, DockerCases

LEMMA BasedStep ==
    ASSUME ReleaseInv, BasedOK, [Next]_vars
    PROVE  BasedOK'
  <1>. USE ConstantsOK DEF ReleaseInv, DInv, TypeOK, IdleOK, HoldsOK, RegistryOK,
           DestroyInv, DestroyedOnce, TargetsOK, PlacesOK, NamesOK, OwnersOK, Belongs, Sole, SoleOK,
           SoleHoldsOK, FreshOK, Based, BasedOK, ResetFailed, Ops,
           requestVars, handleVars, dockerVars, historyVars, GoTo, Finish, Continue, Hold, Busy,
           Backend, Active
  <1>1. ASSUME NEW r \in Requests, BeginCreate(r)
        PROVE  BasedOK'
    BY <1>1 DEF BeginCreate
  <1>2. ASSUME NEW r \in Requests, NEW v \in Requests,
               PopEnv(r, v) \/ \E o \in Ops \ {"create", "destroy"} : GetEnv(r, v, o)
        PROVE  BasedOK'
    <2>1. PICK o \in Ops \ {"create"} : Finding(r, v, o)
      BY <1>2, Finds
    <2>. USE <2>1 DEF Finding
    <2>2. ASSUME NEW q \in Requests, Active(q)', Sole(env[q])', pc'[q] # "check"
          PROVE  Active(q) /\ Sole(env[q])
      BY <2>2
    <2>3. ASSUME NEW q \in Requests, Active(q)', Sole(env[q])'
          PROVE  /\ pc'[q] = "assign" \/ (op'[q] = "create" /\ pc'[q] = "setup") =>
                      Based(q, {"snapshot"})'
                 /\ pc'[q] = "register" => Based(q, {"unready", "baseline"})'
                 /\ op'[q] = "reset" /\ pc'[q] \in {"fetch", "setup"} =>
                      Based(executor[env[q]], {"snapshot"})'
      BY <2>2, <2>3
    <2>4. ASSUME NEW w \in envs', Sole(w)', ~ ResetFailed(w)',
                 ~ \E q \in Requests : Active(q)' /\ op'[q] = "reset" /\ env'[q] = w
          PROVE  Based(executor[w], {"unready", "baseline"})'
      <3>1. w \in envs /\ Sole(w)
        BY <2>4
      <3>2. ~ ResetFailed(w)
        BY <2>4
      <3>3. ~ \E q \in Requests : Active(q) /\ op[q] = "reset" /\ env[q] = w
        BY <2>4
      <3>. QED
        BY <3>1, <3>2, <3>3
    <2>. QED
      BY SMTT(30), <2>3, <2>4
  <1>3. ASSUME NEW r \in Requests, NEW v \in Requests, NEW o \in Ops \ {"create"},
               NotFound(r, v, o)
        PROVE  BasedOK'
    BY SMTT(30), <1>3 DEF NotFound, Known
  <1>4. ASSUME NEW r \in Requests, CheckClosed(r) \/ RecheckClosed(r) \/ Fetch(r)
        PROVE  BasedOK'
    <2>1. CASE CheckClosed(r)
      BY SMTT(30), <2>1 DEF CheckClosed
    <2>2. CASE RecheckClosed(r)
      BY SMTT(30), <2>2 DEF RecheckClosed
    <2>3. CASE Fetch(r)
      BY SMTT(30), <2>3 DEF Fetch
    <2>. QED
      BY <1>4, <2>1, <2>2, <2>3
  <1>5. ASSUME NEW r \in Requests, Assign(r) \/ Register(r)
        PROVE  BasedOK'
    BY SMTT(30), <1>5 DEF Assign, Register
  <1>6. ASSUME NEW r \in Requests, MarkClosed(r)
        PROVE  BasedOK'
    BY SMTT(30), <1>6 DEF MarkClosed
  <1>7. ASSUME NEW r \in Requests, DockerRun(r) \/ MarkStarted(r)
        PROVE  BasedOK'
    BY SMTT(30), <1>7 DEF DockerRun, NeedsStart, MarkStarted
  <1>8. ASSUME NEW r \in Requests, Seed(r) \/ Setup(r)
        PROVE  BasedOK'
    BY SMTT(30), <1>8 DEF Seed, Setup, Ready
  <1>9. ASSUME NEW r \in Requests, Exec(r)
        PROVE  BasedOK'
    BY SMTT(30), <1>9 DEF Exec, Ready
  <1>10. ASSUME NEW r \in Requests, Close(r)
        PROVE  BasedOK'
    <2>1. /\ pc[r] = "close" /\ pc'[r] \in {"unset", "run", "mark"}
          /\ \A q \in Requests \ {r} : pc'[q] = pc[q]
          /\ UNCHANGED <<op, env, envs, executor, started, workspace, result, overlapped>>
          /\ running \ {executor[env[r]]} \subseteq running'
      BY <1>10 DEF Close, AfterClose
    <2>2. ASSUME NEW q \in Requests, NEW what, Active(q), Sole(env[q]), q # r
          PROVE  /\ Based(q, what) => Based(q, what)'
                 /\ Based(executor[env[q]], what) => Based(executor[env[q]], what)'
      <3>1. env[q] # env[r] /\ env[q] \in Requests
        BY <2>1, <2>2
      <3>. QED
        BY <2>1, <2>2, <3>1
    <2>3. ASSUME NEW q \in Requests, Active(q)', Sole(env[q])'
          PROVE  /\ pc'[q] = "assign" \/ (op'[q] = "create" /\ pc'[q] = "setup") =>
                      Based(q, {"snapshot"})'
                 /\ pc'[q] = "register" => Based(q, {"unready", "baseline"})'
                 /\ op'[q] = "reset" /\ pc'[q] \in {"fetch", "setup"} =>
                      Based(executor[env[q]], {"snapshot"})'
      <3>1. CASE q = r
        BY <2>1, <3>1
      <3>2. CASE q # r
        <4>1. Active(q) /\ Sole(env[q])
          BY <2>1, <2>3, <3>2
        <4>. QED
          BY <2>1, <2>2, <3>2, <4>1
      <3>. QED
        BY <3>1, <3>2
    <2>4. ASSUME NEW w \in envs, Sole(w), ~ ResetFailed(w), w # env[r],
                 ~ \E q \in Requests : Active(q) /\ op[q] = "reset" /\ env[q] = w
          PROVE  Based(executor[w], {"unready", "baseline"})'
      <3>1. Based(executor[w], {"unready", "baseline"}) /\ executor[w] \in Requests
        BY <2>4
      <3>. QED
        BY <2>1, <2>4, <3>1
    <2>5. ASSUME NEW w \in envs', Sole(w)', ~ ResetFailed(w)',
                 ~ \E q \in Requests : Active(q)' /\ op'[q] = "reset" /\ env'[q] = w
          PROVE  Based(executor[w], {"unready", "baseline"})'
      <3>1. w # env[r]
        BY <2>1, <2>5
      <3>2. ~ \E q \in Requests : Active(q) /\ op[q] = "reset" /\ env[q] = w
        BY <2>1, <2>5
      <3>. QED
        BY <2>1, <2>4, <2>5, <3>1, <3>2
    <2>. QED
      BY <2>3, <2>5
  <1>11. ASSUME NEW r \in Requests, Unset(r)
        PROVE  BasedOK'
    <2>1. /\ pc[r] = "unset" /\ pc'[r] \in {"run", "mark"}
          /\ \A q \in Requests \ {r} : pc'[q] = pc[q]
          /\ UNCHANGED <<op, env, envs, executor, running, workspace, result, overlapped>>
          /\ started \ {exe[r]} \subseteq started'
      BY <1>11 DEF Unset, AfterClose
    <2>2. ASSUME NEW q \in Requests, NEW what, Active(q), Sole(env[q]), q # r
          PROVE  /\ Based(q, what) => Based(q, what)'
                 /\ Based(executor[env[q]], what) => Based(executor[env[q]], what)'
      <3>1. env[q] # env[r] /\ env[q] \in Requests
        BY <2>1, <2>2
      <3>. QED
        BY <2>1, <2>2, <3>1
    <2>3. ASSUME NEW q \in Requests, Active(q)', Sole(env[q])'
          PROVE  /\ pc'[q] = "assign" \/ (op'[q] = "create" /\ pc'[q] = "setup") =>
                      Based(q, {"snapshot"})'
                 /\ pc'[q] = "register" => Based(q, {"unready", "baseline"})'
                 /\ op'[q] = "reset" /\ pc'[q] \in {"fetch", "setup"} =>
                      Based(executor[env[q]], {"snapshot"})'
      <3>1. CASE q = r
        BY <2>1, <3>1
      <3>2. CASE q # r
        <4>1. Active(q) /\ Sole(env[q])
          BY <2>1, <2>3, <3>2
        <4>. QED
          BY <2>1, <2>2, <3>2, <4>1
      <3>. QED
        BY <3>1, <3>2
    <2>4. ASSUME NEW w \in envs, Sole(w), ~ ResetFailed(w), w # env[r],
                 ~ \E q \in Requests : Active(q) /\ op[q] = "reset" /\ env[q] = w
          PROVE  Based(executor[w], {"unready", "baseline"})'
      <3>1. Based(executor[w], {"unready", "baseline"}) /\ executor[w] \in Requests
        BY <2>4
      <3>. QED
        BY <2>1, <2>4, <3>1
    <2>5. ASSUME NEW w \in envs', Sole(w)', ~ ResetFailed(w)',
                 ~ \E q \in Requests : Active(q)' /\ op'[q] = "reset" /\ env'[q] = w
          PROVE  Based(executor[w], {"unready", "baseline"})'
      <3>1. w # env[r]
        BY <2>1, <2>5
      <3>2. ~ \E q \in Requests : Active(q) /\ op[q] = "reset" /\ env[q] = w
        BY <2>1, <2>5
      <3>. QED
        BY <2>1, <2>4, <2>5, <3>1, <3>2
    <2>. QED
      BY <2>3, <2>5
  <1>12. CASE UNCHANGED vars
    BY <1>12 DEF vars
  <1>. QED
    BY <1>1, <1>2, <1>3, <1>4, <1>5, <1>6, <1>7, <1>8, <1>9, <1>10, <1>11, <1>12, DockerCases

LEMMA BaselineStep ==
    ASSUME ReleaseInv, BasedOK, RunsOnSetUp, [Next]_vars
    PROVE  RunsOnSetUp'
  <1>. USE ConstantsOK DEF ReleaseInv, DInv, TypeOK, IdleOK, HoldsOK, RegistryOK,
           DestroyInv, TargetsOK, PlacesOK, NamesOK, OwnersOK, Belongs, Sole, SoleOK, SoleHoldsOK,
           FreshOK, Based, BasedOK, RunsOnSetUp, ResetFailed, Ops,
           requestVars, handleVars, dockerVars, historyVars, GoTo, Finish, Continue, Hold, Busy,
           Backend, Active
  <1>1. ASSUME NEW r \in Requests, BeginCreate(r)
        PROVE  RunsOnSetUp'
    BY <1>1 DEF BeginCreate
  <1>2. ASSUME NEW r \in Requests, NEW v \in Requests,
               PopEnv(r, v) \/ \E o \in Ops \ {"create", "destroy"} : GetEnv(r, v, o)
        PROVE  RunsOnSetUp'
    <2>1. PICK o \in Ops \ {"create"} : Finding(r, v, o)
      BY <1>2, Finds
    <2>2. UNCHANGED strays /\ overlapped \subseteq overlapped' /\ r \notin strays
          /\ UNCHANGED result /\ \A q \in Requests \ {r} : op'[q] = op[q] /\ env'[q] = env[q]
      BY <2>1 DEF Finding
    <2>3. result[r] # "500"
      BY <2>1 DEF Finding
    <2>. QED
      BY <2>2, <2>3
  <1>3. ASSUME NEW r \in Requests, NEW v \in Requests, NEW o \in Ops \ {"create"},
               NotFound(r, v, o)
        PROVE  RunsOnSetUp'
    BY <1>3 DEF NotFound, Known
  <1>4. ASSUME NEW r \in Requests, CheckClosed(r) \/ RecheckClosed(r) \/ Fetch(r)
        PROVE  RunsOnSetUp'
    BY <1>4 DEF CheckClosed, RecheckClosed, Fetch
  <1>5. ASSUME NEW r \in Requests, Assign(r) \/ Register(r)
        PROVE  RunsOnSetUp'
    BY <1>5 DEF Assign, Register
  <1>6. ASSUME NEW r \in Requests, MarkClosed(r)
        PROVE  RunsOnSetUp'
    BY <1>6 DEF MarkClosed
  <1>7. ASSUME NEW r \in Requests, DockerRun(r) \/ MarkStarted(r)
        PROVE  RunsOnSetUp'
    BY <1>7 DEF DockerRun, NeedsStart, MarkStarted
  <1>8. ASSUME NEW r \in Requests, Seed(r) \/ Setup(r)
        PROVE  RunsOnSetUp'
    BY <1>8 DEF Seed, Setup, Ready
  <1>9. ASSUME NEW r \in Requests, Exec(r)
        PROVE  RunsOnSetUp'
    <2>1. /\ pc[r] = "exec" /\ Ready(r)
          /\ UNCHANGED <<op, env, running, workspace, overlapped>>
          /\ strays' = IF OffSetUp(exe[r]) THEN strays \cup {r} ELSE strays
          /\ \A q \in Requests : result[q] = "500" => result'[q] = "500"
      BY <1>9 DEF Exec
    <2>2. ASSUME OffSetUp(exe[r]), Sole(env[r])
          PROVE  ResetFailed(env[r])
      <3>1. op[r] \notin {"create", "destroy", "reset"} /\ env[r] \in envs
        BY <2>1, <2>2
      <3>2. ~ \E q \in Requests : Active(q) /\ op[q] = "reset" /\ env[q] = env[r]
        BY <2>1, <2>2, <3>1
      <3>3. exe[r] = executor[env[r]] \/ exe[r] = NoOne
        BY <2>1, <2>2, <3>1
      <3>4. exe[r] # NoOne
        BY <2>1 DEF Ready
      <3>. QED
        BY <2>2, <3>1, <3>2, <3>3, <3>4 DEF OffSetUp
    <2>3. \A v \in Requests : ResetFailed(v) => ResetFailed(v)'
      BY <2>1
    <2>4. env[r] \in Requests
      BY <2>1
    <2>. QED
      BY <2>1, <2>2, <2>3, <2>4
  <1>10. ASSUME NEW r \in Requests, Close(r)
        PROVE  RunsOnSetUp'
    BY <1>10 DEF Close, CloseStarted, AfterClose
  <1>11. ASSUME NEW r \in Requests, Unset(r)
        PROVE  RunsOnSetUp'
    BY <1>11 DEF Unset, AfterClose
  <1>12. CASE UNCHANGED vars
    BY <1>12 DEF vars
  <1>. QED
    BY <1>1, <1>2, <1>3, <1>4, <1>5, <1>6, <1>7, <1>8, <1>9, <1>10, <1>11, <1>12, DockerCases

LEMMA ReleaseInitOK == Init => ReleaseInv
  <1>. SUFFICES ASSUME Init PROVE ReleaseInv
    OBVIOUS
  <1>1. DInv /\ DestroyInv
    BY InitOK, ConstantsOK DEF Init, DestroyInv, TargetsOK, DestroyedOnce
  <1>2. PlacesOK /\ NamesOK /\ OwnersOK /\ SoleOK /\ SoleHoldsOK
    BY ConstantsOK DEF Init, PlacesOK, NamesOK, OwnersOK, Belongs, SoleOK, SoleHoldsOK, Active, Busy
  <1>3. FreshOK /\ StoppedOK /\ ReleasedOK /\ OrphanHasCause
    BY ConstantsOK DEF Init, FreshOK, StoppedOK, ReleasedOK, OrphanHasCause
  <1>. QED
    BY <1>1, <1>2, <1>3 DEF ReleaseInv

LEMMA ReleaseInvariance == Spec => []ReleaseInv
  <1>1. ReleaseInv /\ [Next]_vars => ReleaseInv'
    <2>. SUFFICES ASSUME ReleaseInv, [Next]_vars PROVE ReleaseInv'
      OBVIOUS
    <2>1. DInv' /\ DestroyInv'
      BY TypeStep, HoldsStep, DestroyStep DEF ReleaseInv, DInv
    <2>2. PlacesOK' /\ NamesOK' /\ OwnersOK' /\ SoleOK' /\ SoleHoldsOK'
      BY PlacesStep, NamesStep, OwnersStep, SoleStep, SoleHoldsStep DEF ReleaseInv
    <2>3. FreshOK' /\ StoppedOK' /\ ReleasedOK' /\ OrphanHasCause'
      BY FreshStep, StoppedStep, ReleasedStep, OrphanStep DEF ReleaseInv
    <2>. QED
      BY <2>1, <2>2, <2>3 DEF ReleaseInv
  <1>. QED
    BY ReleaseInitOK, <1>1, PTL DEF Spec

(* A container that nothing on the server can remove any more was made by a *)
(* request that failed, belongs to an environment on which two requests     *)
(* overlapped, or its removal failed unnoticed; nothing else leaks one.     *)
THEOREM OrphansHaveACause == Spec => []OrphanHasCause
  <1>1. ReleaseInv => OrphanHasCause
    BY DEF ReleaseInv
  <1>. QED
    BY ReleaseInvariance, <1>1, PTL

(* A DELETE that succeeded on an environment where requests never           *)
(* overlapped has closed it and stopped its executor, and its container is  *)
(* gone unless docker rm failed (backend.py: destroy, executors.py: close). *)
THEOREM DestroyDelivers == Spec => []DestroyReleases
  <1>1. ReleaseInv => DestroyReleases
    BY DEF ReleaseInv, ReleasedOK, Sole, Gone, DestroyReleases
  <1>. QED
    BY ReleaseInvariance, <1>1, PTL

LEMMA BaselineInvariance == Spec => [](BasedOK /\ RunsOnSetUp)
  <1>1. Init => BasedOK /\ RunsOnSetUp
    BY ConstantsOK DEF Init, BasedOK, RunsOnSetUp, Active, Busy
  <1>2. ReleaseInv /\ BasedOK /\ RunsOnSetUp /\ [Next]_vars => BasedOK' /\ RunsOnSetUp'
    BY BasedStep, BaselineStep
  <1>. QED
    BY ReleaseInvariance, <1>1, <1>2, PTL DEF Spec

(* A tool call or an export runs where the create or the last reset of its  *)
(* environment has put the snapshot and run the set-up commands, whose exit *)
(* codes nobody looks at; never on an empty, half-made or vanished          *)
(* container, except after two requests overlapped on the environment or a  *)
(* reset of it failed (backend.py: reset replaces the executor before it    *)
(* sets it up).                                                             *)
THEOREM CommandsRunOnSetUp == Spec => []RunsOnSetUp
  <1>. QED
    BY BaselineInvariance, PTL

-----------------------------------------------------------------------------
\* Whatever an executor is called after has arrived, and a request holds none
\* before it arrives.
Arrived(e) == e \in Requests => pc[e] # "idle"
ArrivedOK ==
    /\ \A r \in Requests : pc[r] = "idle" => exe[r] = NoOne
    /\ \A r \in Requests : Arrived(exe[r]) /\ Arrived(executor[r])
    /\ \A e \in running : Arrived(e)

\* A container that a crash has left is out of reach of the requests that are
\* being served now: they hold and find executors that came after it.
Apart(e) == e \notin leftover
ApartOK ==
    /\ leftover \subseteq Requests
    /\ \A e \in leftover : pc[e] = "done"
    /\ \A v \in envs : Apart(executor[v])
    /\ \A r \in Requests :
         Active(r) => Apart(exe[r]) /\ (op[r] # "create" => Apart(executor[env[r]]))

\* How far the cleanup has come.
CleanupOK ==
    /\ server = "inspect" => leftover \cap running \subseteq listed /\ listed \subseteq young \cup old
    /\ server = "rm" => leftover \cap running \subseteq young \cup stale
    /\ server = "up" /\ cleanup => leftover \cap running \subseteq young

ServerInv == DInv /\ ArrivedOK /\ ApartOK /\ CleanupOK

LEMMA ServerInitOK == LifeInit => ServerInv
  <1>. SUFFICES ASSUME LifeInit PROVE ServerInv
    OBVIOUS
  <1>1. DInv
    BY InitOK DEF LifeInit
  <1>. QED
    BY <1>1, ConstantsOK DEF LifeInit, Init, ServerInv, ArrivedOK, Arrived, ApartOK, Apart,
      CleanupOK, Active, Busy

\* A step of a request keeps what it holds apart from what a crash has left,
\* so it starts no container that a crash has left.
LEMMA RequestStep ==
    ASSUME DInv, ArrivedOK, ApartOK, UNCHANGED leftover,
           NEW r \in Requests, Arrive(r) \/ Serve(r)
    PROVE  ArrivedOK' /\ ApartOK' /\ leftover \cap running' \subseteq running
  <1>. USE DEF DInv, TypeOK, IdleOK, HoldsOK, RegistryOK, ArrivedOK, Arrived, ApartOK, Apart,
         Active, Busy, Backend, Ops, requestVars, handleVars, dockerVars, historyVars, GoTo, Finish,
         Continue, Hold
  <1>. DEFINE Goal == ArrivedOK' /\ ApartOK' /\ leftover \cap running' \subseteq running
  <1>1. CASE BeginCreate(r)
    BY <1>1 DEF BeginCreate
  <1>2. CASE CheckClosed(r)
    BY <1>2 DEF CheckClosed
  <1>3. CASE RecheckClosed(r)
    BY <1>3 DEF RecheckClosed
  <1>4. CASE Fetch(r)
    BY <1>4 DEF Fetch
  <1>5. CASE Assign(r)
    BY <1>5 DEF Assign
  <1>6. CASE Register(r)
    BY <1>6 DEF Register
  <1>7. CASE MarkClosed(r)
    BY <1>7 DEF MarkClosed
  <1>8. CASE DockerRun(r)
    BY <1>8 DEF DockerRun, NeedsStart
  <1>9. CASE MarkStarted(r)
    BY <1>9 DEF MarkStarted
  <1>10. CASE Seed(r)
    BY <1>10 DEF Seed, Ready
  <1>11. CASE Setup(r)
    BY <1>11 DEF Setup, Ready
  <1>12. CASE Exec(r)
    BY <1>12 DEF Exec, Ready
  <1>13. CASE Close(r)
    BY <1>13 DEF Close, CloseStarted, AfterClose
  <1>14. CASE Unset(r)
    BY <1>14 DEF Unset, AfterClose
  <1>15. ASSUME NEW v \in Requests, PopEnv(r, v) PROVE Goal
    BY <1>15, ConstantsOK DEF PopEnv, Found
  <1>16. ASSUME NEW v \in Requests, NEW o \in Ops \ {"create", "destroy"}, GetEnv(r, v, o)
         PROVE  Goal
    BY <1>16, ConstantsOK DEF GetEnv, Found
  <1>17. ASSUME NEW v \in Requests, NEW o \in Ops \ {"create"}, NotFound(r, v, o) PROVE Goal
    BY <1>17 DEF NotFound, Known
  <1>. QED
    BY <1>1, <1>2, <1>3, <1>4, <1>5, <1>6, <1>7, <1>8, <1>9, <1>10, <1>11, <1>12,
       <1>13, <1>14, <1>15, <1>16, <1>17
    DEF Arrive, Serve

LEMMA ServerStep ==
    ASSUME ServerInv, [LifeNext]_lifeVars
    PROVE  ServerInv'
  <1>. USE DEF ServerInv
  <1>1. ASSUME NEW r \in Requests, Arrival(r) \/ Handled(r)
        PROVE  ServerInv'
    <2>1. Arrive(r) \/ Serve(r)
      BY <1>1 DEF Arrival, Handled
    <2>2. UNCHANGED <<bootVars, worldVars, lifeHistory>> /\ server = "up"
      BY <1>1 DEF Arrival, Handled
    <2>3. DInv'
      BY <2>1, TypeStep, HoldsStep DEF Next, DInv
    <2>4. ArrivedOK' /\ ApartOK' /\ leftover \cap running' \subseteq running
      BY <2>1, <2>2, RequestStep DEF lifeHistory
    <2>5. CleanupOK'
      BY <2>2, <2>4 DEF CleanupOK, bootVars, worldVars, lifeHistory
    <2>. QED
      BY <2>3, <2>4, <2>5
  <1>2. CASE Crash
    <2>1. DInv'
      BY <1>2 DEF Crash, DInv, TypeOK, IdleOK, HoldsOK, RegistryOK, Active, Busy, Backend, Ops,
        historyVars
    <2>2. ArrivedOK'
      BY <1>2 DEF Crash, DInv, TypeOK, ArrivedOK, Arrived, Active, Busy, Ops
    <2>3. ApartOK'
      BY <1>2 DEF Crash, DInv, TypeOK, ArrivedOK, Arrived, ApartOK, Apart, Active, Busy, Ops
    <2>4. CleanupOK'
      BY <1>2 DEF Crash, CleanupOK, worldVars
    <2>. QED
      BY <2>1, <2>2, <2>3, <2>4
  <1>3. CASE StartServer \/ ListContainers \/ InspectContainers \/ Serving
    <2>1. UNCHANGED <<vars, worldVars, leftover, struck>>
      BY <1>3 DEF StartServer, ListContainers, InspectContainers, Serving, lifeHistory
    <2>2. DInv' /\ ArrivedOK' /\ ApartOK'
      BY <2>1 DEF vars, DInv, TypeOK, IdleOK, HoldsOK, RegistryOK, ArrivedOK, Arrived, ApartOK,
        Apart, Active
    <2>3. CleanupOK'
      BY <1>3 DEF StartServer, ListContainers, InspectContainers, Serving, OldOf, Existing,
        CleanupOK, vars, worldVars, lifeHistory
    <2>. QED
      BY <2>2, <2>3
  <1>4. ASSUME NEW c \in stale, RemoveStale(c)
        PROVE  ServerInv'
    <2>1. DInv' /\ ArrivedOK' /\ ApartOK'
      BY <1>4 DEF RemoveStale, DInv, TypeOK, IdleOK, HoldsOK, RegistryOK, ArrivedOK, Arrived,
        ApartOK, Apart, Active, historyVars
    <2>2. CleanupOK'
      BY <1>4 DEF RemoveStale, CleanupOK
    <2>. QED
      BY <2>1, <2>2
  <1>5. ASSUME NEW c, World(c) \/ Time(c)
        PROVE  ServerInv'
    <2>1. UNCHANGED <<vars, bootVars, lifeHistory>> /\ old \subseteq old'
      BY <1>5 DEF World, Time, OtherCreates, OtherDestroys, Ages
    <2>2. DInv' /\ ArrivedOK' /\ ApartOK'
      BY <2>1 DEF vars, lifeHistory, DInv, TypeOK, IdleOK, HoldsOK, RegistryOK, ArrivedOK,
        Arrived, ApartOK, Apart, Active
    <2>3. CleanupOK'
      BY <2>1 DEF CleanupOK, vars, bootVars, lifeHistory
    <2>. QED
      BY <2>2, <2>3
  <1>6. CASE UNCHANGED lifeVars
    BY <1>6 DEF lifeVars, vars, bootVars, worldVars, lifeHistory, DInv, TypeOK, IdleOK, HoldsOK,
      RegistryOK, ArrivedOK, Arrived, ApartOK, Apart, Active, CleanupOK
  <1>. QED
    BY <1>1, <1>2, <1>3, <1>4, <1>5, <1>6 DEF LifeNext, Boot, AllAnswered

LEMMA ServerInvariance == LifeSpec => []ServerInv
  BY ServerInitOK, ServerStep, PTL DEF LifeSpec

(* --cleanup-stale (server.py: main, manager.py: cleanup_stale_containers): *)
(* however often the server crashes, once it serves after such a start the  *)
(* containers a crash has left are gone, unless they were too young.        *)
THEOREM CleanupDelivers == LifeSpec => []CleanupReclaims
  <1>1. ServerInv => CleanupReclaims
    BY DEF ServerInv, CleanupOK, CleanupReclaims
  <1>. QED
    BY ServerInvariance, <1>1, PTL

(* Crashes and restarts do not upset the types of the server's tables.      *)
THEOREM LifeTypeCorrect == LifeSpec => []TypeOK
  <1>1. ServerInv => TypeOK
    BY DEF ServerInv, DInv
  <1>. QED
    BY ServerInvariance, <1>1, PTL
=============================================================================
