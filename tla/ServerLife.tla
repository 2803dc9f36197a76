----------------------------- MODULE ServerLife -----------------------------
(***************************************************************************)
(* The environment server as a process: it crashes, is started again, and  *)
(* with --cleanup-stale removes old containers before it serves            *)
(* (env_server/server.py main, env_server/docker/manager.py).  The server  *)
(* is DockerEnv; containers survive it, its tables do not.  Another server *)
(* may use the same docker daemon: labels do not tell whose a container is.*)
(***************************************************************************)
EXTENDS DockerEnv

CONSTANTS
    Others,     \* containers of the other server
    MaxCrashes  \* bound: crashes of this server

ASSUME LifeConstants == Others \cap Requests = {} /\ MaxCrashes \in Nat

VARIABLES
    server,   \* "up", or what main is doing: "down", "ps", "inspect", "rm"
    cleanup,  \* --cleanup-stale was given at the last start
    listed,   \* what docker ps showed
    stale,    \* what is to be removed
    others,   \* the containers of the other server, all in use
    old,      \* the containers created more than --cleanup-stale seconds ago
    crashes,  \* crashes so far
    leftover, \* history: containers a crash has left
    young,    \* history: containers too young at the last docker ps
    struck    \* history: containers of the other server removed by this one

bootVars == <<server, cleanup, listed, stale>>
worldVars == <<others, old>>
lifeHistory == <<crashes, leftover, young, struck>>
lifeVars == <<vars, bootVars, worldVars, lifeHistory>>

Existing == running \cup others

\* The process ends; what its docker commands have done stays done.
Crash ==
    /\ server = "up" /\ crashes < MaxCrashes
    /\ crashes' = crashes + 1
    /\ pc' = [r \in Requests |-> IF Active(r) THEN "done" ELSE pc[r]]
    /\ result' = [r \in Requests |-> IF Active(r) THEN "lost" ELSE result[r]]
    /\ envs' = {} /\ started' = {} /\ launching' = {}
    /\ leftover' = leftover \cup running
    /\ server' = "down"
    /\ UNCHANGED <<op, env, exe, left, executor, closed, finished, running, workspace,
                   historyVars, cleanup, listed, stale, worldVars, young, struck>>

\* main, with or without --cleanup-stale.
StartServer ==
    /\ server = "down"
    /\ cleanup' \in BOOLEAN
    /\ server' = IF cleanup' THEN "ps" ELSE "up"
    /\ UNCHANGED <<vars, listed, stale, worldVars, lifeHistory>>

\* list_managed_containers: docker ps ...
ListContainers ==
    /\ server = "ps"
    /\ listed' = Existing /\ young' = Existing \ old
    /\ server' = "inspect"
    /\ UNCHANGED <<vars, cleanup, stale, worldVars, crashes, leftover, struck>>

\* ... then docker inspect, which fails if one of them is gone by now: main ends.
MutOldOf(containers) == containers \ old
OldOf(containers) == containers \cap old
InspectContainers ==
    /\ server = "inspect"
    /\ \/ listed \subseteq Existing /\ stale' = OldOf(listed) /\ server' = "rm"
       \/ ~ (listed \subseteq Existing) /\ server' = "down" /\ stale' = {}
    /\ listed' = {}
    /\ UNCHANGED <<vars, cleanup, worldVars, lifeHistory>>

\* cleanup_stale_containers: docker rm -f, one by one; a failure ends main.
RemoveStale(c) ==
    /\ server = "rm" /\ c \in stale
    /\ \/ /\ running' = running \ {c} /\ others' = others \ {c} /\ stale' = stale \ {c}
          /\ struck' = struck \cup ({c} \cap others)
          /\ UNCHANGED server
       \/ /\ c \notin Existing \/ "rm" \in Faults
          /\ server' = "down" /\ stale' = {}
          /\ UNCHANGED <<running, others, struck>>
    /\ UNCHANGED <<op, pc, env, exe, left, result, envs, executor, closed, finished, started,
                   launching, workspace, historyVars, cleanup, listed, old, crashes, leftover, young>>

Serving ==
    /\ server = "rm" /\ stale = {}
    /\ server' = "up"
    /\ UNCHANGED <<vars, cleanup, listed, stale, worldVars, lifeHistory>>

\* The other server, and time.  While this server is up it reads neither: it
\* is enough to let them move while it is not.
OtherCreates(c) == c \notin others \cup old /\ others' = others \cup {c} /\ UNCHANGED old
OtherDestroys(c) == c \in others /\ others' = others \ {c} /\ UNCHANGED old
Ages(c) == c \in Existing \ old /\ old' = old \cup {c} /\ UNCHANGED others

World(c) == /\ server # "up"
            /\ OtherCreates(c) \/ OtherDestroys(c)
            /\ UNCHANGED <<vars, bootVars, lifeHistory>>
Time(c) == server # "up" /\ Ages(c) /\ UNCHANGED <<vars, bootVars, lifeHistory>>

-----------------------------------------------------------------------------
LifeInit ==
    /\ Init
    /\ server = "up" /\ cleanup = FALSE /\ listed = {} /\ stale = {}
    /\ others = Others /\ old = {}
    /\ crashes = 0 /\ leftover = {} /\ young = {} /\ struck = {}

\* The server that is up is DockerEnv.
Handled(r) ==
    /\ server = "up" /\ Serve(r)
    /\ UNCHANGED <<bootVars, worldVars, lifeHistory>>
Arrival(r) ==
    /\ server = "up" /\ Arrive(r)
    /\ UNCHANGED <<bootVars, worldVars, lifeHistory>>

Boot == StartServer \/ ListContainers \/ InspectContainers \/ Serving
        \/ \E c \in stale : RemoveStale(c)

AllAnswered == (\A r \in Requests : pc[r] = "done") /\ UNCHANGED lifeVars

LifeNext ==
    \/ \E r \in Requests : Arrival(r) \/ Handled(r)
    \/ Crash \/ Boot \/ AllAnswered
    \/ \E c \in Others : World(c)
    \/ \E c \in Existing : Time(c)

LifeSpec == LifeInit /\ [][LifeNext]_lifeVars

\* While the server is up, a thread that serves a request runs on.
FairLifeSpec == LifeSpec /\ \A r \in Requests : WF_lifeVars(Handled(r))

-----------------------------------------------------------------------------
(* What --cleanup-stale is for (the help, env_server/server.py:234): once   *)
(* the server serves after such a start, a container a crash of it has left *)
(* is gone unless it was too young at `docker ps`.                          *)
CleanupReclaims == server = "up" /\ cleanup => leftover \cap running \subseteq young

(* "Filtered by age, does not kill active containers by mistake" (the help  *)
(* of --cleanup-stale, env_server/server.py:235): what another server uses  *)
(* stays.                                                                   *)
CleanupSparesActive == struck = {}

=============================================================================
