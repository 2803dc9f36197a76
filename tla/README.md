# A verification project for SWE-Forge

SWE-Forge (`src/sweforge`) rolls out a coding agent against task environments. The agent loop runs on
a training machine; the environments are Docker containers on another machine; between them is a small HTTP
contract. Scripts mine repositories for tasks and build the pools that training reads. This directory holds TLA+
models of the parts where order, failure and concurrency matter, the TLC configurations that check them, and
theorems about them checked by TLAPS.

Run `tlc -config <run>.cfg <MC module>` for a run and `tlapm <module>` for the proofs. `PROJECT.json` lists the
runs, the source lines every definition translates, the hazards, and a seeded bug for every property.

## 1. Inventory

Paths are relative to `src/src/sweforge/`, those of scripts to `src/scripts/`.

| component | state | operations | talks to |
|---|---|---|---|
| RPC client, `environment/remote.py` | per call: attempt number, request_id | `_request` behind create, reset, execute, export_patch, verify, destroy, register_task | server, by HTTP, 120 s read timeout, `max_retries` |
| RPC server, `environment/server.py` | `idem` (idempotency table), `envs`, `tasks` | `_idempotent`, nine endpoints, each in a thread-pool thread | the backend, by calls |
| Docker backend, `env_server/docker/backend.py` | `EnvHandle`: executor, closed, finished | create, reset, execute, export_patch, verify, destroy | executors, bundles on disk |
| Executors, `env_server/docker/executors.py` | `_started`; the container and its /workspace | start, seed_from_snapshot, run_argv, run_shell, read_text, write_text, ..., close | the docker command line |
| Tools, `env_server/docker/tools.py`; `path_policy.py` | the workspace, git's index | bash, search, view_file, str_replace, finish | an executor, one docker exec at a time |
| Container manager, `env_server/docker/manager.py`; server process, `env_server/server.py` | containers by label and age | `docker ps` + `inspect`, cleanup of stale containers, start-up | docker; the server's tables die with it, containers do not |
| Mock backend, `environment/mock.py` | one directory per environment | the same contract without Docker | the server, tests; the reference for the tools |
| Clean verification, `env_server/docker/verify.py`, `schemas/verification.py` | one result | `verify_clean` | an executor of its own |
| Reward verifier, `reward/verifier.py` | a temporary directory, one result | `CleanVerifier.verify` | the training side |
| Agent loop, `agent/loop.py` | messages, turns, termination reason | `run` | a policy, a backend |
| Trajectory validator, `protocol/validate.py`, `protocol/messages.py` | none | `validate_trajectory`, `validate_verification`, `validate_task_spec` | the loop |
| Token layer, `protocol/serialization.py`, `schemas/trajectory.py` | token arrays | `build_token_arrays`, shape checks, SFT labels, rendering | trainers |
| Data pool scripts, `build_public_executable_pool.py`, `build_repair_reversal_pool.py`, `build_ast_bundles.py`, `build_mixed_rl_pool.py` | state file, task rows, bundles, containers, train/eval/manifest files | walk commits, measure tests in two containers, write rows; mix the results | git, docker, each other's files |

What is hard here, and what makes each part correct:

* **RPC.** A call is retried on transport errors and 5xx. A replay must not execute again; it must get the
  result of the execution. The table is shared by threads without a lock, evicts, forgets at restart, and learns
  of an execution only when it has returned. An ended call must have no later effect; every call must end.
* **Environments.** Requests on one environment run concurrently and share an executor that starts its
  container lazily. A container must stay removable as long as it runs; a tool call must run on the workspace
  that was set up; a DELETE must release everything, once.
* **Server life.** A crash forgets every table and leaves the containers. Cleanup at the next start goes by age,
  with two docker commands between which the world moves; it must reclaim what is old enough and spare the rest.
* **Tools.** A tool call is several docker execs; calls overlap; each exec may fail in a way that looks like a
  missing file, and what comes out of the container is decoded and loses its CR LF on the way. No edit may cost a
  file its content, what the agent sees must be what the mock shows, and the exported patch must be the change.
* **Mock environments.** They are directories named after the task, and nothing confines a tool to its own. What one
  environment exports must not contain the work of another.
* **Verification.** Any step may raise; the container must go. A reward of 1 must have been earned by a run of
  the patched workspace; a patch must keep off the protected paths; both verifiers must judge alike.
* **Agent loop and tokens.** Whatever policy and backend do, the environment is destroyed once and last, the
  trajectory is one the validator accepts and tells what happened, and its token arrays line up.
* **Pools.** The builders are killed and started again; rows, bundles and containers are written one after the
  other. A row must be backed by a measurement and a bundle; nothing may be lost, doubled or skipped; training and
  evaluation must not share a repository; the pool must not contain solutions.

## 2. Modules

| module | models | source |
|---|---|---|
| `AtMostOnceRpc` | what a caller is promised (abstract) | claims at server.py:18-21, remote.py:23-24 |
| `IdempotentRpc` | `_request`, the network, `_idempotent`, restart | remote.py, environment/server.py |
| `RpcPromise` | the mapping under which `IdempotentRpc` implements `AtMostOnceRpc` | remote.py, environment/server.py |
| `DockerEnv` | registry, `LocalDockerBackend`, `DockerExecutor`, the daemon | environment/server.py, backend.py, executors.py |
| `ServerLife` | crash, restart, cleanup; EXTENDS `DockerEnv` | env_server/server.py, manager.py |
| `Workspace` | files, paths, and the rules both backends share | path_policy.py, tools.py, mock.py |
| `MockTools` | the mock's tools, on any path; EXTENDS `Workspace` | mock.py |
| `MockEnvs` | create, reset, execute, export and destroy of mock environments; EXTENDS `MockTools` | mock.py |
| `ToolCalls` | the Docker tools, a step per docker exec, beside the mock; EXTENDS `MockTools` | tools.py, executors.py, backend.py |
| `CleanVerify` | `verify_clean`, verdict, reward, their validation | verify.py, schemas/verification.py, validate.py |
| `RewardVerifier` | `CleanVerifier` on the same task and patch; EXTENDS `CleanVerify` | reward/verifier.py |
| `TrajectoryFormat` | the structural checks of `validate_trajectory` | validate.py, messages.py |
| `AgentLoop` | `AgentLoop.run`, checked by `TrajectoryFormat` | agent/loop.py |
| `TokenLayer` | token arrays of what the loop returns; EXTENDS `AgentLoop` | serialization.py, schemas/trajectory.py |
| `Selection` | the round robin the scripts share | all four scripts |
| `PoolBuilder` | the two resumable builders; uses `Selection` | build_public_executable_pool.py, build_repair_reversal_pool.py |
| `AstBundles` | the third builder; EXTENDS `PoolBuilder` | build_ast_bundles.py |
| `MixedPool` | the mixer on what a builder wrote; EXTENDS `AstBundles` | build_mixed_rl_pool.py |
| `IdempotentRpcProofs`, `DockerEnvProofs`, `CleanVerifyProofs`, `ToolCallsProofs`, `AgentLoopProofs`, `PoolProofs`, `MixedPoolProofs`; `SelectionProofs` (lemmas) | theorems, see section 4 | |
| `MC...` (7) | the small instances | |

An operator `Mut<Name>` is `<Name>` with a plausible bug (a dropped guard, a missing reset). No specification uses
it. It is put in place of `<Name>` to see that a property notices; `PROJECT.json` says which property.

### IdempotentRpc

A *call* is one invocation of `_request`; its request_id is the call itself. The n-th attempt of call `c` is the
handler `<<c, n>>`; `pc[<<c, n>>]` follows it over the wire, through the thread that serves it and back. The client
has `Send`, `Receive`, `TransportError` (the attempt is dead) and `GiveUpWaiting` (a timeout while the attempt is
still alive). The thread takes one step for each access to the table: `Lookup` (`key in idem`), `Touch`
(`move_to_end`), `ReadEntry`, `Apply`/`Reject`/`Raise`/`ReturnOk` (`fn()`), `Store`, `CheckCap`, `CountHalf`,
`PopItem`. The `KeyError`s that a vanished key or an emptied table raises are 5xx answers, as FastAPI makes them.
`saved` and `order` are one OrderedDict: what is stored under a key, and the order of the keys. `Lose` and
`Restart` are the network and the process. `effects` and `cause` are history: which executions took effect, and
what voided the promise for a call. A GET carries no request_id: it is a call outside `Mutating`.

`fn()` is one atomic effect. What happens inside it is `DockerEnv`'s subject.

### DockerEnv

A request is one thread. Environments, executors and containers are named after the request that makes them, so
`create` and `reset` never need fresh names. `envs`, `executor`, `closed`, `finished` are the server's tables,
`started` is `_started`, `running` and `workspace` belong to the daemon. A thread's steps end where it touches shared
state: the registry, `closed` (checked once at the start of each operation), `env.executor` (read again before each
command of an export), `_started`, `docker run`, `docker rm`. `launching` is the gap between `docker run` and
`_started = True`. A workspace goes from "image" through "snapshot" (seeded) to "baseline" (set up and committed) or
to "unready": `Setup` is the set-up commands and `git_init_workspace`, whose exit codes and timeouts nobody looks at,
so a create or reset whose set-up failed answers ok all the same. A 500 comes only from what raises there
(`write_text` of .gitignore, output that does not decode). Faults: docker run, the seed, the set-up or docker rm
fails, `git diff` times out; "overlap" allows a request to arrive for an environment that is already being served.

The environment id of the model is the registry key of `create_env`. Tasks whose image is already populated
(`seed_from_snapshot: false`) are not modelled: their container is started by the first command.

### ServerLife

`DockerEnv` runs while `server = "up"`. `Crash` ends every thread (result "lost"), empties `envs`, `_started` and
what is launching, and keeps `running`. `StartServer` chooses whether `--cleanup-stale` is given; `ListContainers` is
`docker ps`, `InspectContainers` is `docker inspect` (which ends main if one of the names is gone by then) and the
comparison of ages; `RemoveStale` is one `docker rm -f`, whose failure ends main. `Others` are containers of another
server on the same daemon: labels do not tell them apart. `OtherCreates`, `OtherDestroys` and `Ages` move the world;
they are enabled only while this server is not up, because a server that is up reads neither ages nor other
containers. `leftover`, `young` and `struck` are history.

### Workspace, MockTools, ToolCalls, MockEnvs

A file is a sequence of lines; "bad" is a line that is not UTF-8, "nul" one with a NUL, and `Crlf` says which lines
end in CR LF and what they are with LF. `Converted` is what `text=True`, or `read_text` of the mock, makes of a file
on reading; a lone CR inside a line is left out. A directory exists as long as a file is below it. A path is absolute
or not and a sequence of names; `Target` is what `PathPolicy` resolves it to. An observation keeps the error, what was
shown, and whether that was cut.

The mock has no policy: `Place` and `WritePlace` are where `env.workspace / path` leads in the file system of the
machine. What is beside or above the directory has a path that begins with "..", what an absolute path names one that
begins with "/"; a name before ".." must be a directory, except that an insertion makes it first. Nobody is assumed to
name the mock's own directory absolutely or through its parent.

In `ToolCalls` a call is the place of its thread (`pc`: stat, list, each, show, read, mkdir, open, fill, bash, add,
diff) and what it has read. `ReadFile` is `cat`; `MakeDir`, `OpenFile` and `FillFile` are `write_text`: `mkdir -p`,
then a shell that empties the file, then the copy. `WriteTarget` and `Source` model that the path in `cat > path` is
not quoted: a name with a space writes to its first half and reads from its second. Any docker exec may fail
(`Fails`), with what the code makes of it: a missing path, an empty list, an `OSError`. `repo` is what
`git_init_workspace` has left behind: it looks at no exit code, so there may be no index or no repository. `AddIntent`
and `GitDiff` are `export_patch`: git's index, the `.gitignore` that `git_init_workspace` writes, "Binary files
differ" for a file with a NUL, LF for CR LF, an exception for a change that does not decode (a file of the model is no
longer than the context of a hunk), and the cut at `max_output_chars`. The mock is given each call when it ends; `off`
collects, with its cause, where the two need not agree any more.

`MockEnvs` has the life of mock environments whose directories are named by repository and the first twelve characters
of the task id, so that two may share one. Through ".." a tool reaches the directories beside its own. `own` is the
history of what each environment would hold alone, `met` that of the environments another one has disturbed.

### CleanVerify

One step per statement group of `verify_clean`. A patch is known by what the checks see of it: blank, fair (off the
protected paths), protected (it touches a protected path by a name that `_patch_paths` reads, the old one of a hunk),
renamed (it touches one only by a name that is not read: the new one of a rename, or of a file added without a git
header), too large. `fits` says whether it applies to the tree of the task, chosen at the start as are the task's
`fail_to_pass`, `pass_to_pass` and hidden tests. `mishap` is the history of a command that was cut by its timeout or a
git init that failed. "decode" stands for what makes `subprocess.run` itself raise in the middle of a verification
(undecodable output, no docker binary). `witnessed` is history: what the workspace held when each test ran.

### RewardVerifier

`trial` is one run of `CleanVerifier.verify` after `verify_clean` has judged the same task and patch: `CreateDir`,
`ApplyInDir` (git init, whose failure ends it, then `git apply` without the integrity checks), `BuildInDir`,
`RunInDir` per test, `JudgeInDir`, and `DestroyDir` in `finally`. Each verifier has its own timeouts and its own git
init, and notes in its `mishap` when one of them interfered. Assumed: a patch that applies to a tree applies to the
same tree here, and a test behaves here as it did there on the same tree, as long as neither `mishap` is set. `Raises`
are the behaviours that leave `verify` as an exception: `TimeoutExpired` with bytes, no argv, undecodable output.

### AgentLoop and TrajectoryFormat

One step per call and per group of assignments of `run`. A message keeps its role, the id of the call it makes or
answers, and whether that call is `finish`; ids are step numbers (`uuid4` never repeats). `Valid` is sections 1 to 3
of `validate_trajectory`; the loop produces no token counts, verification or reward, so sections 4 and 5 hold
trivially for it. "interrupt" is an exception that `except Exception` lets through, anywhere in `run`: `Interrupt`
strikes in the `try`, `CutShort` in `create`, before the `try` or inside the `finally` block, before, during or after
the call made there (outcome "cut"), `CutLate` after it.

### TokenLayer

`Attach` cuts the messages of a returned trajectory into tokens of any length in `SegmentLengths` and builds the arrays.
A token is its message and its place in it, so that every alignment is visible. A `response_mask_values` given by the
caller is not modelled (the default is).

### PoolBuilder, AstBundles, MixedPool

`script` says which builder runs. The statements of `main` and `verify_commit`/`verify_candidate` are places of `pc`:
head, screen, verify, prepare, create_base, create_fix, patch, f2p, p2p, remove_base, remove_fix, record, bundle,
append, image; the order of the last ones differs between the scripts as in the code. `state`, `out`, `bundle`,
`alive` and `torn` (a half-written row) survive a death; `cur`, `done`, `accepted`, `held`, `task`, `verdict` do not.
A patch is the set of its sections: source, test, and a deleted test, which has no new path and so counts as source. A
test selector is the pair of its exit codes in the two containers; a row in `out` keeps which sections each container
held when it was measured. `walk` is the order in which one start walks the candidates: the reversal script lists
commits anew at each start, and `candidate_commits` passes over one whose `git diff-tree` fails, so that start walks
another round robin; `omitted` is the history of what was passed over, `StartFails` a start that a torn row or a
failing `git log` ends. `Fault` covers every other command that fails or times out, `Killed` a death at any place.
`deaths` and `excuses` are history. Every start of a script is assumed to have the same arguments.

`AstBundles` keeps no state file and replaces bundles; it writes its rows in one go. `MixedPool` reads `out` of the
builder that has run (the other two inputs are given), selects by `RoundRobin`, and writes the files in the code's
order: train full, train pool, the leakage check, eval full, eval pool, manifest. It may be killed before any of them
(`MixKilled`) or inside (`MixCut`): `_write_jsonl` truncates and writes row by row, so the first rows are left. A half
row at the end, which every reader raises on, is left out. `train.cut` and `manifest.cut` are history.

## 3. Runs

| run | expects | question | bounds | states |
|---|---|---|---|---|
| `rpc_faults` | pass | all safety of the pipeline, and that it implements `AtMostOnceRpc` | 2 calls, 2 attempts, cap 1, any number of restarts, every fault | 1,351,912 |
| `rpc_liveness` | pass | does every call end, and does eviction spare calls in progress? | 2 mutating calls one after the other, 2 attempts, cap 1 | 554,810 |
| `rpc_overlap` | violation | at most once, always? | 2 calls, 2 attempts | |
| `env_faults` | pass | what may be orphaned, lost or run elsewhere, and why | 4 requests, 2 execs each, every fault | 426,156 |
| `env_overlap` | violation | no leaks, when requests overlap? | 3 requests | |
| `server_life` | pass | what does cleanup reclaim, is every request answered? | 2 requests, 1 other container, 2 crashes, every fault | 487,585 |
| `verify_faults` | pass | all of a verification, and both verifiers alike | every task over 2 tests, every patch, every fault | 834,706 |
| `tools` | pass | tools beside the mock, edits, patches; mock environments | 3 calls of 20 actions, the last may overlap, 1 failing exec or git command; 6 operations on 3 mock environments | 688,884 |
| `export_staged` | violation | is the exported patch the change? | 3 calls: bash that stages, export | |
| `loop_faults` | pass | all of a rollout, and its token arrays | 4 steps, every fault; 0 or 2 tokens a message, prefix 0, 1, 3 | 33,373 |
| `loop_finish_fails` | violation | is every trajectory valid? | 2 steps | |
| `pool` | pass | the three builders, killed anywhere, and the mixer on what they left | 4 candidates, target 2, 2 starts, 2 faults; mixes and faults together at most 2 | 738,285 |

`tools` takes two systems in one run. The backend with its container and the mock environments are processes with nothing in
common, so `Apart` (in `MCToolCalls`) lets either the one or the other move, from one initial state, and never mixes them.

Why the bounds are enough. *RPC:* a double execution needs two attempts of one call; an eviction race needs a second
call; with cap 1 the second entry overfills the table, so every eviction path (also the popitem on an empty dict) is
taken; restarts are not bounded. `MaxInFlight` is how many calls may be open at once. *Environments:* the races are
between a creator and up to three requests on its environment; two execs let an export be cut in the middle. *Server
life:* one container of each kind (left by a crash, of the other server, young or old) and a second crash during or
after cleanup. *Tools:* a lost edit needs two overlapping calls, and a third before them to differ from the seed; the
actions cover every tool with a plain file, a directory, an undecodable file, lines with CR LF and NUL, a name with a
space, an ignored file, an absolute path, ".." behind a directory and behind none, and a refused path; a limit of 3
matches (200 in the code) and 6 changed lines lets both cuts happen. *Verification:* tests are treated alike, so one
of each list, and two of either, cover the quantifiers. *Loop:* two observed steps before the last show every relation
between neighbours. *Pool:* `F2PLimit` and `P2PLimit` are 1 (6 and 8 in the code) with two selectors offered, so that
the limit cuts; target 2 of 4 candidates in 2 repositories lets the quota be missed and met; a death needs a second
start, and so does a start that could not list a commit. The mixer runs when the builder has succeeded or used its
starts; two runs of it show what the second leaves of the first. *Mock environments:* two of one task and one beside
them; six operations let one handle be destroyed twice around a second environment that has done some work.

The bounds in guards are `MaxAttempts`, `MaxInFlight`, `MaxSteps`, `Execs`, `MaxCrashes`, `MaxCalls`, `MaxFails`, `MaxOps`,
`MaxStarts`, `MaxFaults`, `MaxMixes`. Deadlock is checked in the rpc, env, server, verify and loop runs, whose
specifications have an explicit step for the state in which everything is over. In `tools`, `export_staged` and `pool` the
system really stops (the last call has returned, the scripts have ended), so it is not.
Symmetry (over calls, requests or threads) is used in runs without liveness properties only.

### What the passing runs show

* `AtMostOnceUnlessCaused`: a double execution has one of four causes, each hitting the call itself: the client gave
  up on a live attempt, the entry was evicted, `fn()` raised after its effect, the server restarted.
  `ImplementsPromise` says the same as a refinement: until one of these withdraws the promise, a call executes at
  most once, only while it is pending, and returns the result of that execution.
* `LiveEntriesKept`: for sequential calls the eviction of the oldest half is harmless.
* `CacheBound`: the table exceeds its cap by no more than the threads between storing and leaving the eviction.
* `OrphanHasCause`, `RunsOnSetUp`, `DestroyReleases`: a container without an owner, a command where no set-up has been run
  and an unreleased environment come only from a failed request, an unnoticed `docker rm` failure, or requests that
  overlapped on that environment. (So without faults and overlap nothing is ever orphaned.) Whether the set-up
  succeeded is another matter: see `ResetRestores` below.
* `CleanupReclaims`: after a start with `--cleanup-stale` what a crash of this server left is gone unless it was too
  young at `docker ps`. Of another server's containers it promises nothing: see `CleanupSparesActive` below.
* `MirrorsMock`: for a relative path without ".." that the policy lets through, the tools show and leave what the mock
  does, but at the paths of an undecodable file, a name with a space, a failed exec, overlapping writes, and what a
  call with another spelling of a path has written (the hits of a search are compared file by file, whatever else is
  in doubt). `EditsLoseNothing`: with the same exceptions no call changes a file it was not asked to change, and an
  edit changes nothing in its own but the match and the CR LF. `ExportIsDiffUnlessCaused`: the patch is the change,
  read as text, and what it says of the snapshot is the text of the snapshot, unless the agent staged something, git
  failed now or in create, the patch was cut, or `.gitignore` is part of it; it raises only for a change that does not
  decode.
* `WorkspacesTakeTurns`: a mock environment exports its own work, neither less nor more, while no other one lives in
  its directory and none writes there through "..", also when one that used the directory before is destroyed again.
* `RewardIsEarned`, `ResultsValidate`, `ContainerRemoved` for `verify_clean`; `VerifiersAgree` for the two verifiers,
  where both give a judgement on a patch that `verify_clean` lets through, there are no hidden tests, and neither had
  a command cut or a failing git init.
* `LifecycleClosed`, `ReasonTellsTheStory`, `InvalidOnlyAfterFailedFinish` for the loop, `TokensAlign` for its tokens.
  Every exit has exported and destroyed the environment, but for an interrupt before the `try` or inside the `finally`
  block.
* `OutIsHonest`: a row's test lists were measured as the code documents, base with the new tests and fix with the
  whole patch. `OutIsBacked`, `VerifiedIsKept`: rows, state file and bundles agree across restarts, with every
  exception named by the death that made it. `RowsFollowOrder`: a restart skips nothing and takes nothing out of turn,
  until a start could not list some commits; from then on, inside a repository, no commit is judged before a likelier
  fix that no start has left out. `ContainersReleased` likewise. `QuotaBalanced`, `PublishedPool`, `TrainEvalDisjoint`
  for the mixer, whose files may be cut short.

### What the violation runs show

1. `rpc_overlap`: the table learns of an execution when it has returned. A retry that overtakes it executes again;
   server.py:18-20 says it does not.
2. `env_overlap`: `_exec` starts a stopped executor. A tool call that passed the closed check before a DELETE brings
   the removed container back with no owner; the connection guide (line 22) says nothing leaks.
3. `export_staged`: `git diff` compares with the index. What the agent stages or commits in bash is not in the patch;
   backend.py says the patch is the difference to the baseline.
4. `loop_finish_fails`: `execute` raising on `finish` is documented (loop.py:16) to give `ENVIRONMENT_ERROR`;
   the validator refuses that reason after a finish message, and `run` raises instead.

### Claims that TLC refutes without a run of their own

These definitions say what a comment, a help text or a test says of the code. Each is false. Add the definition to the
`INVARIANTS` of the run in the second column (`EditsOnlyTheMatch` to `PROPERTY`), and TLC shows how; the passing
properties say what holds instead.

| definition | run | the claim | what the code does |
|---|---|---|---|
| `CleanupSparesActive` | `server_life` | server.py:234-235, the help of `--cleanup-stale`: filtered by age, active containers are not killed | manager.py:127-131 goes by age alone: an old container that another server is using is removed |
| `ResetRestores` | `env_faults` | backend.py:212: reset restores the state after create | backend.py:105-112, 219-221 look at no exit code: a reset whose set-up or git commit failed answers ok |
| `ProtectedNeverTouched` | `verify_faults` | verify.py:60-61: a patch that touches a protected path is not applied | verify.py:133-142 reads old names only: a rename onto a protected path passes |
| `LifecycleNeverLeaks` | `loop_faults` | loop.py:56: the life cycle does not leak | loop.py:131-138 catches `Exception` only: a KeyboardInterrupt inside `export_patch` skips the `destroy` after it |
| `PatchApplies` | `tools` | backend.py:233: git apply takes the patch | `text=True` (executors.py:307-308) makes LF of CR LF: a patch of such a file says of its lines what they are not |
| `EditsOnlyTheMatch` | `tools` | tools.py:6: str_replace replaces the one match | the same: every line with CR LF is written back with LF |
| `MirrorsOneByOne` | `tools` | tools.py:3, README.md:21: the tools mirror the mock one by one | a file that is not UTF-8 is shown by the mock (mock.py:191) and an HTTP 500 of the tools; an absolute path into the workspace is a file for the tools and none for the mock |
| `WorkspacesAreApart` | `tools` | docs/docs/GRPO_卡点沉淀_advantage恒0_预算截断finish决策点.md:206: every mock environment has a workspace of its own | mock.py:94-97: the second environment of a task wipes the directory of the first |
| `GoldHasNoTests` | `pool` | the name of the test at tests/test_build_public_executable_pool.py:38: `source_only_patch` removes test diffs | a deleted test has no new path (lines 39-48 of the script) and stays in the gold patch |

### Fairness

* `IdempotentRpc!FairSpec`: each client goes on. httpx raises after its timeout, `time.sleep` returns. Nothing is
  assumed of the server or the network: they may hang for ever.
* `ServerLife!FairLifeSpec`: while the server is up, each serving thread goes on (`WF` on `Handled`). Docker commands run
  under timeouts, or end by themselves (`docker run`, `cp`, `rm`, which the code runs without a timeout: a hung daemon
  is not covered). Nothing is assumed of start-up: main may never come back, then its requests have ended in the crash.

## 4. Proofs

All theorems are about the specifications the runs check, for every value of the constants that the named assumption of
the module allows: any number of calls, requests, tests, candidates, files, any bounds, any choice of faults. Every
inductive invariant was first checked as an invariant of its run.

| proofs | theorems about | assumes of the constants |
|---|---|---|
| `IdempotentRpcProofs` | `IdempotentRpc`, `RpcPromise` | `ConstantsOK` |
| `DockerEnvProofs` | `DockerEnv`, `ServerLife` | `ConstantsOK`, `LifeConstants` |
| `CleanVerifyProofs` | `CleanVerify`, `RewardVerifier` | `ConstantsOK`: the set of tests is finite |
| `ToolCallsProofs` | `ToolCalls` | `WorkspaceConstants`, `ToolConstants`: files are sequences of lines of one alphabet (a line with CR LF has one with LF), actions have the arguments of their tool, a search without a path starts at the root, the files the mock sees outside its directory have paths of their own; `SeedsLeaveRoom`: the seed and what git_init_workspace adds are a file system (nothing is below a file) |
| `AgentLoopProofs` | `AgentLoop`, `TokenLayer` | `ConstantsOK`: the id of a call is not the value that stands for no call; `TokenConstants` |
| `PoolProofs` | `PoolBuilder`, `AstBundles` | `PoolConstants` |
| `MixedPoolProofs` | `MixedPool` | `MixConstants`: each given file names a task once |

### RPC

`IdempotentRpcProofs` proves:

* `TypeCorrect`. The inductive invariant is `TypeInv`: types plus `PhaseOK` (an idle call has attempt 0, a waiting
  one a positive attempt), without which `attempt + 1 <= MaxAttempts` is lost.
* `AnswersAreSound`. Strengthened by `Sound`: every entry of the table and every ok reply names an execution that
  took effect for that call. An answer comes from a reply, a reply from the thread's own execution or from the table.
* `AtMostOnceUnlessVoided`. Two layers. `Discipline`: unless the client overlapped the call, only the current attempt
  is alive, and later ones are unsent. `Memory`: unless a cause hit the call, an effect is remembered, by the entry in
  the table or by the one thread that has applied and not stored it yet. So at most one thread runs `fn()`, and none
  once the effect is there.
* `EndedIsFinal`, an action property, from `Discipline`: when the call has ended, no attempt is alive.
* `TableIsBounded` (`CacheBound`). The bound itself is not inductive: a handler that has popped its half may leave
  without having made any more room. `Room` counts only the evictors that have not yet made room: the table is at
  most `Cap` plus their number, at every step of any number of interleaved evictions and restarts.
* `FreshEntriesKept` (`LiveEntriesKept`). `Solo` says what the property silently relies on: as long as no call was given
  up on early, one handler is alive at a time, the table is what a single thread makes of it, and the handler that evicts
  has its own entry last and pops fewer items than there are. The property is about
  `MaxInFlight = 1`; with two calls open an eviction may take a live entry, one of the causes of `AtMostOnceUnlessCaused`.
* `PromiseKept`: `Spec` implements `AtMostOnceRpc` under the mapping of `RpcPromise` (the waits and pauses of a call
  are one pending state; a call with a cause is withdrawn). On top of `Discipline`, `Memory` and `Sound` it needs
  `BegunOK`: only calls that have begun are in the table or have executed, since only those may be withdrawn. Then
  each step is a `Begin`, `Execute`, `Acknowledge`, `GiveUp` or `Withdraw` of the abstract call, or a stutter.

### Environments and server life

`DockerEnvProofs` proves `EnvTypeCorrect` (with `HoldsOK`: a thread works on executors that exist) and `DestroyedAtMostOnce`
(with `TargetsOK`: what a DELETE holds was once registered, and is never registered again).

It proves `OrphansHaveACause`, `DestroyDelivers` and `CommandsRunOnSetUp`. The difficulty is that a
container's fate depends on who else holds its executor. The invariant `ReleaseInv` says that while an environment is `Sole`
(no two requests have overlapped on it) at most one request is active on it, that a DELETE is its last one (`SoleOK`), and
which executor that request holds at each place (`SoleHoldsOK`). `OwnersOK` (an executor belongs to one environment) and
`FreshOK` (a new one to nobody yet) carry the argument to other environments: what one request closes no other
uses. `StoppedOK` then follows a container whose executor is not marked started, `ReleasedOK` a DELETE, and `BasedOK`
that the set-up has been run in the workspace of every executor a command can reach, whatever became of its commands.

It proves `LifeTypeCorrect` and `CleanupDelivers` about `DockerEnv` inside the process that crashes. `DockerEnv`'s
invariant survives a crash with tables emptied (`ServerInv`); `ArrivedOK` and `ApartOK` keep containers of past
requests apart from those of new ones, so what a crash left can only leave `running`, never come back; `CleanupOK` follows
listed, stale and young through the start-up.

### Verification

`CleanVerifyProofs` proves, for every finite set of tests and every choice of faults, `RewardsAreEarned`,
`ResultsAreValid`, `ContainerIsRemoved` and `VerifyTypeCorrect`. The invariant `VInv` follows
the workspace through the steps: until the patch has been dealt with nothing is applied (`NotYet`), from then on
`integrity` means that the workspace holds exactly the patch (`PatchInPlace`), every test that has run saw the workspace
as it is now (`RunsWitnessed`), so a resolved verdict is given only in a state that has earned it (`JudgeEarns`).

`VerifiersGiveTheSame` adds the training side. `JudgedOK` says of the first verification what a judgement implies about
its tree and its tests, and does not change once it has ended; `TrialInv` follows the second one (`TreeOK`: where neither
had a mishap its tree is the one of the first) and compares the two lists of results test by test (`RerunsOK`).

### Tools

`ToolCallsProofs` proves, for every workspace, every set of actions, and any interleaving of docker execs:

* `ExportsAreDifferences` (`ExportIsDiffUnlessCaused`). `IndexOK`: until an agent stages something, and unless
  create's git failed, git's index is the baseline on every tracked path, and what `git add -N` noted is not in the
  baseline. `DiffOK`: between the two commands of an export every tracked file is noted, unless the first failed or
  another call is writing, and then this call knows: `BlurOK`, that calls in progress know of each other's writes, is
  what makes the interleaving with `write_text` and bash sound. With both, the changes git sees and those of the
  workspace are the same set (`PatchIsDifference`), and so is what the caller is told of them.
* `CallsKeepTheFiles` (`EditsLoseNothing`, an action property). `SafeEdit` is what a call relies on between two docker
  execs: outside the paths others have written, the files are what they were when it began, byte for byte; the text in
  hand is the edit of their text, with LF for CR LF; the file it has emptied is still there. It needs `FilesOK` and
  `TextOK`: the text to be written is always a file content (`EditedOK`), otherwise a call could end between emptying
  and filling the file. The writes of other calls cannot disturb it (`OthersWrite`).
* `ToolsMirrorTheMock` (`MirrorsMock`). `MirrorInv` says where a call in progress is in terms of the mock: outside
  `off` the files are the mock's, except one that `cat >` has emptied (`SameFiles`); a search that is between two
  files has found, of the files it has read, all that the mock finds (`HitsMirror`); an edit carries the text that the
  mock will write, and the mock will not refuse to write it (`EditMirrors`). For a call with a path the two sides take
  differently nothing is claimed but that what either may write is in `off` when it ends. It all holds except at or
  near the paths in doubt, which only grow (`AgreesStill`). Two arguments are worth naming. A search that stays below
  the limit has cut no file, since the hits of a file are cut only when there is no room for its next line, which is a
  least natural (`LeastNat`). And `mkdir -p` and `cat >` fail exactly where the mock does only if nothing is below a
  file, which every step keeps (`Tree(files)`). The attempt corrected the property and the model. A search of a
  directory whose last file is gone and whose name has since become doubtful (a failed creation of a file of that
  name) may say "not found" where the mock, in which it is a file, does not. That takes one action more than the run
  had, so the earlier form of `MirrorsMock`, which excused such a search only for overlapping writes, passed there; it
  also excused too much, as the hits outside the doubtful paths are the same even then. A bash command that writes
  over a directory or below a file now fails, in both backends, as it does in a shell.

### Agent loop

`AgentLoopProofs` proves `TypeCorrect`, `LifecycleIsClosed` and `ReasonIsTrue`. The invariant `AInv` has `LengthsOK`
(how many messages, turns and calls there are at each place of `run`), `CallsOK` (which calls have been made at each
place, in which order; an interrupt leaves the order as it is and may cut the end of it off) and `StoryOK` (what the
turns recorded so far say, by place and termination reason). Then:

* `OnlyAFailedFinishIsInvalid` (`InvalidOnlyAfterFailedFinish`), from `SaidInv`: which message stands at each place of
  the list (`MessagesOK`), that each turn keeps the message of its own step (`TurnsMatch`), that the turns recorded so
  far render to the assistant and tool messages sent so far (`SaidOK`; while a call is in hand its message is still
  ahead of its turn) and, once the loop has stopped, whether the last message is the finish, by reason (`Stopped`).
  `Judged` compares that with the sections of `validate_trajectory`: order and chain always hold, the turns always
  match, and the termination section fails for `ENVIRONMENT_ERROR` after a finish and for nothing else.
  `NeverInvalidWithoutExecuteFaults` is the positive side of the finding `loop_finish_fails`: where no `execute`
  raises, `run` never refuses its own trajectory.
* `TokensStayAligned` (`TokensAlign`), for messages of any number and length. `TokInv` says that the arrays are those
  of the messages, which no longer change. The rest is about joining: lists of equal lengths run side by side when
  joined (`JoinedTogether`: the mask beside the response, the labels beside the whole), the whole is as long as its
  two parts (`JoinedApart`), and the part of a message starts after all that come before it (`JoinedPiece`: where
  `labels_for_sft` cuts).

The lemmas on `FlattenSeq` behind both (`FlattenAppend`, `FlattenTogether`, `FlattenApart`, `FlattenPiece`) need
induction on the length of a sequence. The library's induction theorems take an operator the provers cannot
instantiate; `Induct` states induction for a *set* of naturals instead, and follows from `LeastNat`. (`Core`, a
filter, is written with `FlattenSeq` as well: `SelectSeq` is recursive inside a `LET` that the provers do not expand.)

### Pools

`SelectionProofs` holds the lemmas about the selection all scripts share: `SortedEnumerates` (sorting names every element
once, in order), `RoundRobinTakesAll`, `RoundRobinKeepsOrder` (inside a repository the order is the one sorted by), and
`PrefixIsBalanced` (no repository is two ahead of one that still had some). They
and `NextIsFirst` rest on `LeastNat`, that a set of naturals has a least element, proved from the well-foundedness of
inclusion between finite sets.

`PoolProofs` proves `NoContainerIsForgotten` and `VerifiedReachesOutput` with `BInv`: `BuilderOK` (what the variables
hold, and which places belong to which script), `HeldOK` (at which places of `verify_*` a container can be in hand, so
that the `finally` block has released all of them when it ends) and `OutOK` (the output of a resumable script is a
sequence that only grows). Then, with the full invariant `BuildInv`:

* `PoolTypeCorrect`, with `RunOK` (which verdict, candidate and result there is at each place of the three scripts).
* `NoCandidateIsSkipped` (`RowsFollowOrder`), with `HandOK`: every candidate of this start's walk before the one in
  hand has a state row. Two walks of different candidates share no prefix, so after an omission only the order inside
  a repository is kept.
* `OutputIsBacked` (`OutIsBacked`), with `ShelfOK`: the resumable script knows its rows, the candidate in hand has
  none, and a whole bundle without a row is the one in hand or one a start died on. `AstOK` is the counterpart for the
  script that writes all rows at the end.
* `OutputIsHonest` (`OutIsHonest`), with `MeasuredOK`: what each container has been shown at each place. That the gold
  patch changes a source is claimed for a reversal only: the public script does not check it of its candidates.

`MixedPoolProofs` proves `QuotasAreBalanced`, `PoolIsPublishedWhole` and `TrainAndEvalAreDisjoint` from `MixInv`:
`BuildInv`, `FilesOK` (which files agree with which run at each place of the mixer) and `ChoiceOK` (the selection in
hand and the train file are balanced and backed; a file cut short is a prefix, and `PrefixIsSelected` says that a
prefix of the three selections is a prefix of each, hence balanced and within its quota; `Clear` is about the
repositories of train and evaluation). The attempt corrected the property: it said that a bundle named by the train
file may be incomplete only while `build_ast_bundles` is replacing it, or if the latest start died. A start can die
while replacing a bundle and a later one skip that task (its archive does not match) and end well; that takes a third
start, beyond the run's bound. `PublishedPool` now says that *a* start died on it.

### Model-checked only

Liveness (`EveryCallEnds`, `EveryRequestEnds`) is out of the prover's reach, as fairness and `ENABLED` are.
`WorkspacesTakeTurns` of `MockEnvs` is checked only. Every other
property of a passing run is stated by a theorem. No module declares a RECURSIVE operator.

## 5. Order of work, and what is left

The order was: RPC pipeline and its promise; Docker environments; verification; agent loop; then server life, tools
beside the mock, mock environments, both verifiers, tokens, pool scripts; proofs after each. What would add most next:
a composition of loop, client, server and environment for what the loop may assume of a remote backend.

## 6. Not modelled

* `env_server/client.py` and the ASGI wrappers of `env_server/server.py` add a header, check it, write a log line:
  they pass every call through and keep no state that two steps could disagree on.
* `schemas/task.py` and `validate_task_spec`: declarations of fields with a check each on one value.
* Sections 5 and 6 of `validate_trajectory`: comparisons of RL fields of one record; the loop leaves them empty.
* The text rendering of observations and tool calls, the OpenAI record conversion and the JSONL files: formatting.
* `LocalExecutor` (a directory on the host, development only), `search_text` (called by no tool), `DockerIsolation` (raises
  `NotImplementedError`).
* Tasks whose image is already populated (`seed_from_snapshot: false`): their container is started by the first command.
* A lone CR inside a line, and a change further from an undecodable line than the context of a diff hunk.
* Changes of the arguments between two starts of a script.
* Two builders running at the same time on one state file: nothing in the scripts foresees it.
* `monitor_docker.py`, `plot_grpo_v17.py` and the examples: display, and calls of other components in sequence.
