---------------------------- MODULE PoolBuilder ----------------------------
(***************************************************************************)
(* The two scripts that turn candidates into verified tasks by running     *)
(* them in containers: build_public_executable_pool.py ("public") and      *)
(* build_repair_reversal_pool.py ("reversal").  Each appends a row per     *)
(* candidate to a state file and a row per verified task to an output      *)
(* file, and reads both when it is started again.  The durable variables   *)
(* survive the death of the process, the others do not.                    *)
(*                                                                         *)
(* A definition Mut<Name> is <Name> with a plausible bug.  Nothing uses it: *)
(* it is put in place of <Name> to see that a property catches the bug.    *)
(***************************************************************************)
EXTENDS Selection

CONSTANTS
    Cand,          \* candidate tasks or commits: numbers, in the order of their ids
    Commit,        \* what the repositories say of each candidate
    Target,        \* --target
    F2PLimit,      \* changed[:6]
    P2PLimit,      \* at most 8 attempts
    MaxSelectors,  \* bound: tests a candidate offers for each purpose
    MaxStarts,     \* bound: starts of the script
    MaxFaults,     \* bound: failures of git, docker and the disk
    NoCand         \* model value: no candidate in hand

\* The parts of a patch.  A deleted test is a section whose new path is /dev/null.
Sections == {"source", "test", "deleted_test"}

ASSUME PoolConstants ==
    /\ Cand \subseteq Nat /\ IsFiniteSet(Cand) /\ NoCand \notin Cand
    /\ \A c \in Cand : /\ Commit[c].repo \in Nat /\ Commit[c].time \in Nat
                       /\ Commit[c].fixLike \in BOOLEAN
                       /\ Commit[c].parents \in Nat /\ Commit[c].kind \in {0, 1}
                       /\ Commit[c].patch \subseteq Sections
    /\ {Target, F2PLimit, P2PLimit, MaxSelectors, MaxStarts, MaxFaults} \subseteq Nat

VARIABLES
    script,    \* which of the scripts this is
    state,     \* durable: the status of each candidate's row, "none" without a row
    out,       \* durable: the task rows
    torn,      \* durable: the file whose last row was cut short, or "none"
    bundle,    \* durable: how much of each task's bundle exists
    alive,     \* durable: the containers of the docker daemon
    pc,        \* the statement main or verify_* is about to execute
    walk,      \* the candidates in the order in which main walks them
    cur,       \* the candidate in hand
    done,      \* main's sets of these names
    accepted,
    held,      \* verify_*'s containers by role: {}, or {the patch sections it holds}
    task,      \* the measurements made so far
    verdict,   \* what verify_* is about to return or raise
    result,    \* how the last run of the script ended
    starts,    \* starts so far
    omitted,   \* history: the commits some start has left out of its walk
    faults,    \* failures so far
    deaths,    \* history: where the process died, and on which candidate
    excuses    \* history: containers nobody can remove any more, and why

durable == <<state, out, torn, bundle, alive>>
volatile == <<walk, cur, done, accepted, held, task, verdict>>
poolVars == <<script, durable, pc, volatile, result, starts, omitted, faults, deaths, excuses>>

Roles == {"base", "fix"}
CreatePc == [base |-> "create_base", fix |-> "create_fix"]
RemovePc == [base |-> "remove_base", fix |-> "remove_fix"]
Absent == [r \in Roles |-> {}]
NoTask == [f2p |-> {}, p2p |-> {}]

-----------------------------------------------------------------------------
\* The candidates in the order in which main walks them.

\* A deleted test has no new path, so it counts as a source section.
TestOnly(patch) == patch \cap {"test"}
SourceOnly(patch) == patch \ {"test"}

\* candidate_commits: one parent, a changed test and a changed source; likely
\* fixes first, then the newest.
IsCandidateCommit(c) ==
    /\ Commit[c].parents = 1
    /\ Commit[c].patch \cap {"test", "deleted_test"} # {}
    /\ "source" \in Commit[c].patch

Earlier == {p \in Cand \X Cand : p[1] < p[2]}

LikelierFix ==
    {p \in Cand \X Cand :
        LET a == Commit[p[1]]
            b == Commit[p[2]]
        IN  \/ a.fixLike /\ ~ b.fixLike
            \/ a.fixLike = b.fixLike /\ a.time > b.time
            \/ a.fixLike = b.fixLike /\ a.time = b.time /\ p[1] < p[2]}

RepoOf == [c \in Cand |-> Commit[c].repo]
RepoKindOf == [c \in Cand |-> 2 * Commit[c].repo + Commit[c].kind]

\* What the scripts list, how they sort it, and what they take turns between.
Listed(s) == IF s = "reversal" THEN {c \in Cand : IsCandidateCommit(c)} ELSE Cand
Precedence(s) == IF s = "reversal" THEN LikelierFix ELSE Earlier
GroupOf(s) == IF s = "ast" THEN RepoKindOf ELSE RepoOf
Ordered(s, cands) == RoundRobin(Sorted(cands, Precedence(s)), GroupOf(s))

Remaining == {i \in DOMAIN walk : walk[i] \notin done}
MutNextCandidate == walk[CHOOSE i \in Remaining : \A j \in Remaining : i >= j]
NextCandidate == walk[CHOOSE i \in Remaining : \A j \in Remaining : i <= j]

-----------------------------------------------------------------------------
Container(role) == [cand |-> cur, role |-> role, start |-> starts]
Lose(role, why) == excuses' = excuses \cup {[box |-> Container(role), why |-> why]}

\* A failure of a command or of the disk, out of the budget of the instance.
Fault == faults < MaxFaults /\ faults' = faults + 1

Verdict(v) == verdict' = v /\ pc' = "remove_base"

\* The process ends: what it held is nobody's any more.
Die ==
    /\ pc' = "stopped" /\ result' = "died"
    /\ deaths' = deaths \cup {<<cur, pc>>}
    /\ excuses' = excuses \cup {[box |-> Container(r), why |-> "died"] :
                                r \in {q \in Roles : held[q] # {}}}
    /\ walk' = <<>> /\ cur' = NoCand /\ done' = {} /\ accepted' = {} /\ held' = Absent
    /\ task' = NoTask /\ verdict' = "none"

-----------------------------------------------------------------------------
\* main: both files are read first; a torn row makes read_jsonl raise.  Then
\* the candidates are listed: a git log that fails ends the script, a commit
\* whose git diff-tree fails is passed over.
MutDone == {c \in Cand : state[c] = "rejected"}
Done == {c \in Cand : state[c] # "none"}

Start ==
    /\ pc = "stopped" /\ script # "ast" /\ torn = "none" /\ starts < MaxStarts
    /\ starts' = starts + 1
    /\ \E left \in SUBSET Listed(script) :
         /\ left # {} => script = "reversal"
         /\ faults + Cardinality(left) <= MaxFaults
         /\ faults' = faults + Cardinality(left)
         /\ omitted' = omitted \cup left
         /\ walk' = Ordered(script, Listed(script) \ left)
    /\ pc' = "head" /\ result' = "running"
    /\ done' = Done
    /\ accepted' = {out[i].id : i \in DOMAIN out}
    /\ UNCHANGED <<script, durable, cur, held, task, verdict, deaths, excuses>>

StartFails ==
    /\ pc = "stopped" /\ script # "ast" /\ starts < MaxStarts
    /\ starts' = starts + 1 /\ result' = "died"
    /\ \/ torn # "none" /\ UNCHANGED faults
       \/ script = "reversal" /\ Fault
    /\ UNCHANGED <<script, durable, pc, volatile, omitted, deaths, excuses>>

\* The head of main's loop, and the exit below it.
Enough == Cardinality(accepted) >= Target

Finish ==
    /\ pc = "head" /\ script # "ast" /\ (Enough \/ Remaining = {})
    /\ pc' = "stopped"
    /\ result' = IF Enough THEN "ready" ELSE "short"
    /\ UNCHANGED <<script, durable, volatile, starts, omitted, faults, deaths, excuses>>

Pick ==
    /\ pc = "head" /\ script # "ast" /\ ~ Enough /\ Remaining # {}
    /\ cur' = NextCandidate
    /\ task' = NoTask /\ verdict' = "none"
    /\ pc' = "verify"
    /\ UNCHANGED <<script, durable, walk, done, accepted, held, result, starts, omitted, faults,
                   deaths, excuses>>

\* The checks before the try block.
Screened == /\ TestOnly(Commit[cur].patch) # {}
            /\ script = "reversal" => SourceOnly(Commit[cur].patch) # {}

Screen ==
    /\ pc = "verify"
    /\ IF Screened THEN pc' = "prepare" /\ UNCHANGED verdict ELSE Verdict("rejected")
    /\ UNCHANGED <<script, durable, walk, cur, done, accepted, held, task, result, starts, omitted,
                   faults, deaths, excuses>>

\* Any command of verify_* that fails, times out or raises what the except
\* clause names rejects the candidate (in Screen: git diff).
Verifying == {"verify", "prepare", "create_base", "create_fix", "patch", "f2p", "p2p"}
Reject ==
    /\ pc \in Verifying /\ (pc = "verify" => script = "reversal") /\ Fault
    /\ Verdict("rejected")
    /\ UNCHANGED <<script, durable, walk, cur, done, accepted, held, task, result, starts, omitted,
                   deaths, excuses>>

\* What the except clause does not name: an interrupt, a git diff that times
\* out before the try, undecodable output of a command (public).
Uncaught ==
    /\ pc \in Verifying /\ Fault
    /\ Verdict("raised")
    /\ UNCHANGED <<script, durable, walk, cur, done, accepted, held, task, result, starts, omitted,
                   deaths, excuses>>

\* public: pull.  reversal: archives, the test patch, the selectors.
Prepare ==
    /\ pc = "prepare"
    /\ \/ pc' = "create_base" /\ UNCHANGED verdict
       \/ script = "reversal" /\ Verdict("rejected")  \* no changed test selector
    /\ UNCHANGED <<script, durable, walk, cur, done, accepted, held, task, result, starts, omitted,
                   faults, deaths, excuses>>

\* What a new container holds: the reversal's are seeded with a patched tree.
Seed(role) ==
    IF script = "public" THEN {}
    ELSE IF role = "base" THEN TestOnly(Commit[cur].patch) ELSE Commit[cur].patch

Create(role) ==
    /\ pc = CreatePc[role]
    /\ alive' = alive \cup {Container(role)}
    /\ held' = [held EXCEPT ![role] = {Seed(role)}]
    /\ pc' = IF role = "base" THEN "create_fix"
             ELSE IF script = "public" THEN "patch" ELSE "f2p"
    /\ UNCHANGED <<script, state, out, torn, bundle, walk, cur, done, accepted, task, verdict,
                   result, starts, omitted, faults, deaths, excuses>>

\* docker run times out after the daemon has started the container, or the
\* seeding fails and so does the removal: create raises, the name is lost.
CreateLeaks(role) ==
    /\ pc = CreatePc[role] /\ Fault
    /\ alive' = alive \cup {Container(role)}
    /\ Lose(role, "create_raised")
    /\ Verdict("rejected")
    /\ UNCHANGED <<script, state, out, torn, bundle, walk, cur, done, accepted, held, task,
                   result, starts, omitted, deaths>>

\* public: the patches go into the running containers.
PatchedTree(role) == IF role = "base" THEN TestOnly(Commit[cur].patch) ELSE Commit[cur].patch

Patch ==
    /\ pc = "patch"
    /\ held' = [r \in Roles |-> {PatchedTree(r)}]
    /\ \/ pc' = "f2p" /\ UNCHANGED verdict
       \/ Verdict("rejected")  \* no changed Python test selector
    /\ UNCHANGED <<script, durable, walk, cur, done, accepted, task, result, starts, omitted, faults,
                   deaths, excuses>>

-----------------------------------------------------------------------------
\* The two loops over selectors.  Each selector is run in both containers; the
\* first pair of exit codes that is wanted ends the loop.
ExitPairs == {<<1, 0>>, <<0, 0>>, <<1, 1>>}
Runs == UNION {[1 .. n -> ExitPairs] : n \in 0 .. MaxSelectors}

MutHits(runs, limit, wanted) == {i \in DOMAIN runs : i <= limit /\ runs[i][2] = 0}
Hits(runs, limit, wanted) == {i \in DOMAIN runs : i <= limit /\ runs[i] = wanted}

Measure(rcs) == {[base |-> held["base"], fix |-> held["fix"], rcs |-> rcs]}
RcsOf(runs, hits) == runs[CHOOSE i \in hits : \A j \in hits : i <= j]

F2P ==
    /\ pc = "f2p"
    /\ \E runs \in Runs :
         LET hits == Hits(runs, F2PLimit, <<1, 0>>)
         IN  IF hits = {} THEN Verdict("rejected") /\ UNCHANGED task
             ELSE /\ task' = [task EXCEPT !.f2p = Measure(RcsOf(runs, hits))]
                  /\ pc' = "p2p" /\ UNCHANGED verdict
    /\ UNCHANGED <<script, durable, walk, cur, done, accepted, held, result, starts, omitted, faults,
                   deaths, excuses>>

P2P ==
    /\ pc = "p2p"
    /\ \E runs \in Runs :
         LET hits == Hits(runs, P2PLimit, <<0, 0>>)
         IN  IF hits = {} THEN Verdict("rejected") /\ UNCHANGED task
             ELSE /\ task' = [task EXCEPT !.p2p = Measure(RcsOf(runs, hits))]
                  /\ IF script = "public" THEN Verdict("verified")
                     ELSE pc' = "pack" /\ UNCHANGED verdict
    /\ UNCHANGED <<script, durable, walk, cur, done, accepted, held, result, starts, omitted, faults,
                   deaths, excuses>>

\* reversal: _write_bundle inside the try.  copytree refuses an existing
\* directory, and an error of the disk leaves what was written.
Pack ==
    /\ pc = "pack"
    /\ \/ /\ bundle[cur] = "none"
          /\ bundle' = [bundle EXCEPT ![cur] = "complete"]
          /\ Verdict("verified") /\ UNCHANGED faults
       \/ /\ bundle[cur] # "none"
          /\ Verdict("rejected") /\ UNCHANGED <<bundle, faults>>
       \/ /\ bundle[cur] = "none" /\ Fault
          /\ bundle' = [bundle EXCEPT ![cur] = "partial"]
          /\ Verdict("rejected")
    /\ UNCHANGED <<script, state, out, torn, alive, walk, cur, done, accepted, held, task,
                   result, starts, omitted, deaths, excuses>>

-----------------------------------------------------------------------------
AfterRemove(role) == IF role = "base" THEN "remove_fix" ELSE "record"
MutReleased(role) == IF held["base"] = {} THEN {} ELSE {Container("base")}
Released(role) == IF held[role] = {} THEN {} ELSE {Container(role)}

\* The finally block: docker rm -f of each container that was created.
RemoveBox(role) ==
    /\ pc = RemovePc[role]
    /\ \/ /\ alive' = alive \ Released(role)
          /\ UNCHANGED <<faults, excuses>>
       \/ /\ held[role] # {} /\ Fault  \* rm fails, its exit code is ignored
          /\ Lose(role, "rm_failed") /\ UNCHANGED alive
    /\ pc' = AfterRemove(role)
    /\ held' = [held EXCEPT ![role] = {}]
    /\ UNCHANGED <<script, state, out, torn, bundle, walk, cur, done, accepted, task, verdict,
                   result, starts, omitted, deaths>>

\* What verify_* raised leaves main.
Propagate ==
    /\ pc = "record" /\ verdict = "raised"
    /\ Die
    /\ UNCHANGED <<script, durable, starts, omitted, faults>>

\* docker rm takes more than thirty seconds: TimeoutExpired leaves the finally
\* block and main, whatever the verdict was.
RemoveTimesOut(role) ==
    /\ pc = RemovePc[role] /\ held[role] # {} /\ Fault
    /\ Die
    /\ UNCHANGED <<script, durable, starts, omitted>>

\* The state row comes first.
MutAfterRecord == IF script = "public" /\ verdict = "verified" THEN "append" ELSE "image"
AfterRecord == IF verdict # "verified" THEN "image"
               ELSE IF script = "public" THEN "bundle" ELSE "append"

MutRecord ==
    /\ pc = "record"
    /\ state' = [state EXCEPT ![cur] = verdict]
    /\ done' = done \cup {cur}
    /\ pc' = AfterRecord
    /\ UNCHANGED <<script, out, torn, bundle, alive, walk, cur, accepted, held, task, verdict,
                   result, starts, omitted, faults, deaths, excuses>>
Record ==
    /\ pc = "record" /\ verdict # "raised"
    /\ state' = [state EXCEPT ![cur] = verdict]
    /\ done' = done \cup {cur}
    /\ pc' = AfterRecord
    /\ UNCHANGED <<script, out, torn, bundle, alive, walk, cur, accepted, held, task, verdict,
                   result, starts, omitted, faults, deaths, excuses>>

\* public: write_bundle, after the state row.
WriteBundle ==
    /\ pc = "bundle"
    /\ bundle' = [bundle EXCEPT ![cur] = "complete"]
    /\ pc' = "append"
    /\ UNCHANGED <<script, state, out, torn, alive, volatile, result, starts, omitted, faults,
                   deaths, excuses>>

WriteBundleFails ==
    /\ pc = "bundle" /\ Fault
    /\ bundle' = [bundle EXCEPT ![cur] = "partial"]
    /\ Die
    /\ UNCHANGED <<script, state, out, torn, alive, starts, omitted>>

Row == [id |-> cur, f2p |-> task.f2p, p2p |-> task.p2p,
        gold |-> SourceOnly(Commit[cur].patch)]

AppendRow ==
    /\ pc = "append"
    /\ out' = Append(out, Row)
    /\ accepted' = accepted \cup {cur}
    /\ pc' = "image"
    /\ UNCHANGED <<script, state, torn, bundle, alive, walk, cur, done, held, task, verdict,
                   result, starts, omitted, faults, deaths, excuses>>

\* public: --remove-images, which may time out.
Image ==
    /\ pc = "image"
    /\ \/ /\ pc' = "head" /\ cur' = NoCand /\ verdict' = "none" /\ task' = NoTask
          /\ UNCHANGED <<walk, done, accepted, held, result, faults, deaths, excuses>>
       \/ script = "public" /\ Fault /\ Die
    /\ UNCHANGED <<script, durable, starts, omitted>>

\* The process is killed.  A row being written may be cut short.
Killed ==
    /\ pc # "stopped" /\ faults < MaxFaults /\ faults' = faults + 1
    /\ Die
    /\ \/ UNCHANGED torn
       \/ pc = "record" /\ torn' = "state"
       \/ pc = "append" /\ torn' = "out"
    /\ UNCHANGED <<script, state, out, bundle, alive, starts, omitted>>

-----------------------------------------------------------------------------
PoolStep ==
    \/ Finish \/ Pick \/ Screen \/ Prepare \/ Patch \/ F2P \/ P2P \/ Pack
    \/ Propagate \/ Record \/ WriteBundle \/ AppendRow \/ Image
    \/ \E role \in Roles : Create(role) \/ RemoveBox(role)

PoolFault ==
    \/ StartFails \/ Reject \/ Uncaught \/ WriteBundleFails \/ Killed
    \/ \E role \in Roles : CreateLeaks(role) \/ RemoveTimesOut(role)

PoolInit ==
    /\ script \in {"public", "reversal", "ast"} /\ walk = <<>>
    /\ state = [c \in Cand |-> "none"] /\ out = <<>> /\ torn = "none"
    /\ bundle = [c \in Cand |-> "none"] /\ alive = {}
    /\ pc = "stopped" /\ cur = NoCand /\ done = {} /\ accepted = {} /\ held = Absent
    /\ task = NoTask /\ verdict = "none" /\ result = "never"
    /\ starts = 0 /\ omitted = {} /\ faults = 0 /\ deaths = {} /\ excuses = {}

-----------------------------------------------------------------------------
\* Every variable has its type.
Trees == SUBSET SUBSET Sections  \* none or one
Measures == [base : Trees, fix : Trees, rcs : ExitPairs]
Containers == [cand : Cand, role : Roles, start : 0 .. MaxStarts]
PoolTypeOK ==
    /\ state \in [Cand -> {"none", "rejected", "verified"}]
    /\ bundle \in [Cand -> {"none", "partial", "complete"}]
    /\ out \in Seq([id : Cand, f2p : SUBSET Measures, p2p : SUBSET Measures,
                    gold : SUBSET Sections])
    /\ torn \in {"none", "state", "out"}
    /\ alive \subseteq Containers
    /\ held \in [Roles -> Trees]
    /\ walk \in Seq(Cand) /\ cur \in Cand \cup {NoCand} /\ done \subseteq Cand /\ accepted \subseteq Cand
    /\ task \in [f2p : SUBSET Measures, p2p : SUBSET Measures]
    /\ verdict \in {"none", "rejected", "verified", "raised"}
    /\ result \in {"never", "running", "ready", "short", "died"}
    /\ starts \in 0 .. MaxStarts /\ omitted \subseteq Cand
    /\ faults \in 0 .. MaxFaults

\* What the script calls verified was measured: the fail-to-pass test failed in
\* a container with the tests of the patch alone and passed in one with all of
\* it, the pass-to-pass test passed in both (verify_candidate, verify_commit);
\* and the patch has tests, and for a reversal also a source.
Proven(row) ==
    LET tree == [base |-> TestOnly(Commit[row.id].patch), fix |-> Commit[row.id].patch]
    IN  /\ row.f2p = {[base |-> {tree.base}, fix |-> {tree.fix}, rcs |-> <<1, 0>>]}
        /\ row.p2p = {[base |-> {tree.base}, fix |-> {tree.fix}, rcs |-> <<0, 0>>]}
        /\ "test" \in tree.base /\ "test" \notin row.gold
        /\ script = "reversal" => "source" \in row.gold
OutIsHonest == script # "ast" => \A i \in DOMAIN out : Proven(out[i])

\* "source_only_patch removes hidden test diffs" (the name of the test at
\* tests/test_build_public_executable_pool.py:38): no gold patch in the output
\* touches a test.
GoldHasNoTests == \A i \in DOMAIN out : out[i].gold \cap {"test", "deleted_test"} = {}

\* However often the script dies and is started again, no task is written
\* twice, a task row has its state row and its whole bundle behind it, and a
\* bundle without a row is one the script died on (a reversal whose bundle is
\* there is rejected by every later start).
RestartSafe ==
    script # "ast" =>
    /\ \A i, j \in DOMAIN out : out[i].id = out[j].id => i = j
    /\ \A i \in DOMAIN out : state[out[i].id] = "verified" /\ bundle[out[i].id] = "complete"
    /\ Len(out) <= Target
    /\ result = "ready" => Len(out) = Target
    /\ \A c \in Cand : \/ bundle[c] # "complete" \/ cur = c
                       \/ \E i \in DOMAIN out : out[i].id = c
                       \/ \E d \in deaths : d[1] = c

\* A candidate verified but not in the output is on its way there, or the
\* process died between the two rows: the next start skips it for good.
VerifiedIsKept ==
    \A c \in Cand :
        (script # "ast" /\ state[c] = "verified") =>
            \/ \E i \in DOMAIN out : out[i].id = c
            \/ cur = c /\ pc \in {"bundle", "append"}
            \/ {<<c, "bundle">>, <<c, "append">>} \cap deaths # {}

\* A restart skips no candidate and takes none out of turn: the candidates with
\* a state row are a prefix of the round robin, until a start could not list
\* some commits.  From then on the repositories take turns anew, and what still
\* holds is that inside a repository no commit is judged before a likelier fix
\* that no start has left out.
RowsFollowOrder ==
    script # "ast" =>
    LET order == Ordered(script, Listed(script))
    IN  /\ \A c \in Cand : state[c] # "none" => c \in Listed(script)
        /\ omitted = {} => \A i, j \in DOMAIN order :
                (i < j /\ state[order[j]] # "none") => state[order[i]] # "none"
        /\ \A b, c \in Listed(script) :
                /\ RepoOf[b] = RepoOf[c] /\ <<b, c>> \in Precedence(script)
                /\ state[c] # "none"
                => state[b] # "none" \/ b \in omitted

\* A container outlives its verification only if a create raised, a removal
\* failed or the process died in between.
ContainersReleased ==
    \A b \in alive : \/ b.cand = cur /\ b.start = starts /\ held[b.role] # {}
                     \/ \E e \in excuses : e.box = b
=============================================================================
