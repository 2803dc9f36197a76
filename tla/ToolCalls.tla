----------------------------- MODULE ToolCalls -----------------------------
(***************************************************************************)
(* The tool calls of LocalDockerBackend.execute and its export_patch in    *)
(* one container: env_server/docker/tools.py over DockerExecutor's file    *)
(* operations, a step per docker exec.  Requests are served in threads of  *)
(* their own, so calls may overlap.  Next to it runs a mock environment    *)
(* that is given the same calls in the order in which they end.            *)
(***************************************************************************)
EXTENDS MockTools

CONSTANTS
    Threads,   \* threads of the server
    Machine,   \* files outside the directory of the mock, as it sees them
    Acts,      \* the actions of the agent
    Spaced,    \* the two halves of each name with a space in it
    Ignored,   \* the paths the .gitignore of git_init_workspace covers
    MaxChars,  \* max_output_chars, in changed lines
    MaxCalls,  \* bound: calls, of which the last may overlap the one before
    MaxFails   \* bound: docker exec calls that fail

Top == [abs |-> FALSE, names |-> <<>>]
Tools == {"search", "view", "replace", "bash", "export"}

ASSUME ToolConstants ==
    /\ \A a \in Acts : /\ a.tool \in Tools
                       /\ a.new \in IF a.tool = "bash" THEN Text \cup {NoFile} ELSE Text
    /\ \A a \in Acts : a.path \in Paths
    /\ \A a \in Acts : a.tool = "search" /\ ~ a.scoped => a.path = Top
    /\ \A a \in Acts : /\ a.tool = "bash" => Plain(a.path)
                       /\ a.tool = "export" => ~ Refused(a.path)
    /\ IsFiniteSet(DOMAIN Seeds) /\ \A p \in DOMAIN Seeds : Seeds[p] \in Text
    /\ "pyc" \in Symbols /\ "x" \in Symbols
    /\ \A p \in DOMAIN Seeds : ~ Outer(p)
    /\ IsFiniteSet(DOMAIN Machine) /\ \A p \in DOMAIN Machine : Outer(p) /\ Machine[p] \in Text
    /\ MaxChars \in Nat /\ MaxCalls \in Nat /\ MaxFails \in Nat

VARIABLES
    files,   \* /workspace in the container
    repo,    \* what git_init_workspace has left: "committed", "unstaged", "missing"
    index,   \* git's index: what `git diff` compares with
    calls,   \* per thread: its call, in progress or ended
    begun,   \* calls so far
    fails,   \* failures so far
    staged,  \* history: an agent has staged or committed changes
    mock,    \* history: the files the mock sees
    off      \* history: the paths that need not agree with the mock any more

vars == <<files, repo, index, calls, begun, fails, staged, mock, off>>

\* create: the seed, then git_init_workspace overwrites .gitignore and commits.
GitIgnore == <<".gitignore">>
GitOwn == {GitIgnore, <<".git", "x">>}
Baseline == [p \in DOMAIN Seeds \cup GitOwn |->
                IF p = GitIgnore THEN <<"pyc">> ELSE IF p \in GitOwn THEN <<"x">> ELSE Seeds[p]]
Around == [p \in DOMAIN Seeds \cup DOMAIN Machine |->
             IF p \in DOMAIN Seeds THEN Seeds[p] ELSE Machine[p]]
ASSUME SeedsLeaveRoom == Tree(Baseline) /\ Tree(Around)
Tracked(p) == p[1] # ".git" /\ p \notin Ignored
Index(tree) == [p \in {q \in DOMAIN tree : Tracked(q)} |-> tree[p]]

NoCall == [pc |-> "idle", a |-> [tool |-> "none"], text |-> <<>>, todo |-> {}, hits |-> {},
           obs |-> Ok, mock |-> Ok, blur |-> {}, before |-> <<>>, failed |-> FALSE, want |-> {}]

\* The file a call may change: where `cat > path` without quotes leads.
WriteTarget(p) == IF Last(p) \in DOMAIN Spaced THEN Append(Front(p), Spaced[Last(p)][1]) ELSE p
Writes(a) == IF a.tool \notin {"replace", "bash"} \/ Refused(a.path) THEN {}
             ELSE IF a.tool = "bash" THEN {Target(a.path)}
             ELSE {Target(a.path), WriteTarget(Target(a.path))}
Busy(t) == calls[t].pc \notin {"idle", "done"}

Update(t, c) == calls' = [calls EXCEPT ![t] = c]
GoTo(t, c, place) == Update(t, [c EXCEPT !.pc = place])

\* The paths that a call of the mock may change.
MockWrites(a) == IF a.tool = "replace" THEN {WritePlace(mock, a)} \ {NoFile}
                 ELSE IF a.tool = "bash" THEN {Target(a.path)} ELSE {}

\* Both sides take the path for the same: it is neither absolute nor goes through
\* "..", nor is it refused by the policy, which the mock does not have.
Mirrored(a) == Plain(a.path) /\ ~ Refused(a.path)

\* The paths about which a call leaves the mock behind: another call wrote them
\* meanwhile, docker exec failed, the text does not decode, the name has a space,
\* or the two sides take the path for different ones.
Meets(p, paths) == \E q \in paths : p = q \/ IsStrictPrefix(p, q) \/ IsStrictPrefix(q, p)
Doubt(c) ==
    LET undecodable == {p \in Writes(c.a) : p \in DOMAIN files /\ Undecodable(files[p])}
        split == IF Cardinality(Writes(c.a)) > 1 THEN Writes(c.a) ELSE {}
        met == {p \in Writes(c.a) : Meets(p, c.blur \cup off)}
        stray == IF Mirrored(c.a) THEN {} ELSE Writes(c.a) \cup MockWrites(c.a)
    IN  undecodable \cup split \cup met \cup stray \cup (IF c.failed THEN Writes(c.a) ELSE {})

\* The call ends with an observation, or an exception: HTTP 500.  The mock is
\* given it now.
Answered(c, obs) ==
    [c EXCEPT !.pc = "done", !.obs = obs, !.before = <<>>, !.text = <<>>,
              !.todo = {}, !.hits = {}, !.mock = MockObs(mock, c.a)]
Given(c) == mock' = MockFiles(mock, c.a) /\ off' = off \cup Doubt(c)
Reply(t, c, obs) == Update(t, Answered(c, obs)) /\ Given(c)

Keep == UNCHANGED <<mock, off>>
Healthy == UNCHANGED fails
Fails(c) == fails < MaxFails /\ fails' = fails + 1
Failed(c) == [c EXCEPT !.failed = TRUE]

-----------------------------------------------------------------------------
\* execute_action: the checks before the first docker exec.
Rejects(a) == IF a.tool = "search" /\ a.query = BadRegex THEN "regex"
              ELSE IF Refused(a.path) THEN "refused" ELSE "none"
First(a) == CASE a.tool = "search" -> IF a.scoped THEN "stat" ELSE "list"
              [] a.tool = "view" -> "stat"
              [] a.tool = "replace" -> "read"
              [] a.tool = "bash" -> "bash"
              [] a.tool = "export" -> "add"

Begin(t, a) ==
    /\ ~ Busy(t) /\ begun < MaxCalls
    /\ begun = MaxCalls - 1 \/ \A u \in Threads : ~ Busy(u)
    /\ begun' = begun + 1
    /\ LET others == {u \in Threads \ {t} : Busy(u)}
           c == [NoCall EXCEPT !.pc = First(a), !.a = a, !.before = files,
                               !.blur = UNION {Writes(calls[u].a) : u \in others}]
       IN  calls' = [u \in Threads |->
                IF u \in others THEN [calls[u] EXCEPT !.blur = @ \cup Writes(a)]
                ELSE IF u # t THEN NoCall
                ELSE IF Rejects(a) # "none" THEN Answered(c, Err(Rejects(a))) ELSE c]
           /\ IF Rejects(a) # "none" THEN Given(c) ELSE Keep
    /\ UNCHANGED <<files, repo, index, fails, staged>>

\* path_stat: test -f, test -d.  A failing docker exec is a missing path.
Stat(t) ==
    LET c == calls[t]
        p == Target(c.a.path)
        kind == Kind(files, p)
    IN  /\ c.pc = "stat"
        /\ \/ /\ Healthy
              /\ CASE kind = "none" -> Reply(t, c, Err("not found"))
                   [] kind = "dir" /\ c.a.tool = "view" -> Reply(t, c, Err("directory"))
                   [] kind = "dir" /\ c.a.tool = "search" -> Keep /\ GoTo(t, c, "list")
                   [] kind = "file" /\ c.a.tool = "search" ->
                        Keep /\ Update(t, [c EXCEPT !.pc = "each", !.todo = {p}])
                   [] kind = "file" /\ c.a.tool = "view" -> Keep /\ GoTo(t, c, "show")
           \/ Fails(c) /\ Reply(t, Failed(c), Err("not found"))
        /\ UNCHANGED <<files, repo, index, begun, staged>>

\* list_files: find; when it fails there are no files.
List(t) ==
    LET c == calls[t]
        below == {p \in DOMAIN files : Under(Target(c.a.path), p)}
    IN  /\ c.pc = "list"
        /\ \/ Healthy /\ Keep /\ Update(t, [c EXCEPT !.pc = "each", !.todo = below])
           \/ Fails(c) /\ Keep /\ Update(t, [Failed(c) EXCEPT !.pc = "each"])
        /\ UNCHANGED <<files, repo, index, begun, staged>>

\* _search reads file after file, in the order of find, up to the limit; a file
\* that cannot be read or decoded is skipped.
SearchFile(t, p) ==
    LET c == calls[t]
        room == MaxMatches - Cardinality(c.hits)
        readable == p \in DOMAIN files /\ ~ Undecodable(files[p])
        found == {<<p, i>> : i \in IF readable THEN FileHits(Converted(files[p]), c.a.query, room) ELSE {}}
        next == [c EXCEPT !.todo = @ \ {p}, !.hits = @ \cup found]
    IN  /\ c.pc = "each" /\ p \in c.todo
        /\ \/ /\ Healthy
              /\ IF Cardinality(next.hits) >= MaxMatches
                 THEN Reply(t, c, Shows(next.hits, TRUE))
                 ELSE Keep /\ Update(t, next)
           \/ Fails(c) /\ Keep /\ Update(t, [Failed(c) EXCEPT !.todo = @ \ {p}])
        /\ UNCHANGED <<files, repo, index, begun, staged>>

SearchEnds(t) ==
    /\ calls[t].pc = "each" /\ calls[t].todo = {}
    /\ Reply(t, calls[t], Shows(calls[t].hits, FALSE))
    /\ UNCHANGED <<files, repo, index, begun, staged, fails>>

\* _view_file reads without a net: what the read raises leaves the call.
ViewFile(t) ==
    LET c == calls[t]
        content == At(files, Target(c.a.path))
    IN  /\ c.pc = "show"
        /\ \/ /\ Healthy
              /\ Reply(t, c, IF content = NoFile \/ Undecodable(content) THEN Raises
                             ELSE View(Target(c.a.path), Converted(content), c.a))
           \/ Fails(c) /\ Reply(t, Failed(c), Raises)
        /\ UNCHANGED <<files, repo, index, begun, staged>>

\* _str_replace once read_text has answered: NoFile is an OSError.
MutReplacement(t, c, content) ==
    LET why == IF content = NoFile THEN "not found"
               ELSE IF Occurrences(content, c.a.old) = {} THEN "old_string not found" ELSE "none"
    IN  IF c.a.old # "" /\ why # "none" THEN Reply(t, c, Err(why))
        ELSE Keep /\ Update(t, [c EXCEPT !.pc = "mkdir", !.text = Edited(content, c.a)])
Replacement(t, c, content) ==
    LET why == IF content = NoFile THEN "not found" ELSE ReplaceError(content, c.a.old)
    IN  IF c.a.old # "" /\ why # "none" THEN Reply(t, c, Err(why))
        ELSE Keep /\ Update(t, [c EXCEPT !.pc = "mkdir", !.text = Edited(content, c.a)])

MutReadable(content) == IF content = NoFile THEN NoFile
                        ELSE IF Undecodable(content) THEN <<>> ELSE Converted(content)
Readable(content) == AsText(content)

\* read_text: cat.  A failing docker exec is an OSError, as a missing file is.
ReadFile(t) ==
    LET c == calls[t]
        content == Readable(At(files, Target(c.a.path)))
    IN  /\ c.pc = "read"
        /\ \/ /\ Healthy
              /\ IF content # NoFile /\ Undecodable(content) THEN Reply(t, c, Err("decode"))
                 ELSE Replacement(t, c, content)
           \/ Fails(c) /\ Replacement(t, Failed(c), NoFile)
        /\ UNCHANGED <<files, repo, index, begun, staged>>

\* write_text: mkdir -p, then `cat > path`, which empties the file first.
MakeDir(t) ==
    LET c == calls[t]
    IN  /\ c.pc = "mkdir"
        /\ \/ /\ Healthy
              /\ IF Blocked(files, Target(c.a.path)) THEN Reply(t, c, Err("io"))
                 ELSE Keep /\ GoTo(t, c, "open")
           \/ Fails(c) /\ Reply(t, Failed(c), Err("io"))
        /\ UNCHANGED <<files, repo, index, begun, staged>>

OpenFile(t) ==
    LET c == calls[t]
        p == Target(c.a.path)
        w == IF p = <<>> THEN p ELSE WriteTarget(p)
    IN  /\ c.pc = "open"
        /\ \/ /\ Healthy
              /\ IF Kind(files, w) = "dir" \/ Blocked(files, w)
                 THEN Reply(t, c, Err("io")) /\ UNCHANGED files
                 ELSE Keep /\ GoTo(t, c, "fill") /\ files' = With(files, w, <<>>)
           \/ Fails(c) /\ Reply(t, Failed(c), Err("io")) /\ UNCHANGED files
        /\ UNCHANGED <<repo, index, begun, staged>>

\* What cat copies: its input, or the file the second half of a name with a
\* space names.  A file removed meanwhile swallows it.
Source(c) == LET p == Target(c.a.path)
             IN  IF WriteTarget(p) = p THEN c.text ELSE At(files, <<Spaced[Last(p)][2]>>)

FillFile(t) ==
    LET c == calls[t]
        w == WriteTarget(Target(c.a.path))
        full == IF w \in DOMAIN files THEN With(files, w, Source(c)) ELSE files
    IN  /\ c.pc = "fill"
        /\ \/ /\ Source(c) # NoFile /\ Healthy
              /\ files' = full /\ Reply(t, c, Ok)
           \/ /\ Source(c) = NoFile /\ Healthy
              /\ UNCHANGED files /\ Reply(t, c, Err("io"))
           \/ /\ Source(c) # NoFile /\ Fails(c)
              /\ files' \in {files, full} /\ Reply(t, Failed(c), Err("io"))
        /\ UNCHANGED <<repo, index, begun, staged>>

\* One shell command: it writes or removes a file, or stages what there is.
Bash(t) ==
    LET c == calls[t]
        after == Shell(files, Target(c.a.path), c.a.new)
    IN  /\ c.pc = "bash"
        /\ \/ /\ Healthy /\ files' = after
              /\ index' = IF c.a.stages /\ repo # "missing" THEN Index(after) ELSE index
              /\ staged' = (staged \/ c.a.stages)
              /\ Reply(t, c, Ok)
           \/ /\ Fails(c) /\ files' \in {files, after}  \* timed out: exit code 124
              /\ UNCHANGED <<index, staged>>
              /\ Reply(t, Failed(c), Ok)
        /\ UNCHANGED <<repo, begun>>

-----------------------------------------------------------------------------
\* export_patch: git add -N, whose failure goes unnoticed ...
MutIntend == index
Intend == [p \in DOMAIN index \cup DOMAIN Index(files) |-> At(index, p)]

AddIntent(t) ==
    LET c == calls[t]
    IN  /\ c.pc = "add"
        /\ \/ Healthy /\ index' = (IF repo = "missing" THEN index ELSE Intend) /\ GoTo(t, c, "diff")
           \/ Fails(c) /\ UNCHANGED index /\ GoTo(t, Failed(c), "diff")
        /\ Keep /\ UNCHANGED <<files, repo, begun, staged>>

\* ... and git diff: the working tree against the index.
Changes(old, new, paths) ==
    {<<p, At(old, p), At(new, p)>> : p \in {q \in paths : At(old, q) # At(new, q)}}

\* What the caller is told of a change: of a binary file that there is one; the
\* rest is decoded and its CR LF become LF, which fails if a line near the change
\* is not UTF-8 (a file of the model is no longer than that).
Binary == <<"Binary files differ">>
IsBinary(e) == \E i \in {2, 3} : e[i] # NoFile /\ Occurrences(e[i], Nul) # {}
Garbled(e) == ~ IsBinary(e) /\ \E i \in {2, 3} : e[i] # NoFile /\ Undecodable(e[i])
Told(e) == IF IsBinary(e) THEN <<e[1], Binary, Binary>>
           ELSE <<e[1], AsText(e[2]), AsText(e[3])>>

Size(patch) == FoldSet(LAMBDA e, n : n + (IF e[2] = NoFile THEN 0 ELSE Len(e[2]))
                                       + (IF e[3] = NoFile THEN 0 ELSE Len(e[3])), 0, patch)
Captured(patch) == IF Size(patch) > MaxChars THEN {<<"cut">>} ELSE patch
Diff(changes) == IF \E e \in changes : Garbled(e) THEN Raises
                 ELSE Shows(Captured({Told(e) : e \in changes}), FALSE)

\* A failure, also that there is no repository, is an empty patch; a timeout raises.
GitDiff(t) ==
    LET c == [calls[t] EXCEPT !.want =
                Changes(Baseline, files, {p \in DOMAIN Baseline \cup DOMAIN files : Tracked(p)})]
    IN  /\ c.pc = "diff"
        /\ \/ /\ Healthy
              /\ Reply(t, c, IF repo = "missing" THEN Ok
                             ELSE Diff(Changes(index, files, DOMAIN index)))
           \/ Fails(c) /\ \E obs \in {Ok, Raises} : Reply(t, Failed(c), obs)
        /\ UNCHANGED <<files, repo, index, begun, staged>>

-----------------------------------------------------------------------------
\* git_init_workspace looks at no exit code: git init may have failed, or git add,
\* which leaves the index empty.  A commit that fails alone changes nothing here.
Init ==
    /\ repo \in IF MaxFails = 0 THEN {"committed"} ELSE {"committed", "unstaged", "missing"}
    /\ files = Baseline /\ index = IF repo = "committed" THEN Index(Baseline) ELSE <<>>
    /\ calls = [t \in Threads |-> NoCall]
    /\ begun = 0 /\ fails = (IF repo = "committed" THEN 0 ELSE 1) /\ staged = FALSE
    /\ mock = Around /\ off = GitOwn \cup DOMAIN Machine

ToolStep(t) ==
    \/ \E a \in Acts : Begin(t, a)
    \/ Stat(t) \/ List(t) \/ SearchEnds(t) \/ ViewFile(t) \/ ReadFile(t) \/ MakeDir(t)
    \/ OpenFile(t) \/ FillFile(t) \/ Bash(t) \/ AddIntent(t) \/ GitDiff(t)
    \/ \E p \in DOMAIN files \cup calls[t].todo : SearchFile(t, p)

Next == \E t \in Threads : ToolStep(t)

Spec == Init /\ [][Next]_vars

-----------------------------------------------------------------------------
\* The observation c got and the one the mock gives agree on what is not in
\* doubt: on the paths outside off that nobody wrote meanwhile.  Of a file that
\* does not decode a search by the mock has hits and one by the tools has none,
\* and view_file raises.
Found(obs, paths) == {h \in obs.data : h[1] \in paths}
Agree(c, dir, apart) ==
    LET sure == {p \in DOMAIN dir \ (apart \cup c.blur) : ~ Undecodable(dir[p])}
        p == Target(c.a.path)
        near == Meets(p, apart \cup c.blur)
    IN  CASE c.a.tool = "search" ->
                /\ c.obs.error = c.mock.error \/ (c.a.scoped /\ near)
                /\ c.obs.more \/ c.mock.more \/ Found(c.obs, sure) = Found(c.mock, sure)
          [] c.a.tool = "view" ->
                \/ c.obs = c.mock \/ near
                \/ c.obs = Raises /\ p \in DOMAIN dir /\ Undecodable(dir[p])
          [] c.a.tool = "replace" ->
                c.obs = c.mock \/ (c.mock = Raises /\ c.obs.error # "none") \/ near
          [] OTHER -> TRUE

\* "The semantics mirrors the mock one by one" (tools.py:3): what a call with a
\* plain path shows and where it leaves the files is what the mock would, but for
\* the paths in off.  Where the mock raises, the tools answer with an error.
MirrorsMock ==
    /\ (\A t \in Threads : ~ Busy(t)) =>
          \A p \in (DOMAIN files \cup DOMAIN mock) \ off : At(files, p) = At(mock, p)
    /\ \A t \in Threads :
          LET c == calls[t]
          IN  c.pc # "done" \/ c.failed \/ ~ Mirrored(c.a) \/ Agree(c, mock, off)

\* The comment itself (tools.py:3), for a call nothing has interfered with: it
\* shows what the mock shows.
MirrorsOneByOne ==
    \A t \in Threads :
        LET c == calls[t]
        IN  c.pc = "done" /\ ~ c.failed /\ c.blur = {} /\ c.a.tool # "export" => c.obs = c.mock

-----------------------------------------------------------------------------
\* What a call may do to the files: when it ends, every file holds what it held
\* when the call began, the named one with its edit if the call says so.  What may
\* break this is a docker exec that failed, a name with a space, and another call
\* that wrote to the same place meanwhile.
Edits(c, q) == q = Target(c.a.path) /\ c.a.tool = "replace" /\ c.obs = Ok
Ends(t) == Busy(t) /\ calls'[t].pc = "done" /\ calls'[t].a.tool # "bash"
Disturbed(c) == c.failed \/ Cardinality(Writes(c.a)) > 1

\* The edit is that of the text of the file: its CR LF have become LF.  Nothing
\* else is lost.
LosesNothing(before, c) ==
    \A q \in DOMAIN before \cup DOMAIN files' :
        \/ Meets(q, c.blur)
        \/ At(files', q) = IF Edits(c, q) THEN Edited(AsText(At(before, q)), c.a)
                           ELSE At(before, q)
EditsLoseNothing ==
    [][\A t \in Threads :
        ~ Ends(t) \/ Disturbed(calls'[t]) \/ LosesNothing(calls[t].before, calls'[t])]_vars

\* str_replace replaces the one match, or inserts at the beginning (tools.py:6):
\* the other lines stay as they are.
EditsOnlyTheMatch ==
    [][\A t \in Threads :
        LET before == calls[t].before
            q == Target(calls[t].a.path)
        IN  Ends(t) /\ ~ Disturbed(calls'[t]) /\ calls'[t].blur = {} /\ Edits(calls'[t], q) =>
                At(files', q) = Edited(At(before, q), calls[t].a)]_vars

-----------------------------------------------------------------------------
\* An exported patch is the difference between the workspace and the baseline
\* (backend.py:233), as far as a diff can tell it.
Exported(c) == c.pc = "done" /\ c.a.tool = "export"
Shown(want) == {Told(e) : e \in want}
ExportIsDiff ==
    \A t \in Threads : Exported(calls[t]) => calls[t].obs.data = Shown(calls[t].want)

\* git apply takes the patch (backend.py:233): what it says a file of the baseline
\* holds is what that file holds.
PatchApplies ==
    \A t \in Threads :
        Exported(calls[t]) => \A e \in calls[t].obs.data : e[2] = At(Baseline, e[1])

\* What the code delivers: so it is, and what the patch says of the snapshot from
\* which a verification starts is the text of that snapshot (but for .gitignore,
\* which create overwrites, and for binary files), unless git failed, now or in
\* create, an agent staged its changes or a file was written meanwhile.  The call
\* raises for a change that does not decode, and cuts a patch that is too long.
Hindered(c) == c.failed \/ staged \/ repo # "committed" \/ c.blur # {}
Fits(e) == e[1] = GitIgnore \/ e[2] = Binary \/ e[2] = AsText(At(Seeds, e[1]))
ExportIsDiffUnlessCaused ==
    \A t \in Threads :
        LET c == calls[t]
        IN  \/ ~ Exported(c) \/ Hindered(c)
            \/ c.obs = Raises /\ \E e \in c.want : Garbled(e)
            \/ Size(Shown(c.want)) > MaxChars
            \/ c.obs = Shows(Shown(c.want), FALSE) /\ \A e \in c.obs.data : Fits(e)
=============================================================================
