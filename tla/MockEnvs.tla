------------------------------ MODULE MockEnvs ------------------------------
(***************************************************************************)
(* environment/mock.py: the environments of one process, each a directory  *)
(* below workspace_root whose name is made of the repository and the first *)
(* twelve characters of the task id.                                       *)
(***************************************************************************)
EXTENDS MockTools

CONSTANTS
    Envs,      \* the environments a process makes
    DirOf,     \* the name of the directory of each
    MockActs,  \* the calls made on them
    MaxOps     \* bound: operations

ASSUME MockConstants ==
    /\ MaxOps \in Nat
    /\ \A p \in DOMAIN Seeds : Seeds[p] \in Text /\ p # <<>> /\ ~ Outer(p)

VARIABLES
    dirs,     \* the directories below workspace_root: their files, or NoFile
    handle,   \* per environment: "none", "live", "destroyed"
    initial,  \* per environment: MockEnvironment.initial
    own,      \* history: the files of each environment if it were alone
    met,      \* history: the environments another one has disturbed
    ops       \* operations so far

mockVars == <<dirs, handle, initial, own, met, ops>>

Op == ops < MaxOps /\ ops' = ops + 1
Present(files) == IF files = NoFile THEN <<>> ELSE files
Puts(e, files, alone) ==
    /\ dirs' = [dirs EXCEPT ![DirOf[e]] = files]
    /\ own' = [own EXCEPT ![e] = alone]

\* create: the directory is wiped, whoever uses it, and seeded.
Sharing(e) == {u \in Envs \ {e} : handle[u] = "live" /\ DirOf[u] = DirOf[e]}
MockCreate(e) ==
    /\ Op /\ handle[e] = "none"
    /\ Puts(e, Seeds, Seeds)
    /\ handle' = [handle EXCEPT ![e] = "live"]
    /\ initial' = [initial EXCEPT ![e] = Seeds]
    /\ met' = IF Sharing(e) = {} THEN met ELSE met \cup Sharing(e) \cup {e}

\* reset: raises when the directory is gone.
MockReset(e) ==
    /\ Op /\ handle[e] = "live"
    /\ IF dirs[DirOf[e]] = NoFile THEN UNCHANGED <<dirs, own, initial>>
       ELSE Puts(e, Seeds, Seeds) /\ initial' = [initial EXCEPT ![e] = Seeds]
    /\ UNCHANGED <<handle, met>>

\* destroy is idempotent: a second one does not wipe the directory again.
MutDestroy(e) ==
    /\ Op /\ handle[e] # "none"
    /\ Puts(e, NoFile, NoFile) /\ handle' = [handle EXCEPT ![e] = "destroyed"]
    /\ UNCHANGED <<initial, met>>
MockDestroy(e) ==
    /\ Op /\ handle[e] # "none"
    /\ IF handle[e] = "live" THEN Puts(e, NoFile, NoFile) ELSE UNCHANGED <<dirs, own>>
    /\ handle' = [handle EXCEPT ![e] = "destroyed"]
    /\ UNCHANGED <<initial, met>>

\* execute: the tools see the directory and, through "..", the ones beside it.
Beside(n, p) == <<"..", n>> \o p
Seen(d) ==
    LET beside(n) == {Beside(n, p) : p \in DOMAIN Present(dirs[n])}
    IN  [p \in DOMAIN Present(dirs[d]) \cup UNION {beside(n) : n \in DOMAIN dirs \ {d}} |->
            IF Outer(p) THEN dirs[p[2]][Below(Beside(p[2], <<>>), p)] ELSE dirs[d][p]]
Inside(tree) == [p \in {q \in DOMAIN tree : ~ Outer(q)} |-> tree[p]]
Part(tree, n) ==
    LET top == Beside(n, <<>>)
    IN  [p \in {Below(top, q) : q \in {q \in DOMAIN tree : IsStrictPrefix(top, q)}} |->
            tree[top \o p]]

\* A directory that is gone is there again once a tool has written to it; bash,
\* which runs in it, raises.
Left(d, files) == IF dirs[d] = NoFile /\ files = <<>> THEN NoFile ELSE files
MockExecute(e, a) ==
    LET home == DirOf[e]
        after == MockFiles(Seen(home), a)
    IN  /\ Op /\ handle[e] = "live"
        /\ IF dirs[home] = NoFile /\ a.tool = "bash" THEN UNCHANGED <<dirs, own>>
           ELSE /\ dirs' = [d \in DOMAIN dirs |->
                               Left(d, IF d = home THEN Inside(after) ELSE Part(after, d))]
                /\ own' = [own EXCEPT ![e] = Inside(MockFiles(Present(own[e]), a))]
        /\ met' = met \cup {u \in Envs : DirOf[u] # home /\ dirs'[DirOf[u]] # dirs[DirOf[u]]}
        /\ UNCHANGED <<handle, initial>>

MockInit ==
    /\ dirs = [d \in {DirOf[e] : e \in Envs} |-> NoFile]
    /\ handle = [e \in Envs |-> "none"]
    /\ initial = [e \in Envs |-> NoFile] /\ own = [e \in Envs |-> NoFile]
    /\ met = {} /\ ops = 0

MockNext ==
    \E e \in Envs : \/ MockCreate(e) \/ MockReset(e) \/ MockDestroy(e)
                    \/ \E a \in MockActs : MockExecute(e, a)

MockSpec == MockInit /\ [][MockNext]_mockVars

\* export_patch changes nothing: what it would answer now.
MockPatch(e) == Delta(initial[e], Present(dirs[DirOf[e]]))

OwnWork(e) == MockPatch(e) = Delta(Seeds, Present(own[e]))

\* What the notes on the GRPO runs say of create since version 10: a workspace of
\* its own per environment, so that nothing another one does shows in it.  What
\* an environment exports is then its own work, nothing more and nothing less.
WorkspacesAreApart == \A e \in Envs : handle[e] = "live" => OwnWork(e)

\* What the code delivers (mock.py:93): an environment keeps to its own work while
\* no other one lives in its directory and none writes there through "..", also
\* when one that used the directory before it is destroyed once more.
WorkspacesTakeTurns == \A e \in Envs \ met : handle[e] = "live" => OwnWork(e)
=============================================================================
