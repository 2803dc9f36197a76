---------------------------- MODULE MCToolCalls ----------------------------
(* Small instances of ToolCalls and of MockEnvs for TLC.                    *)
EXTENDS ToolCalls, MockEnvs, TLC

CONSTANTS t1, t2
TwoThreads == {t1, t2}
Alike == Permutations(TwoThreads)

Workdir == <<"workspace">>
F == <<"f">>
G == <<"d", "g">>
AllLines == {"x", "y", "s", "n", "w", "w cr", "pyc", "bad", "nul", "?"}
CrLines == [s \in {"w cr"} |-> "w"]
Repo == [p \in {F, G, <<"bin">>, GitIgnore} |->
            CASE p = F -> <<"x", "w cr">> [] p = G -> <<"x">> [] p = <<"bin">> -> <<"bad", "x">>
              [] p = GitIgnore -> <<"pyc">>]
Other == [p \in {<<"..", "other", "f">>} |-> <<"x">>]
Halves == [n \in {"a f"} |-> <<"a", "f">>]
Pyc == {<<"m.pyc">>}

In(names) == [abs |-> FALSE, names |-> names]
Full(names) == [abs |-> TRUE, names |-> names]
Act(tool, path) == [tool |-> tool, path |-> path, old |-> "", new |-> <<>>, start |-> 0,
                    end |-> 0, query |-> "x", scoped |-> TRUE, stages |-> FALSE]
Replace(path, old, new) == [Act("replace", path) EXCEPT !.old = old, !.new = new]
ViewLines(path, start, end) == [Act("view", path) EXCEPT !.start = start, !.end = end]
Command(names, content, stages) ==
    [Act("bash", In(names)) EXCEPT !.new = content, !.stages = stages]

Rewrites == {Replace(In(F), "x", <<"x", "x">>),
             Replace(In(<<"bin">>), "", <<"n">>),
             Replace(In(<<"d">>), "", <<"n">>), Replace(In(<<"f", "h">>), "", <<"n">>),
             Replace(In(<<"m.pyc">>), "", <<"n">>), Replace(In(<<"a f">>), "", <<"n">>),
             Replace(Full(Workdir \o <<"d", "..", "d", "g">>), "x", <<"y">>),
             Replace(In(<<"gone", "..", "f">>), "", <<"n">>),
             Replace(In(<<"..", "other", "f">>), "x", <<"n">>)}
Looks == {ViewLines(In(F), 2, 0), Act("view", In(<<"bin">>)),
          Act("search", In(<<"d">>)), [Act("search", In(<<>>)) EXCEPT !.scoped = FALSE],
          [Act("search", In(<<>>)) EXCEPT !.query = BadRegex]}
Shells == {Command(F, NoFile, FALSE), Command(G, NoFile, FALSE), Command(F, <<"s">>, TRUE),
           Command(G, <<"bad">>, FALSE), Command(F, <<"nul", "x">>, FALSE)}
Export == Act("export", In(<<>>))
AllActs == Rewrites \cup Looks \cup Shells \cup {Export}
StageActs == {Command(F, <<"s">>, TRUE), Export}

\* MockEnvs: two environments of the same task and one of another.
ThreeEnvs == 1 .. 3
Dirs == <<"repo-task", "repo-task", "other">>
Calls == {Replace(In(F), "x", <<"n">>), Replace(In(<<"new">>), "", <<"n">>),
          Replace(In(<<"..", "other", "f">>), "x", <<"n">>), Command(F, NoFile, FALSE)}

\* The backend and the mock environments are two processes with nothing in
\* common: TLC takes the behaviours of one and those of the other, each from the
\* initial state, without mixing them.
ApartInit == Init /\ MockInit
ApartNext ==
    \/ ops = 0 /\ Next /\ UNCHANGED mockVars
    \/ begun = 0 /\ MockNext /\ UNCHANGED vars
Apart == ApartInit /\ [][ApartNext]_<<vars, mockVars>>
=============================================================================
