---------------------------- MODULE MCMixedPool ----------------------------
(* A small instance of MixedPool for TLC.                                   *)
EXTENDS MixedPool

Cands == 1 .. 4
Of(repo, time, fixLike, parents, kind, patch) ==
    [repo |-> repo, time |-> time, fixLike |-> fixLike, parents |-> parents,
     kind |-> kind, patch |-> patch]
Commits == <<Of(1, 1, FALSE, 1, 0, {"source", "test"}),
             Of(1, 2, TRUE, 1, 1, Sections),
             Of(2, 1, FALSE, 1, 0, {"source", "deleted_test"}),
             Of(2, 3, TRUE, 1, 0, {"source", "test"})>>

Task(id, repo, source) == [id |-> id, repo |-> repo, source |-> source, f2p |-> id # 16,
                           secret |-> TRUE, portable |-> FALSE]
\* For every source: two tasks of one repository, one of another and one without
\* fail-to-pass tests, and a task of a source that does not belong there.
Base(s) == CASE s = "PUBLIC_EXECUTABLE" -> 10 [] s = "AST_MUTATION" -> 20
             [] OTHER -> 30
Others == [s \in Sources |->
    {Task(Base(s) + 1, 1, s), Task(Base(s) + 2, 1, s), Task(Base(s) + 3, 3, s),
     Task(16, 4, s), Task(Base(s) + 5, 0, "elsewhere")}]

Quota(n) == [s \in Sources |-> IF s = "AST_MUTATION" THEN n ELSE 1]
AllQuotas == {Quota(2), Quota(3)}
Evals == {<<Task(41, 2, "elsewhere")>>, <<Task(42, 5, "elsewhere")>>}
=============================================================================
