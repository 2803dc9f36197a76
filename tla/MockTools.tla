----------------------------- MODULE MockTools -----------------------------
(***************************************************************************)
(* environment/mock.py: its five tools, which work on a directory of this  *)
(* machine.  It is the reference for the tools of the Docker backend,      *)
(* whose module comment (tools.py:3) says they mirror it one by one.       *)
(*                                                                         *)
(* The files are those of the machine as seen from the directory: what is  *)
(* below it has its relative path, what is beside or above it a path that  *)
(* begins with "..", and what an absolute path names one that begins with  *)
(* "/".  Nobody names the directory itself in one of the last two ways.    *)
(***************************************************************************)
EXTENDS Workspace

CONSTANT Seeds  \* seed_files with what the setup commands make of them

Outer(p) == p # <<>> /\ Head(p) \in {"..", "/"}
Above(p) == \A i \in DOMAIN p : p[i] \in {"..", "/"}

\* There is no policy: env.workspace / path is what the kernel makes of it.  A
\* name before ".." has to be a directory; NoFile stands for a path that leads
\* nowhere.
Stands(files, p) ==
    IF p = NoFile THEN "none" ELSE IF Above(p) THEN "dir" ELSE Kind(files, p)
Up(p) == IF p = <<>> \/ Last(p) = ".." THEN Append(p, "..")
         ELSE IF Last(p) = "/" THEN p ELSE Front(p)
Walk(files, path, kinds) ==
    FoldLeft(LAMBDA at, n : IF at = NoFile THEN NoFile
                            ELSE IF n # ".." THEN Append(at, n)
                            ELSE IF Stands(files, at) \in kinds THEN Up(at) ELSE NoFile,
             IF path.abs THEN <<"/">> ELSE <<>>, path.names)

\* The spelling every reader takes alike.
Plain(path) == ~ path.abs /\ ~ Dotted(path)
Place(files, path) == IF Plain(path) THEN path.names ELSE Walk(files, path, {"dir"})

\* Where _str_replace writes: an insertion makes the directories of the path
\* first, also those before "..".
WritePlace(files, a) ==
    IF a.old = "" /\ ~ Plain(a.path) THEN Walk(files, a.path, {"dir", "none"})
    ELSE Place(files, a.path)

MockText(files, p) == IF p \in DOMAIN files THEN Converted(Replacing(files[p])) ELSE NoFile

MockView(files, a) ==
    LET p == Place(files, a.path) IN
    CASE Stands(files, p) = "none" -> Err("not found")
      [] Stands(files, p) = "dir"  -> Err("directory")
      [] Stands(files, p) = "file" -> View(p, MockText(files, p), a)

\* Files are searched in the order of their paths; what counts is which hits
\* there are and whether they reach the limit.  The path of a hit is relative to
\* the workspace: a file that an absolute path names has none.  (A search above
\* the workspace also finds its own files: these hits are left out.)
MockSearch(files, a) ==
    LET p == Place(files, a.path)
        reached == {q \in DOMAIN files : Under(p, q) /\ (Outer(q) => Outer(p))}
        hits == UNION {{<<q, i>> : i \in FileHits(MockText(files, q), a.query, MaxMatches)} :
                       q \in reached}
    IN  IF a.query = BadRegex THEN Err("regex")
        ELSE IF Stands(files, p) = "none" THEN Err("not found")
        ELSE IF a.path.abs /\ hits # {} THEN Raises
        ELSE Shows(hits, Cardinality(hits) >= MaxMatches)

\* What _str_replace answers, and the content it writes if it answers Ok.
MockReplaceObs(files, a) ==
    LET p == Place(files, a.path)
        w == WritePlace(files, a)
    IN  IF a.old = ""
        THEN IF w = NoFile \/ Stands(files, w) = "dir" \/ Blocked(files, w) THEN Raises ELSE Ok
        ELSE CASE Stands(files, p) = "none" -> Err("not found")
               [] Stands(files, p) = "dir"  -> Raises
               [] Stands(files, p) = "file" ->
                    LET why == ReplaceError(MockText(files, p), a.old)
                    IN  IF why = "none" THEN Ok ELSE Err(why)

Edited(content, a) ==
    IF a.old # "" THEN Replaced(content, a.old, a.new)
    ELSE a.new \o (IF content = NoFile THEN <<>> ELSE content)

MockObs(files, a) ==
    CASE a.tool = "view" -> MockView(files, a)
      [] a.tool = "search" -> MockSearch(files, a)
      [] a.tool = "replace" -> MockReplaceObs(files, a)
      [] OTHER -> Ok

\* A bash command is known by the file it writes or removes, if any.
MockFiles(files, a) ==
    CASE a.tool = "bash" -> Shell(files, Target(a.path), a.new)
      [] a.tool = "replace" /\ MockReplaceObs(files, a) = Ok ->
            With(files, WritePlace(files, a), Edited(MockText(files, Place(files, a.path)), a))
      [] OTHER -> files

\* export_patch: the initial snapshot against the directory.  A file that is
\* missing and a file that is empty are the same to it.
MockLines(files, p) == IF p \in DOMAIN files THEN MockText(files, p) ELSE <<>>
Delta(old, new) ==
    {<<p, MockLines(old, p), MockLines(new, p)>> :
        p \in {q \in DOMAIN old \cup DOMAIN new : MockLines(old, q) # MockLines(new, q)}}
=============================================================================
