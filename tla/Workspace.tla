----------------------------- MODULE Workspace -----------------------------
(***************************************************************************)
(* What the five tools work on: files of a workspace, the paths by which   *)
(* the model names them, and the rules of tools.py and mock.py that are    *)
(* the same in both: replacement, the range of a view, the hits of a       *)
(* search.  A file is a sequence of lines, a line one symbol: Bad stands   *)
(* for a line that is not UTF-8, Nul for one with a NUL character, and a   *)
(* line that ends in CR LF is another symbol than the same line with LF.   *)
(* A directory is there as long as a file is below it.                     *)
(***************************************************************************)
EXTENDS Integers, Sequences, FiniteSets, SequencesExt

CONSTANTS
    Root,        \* the absolute path of the workspace, a sequence of names
    Protected,   \* the protected paths, relative to Root
    MaxMatches,  \* _MAX_SEARCH_MATCHES
    Symbols,     \* the lines files are made of
    Crlf,        \* of a line that ends in CR LF: the line with LF
    NoFile       \* model value: what a path without a file holds

Bad == "bad"
Nul == "nul"
BadRegex == "["
Text == Seq(Symbols)

ASSUME WorkspaceConstants ==
    /\ MaxMatches \in Nat \ {0} /\ IsFiniteSet(Protected)
    /\ {Bad, Nul, "?"} \subseteq Symbols /\ NoFile \notin Text
    /\ DOMAIN Crlf \subseteq Symbols \ {Bad, Nul, "?"}
    /\ \A s \in DOMAIN Crlf : Crlf[s] \in Symbols \ (DOMAIN Crlf \cup {Bad})
    /\ Root \in Seq(STRING) /\ NoFile \notin Seq(STRING)

At(files, p) == IF p \in DOMAIN files THEN files[p] ELSE NoFile
With(files, p, content) ==
    LET paths == IF content = NoFile THEN DOMAIN files \ {p} ELSE DOMAIN files \cup {p}
    IN  [q \in paths |-> IF q = p THEN content ELSE files[q]]

Kind(files, p) ==
    IF p \in DOMAIN files THEN "file"
    ELSE IF p = <<>> \/ \E q \in DOMAIN files : IsStrictPrefix(p, q) THEN "dir" ELSE "none"

\* Something on the way to p is a file: mkdir -p fails.
Blocked(files, p) == \E q \in DOMAIN files : IsStrictPrefix(q, p)

\* What a shell command that writes p, or removes it, leaves.
Shell(files, p, content) ==
    IF content # NoFile /\ (Kind(files, p) = "dir" \/ Blocked(files, p)) THEN files
    ELSE With(files, p, content)

\* p itself, or below it.
Under(p, q) == q = p \/ IsStrictPrefix(p, q)

\* No file has a file below it.
Tree(files) == /\ <<>> \notin DOMAIN files
               /\ \A p, q \in DOMAIN files : ~ IsStrictPrefix(p, q)

-----------------------------------------------------------------------------
\* Paths: a spelling is absolute or not, and a sequence of names.
Paths == [abs : BOOLEAN, names : Seq(STRING \ {"/"})]
Normal(names) ==
    FoldLeft(LAMBDA above, n : IF n # ".." THEN Append(above, n)
                               ELSE IF above = <<>> THEN above ELSE Front(above),
             <<>>, names)

Below(top, names) == SubSeq(names, Len(top) + 1, Len(names))

\* _relpath_or_none: an absolute path inside the workspace becomes relative.
Outside(path) == path.abs /\ ~ IsPrefix(Root, path.names)
Relative(path) == IF path.abs THEN Below(Root, path.names) ELSE path.names

\* PathPolicy.resolve: links are not followed here, the container's are not seen.
Dotted(path) == \E i \in DOMAIN path.names : path.names[i] = ".."
Resolve(path) == IF Dotted(path) THEN Normal(Root \o Relative(path)) ELSE Root \o Relative(path)
Escapes(path) == ~ IsPrefix(Root, Resolve(path))
Target(path) == Below(Root, Resolve(path))
Refused(path) == \/ Outside(path) \/ Escapes(path)
                 \/ \E q \in Protected : IsPrefix(q, Target(path))

-----------------------------------------------------------------------------
\* An observation: its error, what it shows, and whether that was cut short.
Shows(data, more) == [error |-> "none", data |-> data, more |-> more]
Ok == Shows({}, FALSE)
Err(why) == [error |-> why, data |-> {}, more |-> FALSE]
Raises == Err("raised")

Undecodable(content) == \E i \in DOMAIN content : content[i] = Bad
Replacing(content) == [i \in DOMAIN content |-> IF content[i] = Bad THEN "?" ELSE content[i]]

\* What a read in text mode makes of a file: CR LF becomes LF.
Converted(content) ==
    [i \in DOMAIN content |-> IF content[i] \in DOMAIN Crlf THEN Crlf[content[i]] ELSE content[i]]
AsText(content) == IF content = NoFile THEN NoFile ELSE Converted(content)

Occurrences(content, old) == {i \in DOMAIN content : content[i] = old}
Replaced(content, old, new) ==
    LET i == CHOOSE j \in Occurrences(content, old) : TRUE
    IN  SubSeq(content, 1, i - 1) \o new \o SubSeq(content, i + 1, Len(content))

\* _str_replace once the file is read.
ReplaceError(content, old) ==
    CASE Cardinality(Occurrences(content, old)) = 0 -> "old_string not found"
      [] Cardinality(Occurrences(content, old)) = 1 -> "none"
      [] OTHER -> "not unique"

\* _view_file once the file is read; 0 is no line given.
View(p, content, action) ==
    LET total == Len(content)
        start == IF action.start < 1 THEN 1 ELSE action.start
        end == IF action.end = 0 \/ action.end > total THEN total ELSE action.end
    IN  IF start > total \/ start > end THEN Err("range")
        ELSE Shows({<<p, i, content[i], total>> : i \in start .. end}, FALSE)

\* The lines of one file a search finds, while there is room.
FileHits(content, query, room) ==
    IF Occurrences(content, Nul) # {} THEN {}
    ELSE {i \in Occurrences(content, query) :
            Cardinality({j \in Occurrences(content, query) : j < i}) < room}
=============================================================================
