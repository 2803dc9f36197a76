-------------------------- MODULE ToolCallsProofs --------------------------
(***************************************************************************)
(* Theorems about ToolCalls, for every workspace, every set of actions and *)
(* every number of calls.                                                  *)
(***************************************************************************)
EXTENDS ToolCalls, SelectionProofs, FiniteSetTheorems, SequenceTheorems, TLAPS

-----------------------------------------------------------------------------
\* A container: where a call may be, and what its tool is there.
Fields == {"pc", "a", "text", "todo", "hits", "obs", "mock", "blur", "before", "failed", "want"}
Looking == {"stat", "list", "each", "show"}
Editing == {"read", "mkdir", "open", "fill"}
Exporting == {"add", "diff"}

PcOK(c) ==
    /\ c.pc \in {"idle", "done", "bash"} \cup Looking \cup Editing \cup Exporting
    /\ c.pc \notin {"idle", "done"} => c.a \in Acts /\ ~ Refused(c.a.path)
    /\ c.pc \in Looking => c.a.tool \in {"search", "view"}
    /\ c.pc \in Editing => c.a.tool = "replace"
    /\ c.pc = "bash" => c.a.tool = "bash"
    /\ c.pc \in Exporting => c.a.tool = "export"
CallOK(c) == DOMAIN c = Fields /\ c.failed \in BOOLEAN /\ PcOK(c)

\* A call knows of the writes of every other one in progress, also once it ended.
BlurOK ==
    \A t, u \in Threads :
        (t # u /\ calls[t].pc # "idle" /\ Busy(u)) => Writes(calls[u].a) \subseteq calls[t].blur

CallsOK ==
    /\ DOMAIN calls = Threads /\ \A t \in Threads : CallOK(calls[t])
    /\ BlurOK

\* The next record of a call: the same action and overlaps, no failure undone.
Keeps(d, c) ==
    /\ DOMAIN d = Fields /\ d.a = c.a /\ d.blur = c.blur
    /\ d.failed \in BOOLEAN /\ (c.failed => d.failed)
    /\ d.pc = "done" \/ d.before = c.before

\* A step of a call other than its beginning.
Moved(t) ==
    /\ DOMAIN calls' = Threads /\ \A u \in Threads \ {t} : calls'[u] = calls[u]
    /\ Busy(t) /\ Keeps(calls'[t], calls[t]) /\ CallOK(calls'[t])

LEMMA Failing ==
    ASSUME NEW c, CallOK(c)
    PROVE  /\ Keeps(c, c) /\ Keeps(Failed(c), c) /\ Failed(c).pc = c.pc /\ Failed(c).failed
           /\ Failed(c).before = c.before
           /\ DOMAIN Failed(c) = Fields /\ DOMAIN c = Fields
  BY DEF Failed, Fields, Keeps, CallOK

LEMMA AnsweredOK ==
    ASSUME NEW c, DOMAIN c = Fields, NEW obs
    PROVE  /\ DOMAIN Answered(c, obs) = Fields /\ Answered(c, obs).a = c.a
           /\ Answered(c, obs).blur = c.blur /\ Answered(c, obs).failed = c.failed
           /\ Answered(c, obs).want = c.want /\ Answered(c, obs).pc = "done"
           /\ Answered(c, obs).obs = obs
  BY DEF Answered, Fields

\* A call goes on with the record d.
LEMMA Going ==
    ASSUME CallsOK, NEW t \in Threads, Busy(t), NEW d, calls' = [calls EXCEPT ![t] = d],
           Keeps(d, calls[t]),
           \/ d.pc = "done"
           \/ d.pc \in Looking /\ calls[t].pc \in Looking
           \/ d.pc \in Editing /\ calls[t].pc \in Editing
           \/ d.pc \in Exporting /\ calls[t].pc \in Exporting
    PROVE  Moved(t) /\ calls'[t] = d
  <1>1. /\ DOMAIN calls' = Threads /\ calls'[t] = d
        /\ \A u \in Threads \ {t} : calls'[u] = calls[u]
    BY DEF CallsOK
  <1>2. CallOK(calls[t]) /\ calls[t].pc \notin {"idle", "done"}
    BY DEF CallsOK, Busy
  <1>3. PcOK(d)
    BY <1>2 DEF CallOK, PcOK, Keeps, Looking, Editing, Exporting
  <1>4. CallOK(d)
    BY <1>3 DEF CallOK, Keeps
  <1>. QED
    BY <1>1, <1>4 DEF Moved

\* A call ends.
LEMMA Closing ==
    ASSUME CallsOK, NEW t \in Threads, Busy(t), NEW c, Keeps(c, calls[t]), NEW obs,
           calls' = [calls EXCEPT ![t] = Answered(c, obs)]
    PROVE  /\ Moved(t) /\ calls'[t].pc = "done" /\ calls'[t].obs = obs
           /\ calls'[t].failed = c.failed /\ calls'[t].want = c.want
  <1>. DEFINE d == Answered(c, obs)
  <1>1. DOMAIN c = Fields
    BY DEF Keeps
  <1>2. /\ DOMAIN d = Fields /\ d.a = c.a /\ d.blur = c.blur /\ d.failed = c.failed
        /\ d.pc = "done" /\ d.obs = obs /\ d.want = c.want
    BY <1>1, AnsweredOK
  <1>3. calls' = [calls EXCEPT ![t] = d]
    OBVIOUS
  <1>. HIDE DEF d
  <1>4. Keeps(d, calls[t])
    BY <1>2 DEF Keeps
  <1>5. Moved(t) /\ calls'[t] = d
    BY <1>2, <1>3, <1>4, Going
  <1>. QED
    BY <1>2, <1>5

-----------------------------------------------------------------------------
\* Stat, List, SearchFile, SearchEnds, ViewFile: they look and change no file.
Looks(t) ==
    \/ Stat(t) \/ List(t) \/ SearchEnds(t) \/ ViewFile(t)
    \/ \E p \in DOMAIN files \cup calls[t].todo : SearchFile(t, p)

LEMMA LookingOK ==
    ASSUME CallsOK, NEW t \in Threads, Looks(t)
    PROVE  Moved(t) /\ calls[t].pc \in Looking /\ UNCHANGED <<files, repo, index, staged>>
  <1>. DEFINE b == calls[t]
  <1>1. UNCHANGED <<files, repo, index, staged>> /\ b.pc \in Looking
    BY DEF Looks, Stat, List, SearchEnds, ViewFile, SearchFile, Looking
  <1>2. Busy(t) /\ CallOK(b)
    BY <1>1 DEF CallsOK, Busy, Looking
  <1>. HIDE DEF b
  <1>3. /\ Keeps(b, b) /\ Keeps(Failed(b), b) /\ Failed(b).pc = b.pc
        /\ Failed(b).before = b.before /\ DOMAIN b = Fields /\ DOMAIN Failed(b) = Fields
    BY <1>2, Failing
  <1>4. ASSUME NEW d, calls' = [calls EXCEPT ![t] = d], Keeps(d, b), d.pc \in Looking
        PROVE  Moved(t)
    BY <1>1, <1>2, <1>4, Going DEF b
  <1>5. ASSUME NEW c, Keeps(c, b), NEW obs, calls' = [calls EXCEPT ![t] = Answered(c, obs)]
        PROVE  Moved(t)
    BY <1>2, <1>5, Closing DEF b
  <1>6. ASSUME Stat(t) PROVE Moved(t)
    <2>. DEFINE p == Target(b.a.path)
                each == [b EXCEPT !.pc = "each", !.todo = {p}]
                list == [b EXCEPT !.pc = "list"]
                show == [b EXCEPT !.pc = "show"]
    <2>1. Kind(files, p) \in {"none", "dir", "file"} /\ b.a.tool \in {"search", "view"}
      BY <1>1, <1>2 DEF Kind, CallOK, PcOK
    <2>2. \/ \E c \in {b, Failed(b)}, obs \in {Err("not found"), Err("directory")} :
                calls' = [calls EXCEPT ![t] = Answered(c, obs)]
          \/ calls' = [calls EXCEPT ![t] = list] \/ calls' = [calls EXCEPT ![t] = show]
          \/ calls' = [calls EXCEPT ![t] = each]
      BY <1>6, <2>1 DEF Stat, GoTo, Reply, Update, b
    <2>3. Keeps(each, b) /\ each.pc = "each"
      BY <1>3 DEF Fields, Keeps
    <2>4. Keeps(list, b) /\ list.pc = "list"
      BY <1>3 DEF Fields, Keeps
    <2>5. Keeps(show, b) /\ show.pc = "show"
      BY <1>3 DEF Fields, Keeps
    <2>. HIDE DEF each, list, show
    <2>6. \A d \in {each, list, show} : Keeps(d, b) /\ d.pc \in Looking
      BY <2>3, <2>4, <2>5 DEF Looking
    <2>. QED
      BY <1>3, <1>4, <1>5, <2>2, <2>6
  <1>7. ASSUME List(t) PROVE Moved(t)
    <2>. DEFINE below == {p \in DOMAIN files : Under(Target(b.a.path), p)}
                each == [b EXCEPT !.pc = "each", !.todo = below]
                none == [Failed(b) EXCEPT !.pc = "each"]
    <2>1. calls' = [calls EXCEPT ![t] = each] \/ calls' = [calls EXCEPT ![t] = none]
      BY <1>7, Zenon DEF List, Update, b
    <2>2. Keeps(each, b) /\ each.pc = "each"
      BY <1>3 DEF Fields, Keeps
    <2>3. Keeps(none, b) /\ none.pc = "each"
      BY <1>3 DEF Fields, Keeps
    <2>. HIDE DEF each, none
    <2>4. \A d \in {each, none} : Keeps(d, b) /\ d.pc \in Looking
      BY <2>2, <2>3 DEF Looking
    <2>. QED
      BY <1>4, <2>1, <2>4
  <1>8. ASSUME NEW p \in DOMAIN files \cup calls[t].todo, SearchFile(t, p)
        PROVE  Moved(t)
    <2>. DEFINE room == MaxMatches - Cardinality(b.hits)
                readable == p \in DOMAIN files /\ ~ Undecodable(files[p])
                found == {<<p, i>> : i \in IF readable THEN FileHits(Converted(files[p]), b.a.query, room)
                                           ELSE {}}
                next == [b EXCEPT !.todo = @ \ {p}, !.hits = @ \cup found]
                skip == [Failed(b) EXCEPT !.todo = @ \ {p}]
                obs == Shows(next.hits, TRUE)
    <2>1. \/ calls' = [calls EXCEPT ![t] = Answered(b, obs)]
          \/ calls' = [calls EXCEPT ![t] = next]
          \/ calls' = [calls EXCEPT ![t] = skip]
      BY <1>8, Zenon DEF SearchFile, Reply, Update, b
    <2>2. Keeps(next, b) /\ next.pc = b.pc
      BY <1>3 DEF Fields, Keeps
    <2>3. Keeps(skip, b) /\ skip.pc = b.pc
      BY <1>3 DEF Fields, Keeps
    <2>. HIDE DEF next, skip, obs
    <2>4. \A d \in {next, skip} : Keeps(d, b) /\ d.pc \in Looking
      BY <1>1, <2>2, <2>3
    <2>. QED
      BY <1>3, <1>4, <1>5, <2>1, <2>4
  <1>9. ASSUME SearchEnds(t) PROVE Moved(t)
    <2>. DEFINE obs == Shows(b.hits, FALSE)
    <2>1. calls' = [calls EXCEPT ![t] = Answered(b, obs)]
      BY <1>9, Zenon DEF SearchEnds, Reply, Update, b
    <2>. HIDE DEF obs
    <2>. QED
      BY <1>3, <1>5, <2>1
  <1>10. ASSUME ViewFile(t) PROVE Moved(t)
    <2>. DEFINE content == At(files, Target(b.a.path))
                obs == IF content = NoFile \/ Undecodable(content) THEN Raises
                       ELSE View(Target(b.a.path), Converted(content), b.a)
    <2>1. \/ calls' = [calls EXCEPT ![t] = Answered(b, obs)]
          \/ calls' = [calls EXCEPT ![t] = Answered(Failed(b), Raises)]
      BY <1>10, Zenon DEF ViewFile, Reply, Update, b
    <2>. HIDE DEF obs
    <2>. QED
      BY <1>3, <1>5, <2>1
  <1>. QED
    BY <1>1, <1>6, <1>7, <1>8, <1>9, <1>10 DEF Looks, b

\* ReadFile, MakeDir, OpenFile, FillFile: an edit, of a path that is not refused.
EditSteps(t) == ReadFile(t) \/ MakeDir(t) \/ OpenFile(t) \/ FillFile(t)

LEMMA InEdit ==
    ASSUME CallsOK, NEW t \in Threads, calls[t].pc \in Editing
    PROVE  /\ Busy(t) /\ Keeps(calls[t], calls[t]) /\ Keeps(Failed(calls[t]), calls[t])
           /\ Failed(calls[t]).failed /\ Failed(calls[t]).before = calls[t].before
           /\ DOMAIN calls[t] = Fields /\ DOMAIN Failed(calls[t]) = Fields
           /\ calls[t].a \in Acts /\ calls[t].a.tool = "replace"
           /\ Writes(calls[t].a) = {Target(calls[t].a.path), WriteTarget(Target(calls[t].a.path))}
  <1>1. CallOK(calls[t]) /\ Busy(t)
    BY DEF CallsOK, Busy, Editing
  <1>2. calls[t].a \in Acts /\ calls[t].a.tool = "replace" /\ ~ Refused(calls[t].a.path)
    BY <1>1 DEF CallOK, PcOK, Editing
  <1>3. Writes(calls[t].a) = {Target(calls[t].a.path), WriteTarget(Target(calls[t].a.path))}
    BY <1>2 DEF Writes
  <1>. QED
    BY <1>1, <1>2, <1>3, Failing

\* What is read is edited, unless the edit is refused.
LEMMA ReadFileOK ==
    ASSUME CallsOK, NEW t \in Threads, ReadFile(t)
    PROVE  /\ Moved(t) /\ UNCHANGED <<files, repo, index, staged>> /\ calls[t].pc = "read"
           /\ \/ calls'[t].pc = "done" /\ calls'[t].obs # Ok
              \/ /\ calls'[t].pc = "mkdir"
                 /\ \E content \in {AsText(At(files, Target(calls[t].a.path))), NoFile} :
                       /\ calls'[t].text = Edited(content, calls[t].a)
                       /\ calls[t].a.old # "" =>
                             content # NoFile /\ ReplaceError(content, calls[t].a.old) = "none"
                       /\ calls'[t].failed \/ content = AsText(At(files, Target(calls[t].a.path)))
  <1>. DEFINE b == calls[t]
              read == AsText(At(files, Target(b.a.path)))
  <1>1. b.pc = "read" /\ UNCHANGED <<files, repo, index, staged>>
    BY DEF ReadFile
  <1>2. /\ Busy(t) /\ Keeps(b, b) /\ Keeps(Failed(b), b) /\ Failed(b).failed
        /\ Failed(b).before = b.before /\ DOMAIN b = Fields /\ DOMAIN Failed(b) = Fields
    BY <1>1, InEdit DEF Editing
  <1>3. \/ calls' = [calls EXCEPT ![t] = Answered(b, Err("decode"))]
        \/ Replacement(t, b, read)
        \/ Replacement(t, Failed(b), NoFile)
    BY Zenon DEF ReadFile, Readable, Reply, Update
  <1>. HIDE DEF b, read
  <1>0. ASSUME NEW c, Keeps(c, b), NEW o, calls' = [calls EXCEPT ![t] = Answered(c, o)]
        PROVE  Moved(t) /\ calls'[t].pc = "done" /\ calls'[t].obs = o
    <2>1. Keeps(c, calls[t])
      BY <1>0 DEF b
    <2>2. Moved(t)
      BY <1>0, <1>2, <2>1, Closing
    <2>3. calls'[t] = Answered(c, o)
      BY <1>0, <1>2, <2>1 DEF CallsOK
    <2>4. Answered(c, o).pc = "done" /\ Answered(c, o).obs = o /\ Answered(c, o).failed = c.failed
      BY <2>1, AnsweredOK DEF Keeps
    <2>. QED
      BY <2>2, <2>3, <2>4
  <1>4. ASSUME NEW c \in {b, Failed(b)}, NEW content \in {read, NoFile}, Replacement(t, c, content),
               c = Failed(b) \/ content = read
        PROVE  /\ Moved(t)
               /\ \/ calls'[t].pc = "done" /\ calls'[t].obs # Ok
                  \/ /\ calls'[t].pc = "mkdir" /\ calls'[t].text = Edited(content, b.a)
                     /\ b.a.old # "" => content # NoFile /\ ReplaceError(content, b.a.old) = "none"
                     /\ calls'[t].failed \/ content = read
    <2>. DEFINE text == Edited(content, c.a)
                next == [c EXCEPT !.pc = "mkdir", !.text = text]
                why == IF content = NoFile THEN "not found" ELSE ReplaceError(content, c.a.old)
    <2>1. \/ why # "none" /\ calls' = [calls EXCEPT ![t] = Answered(c, Err(why))]
          \/ (c.a.old # "" => why = "none") /\ calls' = [calls EXCEPT ![t] = next]
      BY <1>4, Zenon DEF Replacement, Reply, Update
    <2>2. DOMAIN c = Fields /\ Keeps(c, b) /\ c.a = b.a /\ c.before = b.before
      BY <1>2 DEF Keeps
    <2>3. why = "none" => content # NoFile /\ ReplaceError(content, b.a.old) = "none"
      BY <2>2
    <2>. HIDE DEF text, why
    <2>4. Keeps(next, b) /\ next.pc = "mkdir" /\ next.text = text /\ next.failed = c.failed
      BY <2>2 DEF Fields, Keeps
    <2>. HIDE DEF next
    <2>5. CASE why # "none" /\ calls' = [calls EXCEPT ![t] = Answered(c, Err(why))]
      <3>1. Moved(t) /\ calls'[t].pc = "done" /\ calls'[t].obs = Err(why)
        BY <1>0, <2>2, <2>5
      <3>2. Err(why).error = why /\ Ok.error = "none"
        BY DEF Err, Ok, Shows
      <3>. QED
        BY <2>5, <3>1, <3>2
    <2>6. CASE (c.a.old # "" => why = "none") /\ calls' = [calls EXCEPT ![t] = next]
      <3>1. Moved(t) /\ calls'[t] = next
        BY <1>1, <1>2, <2>4, <2>6, Going DEF b, Editing
      <3>2. text = Edited(content, b.a)
        BY <2>2 DEF text
      <3>. QED
        BY <1>2, <1>4, <2>2, <2>3, <2>4, <2>6, <3>1, <3>2
    <2>. QED
      BY <2>1, <2>5, <2>6
  <1>5. CASE calls' = [calls EXCEPT ![t] = Answered(b, Err("decode"))]
    <2>1. Moved(t) /\ calls'[t].pc = "done" /\ calls'[t].obs = Err("decode")
      BY <1>0, <1>2, <1>5
    <2>2. Err("decode") # Ok
      BY DEF Err, Ok, Shows
    <2>. QED
      BY <1>1, <2>1, <2>2 DEF b
  <1>6. CASE Replacement(t, b, read)
    BY <1>1, <1>4, <1>6 DEF b, read
  <1>7. CASE Replacement(t, Failed(b), NoFile)
    BY <1>1, <1>4, <1>7 DEF b, read
  <1>. QED
    BY <1>3, <1>5, <1>6, <1>7

LEMMA MakeDirOK ==
    ASSUME CallsOK, NEW t \in Threads, MakeDir(t)
    PROVE  /\ Moved(t) /\ UNCHANGED <<files, repo, index, staged>> /\ calls[t].pc = "mkdir"
           /\ \/ calls'[t].pc = "done" /\ calls'[t].obs # Ok
              \/ calls'[t].pc = "open" /\ calls'[t].text = calls[t].text
  <1>. DEFINE b == calls[t]
              open == [b EXCEPT !.pc = "open"]
              obs == Err("io")
  <1>1. b.pc = "mkdir" /\ UNCHANGED <<files, repo, index, staged>>
    BY DEF MakeDir
  <1>2. Busy(t) /\ Keeps(b, b) /\ Keeps(Failed(b), b) /\ DOMAIN b = Fields
    BY <1>1, InEdit DEF Editing
  <1>3. \/ calls' = [calls EXCEPT ![t] = Answered(b, obs)]
        \/ calls' = [calls EXCEPT ![t] = Answered(Failed(b), obs)]
        \/ calls' = [calls EXCEPT ![t] = open]
    BY Zenon DEF MakeDir, GoTo, Reply, Update
  <1>4. obs # Ok
    BY DEF Err, Ok, Shows
  <1>. HIDE DEF b, obs
  <1>5. Keeps(open, b) /\ open.pc = "open" /\ open.text = b.text
    BY <1>2 DEF Fields, Keeps
  <1>. HIDE DEF open
  <1>6. ASSUME NEW c \in {b, Failed(b)}, calls' = [calls EXCEPT ![t] = Answered(c, obs)]
        PROVE  Moved(t) /\ calls'[t].pc = "done" /\ calls'[t].obs # Ok
    <2>1. Keeps(c, calls[t])
      BY <1>2 DEF b
    <2>2. Moved(t)
      BY <1>2, <1>6, <2>1, Closing
    <2>3. calls'[t] = Answered(c, obs)
      BY <1>2, <1>6, <2>1 DEF CallsOK
    <2>4. Answered(c, obs).pc = "done" /\ Answered(c, obs).obs = obs /\ Answered(c, obs).failed = c.failed
      BY <2>1, AnsweredOK DEF Keeps
    <2>. QED
      BY <1>4, <2>2, <2>3, <2>4
  <1>7. CASE calls' = [calls EXCEPT ![t] = open]
    <2>1. Moved(t) /\ calls'[t] = open
      BY <1>1, <1>2, <1>5, <1>7, Going DEF b, Editing
    <2>. QED
      BY <1>1, <1>5, <2>1 DEF b
  <1>. QED
    BY <1>1, <1>3, <1>6, <1>7 DEF b

LEMMA OpenFileOK ==
    ASSUME CallsOK, NEW t \in Threads, OpenFile(t)
    PROVE  /\ Moved(t) /\ UNCHANGED <<repo, index, staged>> /\ calls[t].pc = "open"
           /\ \/ calls'[t].pc = "done" /\ calls'[t].obs # Ok /\ files' = files
              \/ /\ calls'[t].pc = "fill" /\ calls'[t].text = calls[t].text
                 /\ \E w \in Writes(calls[t].a) : files' = With(files, w, <<>>)
  <1>. DEFINE b == calls[t]
              fill == [b EXCEPT !.pc = "fill"]
              obs == Err("io")
              p == Target(b.a.path)
              w == IF p = <<>> THEN p ELSE WriteTarget(p)
  <1>1. b.pc = "open" /\ UNCHANGED <<repo, index, staged>>
    BY DEF OpenFile
  <1>2. /\ Busy(t) /\ Keeps(b, b) /\ Keeps(Failed(b), b) /\ DOMAIN b = Fields
        /\ Writes(b.a) = {p, WriteTarget(p)}
    BY <1>1, InEdit DEF Editing
  <1>3. \/ files' = files /\ calls' = [calls EXCEPT ![t] = Answered(b, obs)]
        \/ files' = files /\ calls' = [calls EXCEPT ![t] = Answered(Failed(b), obs)]
        \/ files' = With(files, w, <<>>) /\ calls' = [calls EXCEPT ![t] = fill]
    BY Zenon DEF OpenFile, GoTo, Reply, Update
  <1>4. obs # Ok
    BY DEF Err, Ok, Shows
  <1>5. w \in Writes(b.a)
    BY <1>2
  <1>. HIDE DEF b, obs, w
  <1>6. Keeps(fill, b) /\ fill.pc = "fill" /\ fill.text = b.text
    BY <1>2 DEF Fields, Keeps
  <1>. HIDE DEF fill
  <1>7. ASSUME NEW c \in {b, Failed(b)}, calls' = [calls EXCEPT ![t] = Answered(c, obs)]
        PROVE  Moved(t) /\ calls'[t].pc = "done" /\ calls'[t].obs # Ok
    <2>1. Keeps(c, calls[t])
      BY <1>2 DEF b
    <2>2. Moved(t)
      BY <1>2, <1>7, <2>1, Closing
    <2>3. calls'[t] = Answered(c, obs)
      BY <1>2, <1>7, <2>1 DEF CallsOK
    <2>4. Answered(c, obs).pc = "done" /\ Answered(c, obs).obs = obs /\ Answered(c, obs).failed = c.failed
      BY <2>1, AnsweredOK DEF Keeps
    <2>. QED
      BY <1>4, <2>2, <2>3, <2>4
  <1>8. CASE files' = With(files, w, <<>>) /\ calls' = [calls EXCEPT ![t] = fill]
    <2>1. Moved(t) /\ calls'[t] = fill
      BY <1>1, <1>2, <1>6, <1>8, Going DEF b, Editing
    <2>. QED
      BY <1>1, <1>5, <1>6, <1>8, <2>1 DEF b
  <1>. QED
    BY <1>1, <1>3, <1>7, <1>8 DEF b

LEMMA FillFileOK ==
    ASSUME CallsOK, NEW t \in Threads, FillFile(t)
    PROVE  LET w == WriteTarget(Target(calls[t].a.path))
               full == IF w \in DOMAIN files THEN With(files, w, Source(calls[t])) ELSE files
           IN  /\ Moved(t) /\ UNCHANGED <<repo, index, staged>> /\ calls[t].pc = "fill"
               /\ calls'[t].pc = "done" /\ files' \in {files, full}
               /\ \/ calls'[t].failed \/ Source(calls[t]) = NoFile
                  \/ files' = full /\ calls'[t].obs = Ok
  <1>. DEFINE b == calls[t]
              obs == Err("io")
              w == WriteTarget(Target(b.a.path))
              full == IF w \in DOMAIN files THEN With(files, w, Source(b)) ELSE files
  <1>1. b.pc = "fill" /\ UNCHANGED <<repo, index, staged>>
    BY DEF FillFile
  <1>2. /\ Busy(t) /\ Keeps(b, b) /\ Keeps(Failed(b), b) /\ Failed(b).failed
    BY <1>1, InEdit DEF Editing
  <1>3. \/ files' = full /\ calls' = [calls EXCEPT ![t] = Answered(b, Ok)]
        \/ Source(b) = NoFile /\ files' = files /\ calls' = [calls EXCEPT ![t] = Answered(b, obs)]
        \/ files' \in {files, full} /\ calls' = [calls EXCEPT ![t] = Answered(Failed(b), obs)]
    BY Zenon DEF FillFile, Reply, Update
  <1>. HIDE DEF b, obs, full
  <1>4. ASSUME NEW c \in {b, Failed(b)}, NEW o \in {obs, Ok},
               calls' = [calls EXCEPT ![t] = Answered(c, o)]
        PROVE  Moved(t) /\ calls'[t].pc = "done" /\ calls'[t].obs = o /\ calls'[t].failed = c.failed
    <2>1. Keeps(c, calls[t])
      BY <1>2 DEF b
    <2>2. Moved(t)
      BY <1>2, <1>4, <2>1, Closing
    <2>3. calls'[t] = Answered(c, o)
      BY <1>2, <1>4, <2>1 DEF CallsOK
    <2>4. Answered(c, o).pc = "done" /\ Answered(c, o).obs = o /\ Answered(c, o).failed = c.failed
      BY <2>1, AnsweredOK DEF Keeps
    <2>. QED
      BY <2>2, <2>3, <2>4
  <1>5. /\ Moved(t) /\ calls'[t].pc = "done" /\ files' \in {files, full}
        /\ \/ calls'[t].failed \/ Source(b) = NoFile
           \/ files' = full /\ calls'[t].obs = Ok
    BY <1>2, <1>3, <1>4
  <1>. QED
    BY <1>1, <1>5, Zenon DEF b, full

LEMMA EditingOK ==
    ASSUME CallsOK, NEW t \in Threads, EditSteps(t)
    PROVE  /\ Moved(t) /\ calls[t].pc \in Editing /\ UNCHANGED <<repo, index, staged>>
           /\ Writes(calls[t].a) # {}
  <1>1. Moved(t) /\ calls[t].pc \in Editing /\ UNCHANGED <<repo, index, staged>>
    BY ReadFileOK, MakeDirOK, OpenFileOK, FillFileOK DEF EditSteps, Editing
  <1>. QED
    BY <1>1, InEdit

\* A shell command: of a path that is not refused; the index changes if it stages.
LEMMA BashOK ==
    ASSUME CallsOK, NEW t \in Threads, Bash(t)
    PROVE  /\ Moved(t) /\ calls[t].pc = "bash" /\ Writes(calls[t].a) # {}
           /\ (index' = index \/ staged') /\ (staged => staged') /\ repo' = repo
  <1>. DEFINE b == calls[t]
  <1>1. b.pc = "bash" /\ (index' = index \/ staged') /\ (staged => staged') /\ repo' = repo
    <2>1. /\ b.pc = "bash" /\ repo' = repo
          /\ \/ /\ index' = IF b.a.stages /\ repo # "missing"
                            THEN Index(Shell(files, Target(b.a.path), b.a.new)) ELSE index
                /\ staged' = (staged \/ b.a.stages)
             \/ UNCHANGED <<index, staged>>
      BY Zenon DEF Bash
    <2>2. CASE UNCHANGED <<index, staged>>
      BY <2>1, <2>2
    <2>3. CASE staged' = (staged \/ b.a.stages) /\ b.a.stages
      BY <2>1, <2>3
    <2>4. CASE staged' = (staged \/ b.a.stages) /\ index' = index
      BY <2>1, <2>4
    <2>. QED
      BY <2>1, <2>2, <2>3, <2>4
  <1>2. Busy(t) /\ CallOK(b)
    BY <1>1 DEF CallsOK, Busy
  <1>3. Writes(b.a) # {}
    BY <1>1, <1>2 DEF CallOK, PcOK, Writes
  <1>. HIDE DEF b
  <1>4. Keeps(b, b) /\ Keeps(Failed(b), b)
    BY <1>2, Failing
  <1>. DEFINE obs == Ok
  <1>5. \/ calls' = [calls EXCEPT ![t] = Answered(b, obs)]
        \/ calls' = [calls EXCEPT ![t] = Answered(Failed(b), obs)]
    BY Zenon DEF Bash, Reply, Update, b
  <1>. HIDE DEF obs
  <1>6. Moved(t)
    BY <1>2, <1>4, <1>5, Closing DEF b
  <1>. QED
    BY <1>1, <1>3, <1>6 DEF b

LEMMA AddIntentOK ==
    ASSUME CallsOK, NEW t \in Threads, AddIntent(t)
    PROVE  /\ Moved(t) /\ calls[t].pc = "add" /\ UNCHANGED <<files, repo, staged>>
           /\ calls'[t].pc = "diff"
           /\ \/ calls'[t].failed /\ index' = index
              \/ repo = "missing" /\ index' = index
              \/ index' = Intend
  <1>. DEFINE b == calls[t]
              diff == [b EXCEPT !.pc = "diff"]
              miss == [Failed(b) EXCEPT !.pc = "diff"]
  <1>1. b.pc = "add" /\ UNCHANGED <<files, repo, staged>>
    BY DEF AddIntent
  <1>2. Busy(t) /\ CallOK(b)
    BY <1>1 DEF CallsOK, Busy
  <1>. DEFINE noted == IF repo = "missing" THEN index ELSE Intend
  <1>3. \/ index' = noted /\ calls' = [calls EXCEPT ![t] = diff]
        \/ index' = index /\ calls' = [calls EXCEPT ![t] = miss]
    BY Zenon DEF AddIntent, GoTo, Update
  <1>. HIDE DEF b
  <1>4. /\ Keeps(b, b) /\ Keeps(Failed(b), b) /\ Failed(b).failed
        /\ Failed(b).before = b.before /\ DOMAIN b = Fields /\ DOMAIN Failed(b) = Fields
    BY <1>2, Failing
  <1>5. Keeps(diff, b) /\ diff.pc = "diff"
    BY <1>4 DEF Fields, Keeps
  <1>6. Keeps(miss, b) /\ miss.pc = "diff" /\ miss.failed
    BY <1>4 DEF Fields, Keeps
  <1>. HIDE DEF diff, miss
  <1>7. CASE index' = noted /\ calls' = [calls EXCEPT ![t] = diff]
    <2>1. Moved(t) /\ calls'[t] = diff
      BY <1>1, <1>2, <1>5, <1>7, Going DEF b, Exporting
    <2>. QED
      BY <1>1, <1>5, <1>7, <2>1 DEF b
  <1>8. CASE index' = index /\ calls' = [calls EXCEPT ![t] = miss]
    <2>1. Moved(t) /\ calls'[t] = miss
      BY <1>1, <1>2, <1>6, <1>8, Going DEF b, Exporting
    <2>. QED
      BY <1>1, <1>6, <1>8, <2>1 DEF b
  <1>. QED
    BY <1>3, <1>7, <1>8

Patch == Changes(index, files, DOMAIN index)
Should == Changes(Baseline, files, {p \in DOMAIN Baseline \cup DOMAIN files : Tracked(p)})

LEMMA GitDiffOK ==
    ASSUME CallsOK, NEW t \in Threads, GitDiff(t)
    PROVE  /\ Moved(t) /\ calls[t].pc = "diff" /\ UNCHANGED <<files, repo, index, staged>>
           /\ calls'[t].pc = "done"
           /\ \/ calls'[t].failed
              \/ /\ calls'[t].want = Should
                 /\ calls'[t].obs = IF repo = "missing" THEN Ok ELSE Diff(Patch)
                 /\ calls'[t].failed = calls[t].failed
  <1>. DEFINE b == calls[t]
              c == [b EXCEPT !.want = Should]
              obs == IF repo = "missing" THEN Ok ELSE Diff(Patch)
  <1>1. b.pc = "diff" /\ UNCHANGED <<files, repo, index, staged>>
    BY DEF GitDiff
  <1>2. Busy(t) /\ CallOK(b)
    BY <1>1 DEF CallsOK, Busy
  <1>3. \/ calls' = [calls EXCEPT ![t] = Answered(c, obs)]
        \/ \E o \in {Ok, Raises} : calls' = [calls EXCEPT ![t] = Answered(Failed(c), o)]
    BY Zenon DEF GitDiff, Reply, Update, Patch, Should
  <1>. HIDE DEF b, obs
  <1>4. Keeps(b, b) /\ DOMAIN b = Fields
    BY <1>2, Failing
  <1>5. Keeps(c, b) /\ c.want = Should /\ c.failed = b.failed /\ DOMAIN c = Fields
    BY <1>4 DEF Fields, Keeps
  <1>. HIDE DEF c
  <1>6. Keeps(Failed(c), b) /\ Failed(c).failed
    BY <1>5 DEF Failed, Fields, Keeps
  <1>7. CASE calls' = [calls EXCEPT ![t] = Answered(c, obs)]
    <2>1. /\ Moved(t) /\ calls'[t].pc = "done" /\ calls'[t].obs = obs
          /\ calls'[t].failed = c.failed /\ calls'[t].want = c.want
      BY <1>2, <1>5, <1>7, Closing DEF b
    <2>. QED
      BY <1>1, <1>5, <2>1 DEF b, obs
  <1>8. ASSUME NEW o \in {Ok, Raises}, calls' = [calls EXCEPT ![t] = Answered(Failed(c), o)]
        PROVE  Moved(t) /\ calls'[t].pc = "done" /\ calls'[t].failed
    BY <1>2, <1>6, <1>8, Closing DEF b
  <1>. QED
    BY <1>1, <1>3, <1>7, <1>8 DEF b

\* A new call: it and the calls in progress learn of each other, the rest is forgotten.
LEMMA BeginOK ==
    ASSUME ToolConstants, CallsOK, NEW t \in Threads, NEW a \in Acts, Begin(t, a)
    PROVE  /\ CallsOK' /\ UNCHANGED <<files, repo, index, staged>>
           /\ \A u \in Threads :
                 \/ /\ Busy(u) /\ calls'[u].pc = calls[u].pc /\ calls'[u].failed = calls[u].failed
                    /\ calls[u].blur \subseteq calls'[u].blur
                    /\ calls'[u].a = calls[u].a /\ calls'[u].text = calls[u].text
                    /\ calls'[u].before = calls[u].before
                 \/ /\ calls'[u].pc # "diff" /\ calls'[u].obs \in {Ok, Err("regex"), Err("refused")}
                    /\ calls'[u].want = {} /\ ~ Busy(u)
                    /\ calls'[u].pc \notin {"mkdir", "open", "fill"}
                    /\ calls'[u].pc \in {"idle", "done"} \/ calls'[u].before = files
                    /\ calls'[u].pc = "done" => calls'[u].a.tool # "export"
  <1>. DEFINE others == {u \in Threads \ {t} : Busy(u)}
              blur == UNION {Writes(calls[u].a) : u \in others}
              c == [NoCall EXCEPT !.pc = First(a), !.a = a, !.before = files, !.blur = blur]
              regex == Answered(c, Err("regex"))
              refused == Answered(c, Err("refused"))
              wider(u) == [calls[u] EXCEPT !.blur = @ \cup Writes(a)]
  <1>1. UNCHANGED <<files, repo, index, staged>> /\ DOMAIN calls' = Threads /\ ~ Busy(t)
    BY DEF Begin
  <1>2. \A u \in others : calls'[u] = wider(u)
    BY Zenon DEF Begin
  <1>3. \A u \in Threads \ others : u # t => calls'[u] = NoCall
    BY Zenon DEF Begin
  <1>4. \/ calls'[t] = regex /\ a.tool = "search"
        \/ calls'[t] = refused /\ Refused(a.path)
        \/ ~ Refused(a.path) /\ calls'[t] = c
    <2>1. calls'[t] = IF Rejects(a) # "none" THEN Answered(c, Err(Rejects(a))) ELSE c
      BY Zenon DEF Begin
    <2>2. \/ Rejects(a) = "regex" /\ a.tool = "search"
          \/ Rejects(a) = "refused" /\ Refused(a.path)
          \/ Rejects(a) = "none" /\ ~ Refused(a.path)
      BY Zenon DEF Rejects
    <2>. HIDE DEF c
    <2>. QED
      BY <2>1, <2>2
  <1>5. \A u \in others : /\ CallOK(wider(u)) /\ wider(u).a = calls[u].a
                          /\ wider(u).pc = calls[u].pc /\ wider(u).failed = calls[u].failed
                          /\ wider(u).blur = calls[u].blur \cup Writes(a)
                          /\ wider(u).text = calls[u].text /\ wider(u).before = calls[u].before
    <2>1. ASSUME NEW u \in others
          PROVE  /\ CallOK(wider(u)) /\ wider(u).a = calls[u].a
                 /\ wider(u).pc = calls[u].pc /\ wider(u).failed = calls[u].failed
                 /\ wider(u).blur = calls[u].blur \cup Writes(a)
                 /\ wider(u).text = calls[u].text /\ wider(u).before = calls[u].before
      <3>1. CallOK(calls[u])
        BY DEF CallsOK
      <3>. QED
        BY <3>1 DEF CallOK, PcOK, Fields
    <2>. QED
      BY <2>1
  <1>6. CallOK(NoCall) /\ NoCall.pc = "idle" /\ NoCall.obs = Ok /\ NoCall.want = {}
    BY DEF NoCall, CallOK, PcOK, Fields, Looking, Editing, Exporting
  <1>7. a.tool \in Tools /\ (Refused(a.path) => a.tool # "export")
    BY DEF ToolConstants
  <1>8. /\ c.pc = First(a) /\ c.a = a /\ c.blur = blur /\ c.failed = FALSE /\ c.obs = Ok
        /\ c.want = {} /\ DOMAIN c = Fields /\ c.before = files
    BY DEF NoCall, Fields
  <1>. HIDE DEF blur, c
  <1>9. ~ Refused(a.path) => CallOK(c)
    BY <1>7, <1>8 DEF CallOK, PcOK, First, Tools, Looking, Editing, Exporting
  <1>10. First(a) \notin {"diff", "idle", "done", "mkdir", "open", "fill"}
    BY <1>7 DEF First, Tools
  <1>11. /\ regex.blur = blur /\ refused.blur = blur /\ regex.a = a /\ refused.a = a
         /\ CallOK(regex) /\ regex.pc = "done" /\ regex.obs = Err("regex") /\ regex.want = {}
         /\ CallOK(refused) /\ refused.pc = "done" /\ refused.obs = Err("refused")
         /\ refused.want = {}
    <2>1. ASSUME NEW o
          PROVE  /\ Answered(c, o).blur = blur /\ Answered(c, o).a = a /\ CallOK(Answered(c, o))
                 /\ Answered(c, o).pc = "done" /\ Answered(c, o).obs = o
                 /\ Answered(c, o).want = {}
      <3>. DEFINE d == Answered(c, o)
      <3>1. /\ DOMAIN d = Fields /\ d.a = a /\ d.blur = blur /\ d.failed = FALSE
            /\ d.want = {} /\ d.pc = "done" /\ d.obs = o
        BY <1>8, AnsweredOK
      <3>. HIDE DEF d
      <3>2. CallOK(d)
        BY <3>1 DEF CallOK, PcOK, Looking, Editing, Exporting
      <3>. QED
        BY <3>1, <3>2 DEF d
    <2>. QED
      BY <2>1
  <1>. HIDE DEF regex, refused
  <1>12. /\ CallOK(calls'[t]) /\ calls'[t].pc # "diff" /\ calls'[t].want = {}
         /\ calls'[t].obs \in {Ok, Err("regex"), Err("refused")}
         /\ calls'[t].pc \notin {"idle", "done"} =>
               calls'[t].a = a /\ calls'[t].before = files
         /\ calls'[t].blur = blur
         /\ calls'[t].pc \notin {"mkdir", "open", "fill"}
         /\ calls'[t].pc = "done" => calls'[t].a.tool # "export"
    <2>1. CASE calls'[t] = regex /\ a.tool = "search"
      BY <1>11, <2>1
    <2>2. CASE calls'[t] = refused /\ Refused(a.path)
      BY <1>7, <1>11, <2>2
    <2>3. CASE ~ Refused(a.path) /\ calls'[t] = c
      BY <1>8, <1>9, <1>10, <2>3
    <2>. QED
      BY <1>4, <2>1, <2>2, <2>3
  <1>. HIDE DEF wider
  <1>13. \A u \in Threads : CallOK(calls'[u])
    BY <1>2, <1>3, <1>5, <1>6, <1>12
  <1>14. \A u \in Threads : calls'[u].pc # "idle" => u = t \/ u \in others
    BY <1>3, <1>6
  <1>15. ASSUME NEW u \in Threads, NEW v \in Threads, u # v,
                calls'[u].pc # "idle", calls'[v].pc \notin {"idle", "done"}
         PROVE  Writes(calls'[v].a) \subseteq calls'[u].blur
    <2>1. CASE u = t
      <3>1. v \in others /\ calls'[v].a = calls[v].a /\ calls'[u].blur = blur
        BY <1>2, <1>5, <1>12, <1>14, <1>15, <2>1
      <3>. QED
        BY <3>1 DEF blur
    <2>2. CASE v = t
      <3>1. u \in others /\ calls'[u].blur = calls[u].blur \cup Writes(a) /\ calls'[v].a = a
        BY <1>2, <1>5, <1>12, <1>14, <1>15, <2>2
      <3>. QED
        BY <3>1
    <2>3. CASE u # t /\ v # t
      <3>1. /\ u \in others /\ v \in others /\ calls'[u].blur = calls[u].blur \cup Writes(a)
            /\ calls'[v].a = calls[v].a
        BY <1>2, <1>5, <1>14, <1>15, <2>3
      <3>. QED
        BY <1>15, <3>1 DEF CallsOK, BlurOK, Busy
    <2>. QED
      BY <2>1, <2>2, <2>3
  <1>16. CallsOK'
    BY <1>1, <1>13, <1>15 DEF CallsOK, BlurOK, Busy
  <1>17. /\ \A u \in others : Busy(u)
         /\ \A u \in Threads \ others : u # t => ~ Busy(u)
    OBVIOUS
  <1>. HIDE DEF others
  <1>18. ASSUME NEW u \in Threads
         PROVE  \/ /\ Busy(u) /\ calls'[u].pc = calls[u].pc
                   /\ calls'[u].failed = calls[u].failed
                   /\ calls[u].blur \subseteq calls'[u].blur
                   /\ calls'[u].a = calls[u].a /\ calls'[u].text = calls[u].text
                   /\ calls'[u].before = calls[u].before
                \/ /\ calls'[u].pc # "diff" /\ calls'[u].obs \in {Ok, Err("regex"), Err("refused")}
                   /\ calls'[u].want = {} /\ ~ Busy(u)
                   /\ calls'[u].pc \notin {"mkdir", "open", "fill"}
                   /\ calls'[u].pc \in {"idle", "done"} \/ calls'[u].before = files
                   /\ calls'[u].pc = "done" => calls'[u].a.tool # "export"
    <2>1. CASE u \in others
      BY <1>2, <1>5, <1>17, <2>1
    <2>2. CASE u = t
      BY <1>1, <1>12, <2>2
    <2>3. CASE u \notin others /\ u # t
      BY <1>3, <1>6, <1>17, <2>3
    <2>. QED
      BY <2>1, <2>2, <2>3
  <1>. QED
    BY <1>1, <1>16, <1>18

-----------------------------------------------------------------------------
\* As long as no agent has staged anything the index is the baseline: every
\* tracked path of it, and nothing of the paths `git add -N` has noted.
IndexOK ==
    /\ \A p \in DOMAIN Baseline : Tracked(p) => p \in DOMAIN index
    /\ \A p \in DOMAIN index : Tracked(p) /\ index[p] = At(Baseline, p)

\* An export that is about to run git diff has noted every file, or has a reason
\* to have missed one.
Noted == \A p \in DOMAIN files : Tracked(p) => p \in DOMAIN index
DiffOK == \A t \in Threads : calls[t].pc = "diff" => Hindered(calls[t]) \/ Noted

ExportOK(c) ==
    \/ ~ Exported(c) \/ Hindered(c)
    \/ c.obs = Raises /\ \E e \in c.want : Garbled(e)
    \/ Size(Shown(c.want)) > MaxChars
    \/ c.obs = Shows(Shown(c.want), FALSE) /\ \A e \in c.obs.data : Fits(e)

Astray == staged \/ repo # "committed"
ExportInv == CallsOK /\ (Astray \/ IndexOK) /\ DiffOK /\ ExportIsDiffUnlessCaused

LEMMA ExportsOK == ExportIsDiffUnlessCaused <=> \A t \in Threads : ExportOK(calls[t])
  BY Zenon DEF ExportIsDiffUnlessCaused, ExportOK

\* Hindrances last, and an export that is over does not change.
LEMMA HinderedStill ==
    ASSUME NEW u, Hindered(calls[u]), calls[u].failed => calls'[u].failed,
           calls[u].blur \subseteq calls'[u].blur, staged => staged', repo' = repo
    PROVE  Hindered(calls[u])'
  BY DEF Hindered

LEMMA ExportStill ==
    ASSUME ExportIsDiffUnlessCaused, NEW u \in Threads, calls'[u] = calls[u],
           staged => staged', repo' = repo
    PROVE  ExportOK(calls[u])'
  <1>1. ExportOK(calls[u])
    BY ExportsOK
  <1>2. CASE Hindered(calls[u])
    <2>1. Hindered(calls[u])'
      BY <1>2, HinderedStill
    <2>. QED
      BY <2>1 DEF ExportOK
  <1>3. CASE ~ Hindered(calls[u])
    BY <1>1, <1>3, Zenon DEF ExportOK, Exported
  <1>. QED
    BY <1>2, <1>3

LEMMA InitIndexed == Init => ExportInv
  <1>. SUFFICES ASSUME Init PROVE ExportInv
    OBVIOUS
  <1>1. /\ calls = [t \in Threads |-> NoCall] /\ files = Baseline
        /\ repo = "committed" => index = Index(Baseline)
    BY DEF Init
  <1>2. CallOK(NoCall) /\ NoCall.pc = "idle"
    BY DEF NoCall, CallOK, PcOK, Fields, Looking, Editing, Exporting
  <1>3. CallsOK /\ DiffOK /\ ExportIsDiffUnlessCaused
    BY <1>1, <1>2 DEF CallsOK, BlurOK, Busy, DiffOK, ExportIsDiffUnlessCaused, Exported
  <1>4. ASSUME repo = "committed" PROVE IndexOK
    <2>1. index = Index(Baseline)
      BY <1>1, <1>4
    <2>. QED
      BY <2>1, Zenon DEF IndexOK, Index, At
  <1>. QED
    BY <1>3, <1>4 DEF ExportInv, Astray

\* The note of the new files leaves the index what it was.
LEMMA IntendOK ==
    ASSUME IndexOK, index' = Intend
    PROVE  /\ IndexOK' /\ \A p \in DOMAIN index : p \in DOMAIN index'
           /\ \A p \in DOMAIN files : Tracked(p) => p \in DOMAIN index'
  <1>1. DOMAIN Index(files) = {q \in DOMAIN files : Tracked(q)}
    BY DEF Index
  <1>2. /\ DOMAIN index' = DOMAIN index \cup {q \in DOMAIN files : Tracked(q)}
        /\ \A p \in DOMAIN index' : index'[p] = At(index, p)
    BY <1>1 DEF Intend
  <1>3. \A p \in DOMAIN index' : Tracked(p) /\ index'[p] = At(Baseline, p)
    BY <1>2 DEF IndexOK, At
  <1>. QED
    BY <1>2, <1>3 DEF IndexOK

\* The patch of an index that is the baseline is the change of the workspace.
LEMMA PatchIsDifference ==
    ASSUME IndexOK, Noted
    PROVE  Patch = Should /\ \A e \in Patch : e[1] = GitIgnore \/ e[2] = At(Seeds, e[1])
  <1>. DEFINE paths == {p \in DOMAIN Baseline \cup DOMAIN files : Tracked(p)}
              from == {q \in DOMAIN index : At(index, q) # At(files, q)}
              to == {q \in paths : At(Baseline, q) # At(files, q)}
  <1>1. \A p \in DOMAIN index : At(index, p) = At(Baseline, p)
    BY DEF IndexOK, At
  <1>2. \A p : At(Baseline, p) # At(files, p) => p \in DOMAIN Baseline \cup DOMAIN files
    BY DEF At
  <1>3. paths \subseteq DOMAIN index
    BY DEF IndexOK, Noted
  <1>4. from = to
    BY <1>1, <1>2, <1>3 DEF IndexOK
  <1>5. /\ Patch = {<<p, At(index, p), At(files, p)>> : p \in from}
        /\ Should = {<<p, At(Baseline, p), At(files, p)>> : p \in to}
    BY Zenon DEF Patch, Should, Changes
  <1>6. \A p \in from : At(index, p) = At(Baseline, p)
    BY <1>1
  <1>. HIDE DEF from, to
  <1>7. Patch = Should
    BY <1>4, <1>5, <1>6
  <1>8. \A p \in from : p = GitIgnore \/ At(Baseline, p) = At(Seeds, p)
    <2>1. \A p \in from : Tracked(p)
      BY DEF from, IndexOK
    <2>2. ~ Tracked(<<".git", "x">>)
      BY DEF Tracked
    <2>. QED
      BY <2>1, <2>2 DEF At, Baseline, GitOwn
  <1>. QED
    BY <1>5, <1>6, <1>7, <1>8

\* A step of a call: what it does to the index, the files and its own record.
LEMMA MovedOK ==
    ASSUME CallsOK, NEW t \in Threads, Moved(t)
    PROVE  CallsOK'
  <1>1. \A u \in Threads : CallOK(calls'[u])
    BY DEF CallsOK, Moved
  <1>2. \A u \in Threads : /\ calls'[u].a = calls[u].a /\ calls'[u].blur = calls[u].blur
                           /\ calls'[u].pc \notin {"idle", "done"} =>
                                 calls[u].pc \notin {"idle", "done"}
                           /\ calls'[u].pc # "idle" => calls[u].pc # "idle"
    BY DEF Moved, Keeps, Busy
  <1>3. \A u, v \in Threads : (u # v /\ calls'[u].pc # "idle"
                                     /\ calls'[v].pc \notin {"idle", "done"}) =>
            Writes(calls'[v].a) \subseteq calls'[u].blur
    BY <1>2 DEF CallsOK, BlurOK, Busy
  <1>. QED
    BY <1>1, <1>3 DEF CallsOK, BlurOK, Moved, Busy

\* One that neither notes nor exports: another export, if one is about to run git
\* diff, learns of the file it writes.
LEMMA OtherCalls ==
    ASSUME ExportInv, NEW t \in Threads, Moved(t), calls[t].pc \notin Exporting,
           files' = files \/ Writes(calls[t].a) # {},
           index' = index \/ staged', staged => staged', repo' = repo
    PROVE  ExportInv'
  <1>1. CallsOK'
    BY MovedOK DEF ExportInv
  <1>2. (Astray \/ IndexOK)'
    BY DEF ExportInv, IndexOK, Astray
  <1>3. CallOK(calls[t]) /\ calls[t].pc \notin {"idle", "done"} /\ calls[t].a.tool # "export"
    BY DEF ExportInv, CallsOK, CallOK, PcOK, Moved, Busy, Looking, Editing, Exporting
  <1>4. calls'[t].a.tool # "export" /\ calls'[t].pc # "diff"
    BY <1>3 DEF Moved, Keeps, CallOK, PcOK, Exporting
  <1>5. DiffOK'
    <2>. SUFFICES ASSUME NEW u \in Threads, calls'[u].pc = "diff"
                  PROVE  (Hindered(calls[u]) \/ Noted)'
      BY DEF DiffOK
    <2>1. u # t /\ calls'[u] = calls[u]
      BY <1>4 DEF Moved
    <2>2. Hindered(calls[u]) \/ Noted
      BY <2>1 DEF ExportInv, DiffOK
    <2>3. Writes(calls[t].a) \subseteq calls[u].blur
      BY <2>1 DEF ExportInv, CallsOK, BlurOK, Moved, Busy
    <2>4. CASE Hindered(calls[u])
      BY <2>1, <2>4, HinderedStill
    <2>5. CASE calls[u].blur # {} \/ staged'
      BY <2>1, <2>5 DEF Hindered
    <2>6. CASE Noted /\ files' = files /\ index' = index
      BY <2>6 DEF Noted
    <2>. QED
      BY <2>2, <2>3, <2>4, <2>5, <2>6
  <1>6. ExportIsDiffUnlessCaused'
    <2>1. \A u \in Threads \ {t} : ExportOK(calls[u])'
      BY ExportStill DEF ExportInv, Moved
    <2>2. ExportOK(calls[t])'
      BY <1>4 DEF ExportOK, Exported
    <2>. QED
      BY <2>1, <2>2, Zenon DEF ExportIsDiffUnlessCaused, ExportOK
  <1>. QED
    BY <1>1, <1>2, <1>5, <1>6 DEF ExportInv

LEMMA NotingCalls ==
    ASSUME ExportInv, NEW t \in Threads, AddIntent(t)
    PROVE  ExportInv'
  <1>1. /\ Moved(t) /\ UNCHANGED <<files, repo, staged>> /\ calls'[t].pc = "diff"
        /\ \/ calls'[t].failed /\ index' = index
           \/ repo = "missing" /\ index' = index
           \/ index' = Intend
    BY AddIntentOK DEF ExportInv
  <1>2. CallsOK'
    BY <1>1, MovedOK DEF ExportInv
  <1>3. \A u \in Threads \ {t} : calls'[u] = calls[u]
    BY <1>1 DEF Moved
  <1>4. ExportIsDiffUnlessCaused'
    <2>1. \A u \in Threads \ {t} : ExportOK(calls[u])'
      BY <1>1, <1>3, ExportStill DEF ExportInv
    <2>2. ExportOK(calls[t])'
      BY <1>1 DEF ExportOK, Exported
    <2>. QED
      BY <2>1, <2>2, Zenon DEF ExportIsDiffUnlessCaused, ExportOK
  <1>5. CASE Astray
    <2>1. Astray' /\ \A c : Hindered(c)
      BY <1>1, <1>5 DEF Astray, Hindered
    <2>2. DiffOK'
      BY <1>1, <1>5 DEF DiffOK, Hindered, Astray
    <2>. QED
      BY <1>2, <1>4, <2>1, <2>2 DEF ExportInv
  <1>6. CASE ~ Astray /\ calls'[t].failed /\ index' = index
    <2>1. IndexOK'
      BY <1>6 DEF ExportInv, IndexOK
    <2>2. ASSUME NEW u \in Threads, calls'[u].pc = "diff" PROVE (Hindered(calls[u]) \/ Noted)'
      <3>1. CASE u = t
        BY <1>6, <3>1 DEF Hindered
      <3>2. CASE u # t
        <4>1. Hindered(calls[u]) \/ Noted
          BY <1>3, <2>2, <3>2 DEF ExportInv, DiffOK
        <4>2. CASE Hindered(calls[u])
          BY <1>1, <1>3, <3>2, <4>2, HinderedStill
        <4>3. CASE Noted
          BY <1>1, <1>6, <4>3 DEF Noted
        <4>. QED
          BY <4>1, <4>2, <4>3
      <3>. QED
        BY <3>1, <3>2
    <2>. QED
      BY <1>2, <1>4, <2>1, <2>2 DEF ExportInv, DiffOK
  <1>7. CASE ~ Astray /\ index' = Intend
    <2>1. IndexOK' /\ Noted'
      BY <1>1, <1>7, IntendOK DEF ExportInv, Noted
    <2>. QED
      BY <1>2, <1>4, <2>1 DEF ExportInv, DiffOK
  <1>. QED
    BY <1>1, <1>5, <1>6, <1>7 DEF Astray

\* What is told of a patch that is the difference.
LEMMA ToldFits ==
    ASSUME NEW patch, \A e \in patch : e[1] = GitIgnore \/ e[2] = At(Seeds, e[1])
    PROVE  \A d \in Shown(patch) : Fits(d)
  <1>. SUFFICES ASSUME NEW e \in patch PROVE Fits(Told(e))
    BY DEF Shown
  <1>1. CASE IsBinary(e)
    <2>1. Told(e)[2] = Binary
      BY <1>1 DEF Told
    <2>. QED
      BY <2>1 DEF Fits
  <1>2. CASE ~ IsBinary(e)
    <2>1. Told(e)[1] = e[1] /\ Told(e)[2] = AsText(e[2])
      BY <1>2 DEF Told
    <2>. QED
      BY <2>1 DEF Fits
  <1>. QED
    BY <1>1, <1>2

LEMMA ExportingCalls ==
    ASSUME ExportInv, NEW t \in Threads, GitDiff(t)
    PROVE  ExportInv'
  <1>1. /\ Moved(t) /\ calls[t].pc = "diff" /\ UNCHANGED <<files, repo, index, staged>>
        /\ calls'[t].pc = "done"
        /\ \/ calls'[t].failed
           \/ /\ calls'[t].want = Should
              /\ calls'[t].obs = IF repo = "missing" THEN Ok ELSE Diff(Patch)
              /\ calls'[t].failed = calls[t].failed
    BY GitDiffOK DEF ExportInv
  <1>2. CallsOK'
    BY <1>1, MovedOK DEF ExportInv
  <1>3. \A u \in Threads \ {t} : calls'[u] = calls[u]
    BY <1>1 DEF Moved
  <1>4. DiffOK'
    <2>. SUFFICES ASSUME NEW u \in Threads, calls'[u].pc = "diff"
                  PROVE  (Hindered(calls[u]) \/ Noted)'
      BY DEF DiffOK
    <2>1. calls'[u] = calls[u]
      BY <1>1, <1>3
    <2>2. Hindered(calls[u]) \/ Noted
      BY <2>1 DEF ExportInv, DiffOK
    <2>3. CASE Hindered(calls[u])
      BY <1>1, <2>1, <2>3, HinderedStill
    <2>4. CASE Noted
      BY <1>1, <2>4 DEF Noted
    <2>. QED
      BY <2>2, <2>3, <2>4
  <1>5. ExportOK(calls[t])'
    <2>. DEFINE d == calls'[t]
    <2>1. d.blur = calls[t].blur /\ (calls[t].failed => d.failed)
      BY <1>1 DEF Moved, Keeps
    <2>2. CASE d.failed \/ staged \/ repo # "committed" \/ d.blur # {}
      BY <1>1, <2>2 DEF ExportOK, Hindered
    <2>3. CASE ~ d.failed /\ ~ staged /\ repo = "committed" /\ d.blur = {}
      <3>1. IndexOK /\ Noted
        BY <1>1, <2>1, <2>3 DEF ExportInv, DiffOK, Hindered, Astray
      <3>2. Patch = Should /\ \A e \in Patch : e[1] = GitIgnore \/ e[2] = At(Seeds, e[1])
        BY <3>1, PatchIsDifference
      <3>3. d.want = Should /\ d.obs = Diff(Should)
        BY <1>1, <2>3, <3>2
      <3>. HIDE DEF d
      <3>4. CASE \E e \in Should : Garbled(e)
        <4>1. d.obs = Raises
          BY <3>3, <3>4, Zenon DEF Diff
        <4>. QED
          BY <3>3, <3>4, <4>1, Zenon DEF ExportOK, d
      <3>5. CASE Size(Shown(Should)) > MaxChars
        BY <3>3, <3>5, Zenon DEF ExportOK, d
      <3>6. CASE ~ (\E e \in Should : Garbled(e)) /\ ~ (Size(Shown(Should)) > MaxChars)
        <4>1. d.obs = Shows(Captured(Shown(Should)), FALSE)
          BY <3>3, <3>6, Zenon DEF Diff, Shown
        <4>2. Captured(Shown(Should)) = Shown(Should)
          BY <3>6, Zenon DEF Captured
        <4>3. d.obs.data = Shown(Should)
          BY <4>1, <4>2 DEF Shows
        <4>4. \A e \in d.obs.data : Fits(e)
          BY <3>2, <4>3, ToldFits
        <4>. QED
          BY <3>3, <4>1, <4>2, <4>4, Zenon DEF ExportOK, d
      <3>. QED
        BY <3>4, <3>5, <3>6
    <2>. QED
      BY <2>2, <2>3
  <1>6. ExportIsDiffUnlessCaused'
    <2>1. \A u \in Threads \ {t} : ExportOK(calls[u])'
      BY <1>1, <1>3, ExportStill DEF ExportInv
    <2>. QED
      BY <1>5, <2>1, Zenon DEF ExportIsDiffUnlessCaused, ExportOK
  <1>7. (Astray \/ IndexOK)'
    BY <1>1 DEF ExportInv, IndexOK, Astray
  <1>. QED
    BY <1>2, <1>4, <1>6, <1>7 DEF ExportInv

LEMMA BeginningCalls ==
    ASSUME ToolConstants, ExportInv, NEW t \in Threads, NEW a \in Acts, Begin(t, a)
    PROVE  ExportInv'
  <1>1. /\ CallsOK' /\ UNCHANGED <<files, repo, index, staged>>
        /\ \A u \in Threads :
              \/ /\ Busy(u) /\ calls'[u].pc = calls[u].pc /\ calls'[u].failed = calls[u].failed
                 /\ calls[u].blur \subseteq calls'[u].blur
              \/ /\ calls'[u].pc # "diff"
                 /\ calls'[u].pc = "done" => calls'[u].a.tool # "export"
    BY BeginOK DEF ExportInv
  <1>2. DiffOK'
    <2>. SUFFICES ASSUME NEW u \in Threads, calls'[u].pc = "diff"
                  PROVE  (Hindered(calls[u]) \/ Noted)'
      BY DEF DiffOK
    <2>1. /\ calls[u].pc = "diff" /\ calls'[u].failed = calls[u].failed
          /\ calls[u].blur \subseteq calls'[u].blur
      BY <1>1
    <2>2. CASE Hindered(calls[u])
      BY <1>1, <2>1, <2>2, HinderedStill
    <2>3. CASE Noted
      BY <1>1, <2>3 DEF Noted
    <2>. QED
      BY <2>1, <2>2, <2>3 DEF ExportInv, DiffOK
  <1>3. \A u \in Threads : ~ Exported(calls'[u])
    BY <1>1 DEF Exported, Busy
  <1>4. ExportIsDiffUnlessCaused'
    BY <1>3 DEF ExportIsDiffUnlessCaused, Exported
  <1>5. (Astray \/ IndexOK)'
    BY <1>1 DEF ExportInv, IndexOK, Astray
  <1>. QED
    BY <1>1, <1>2, <1>4, <1>5 DEF ExportInv

LEMMA ToolStepOK ==
    ASSUME ToolConstants, ExportInv, NEW t \in Threads, ToolStep(t)
    PROVE  ExportInv'
  <1>1. CASE Looks(t)
    BY <1>1, LookingOK, OtherCalls DEF ExportInv, Looking, Exporting
  <1>2. CASE EditSteps(t)
    BY <1>2, EditingOK, OtherCalls DEF ExportInv, Editing, Exporting
  <1>3. CASE Bash(t)
    BY <1>3, BashOK, OtherCalls DEF ExportInv, Exporting
  <1>4. CASE AddIntent(t)
    BY <1>4, NotingCalls
  <1>5. CASE GitDiff(t)
    BY <1>5, ExportingCalls
  <1>6. CASE \E a \in Acts : Begin(t, a)
    BY <1>6, BeginningCalls
  <1>. QED
    BY <1>1, <1>2, <1>3, <1>4, <1>5, <1>6 DEF ToolStep, Looks, EditSteps

\* A patch that export_patch returns is the difference between the workspace and
\* the baseline as text, and what it says of the snapshot a verification starts
\* from is the text of that, unless git failed in the call or when the workspace
\* was set up, an agent staged its changes, the patch was cut, a change does not
\* decode or another call wrote meanwhile (export_patch, backend.py:233): whatever
\* the calls and however they overlap.
THEOREM ExportsAreDifferences == Spec => []ExportIsDiffUnlessCaused
  <1>1. Init => ExportInv
    BY InitIndexed
  <1>2. ExportInv /\ [Next]_vars => ExportInv'
    <2>1. ExportInv /\ UNCHANGED vars => ExportInv'
      <3>. SUFFICES ASSUME ExportInv, UNCHANGED vars PROVE ExportInv'
        OBVIOUS
      <3>1. CallsOK' /\ (Astray \/ IndexOK)'
        BY DEF vars, ExportInv, CallsOK, BlurOK, Busy, IndexOK, Astray
      <3>2. DiffOK'
        BY DEF vars, ExportInv, DiffOK, Noted, Hindered
      <3>3. \A u \in Threads : ExportOK(calls[u])'
        BY ExportStill DEF vars, ExportInv
      <3>. QED
        <4>1. ExportIsDiffUnlessCaused'
          BY <3>3, Zenon DEF ExportIsDiffUnlessCaused, ExportOK
        <4>. QED
          BY <3>1, <3>2, <4>1 DEF ExportInv
    <2>. QED
      BY <2>1, ToolStepOK, ToolConstants DEF Next, vars
  <1>. QED
    BY <1>1, <1>2, PTL DEF Spec, ExportInv

-----------------------------------------------------------------------------
\* What a call relies on between two docker execs: outside the paths another call
\* has written meanwhile the files are what they were when it began; the text it
\* is about to write is the edit of that; once `cat >` has emptied the file, it is
\* there.
SafeEdit(c, fs) ==
    LET p == Target(c.a.path)
    IN  /\ \A q : \/ Meets(q, c.blur) \/ At(fs, q) = At(c.before, q)
                  \/ c.pc = "fill" /\ q = p
        /\ c.pc \in {"mkdir", "open", "fill"} =>
              Meets(p, c.blur) \/ c.text = Edited(AsText(At(c.before, p)), c.a)
        /\ c.pc = "fill" => Meets(p, c.blur) \/ p \in DOMAIN fs

Exempt(c) == \/ c.pc \in {"idle", "done"} \/ c.a.tool = "bash"
             \/ c.failed \/ Cardinality(Writes(c.a)) > 1

TextOK(c) == c.pc \in {"mkdir", "open", "fill"} => c.text \in Text
FilesOK(fs) == \A p \in DOMAIN fs : fs[p] \in Text

EditInv ==
    /\ CallsOK /\ FilesOK(files) /\ \A t \in Threads : TextOK(calls[t])
    /\ \A t \in Threads : Exempt(calls[t]) \/ SafeEdit(calls[t], files)

LEMMA TwoIsMany ==
    ASSUME NEW x, NEW y, ~ (Cardinality({x, y}) > 1)
    PROVE  x = y
  <1>. SUFFICES ASSUME x # y PROVE FALSE
    OBVIOUS
  <1>1. IsFiniteSet({x}) /\ Cardinality({x}) = 1
    BY FS_Singleton
  <1>2. Cardinality({x} \cup {y}) = 2
    BY <1>1, FS_AddElement
  <1>3. {x} \cup {y} = {x, y}
    OBVIOUS
  <1>. QED
    BY <1>2, <1>3

LEMMA WithFiles ==
    ASSUME NEW fs, FilesOK(fs), NEW w, NEW content \in Text \cup {NoFile}
    PROVE  FilesOK(With(fs, w, content))
  BY DEF FilesOK, With

LEMMA WithOK ==
    ASSUME NEW fs, NEW w, NEW content
    PROVE  /\ \A q : q # w => At(With(fs, w, content), q) = At(fs, q)
           /\ At(With(fs, w, content), w) = content
           /\ \A q \in DOMAIN fs : q # w => q \in DOMAIN With(fs, w, content)
           /\ content # NoFile => w \in DOMAIN With(fs, w, content)
  BY DEF With, At

\* A write of another call, which this one knows of.
LEMMA OthersWrite ==
    ASSUME NEW c, NEW fs, SafeEdit(c, fs), NEW w \in c.blur, NEW content
    PROVE  SafeEdit(c, With(fs, w, content))
  <1>1. Meets(w, c.blur)
    BY DEF Meets
  <1>. DEFINE new == With(fs, w, content)
  <1>2. /\ \A q : q # w => At(new, q) = At(fs, q)
        /\ \A q \in DOMAIN fs : q # w => q \in DOMAIN new
    BY WithOK
  <1>. HIDE DEF new
  <1>3. SafeEdit(c, new)
    BY <1>1, <1>2 DEF SafeEdit
  <1>. QED
    BY <1>3 DEF new

LEMMA MeetsMore ==
    ASSUME NEW p, NEW S, NEW T, S \subseteq T, Meets(p, S)
    PROVE  Meets(p, T)
  BY DEF Meets

\* The next record of a call whose files are what they were.
LEMMA SafeStays ==
    ASSUME NEW c, NEW d, NEW fs, SafeEdit(c, fs), c.pc # "fill", d.pc # "fill",
           d.a = c.a, d.blur = c.blur, d.before = c.before,
           d.pc \in {"mkdir", "open"} =>
              \/ Meets(Target(c.a.path), c.blur)
              \/ d.text = Edited(AsText(At(c.before, Target(c.a.path))), c.a)
    PROVE  SafeEdit(d, fs)
  BY DEF SafeEdit

\* What a step writes, and what the call that takes it leaves when it ends.
Writing(t) ==
    \/ files' = files
    \/ \E w \in Writes(calls[t].a), content \in Text \cup {NoFile} :
          files' = With(files, w, content)

Kept(t) == ~ Ends(t) \/ Disturbed(calls'[t]) \/ LosesNothing(calls[t].before, calls'[t])

LEMMA WritingOK ==
    ASSUME EditInv, NEW t \in Threads, Moved(t), Writing(t), TextOK(calls'[t]),
           Exempt(calls'[t]) \/ SafeEdit(calls'[t], files'), Kept(t)
    PROVE  EditInv' /\ \A u \in Threads : Kept(u)
  <1>1. \A u \in Threads \ {t} : calls'[u] = calls[u]
    BY DEF Moved
  <1>2. CallsOK'
    BY MovedOK DEF EditInv
  <1>3. FilesOK(files')
    BY WithFiles DEF EditInv, Writing
  <1>4. \A u \in Threads : TextOK(calls'[u])
    BY <1>1 DEF EditInv
  <1>5. ASSUME NEW u \in Threads \ {t}
        PROVE  Exempt(calls'[u]) \/ SafeEdit(calls'[u], files')
    <2>1. CASE Exempt(calls[u]) \/ files' = files
      BY <1>1, <2>1 DEF EditInv
    <2>2. CASE ~ Exempt(calls[u]) /\ files' # files
      <3>1. Writes(calls[t].a) \subseteq calls[u].blur
        BY <2>2 DEF EditInv, CallsOK, BlurOK, Moved, Busy, Exempt
      <3>2. PICK w \in calls[u].blur, content \in Text \cup {NoFile} :
                files' = With(files, w, content)
        BY <2>2, <3>1 DEF Writing
      <3>3. SafeEdit(calls[u], files)
        BY <2>2 DEF EditInv
      <3>4. SafeEdit(calls[u], With(files, w, content))
        BY <3>3, OthersWrite
      <3>. QED
        BY <1>1, <3>2, <3>4
    <2>. QED
      BY <2>1, <2>2
  <1>6. ASSUME NEW u \in Threads \ {t} PROVE Kept(u)
    BY <1>1 DEF Kept, Ends, Busy
  <1>7. EditInv'
    BY <1>2, <1>3, <1>4, <1>5 DEF EditInv
  <1>. QED
    BY <1>6, <1>7

\* A call that ends without having opened its file has changed nothing.
LEMMA KeptQuietly ==
    ASSUME EditInv, NEW t \in Threads, Moved(t), files' = files, calls[t].pc # "fill",
           calls'[t].pc = "done" => calls[t].a.tool # "replace" \/ calls'[t].obs # Ok
    PROVE  Kept(t)
  <1>1. /\ calls'[t].a = calls[t].a /\ calls'[t].blur = calls[t].blur
        /\ calls[t].failed => calls'[t].failed
    BY DEF Moved, Keeps
  <1>2. CASE calls'[t].pc # "done" \/ Exempt(calls[t])
    BY <1>1, <1>2 DEF Kept, Ends, Disturbed, Exempt, Busy
  <1>3. CASE calls'[t].pc = "done" /\ ~ Exempt(calls[t])
    <2>1. \A q : Meets(q, calls'[t].blur) \/ At(files', q) = At(calls[t].before, q)
      BY <1>1, <1>3 DEF EditInv, SafeEdit
    <2>2. LosesNothing(calls[t].before, calls'[t])
      BY <1>1, <1>3, <2>1 DEF LosesNothing, Edits
    <2>. QED
      BY <2>2 DEF Kept
  <1>. QED
    BY <1>2, <1>3

\* A step that writes nothing and leaves the call outside the writing of an edit.
LEMMA QuietSteps ==
    ASSUME EditInv, NEW t \in Threads, Moved(t), files' = files, calls[t].pc # "fill",
           calls[t].a.tool # "replace"
    PROVE  EditInv' /\ \A u \in Threads : Kept(u)
  <1>1. /\ calls'[t].a = calls[t].a /\ calls'[t].blur = calls[t].blur
        /\ calls[t].failed => calls'[t].failed
        /\ calls'[t].pc = "done" \/ calls'[t].before = calls[t].before
    BY DEF Moved, Keeps
  <1>2. calls'[t].pc \notin Editing
    BY <1>1 DEF Moved, CallOK, PcOK
  <1>3. Kept(t)
    BY KeptQuietly
  <1>4. Exempt(calls[t]) \/ SafeEdit(calls[t], files)
    BY DEF EditInv
  <1>5. CASE Exempt(calls'[t])
    BY <1>2, <1>3, <1>5, WritingOK DEF Writing, TextOK, Editing
  <1>6. CASE ~ Exempt(calls'[t])
    <2>1. ~ Exempt(calls[t])
      BY <1>1, <1>6 DEF Exempt, Moved, Busy
    <2>2. SafeEdit(calls'[t], files)
      BY <1>1, <1>2, <1>4, <1>6, <2>1, SafeStays DEF Exempt, Editing
    <2>. QED
      BY <1>2, <1>3, <2>2, WritingOK DEF Writing, TextOK, Editing
  <1>. QED
    BY <1>5, <1>6

\* What an edit of a text is.
LEMMA Splice ==
    ASSUME NEW S, NEW s \in Seq(S), NEW r \in Seq(S), NEW i \in DOMAIN s
    PROVE  SubSeq(s, 1, i - 1) \o r \o SubSeq(s, i + 1, Len(s)) \in Seq(S)
  <1>. DEFINE a == SubSeq(s, 1, i - 1)
              b == SubSeq(s, i + 1, Len(s))
  <1>1. i \in 1 .. Len(s) /\ \A k \in 1 .. Len(s) : s[k] \in S
    OBVIOUS
  <1>2. a \in Seq(S)
    BY <1>1, SubSeqProperties
  <1>3. b \in Seq(S)
    BY <1>1, SubSeqProperties
  <1>. HIDE DEF a, b
  <1>4. a \o r \in Seq(S)
    BY <1>2, ConcatProperties
  <1>5. (a \o r) \o b \in Seq(S)
    BY <1>3, <1>4, ConcatProperties
  <1>. QED
    BY <1>5 DEF a, b

LEMMA OneIsNone ==
    ASSUME NEW n, (CASE n = 0 -> "old_string not found" [] n = 1 -> "none"
                     [] OTHER -> "not unique") = "none"
    PROVE  n # 0
  OBVIOUS

LEMMA EditedOK ==
    ASSUME ToolConstants, NEW a \in Acts, a.tool = "replace", NEW content \in Text \cup {NoFile},
           a.old # "" => content \in Text /\ ReplaceError(content, a.old) = "none"
    PROVE  Edited(content, a) \in Text
  <1>1. a.new \in Text
    BY DEF ToolConstants
  <1>2. CASE a.old = ""
    <2>. DEFINE rest == IF content = NoFile THEN <<>> ELSE content
    <2>1. rest \in Seq(Symbols) /\ a.new \in Seq(Symbols)
      BY <1>1, EmptySeq DEF Text
    <2>2. Edited(content, a) = a.new \o rest
      BY <1>2, Zenon DEF Edited
    <2>. HIDE DEF rest
    <2>3. a.new \o rest \in Seq(Symbols)
      BY ONLY <2>1, ConcatProperties
    <2>. QED
      BY ONLY <2>2, <2>3 DEF Text
  <1>3. CASE a.old # ""
    <2>. DEFINE occ == Occurrences(content, a.old)
                i == CHOOSE j \in occ : TRUE
    <2>1. content \in Seq(Symbols) /\ ReplaceError(content, a.old) = "none"
      BY <1>3 DEF Text
    <2>2. Cardinality(occ) # 0
      BY <2>1, OneIsNone, Zenon DEF ReplaceError
    <2>3. occ # {}
      BY <2>2, FS_EmptySet
    <2>4. i \in DOMAIN content
      <3>1. i \in occ
        BY <2>3, Zenon
      <3>. HIDE DEF i
      <3>. QED
        BY <3>1, Zenon DEF Occurrences
    <2>5. Edited(content, a) = SubSeq(content, 1, i - 1) \o a.new
                                \o SubSeq(content, i + 1, Len(content))
      BY <1>3, Zenon DEF Edited, Replaced
    <2>6. a.new \in Seq(Symbols)
      BY <1>1 DEF Text
    <2>. HIDE DEF i, occ
    <2>7. SubSeq(content, 1, i - 1) \o a.new \o SubSeq(content, i + 1, Len(content)) \in Seq(Symbols)
      BY <2>1, <2>4, <2>6, Splice
    <2>. QED
      BY <2>5, <2>7 DEF Text
  <1>. QED
    BY <1>2, <1>3

\* Text mode makes text of text.
LEMMA ConvertedOK ==
    ASSUME WorkspaceConstants, NEW content \in Text
    PROVE  /\ Converted(content) \in Text /\ DOMAIN Converted(content) = DOMAIN content
           /\ Undecodable(Converted(content)) <=> Undecodable(content)
  <1>1. DOMAIN content = 1 .. Len(content) /\ \A i \in DOMAIN content : content[i] \in Symbols
    BY DEF Text
  <1>2. \A s \in Symbols : /\ (IF s \in DOMAIN Crlf THEN Crlf[s] ELSE s) \in Symbols
                           /\ (IF s \in DOMAIN Crlf THEN Crlf[s] ELSE s) = Bad <=> s = Bad
    BY DEF WorkspaceConstants
  <1>3. Converted(content) \in [1 .. Len(content) -> Symbols]
    BY <1>1, <1>2 DEF Converted
  <1>4. Converted(content) \in Seq(Symbols)
    BY <1>3
  <1>5. Undecodable(Converted(content)) <=> Undecodable(content)
    BY <1>1, <1>2 DEF Converted, Undecodable
  <1>. QED
    BY <1>1, <1>3, <1>4, <1>5 DEF Text

LEMMA AsTextOK ==
    ASSUME NEW content \in Text \cup {NoFile}
    PROVE  AsText(content) \in Text \cup {NoFile}
  BY ConvertedOK, WorkspaceConstants DEF AsText

LEMMA ReadFileKeeps ==
    ASSUME ToolConstants, EditInv, NEW t \in Threads, ReadFile(t)
    PROVE  EditInv' /\ \A u \in Threads : Kept(u)
  <1>. DEFINE b == calls[t]
              d == calls'[t]
              p == Target(b.a.path)
              read == AsText(At(files, p))
  <1>1. /\ Moved(t) /\ files' = files /\ b.pc = "read"
        /\ \/ d.pc = "done" /\ d.obs # Ok
           \/ /\ d.pc = "mkdir"
              /\ \E content \in {read, NoFile} :
                    /\ d.text = Edited(content, b.a)
                    /\ b.a.old # "" => content # NoFile /\ ReplaceError(content, b.a.old) = "none"
                    /\ d.failed \/ content = read
    BY ReadFileOK DEF EditInv
  <1>2. b.a \in Acts /\ b.a.tool = "replace"
    BY <1>1, InEdit DEF EditInv, Editing
  <1>3. /\ d.a = b.a /\ d.blur = b.blur /\ (b.failed => d.failed)
        /\ d.pc = "done" \/ d.before = b.before
    BY <1>1 DEF Moved, Keeps
  <1>4. Exempt(b) \/ SafeEdit(b, files)
    BY DEF EditInv
  <1>5. read \in Text \cup {NoFile}
    <2>1. At(files, p) \in Text \cup {NoFile}
      BY DEF EditInv, FilesOK, At
    <2>. QED
      BY <2>1, AsTextOK
  <1>6. Kept(t)
    BY <1>1, KeptQuietly
  <1>7. Busy(t)
    BY <1>1 DEF Moved
  <1>. HIDE DEF b, d, read
  <1>8. TextOK(d)
    <2>1. CASE d.pc = "done"
      BY <2>1 DEF TextOK
    <2>2. ASSUME NEW content \in {read, NoFile}, d.text = Edited(content, b.a),
                 b.a.old # "" => content # NoFile /\ ReplaceError(content, b.a.old) = "none"
          PROVE  TextOK(d)
      <3>1. content \in Text \cup {NoFile}
        BY <1>5
      <3>2. b.a.old # "" => content \in Text /\ ReplaceError(content, b.a.old) = "none"
        BY <2>2, <3>1
      <3>3. Edited(content, b.a) \in Text
        BY <1>2, <3>1, <3>2, EditedOK
      <3>. QED
        BY <2>2, <3>3 DEF TextOK
    <2>. QED
      BY <1>1, <2>1, <2>2
  <1>9. Exempt(d) \/ SafeEdit(d, files)
    <2>1. CASE Exempt(d)
      BY <2>1
    <2>2. CASE ~ Exempt(d)
      <3>1. ~ Exempt(b)
        BY <1>3, <1>7, <2>2 DEF Exempt, Busy, b
      <3>2. SafeEdit(b, files) /\ d.pc = "mkdir" /\ d.text = Edited(read, b.a)
        BY <1>1, <1>4, <2>2, <3>1 DEF Exempt
      <3>3. Meets(p, b.blur) \/ read = AsText(At(b.before, p))
        BY <1>1, <3>2 DEF SafeEdit, read
      <3>. QED
        BY <1>1, <1>3, <3>2, <3>3, SafeStays
    <2>. QED
      BY <2>1, <2>2
  <1>. QED
    BY <1>1, <1>6, <1>8, <1>9, WritingOK DEF Writing, d

LEMMA MakeDirKeeps ==
    ASSUME EditInv, NEW t \in Threads, MakeDir(t)
    PROVE  EditInv' /\ \A u \in Threads : Kept(u)
  <1>. DEFINE b == calls[t]
              d == calls'[t]
  <1>1. /\ Moved(t) /\ files' = files /\ b.pc = "mkdir"
        /\ \/ d.pc = "done" /\ d.obs # Ok
           \/ d.pc = "open" /\ d.text = b.text
    BY MakeDirOK DEF EditInv
  <1>2. /\ d.a = b.a /\ d.blur = b.blur /\ (b.failed => d.failed)
        /\ d.pc = "done" \/ d.before = b.before
    BY <1>1 DEF Moved, Keeps
  <1>3. (Exempt(b) \/ SafeEdit(b, files)) /\ b.text \in Text
    BY <1>1 DEF EditInv, TextOK
  <1>4. Kept(t)
    BY <1>1, KeptQuietly
  <1>5. Busy(t)
    BY <1>1 DEF Moved
  <1>. HIDE DEF b, d
  <1>6. TextOK(d)
    BY <1>1, <1>3 DEF TextOK
  <1>7. CASE Exempt(d)
    BY <1>1, <1>4, <1>6, <1>7, WritingOK DEF Writing, d
  <1>8. CASE ~ Exempt(d)
    <2>1. ~ Exempt(b)
      BY <1>2, <1>5, <1>8 DEF Exempt, Busy, b
    <2>2. SafeEdit(b, files) /\ d.pc = "open" /\ d.text = b.text
      BY <1>1, <1>3, <1>8, <2>1 DEF Exempt
    <2>3. \/ Meets(Target(b.a.path), b.blur)
          \/ b.text = Edited(AsText(At(b.before, Target(b.a.path))), b.a)
      BY <1>1, <2>2 DEF SafeEdit
    <2>4. SafeEdit(d, files)
      BY <1>1, <1>2, <2>2, <2>3, SafeStays
    <2>. QED
      BY <1>1, <1>4, <1>6, <2>4, WritingOK DEF Writing, d
  <1>. QED
    BY <1>7, <1>8

LEMMA OpenFileKeeps ==
    ASSUME EditInv, NEW t \in Threads, OpenFile(t)
    PROVE  EditInv' /\ \A u \in Threads : Kept(u)
  <1>. DEFINE b == calls[t]
              d == calls'[t]
              p == Target(b.a.path)
  <1>1. /\ Moved(t) /\ b.pc = "open"
        /\ \/ d.pc = "done" /\ d.obs # Ok /\ files' = files
           \/ /\ d.pc = "fill" /\ d.text = b.text
              /\ \E w \in Writes(b.a) : files' = With(files, w, <<>>)
    BY OpenFileOK DEF EditInv
  <1>2. Writes(b.a) = {p, WriteTarget(p)}
    BY <1>1, InEdit DEF EditInv, Editing
  <1>3. /\ d.a = b.a /\ d.blur = b.blur /\ (b.failed => d.failed)
        /\ d.pc = "done" \/ d.before = b.before
    BY <1>1 DEF Moved, Keeps
  <1>4. (Exempt(b) \/ SafeEdit(b, files)) /\ b.text \in Text
    BY <1>1 DEF EditInv, TextOK
  <1>5. Busy(t)
    BY <1>1 DEF Moved
  <1>6. <<>> \in Text /\ <<>> # NoFile
    BY EmptySeq, WorkspaceConstants DEF Text, WorkspaceConstants
  <1>7. Writing(t)
    BY <1>1, <1>6 DEF Writing
  <1>8. Kept(t)
    <2>1. CASE d.pc = "done"
      BY <1>1, <2>1, KeptQuietly
    <2>2. CASE d.pc # "done"
      BY <2>2 DEF Kept, Ends
    <2>. QED
      BY <2>1, <2>2
  <1>. HIDE DEF b, d
  <1>9. TextOK(d)
    BY <1>1, <1>4 DEF TextOK
  <1>10. CASE Exempt(d)
    BY <1>1, <1>7, <1>8, <1>9, <1>10, WritingOK DEF d
  <1>11. CASE ~ Exempt(d)
    <2>1. ~ Exempt(b)
      BY <1>3, <1>5, <1>11 DEF Exempt, Busy, b
    <2>2. SafeEdit(b, files) /\ d.pc = "fill" /\ d.text = b.text /\ d.before = b.before
      BY <1>1, <1>3, <1>4, <1>11, <2>1 DEF Exempt
    <2>3. ~ (Cardinality({p, WriteTarget(p)}) > 1)
      BY <1>2, <2>1 DEF Exempt
    <2>4. files' = With(files, p, <<>>)
      BY <1>1, <1>2, <2>2, <2>3, TwoIsMany
    <2>5. /\ \A q : q # p => At(files', q) = At(files, q)
          /\ p \in DOMAIN files'
      BY <1>6, <2>4, WithOK
    <2>6. SafeEdit(d, files')
      BY <1>1, <1>3, <2>2, <2>5 DEF SafeEdit
    <2>. QED
      BY <1>1, <1>7, <1>8, <1>9, <2>6, WritingOK DEF d
  <1>. QED
    BY <1>10, <1>11

LEMMA FillFileKeeps ==
    ASSUME EditInv, NEW t \in Threads, FillFile(t)
    PROVE  EditInv' /\ \A u \in Threads : Kept(u)
  <1>. DEFINE b == calls[t]
              d == calls'[t]
              p == Target(b.a.path)
              w == WriteTarget(p)
              full == IF w \in DOMAIN files THEN With(files, w, Source(b)) ELSE files
  <1>1. /\ Moved(t) /\ b.pc = "fill" /\ d.pc = "done" /\ files' \in {files, full}
        /\ d.failed \/ Source(b) = NoFile \/ (files' = full /\ d.obs = Ok)
    BY FillFileOK DEF EditInv
  <1>2. Writes(b.a) = {p, w} /\ b.a.tool = "replace"
    BY <1>1, InEdit DEF EditInv, Editing
  <1>3. d.a = b.a /\ d.blur = b.blur /\ (b.failed => d.failed)
    BY <1>1 DEF Moved, Keeps
  <1>4. (Exempt(b) \/ SafeEdit(b, files)) /\ b.text \in Text
    BY <1>1 DEF EditInv, TextOK
  <1>5. Busy(t)
    BY <1>1 DEF Moved
  <1>6. Source(b) \in Text \cup {NoFile}
    BY <1>4 DEF Source, EditInv, FilesOK, At
  <1>7. Writing(t)
    BY <1>1, <1>2, <1>6 DEF Writing
  <1>8. TextOK(d) /\ Exempt(d)
    BY <1>1 DEF TextOK, Exempt
  <1>9. Kept(t)
    <2>1. CASE d.failed \/ Cardinality(Writes(d.a)) > 1
      BY <2>1 DEF Kept, Disturbed
    <2>2. CASE ~ d.failed /\ ~ (Cardinality(Writes(d.a)) > 1)
      <3>1. w = p
        BY <1>2, <1>3, <2>2, TwoIsMany
      <3>2. Source(b) = b.text /\ b.text # NoFile
        BY <1>4, <3>1, WorkspaceConstants DEF Source, WorkspaceConstants
      <3>3. files' = full /\ d.obs = Ok
        BY <1>1, <2>2, <3>2
      <3>4. ~ Exempt(b)
        BY <1>2, <1>3, <1>5, <2>2 DEF Exempt, Busy
      <3>5. /\ \A q : Meets(q, b.blur) \/ At(files, q) = At(b.before, q) \/ q = p
            /\ Meets(p, b.blur) \/ b.text = Edited(AsText(At(b.before, p)), b.a)
            /\ Meets(p, b.blur) \/ p \in DOMAIN files
        BY <1>1, <1>4, <3>4 DEF SafeEdit
      <3>6. /\ \A q : q # p => At(files', q) = At(files, q)
            /\ p \in DOMAIN files => At(files', p) = b.text
        BY <3>1, <3>2, <3>3, WithOK
      <3>. HIDE DEF b, d, full
      <3>7. \A q : \/ Meets(q, d.blur)
                   \/ At(files', q) = IF q = p THEN Edited(AsText(At(b.before, q)), b.a)
                                                ELSE At(b.before, q)
        BY <1>3, <3>5, <3>6
      <3>8. LosesNothing(b.before, d)
        <4>1. \A q : Edits(d, q) <=> q = p
          BY <1>2, <1>3, <3>3 DEF Edits
        <4>. QED
          BY <1>3, <3>7, <4>1 DEF LosesNothing
      <3>. QED
        BY <3>8 DEF Kept, b, d
    <2>. QED
      BY <2>1, <2>2
  <1>. QED
    BY <1>1, <1>7, <1>8, <1>9, WritingOK

LEMMA BashKeeps ==
    ASSUME ToolConstants, EditInv, NEW t \in Threads, Bash(t)
    PROVE  EditInv' /\ \A u \in Threads : Kept(u)
  <1>. DEFINE b == calls[t]
              w == Target(b.a.path)
              after == Shell(files, w, b.a.new)
  <1>1. Moved(t) /\ b.pc = "bash"
    BY BashOK DEF EditInv
  <1>2. b.a \in Acts /\ b.a.tool = "bash" /\ ~ Refused(b.a.path)
    BY <1>1 DEF EditInv, CallsOK, CallOK, PcOK
  <1>3. files' \in {files, after}
    BY Zenon DEF Bash
  <1>4. Writes(b.a) = {w} /\ b.a.new \in Text \cup {NoFile}
    BY <1>2 DEF Writes, ToolConstants
  <1>5. Writing(t)
    BY <1>3, <1>4 DEF Writing, Shell
  <1>6. calls'[t].a.tool = "bash" /\ calls'[t].pc \notin Editing
    BY <1>1, <1>2 DEF Moved, Keeps, CallOK, PcOK
  <1>7. Kept(t) /\ Exempt(calls'[t]) /\ TextOK(calls'[t])
    BY <1>6 DEF Kept, Ends, Exempt, TextOK, Editing
  <1>. QED
    BY <1>1, <1>5, <1>7, WritingOK

LEMMA BeginKeeps ==
    ASSUME ToolConstants, EditInv, NEW t \in Threads, NEW a \in Acts, Begin(t, a)
    PROVE  EditInv' /\ \A u \in Threads : Kept(u)
  <1>1. /\ CallsOK' /\ files' = files
        /\ \A u \in Threads :
              \/ /\ Busy(u) /\ calls'[u].pc = calls[u].pc /\ calls'[u].failed = calls[u].failed
                 /\ calls[u].blur \subseteq calls'[u].blur
                 /\ calls'[u].a = calls[u].a /\ calls'[u].text = calls[u].text
                 /\ calls'[u].before = calls[u].before
              \/ /\ ~ Busy(u) /\ calls'[u].pc \notin {"mkdir", "open", "fill"}
                 /\ calls'[u].pc \in {"idle", "done"} \/ calls'[u].before = files
    BY BeginOK DEF EditInv
  <1>2. ASSUME NEW u \in Threads
        PROVE  /\ Kept(u) /\ TextOK(calls'[u])
               /\ Exempt(calls'[u]) \/ SafeEdit(calls'[u], files')
    <2>. DEFINE b == calls[u]
                d == calls'[u]
    <2>1. CASE /\ Busy(u) /\ d.pc = b.pc /\ d.failed = b.failed /\ b.blur \subseteq d.blur
               /\ d.a = b.a /\ d.text = b.text /\ d.before = b.before
      <3>1. Kept(u)
        BY <2>1 DEF Kept, Ends, Busy
      <3>2. TextOK(b) /\ (Exempt(b) \/ SafeEdit(b, files))
        BY DEF EditInv
      <3>. HIDE DEF b, d
      <3>3. \A q : Meets(q, b.blur) => Meets(q, d.blur)
        BY <2>1, MeetsMore
      <3>4. TextOK(d) /\ (Exempt(d) \/ SafeEdit(d, files))
        BY <2>1, <3>2, <3>3 DEF TextOK, Exempt, SafeEdit
      <3>. QED
        BY <1>1, <3>1, <3>4 DEF d
    <2>2. CASE /\ ~ Busy(u) /\ d.pc \notin {"mkdir", "open", "fill"}
               /\ d.pc \in {"idle", "done"} \/ d.before = files
      BY <1>1, <2>2 DEF Kept, Ends, TextOK, Exempt, SafeEdit
    <2>. QED
      BY <1>1, <2>1, <2>2
  <1>. QED
    BY <1>1, <1>2 DEF EditInv

LEMMA StepsKeep ==
    ASSUME ToolConstants, EditInv, NEW t \in Threads, ToolStep(t)
    PROVE  EditInv' /\ \A u \in Threads : Kept(u)
  <1>1. CASE Looks(t)
    <2>1. Moved(t) /\ files' = files /\ calls[t].pc \in Looking
      BY <1>1, LookingOK DEF EditInv
    <2>2. calls[t].pc # "fill" /\ calls[t].a.tool # "replace"
      BY <2>1 DEF EditInv, CallsOK, CallOK, PcOK, Looking
    <2>. QED
      BY <2>1, <2>2, QuietSteps
  <1>2. CASE AddIntent(t) \/ GitDiff(t)
    <2>1. Moved(t) /\ files' = files /\ calls[t].pc \in Exporting
      BY <1>2, AddIntentOK, GitDiffOK DEF EditInv, Exporting
    <2>2. calls[t].pc # "fill" /\ calls[t].a.tool # "replace"
      BY <2>1 DEF EditInv, CallsOK, CallOK, PcOK, Exporting
    <2>. QED
      BY <2>1, <2>2, QuietSteps
  <1>3. CASE EditSteps(t)
    BY <1>3, ReadFileKeeps, MakeDirKeeps, OpenFileKeeps, FillFileKeeps DEF EditSteps
  <1>4. CASE Bash(t)
    BY <1>4, BashKeeps
  <1>5. CASE \E a \in Acts : Begin(t, a)
    BY <1>5, BeginKeeps
  <1>. QED
    BY <1>1, <1>2, <1>3, <1>4, <1>5 DEF ToolStep, Looks, EditSteps

LEMMA InitKept == ToolConstants /\ Init => EditInv
  <1>. SUFFICES ASSUME ToolConstants, Init PROVE EditInv
    OBVIOUS
  <1>1. calls = [t \in Threads |-> NoCall] /\ files = Baseline
    BY DEF Init
  <1>2. CallsOK
    BY InitIndexed DEF ExportInv
  <1>3. <<"pyc">> \in Text /\ <<"x">> \in Text
    <2>1. "pyc" \in Symbols /\ "x" \in Symbols
      BY DEF ToolConstants
    <2>. QED
      BY <2>1 DEF Text
  <1>4. FilesOK(Baseline)
    BY <1>3 DEF FilesOK, Baseline, ToolConstants
  <1>5. NoCall.pc = "idle"
    BY DEF NoCall
  <1>. QED
    BY <1>1, <1>2, <1>4, <1>5 DEF EditInv, TextOK, Exempt

\* A call never costs the workspace anything (write_text, executors.py:357, over
\* _str_replace, tools.py:172): when it ends, every file holds what it held when
\* the call began, the named one the edit of its text (whose CR LF the read has
\* made LF) if the call says so, unless docker exec failed, the name has a space
\* in it or another call wrote to that place meanwhile: whatever the calls and
\* however their docker execs interleave.
THEOREM CallsKeepTheFiles == Spec => EditsLoseNothing
  <1>1. Init => EditInv
    BY InitKept, ToolConstants
  <1>2. EditInv /\ [Next]_vars => EditInv' /\ [\A t \in Threads : Kept(t)]_vars
    <2>1. EditInv /\ UNCHANGED vars => EditInv'
      BY DEF vars, EditInv, CallsOK, BlurOK, Busy
    <2>. QED
      BY <2>1, StepsKeep, ToolConstants DEF Next, vars
  <1>. QED
    BY <1>1, <1>2, PTL DEF Spec, EditsLoseNothing, Kept

-----------------------------------------------------------------------------
\* What MirrorsMock leans on.  A call in progress whose path both sides take alike
\* is where the mock will be when it ends, but near the paths in doubt: those in
\* off and those others write.
FullHits(content, query) ==
    IF Occurrences(content, Nul) # {} THEN {} ELSE Occurrences(content, query)

Near(c, of) == Meets(Target(c.a.path), of \cup c.blur)

\* A search: what it looks below is there, and the files it has read have the
\* hits the mock finds in them, of which there are less than the limit.
There(c, mk, of) == (c.a.scoped /\ Near(c, of)) \/ Kind(mk, Target(c.a.path)) # "none"
HitsMirror(c, mk, of) ==
    LET p == Target(c.a.path)
    IN  /\ IsFiniteSet(c.hits) /\ Cardinality(c.hits) < MaxMatches
        /\ \A q \in c.todo : Under(p, q)
        /\ \A h \in c.hits : h = <<h[1], h[2]>> /\ Under(p, h[1]) /\ h[1] \notin c.todo
        /\ \A q \in DOMAIN mk :
              \/ q \in of \cup c.blur \/ Undecodable(mk[q]) \/ ~ Under(p, q) \/ q \in c.todo
              \/ \A i : <<q, i>> \in c.hits <=> i \in FullHits(Converted(mk[q]), c.a.query)
LookMirrors(c, mk, of) ==
    /\ c.pc \in {"list", "each"} => c.a.tool = "search" /\ (c.failed \/ There(c, mk, of))
    /\ c.pc = "show" => c.a.tool = "view" /\ (Near(c, of) \/ Target(c.a.path) \in DOMAIN mk)
    /\ c.pc \in Looking /\ c.a.tool = "search" => c.a.query # BadRegex
    /\ c.pc = "stat" /\ c.a.tool = "search" => c.a.scoped
    /\ c.pc \in {"stat", "list"} => c.hits = {}
    /\ c.pc = "each" => c.failed \/ HitsMirror(c, mk, of)

\* An edit: the text it is about to write is the one the mock will write.
EditMirrors(c, fs, mk) ==
    LET p == Target(c.a.path)
    IN  /\ c.text = Edited(AsText(At(mk, p)), c.a)
        /\ p \in DOMAIN mk => ~ Undecodable(mk[p])
        /\ c.a.old # "" => p \in DOMAIN mk /\ ReplaceError(Converted(mk[p]), c.a.old) = "none"
        /\ c.pc = "fill" => p \in DOMAIN fs /\ Kind(mk, p) # "dir" /\ ~ Blocked(mk, p)

CallMirrors(c, fs, mk, of) ==
    /\ LookMirrors(c, mk, of)
    /\ c.pc \in {"mkdir", "open", "fill"} => Exempt(c) \/ Near(c, of) \/ EditMirrors(c, fs, mk)
    /\ c.pc = "done" => c.failed \/ Agree(c, mk, of)

\* Outside off the files are the mock's, but where `cat >` has emptied one.
Filling(t, q) == calls[t].pc = "fill" /\ q \in Writes(calls[t].a)
SameFiles ==
    \A q : q \in off \/ At(files, q) = At(mock, q) \/ \E t \in Threads : Filling(t, q)

\* What the mock sees outside its directory is in doubt.
MockOK ==
    /\ FilesOK(mock) /\ IsFiniteSet(DOMAIN mock) /\ <<>> \notin DOMAIN mock
    /\ \A q \in DOMAIN mock : Outer(q) => q \in off

MirrorInv ==
    /\ EditInv /\ MockOK /\ Tree(files) /\ SameFiles
    /\ \A t \in Threads : Mirrored(calls[t].a) => CallMirrors(calls[t], files, mock, off)

-----------------------------------------------------------------------------
LEMMA AtOK ==
    ASSUME NEW fs, FilesOK(fs), NEW q
    PROVE  /\ q \in DOMAIN fs <=> At(fs, q) # NoFile
           /\ q \in DOMAIN fs => fs[q] = At(fs, q)
  BY WorkspaceConstants DEF At, FilesOK, WorkspaceConstants

\* Files that are the same around a path are the same to mkdir -p, test -f and -d.
LEMMA SameAround ==
    ASSUME NEW f, NEW g, FilesOK(f), FilesOK(g), NEW p, NEW S, ~ Meets(p, S),
           \A q : q \in S \/ At(f, q) = At(g, q)
    PROVE  Kind(f, p) = Kind(g, p) /\ (Blocked(f, p) <=> Blocked(g, p)) /\ At(f, p) = At(g, p)
  <1>1. \A q : q \in S \/ (q \in DOMAIN f <=> q \in DOMAIN g)
    BY AtOK
  <1>2. At(f, p) = At(g, p) /\ (p \in DOMAIN f <=> p \in DOMAIN g)
    BY <1>1 DEF Meets
  <1>3. (\E q \in DOMAIN f : IsStrictPrefix(p, q)) <=> (\E q \in DOMAIN g : IsStrictPrefix(p, q))
    BY <1>1 DEF Meets
  <1>4. Blocked(f, p) <=> Blocked(g, p)
    BY <1>1 DEF Meets, Blocked
  <1>. QED
    BY <1>2, <1>3, <1>4 DEF Kind

LEMMA AgreesStill ==
    ASSUME NEW c, NEW d, d.a = c.a, d.obs = c.obs, d.mock = c.mock, c.blur \subseteq d.blur,
           NEW mk, NEW mk2, FilesOK(mk), FilesOK(mk2),
           NEW of, NEW of2, of \subseteq of2,
           \A q : q \in of2 \cup d.blur \/ At(mk, q) = At(mk2, q), Agree(c, mk, of)
    PROVE  Agree(d, mk2, of2)
  <1>. DEFINE sure == {q \in DOMAIN mk \ (of \cup c.blur) : ~ Undecodable(mk[q])}
              sure2 == {q \in DOMAIN mk2 \ (of2 \cup d.blur) : ~ Undecodable(mk2[q])}
              p == Target(c.a.path)
  <1>1. sure2 \subseteq sure
    BY AtOK
  <1>2. Meets(p, of \cup c.blur) => Meets(p, of2 \cup d.blur)
    <2>1. of \cup c.blur \subseteq of2 \cup d.blur
      OBVIOUS
    <2>. QED
      BY <2>1, MeetsMore
  <1>7. p \in DOMAIN mk => \/ Meets(p, of2 \cup d.blur)
                           \/ p \in DOMAIN mk2 /\ mk2[p] = mk[p]
    <2>1. p \in of2 \cup d.blur => Meets(p, of2 \cup d.blur)
      BY DEF Meets
    <2>2. p \notin of2 \cup d.blur => At(mk, p) = At(mk2, p)
      OBVIOUS
    <2>. HIDE DEF p
    <2>. QED
      BY <2>1, <2>2, AtOK
  <1>3. Found(c.obs, sure) = Found(c.mock, sure) => Found(c.obs, sure2) = Found(c.mock, sure2)
    <2>. HIDE DEF sure, sure2
    <2>1. \A obs : Found(obs, sure2) = {h \in Found(obs, sure) : h[1] \in sure2}
      BY <1>1 DEF Found
    <2>. QED
      BY <2>1
  <1>4. /\ c.a.tool = "search" =>
              /\ c.obs.error = c.mock.error \/ (c.a.scoped /\ Meets(p, of \cup c.blur))
              /\ c.obs.more \/ c.mock.more \/ Found(c.obs, sure) = Found(c.mock, sure)
        /\ c.a.tool = "view" =>
              \/ c.obs = c.mock \/ Meets(p, of \cup c.blur)
              \/ c.obs = Raises /\ p \in DOMAIN mk /\ Undecodable(mk[p])
        /\ c.a.tool = "replace" => \/ c.obs = c.mock \/ (c.mock = Raises /\ c.obs.error # "none")
                                   \/ Meets(p, of \cup c.blur)
    BY DEF Agree
  <1>. HIDE DEF sure, sure2, p
  <1>5. /\ d.a.tool = "search" =>
              /\ d.obs.error = d.mock.error \/ (d.a.scoped /\ Meets(p, of2 \cup d.blur))
              /\ d.obs.more \/ d.mock.more \/ Found(d.obs, sure2) = Found(d.mock, sure2)
        /\ d.a.tool = "view" =>
              \/ d.obs = d.mock \/ Meets(p, of2 \cup d.blur)
              \/ d.obs = Raises /\ p \in DOMAIN mk2 /\ Undecodable(mk2[p])
        /\ d.a.tool = "replace" => \/ d.obs = d.mock \/ (d.mock = Raises /\ d.obs.error # "none")
                                   \/ Meets(p, of2 \cup d.blur)
    BY <1>2, <1>3, <1>4, <1>7
  <1>6. p = Target(d.a.path)
    BY DEF p
  <1>. QED
    BY <1>5, <1>6, Zenon DEF Agree, sure2

\* A step of another call, which this one knows of, leaves it near where it was.
LEMMA MirrorsStill ==
    ASSUME NEW c, NEW d, d.pc = c.pc, d.a = c.a, d.text = c.text, d.todo = c.todo,
           d.hits = c.hits, d.obs = c.obs, d.mock = c.mock, d.failed = c.failed,
           c.blur \subseteq d.blur,
           NEW fs, NEW fs2, NEW mk, NEW mk2,
           FilesOK(fs), FilesOK(fs2), FilesOK(mk), FilesOK(mk2),
           NEW of, NEW of2, of \subseteq of2,
           \A q : q \in of2 \cup d.blur \/ At(fs, q) = At(fs2, q),
           \A q : q \in of2 \cup d.blur \/ At(mk, q) = At(mk2, q),
           c.pc \in {"list", "each"} /\ ~ c.a.scoped => Target(c.a.path) = <<>>,
           CallMirrors(c, fs, mk, of)
    PROVE  CallMirrors(d, fs2, mk2, of2)
  <1>. DEFINE p == Target(c.a.path)
              apart == of2 \cup d.blur
  <1>1. of \cup c.blur \subseteq apart
    OBVIOUS
  <1>2. Meets(p, of \cup c.blur) => Meets(p, apart)
    BY <1>1, MeetsMore
  <1>3. \A q : q \in apart \/ At(fs, q) = At(fs2, q)
    OBVIOUS
  <1>4. \A q : q \in apart \/ At(mk, q) = At(mk2, q)
    OBVIOUS
  <1>5. ~ Meets(p, apart) =>
            /\ Kind(mk, p) = Kind(mk2, p) /\ (Blocked(mk, p) <=> Blocked(mk2, p))
            /\ At(mk, p) = At(mk2, p) /\ At(fs, p) = At(fs2, p)
    <2>. HIDE DEF apart, p
    <2>. SUFFICES ASSUME ~ Meets(p, apart)
                  PROVE  /\ Kind(mk, p) = Kind(mk2, p) /\ (Blocked(mk, p) <=> Blocked(mk2, p))
                         /\ At(mk, p) = At(mk2, p) /\ At(fs, p) = At(fs2, p)
      OBVIOUS
    <2>1. Kind(mk, p) = Kind(mk2, p) /\ (Blocked(mk, p) <=> Blocked(mk2, p))
          /\ At(mk, p) = At(mk2, p)
      BY <1>4, SameAround
    <2>2. At(fs, p) = At(fs2, p)
      BY <1>3, SameAround
    <2>. QED
      BY <2>1, <2>2
  <1>6. d.pc = "done" => d.failed \/ Agree(d, mk2, of2)
    <2>. SUFFICES ASSUME d.pc = "done", ~ d.failed PROVE Agree(d, mk2, of2)
      OBVIOUS
    <2>1. Agree(c, mk, of)
      BY DEF CallMirrors
    <2>. QED
      BY <2>1, AgreesStill
  <1>7. d.pc \in {"mkdir", "open", "fill"} => Exempt(d) \/ Near(d, of2) \/ EditMirrors(d, fs2, mk2)
    <2>. SUFFICES ASSUME d.pc \in {"mkdir", "open", "fill"}, ~ Exempt(d), ~ Meets(p, apart)
                  PROVE  EditMirrors(d, fs2, mk2)
      BY DEF Near
    <2>1. EditMirrors(c, fs, mk)
      BY <1>2 DEF CallMirrors, Near, Exempt
    <2>2. /\ p \in DOMAIN mk <=> p \in DOMAIN mk2
          /\ p \in DOMAIN mk => mk[p] = mk2[p]
          /\ p \in DOMAIN fs <=> p \in DOMAIN fs2
      BY <1>5, AtOK
    <2>. QED
      BY <1>5, <2>1, <2>2 DEF EditMirrors
  <1>8. LookMirrors(d, mk2, of2)
    <2>1. LookMirrors(c, mk, of)
      BY DEF CallMirrors
    <2>2. c.pc \in {"list", "each"} /\ There(c, mk, of) => There(d, mk2, of2)
      <3>1. p = <<>> => Kind(mk2, p) # "none"
        BY DEF Kind
      <3>. QED
        BY <1>2, <1>5, <3>1 DEF There, Near
    <2>3. HitsMirror(c, mk, of) => HitsMirror(d, mk2, of2)
      <3>. SUFFICES ASSUME HitsMirror(c, mk, of) PROVE HitsMirror(d, mk2, of2)
        OBVIOUS
      <3>1. /\ IsFiniteSet(d.hits) /\ Cardinality(d.hits) < MaxMatches
            /\ \A q \in d.todo : Under(p, q)
            /\ \A h \in d.hits : h = <<h[1], h[2]>> /\ Under(p, h[1]) /\ h[1] \notin d.todo
        BY Zenon DEF HitsMirror
      <3>2. ASSUME NEW q \in DOMAIN mk2, q \notin apart
            PROVE  \/ Undecodable(mk2[q]) \/ ~ Under(p, q) \/ q \in d.todo
                   \/ \A i : <<q, i>> \in d.hits <=> i \in FullHits(Converted(mk2[q]), d.a.query)
        <4>1. q \in DOMAIN mk /\ mk[q] = mk2[q]
          BY <1>4, <3>2, AtOK
        <4>2. \/ Undecodable(mk[q]) \/ ~ Under(p, q) \/ q \in c.todo
              \/ \A i : <<q, i>> \in c.hits <=> i \in FullHits(Converted(mk[q]), c.a.query)
          BY <3>2, <4>1 DEF HitsMirror
        <4>. QED
          BY <4>1, <4>2
      <3>. QED
        BY <3>1, <3>2, Zenon DEF HitsMirror
    <2>4. Near(c, of) \/ p \in DOMAIN mk => Near(d, of2) \/ p \in DOMAIN mk2
      <3>1. ~ Meets(p, apart) /\ p \in DOMAIN mk => p \in DOMAIN mk2
        BY <1>5, AtOK
      <3>. QED
        BY <1>2, <3>1 DEF Near
    <2>. QED
      BY <2>1, <2>2, <2>3, <2>4 DEF LookMirrors, Looking
  <1>. QED
    BY <1>6, <1>7, <1>8 DEF CallMirrors

-----------------------------------------------------------------------------
\* A plain path names the same file on both sides.
LEMMA Suffix ==
    ASSUME NEW S, NEW r \in Seq(S), NEW s \in Seq(S)
    PROVE  SubSeq(r \o s, Len(r) + 1, Len(r \o s)) = s
  <1>. DEFINE all == r \o s
              cut == SubSeq(all, Len(r) + 1, Len(all))
  <1>1. /\ all \in Seq(S) /\ Len(all) = Len(r) + Len(s) /\ Len(r) \in Nat /\ Len(s) \in Nat
        /\ \A i \in 1 .. Len(s) : all[Len(r) + i] = s[i]
    OBVIOUS
  <1>. HIDE DEF all
  <1>2. cut = [i \in 1 .. Len(s) |-> s[i]]
    BY <1>1
  <1>. QED
    BY <1>2 DEF all

LEMMA PlainPath ==
    ASSUME ToolConstants, NEW a \in Acts, Mirrored(a)
    PROVE  /\ Target(a.path) = a.path.names /\ ~ a.path.abs /\ ~ Refused(a.path)
           /\ a.path.names # NoFile /\ ~ Outer(Target(a.path))
           /\ \A i \in DOMAIN Target(a.path) : Target(a.path)[i] \notin {"..", "/"}
  <1>. DEFINE names == a.path.names
  <1>1. a.path \in Paths /\ ~ a.path.abs /\ ~ Dotted(a.path) /\ ~ Refused(a.path)
    BY DEF ToolConstants, Mirrored, Plain
  <1>2. names \in Seq(STRING \ {"/"}) /\ names \in Seq(STRING)
    BY <1>1 DEF Paths
  <1>3. Root \in Seq(STRING) /\ NoFile \notin Seq(STRING)
    BY WorkspaceConstants DEF WorkspaceConstants
  <1>4. Resolve(a.path) = Root \o names
    BY <1>1 DEF Resolve, Relative
  <1>5. Target(a.path) = names
    BY <1>2, <1>3, <1>4, Suffix DEF Target, Below
  <1>6. \A i \in DOMAIN names : names[i] \notin {"..", "/"}
    BY <1>1, <1>2 DEF Dotted
  <1>7. ~ Outer(names)
    BY <1>2, <1>6 DEF Outer
  <1>. QED
    BY <1>1, <1>2, <1>3, <1>5, <1>6, <1>7

LEMMA PlainPlace ==
    ASSUME ToolConstants, NEW a \in Acts, Mirrored(a), NEW fs
    PROVE  /\ Place(fs, a.path) = Target(a.path) /\ WritePlace(fs, a) = Target(a.path)
           /\ <<>> \notin DOMAIN fs => Stands(fs, Target(a.path)) = Kind(fs, Target(a.path))
  <1>1. /\ Target(a.path) = a.path.names /\ a.path.names # NoFile
        /\ \A i \in DOMAIN Target(a.path) : Target(a.path)[i] \notin {"..", "/"}
    BY PlainPath
  <1>2. Plain(a.path)
    BY DEF Mirrored
  <1>3. a.path.names \in Seq(STRING)
    BY DEF ToolConstants, Paths
  <1>4. Above(a.path.names) => a.path.names = <<>>
    BY <1>1, <1>3 DEF Above
  <1>. QED
    BY <1>1, <1>2, <1>4 DEF Place, WritePlace, Stands, Kind

\* What a call in progress does not see of the mock.
LEMMA InStep ==
    ASSUME MirrorInv, NEW t \in Threads, Busy(t)
    PROVE  \A q : q \in off \cup calls[t].blur \/ At(files, q) = At(mock, q) \/ Filling(t, q)
  <1>. SUFFICES ASSUME NEW q, q \notin off \cup calls[t].blur, ~ Filling(t, q)
                PROVE  At(files, q) = At(mock, q)
    OBVIOUS
  <1>1. ASSUME NEW u \in Threads, Filling(u, q) PROVE FALSE
    <2>1. u # t /\ Busy(u) /\ calls[t].pc # "idle" /\ q \in Writes(calls[u].a)
      BY <1>1 DEF Filling, Busy
    <2>2. Writes(calls[u].a) \subseteq calls[t].blur
      BY <2>1 DEF MirrorInv, EditInv, CallsOK, BlurOK
    <2>. QED
      BY <2>1, <2>2
  <1>. QED
    BY <1>1 DEF MirrorInv, SameFiles

LEMMA ListedBelow ==
    ASSUME ToolConstants, MirrorInv, NEW t \in Threads, Mirrored(calls[t].a),
           calls[t].pc \in {"list", "each"}, ~ calls[t].a.scoped
    PROVE  Target(calls[t].a.path) = <<>>
  <1>1. calls[t].a \in Acts
    BY DEF MirrorInv, EditInv, CallsOK, CallOK, PcOK
  <1>2. calls[t].a.tool = "search"
    BY DEF MirrorInv, CallMirrors, LookMirrors
  <1>3. calls[t].a.path = Top
    BY <1>1, <1>2 DEF ToolConstants
  <1>. QED
    BY <1>1, <1>3, PlainPath DEF Top

\* A step of one call: the others are near where they were.
LEMMA OthersMirror ==
    ASSUME ToolConstants, MirrorInv, NEW t \in Threads, Moved(t), EditInv',
           MockOK', Tree(files'), off \subseteq off',
           \A q : q \in Writes(calls[t].a) \/ At(files, q) = At(files', q),
           \A q : q \in Writes(calls[t].a) \cup off' \/ At(mock, q) = At(mock', q),
           Mirrored(calls[t].a) => CallMirrors(calls'[t], files', mock', off'),
           \A q \in Writes(calls[t].a) :
              \/ q \in off' \/ At(files', q) = At(mock', q) \/ calls'[t].pc = "fill"
              \/ \E u \in Threads \ {t} : Filling(u, q)
    PROVE  MirrorInv'
  <1>1. /\ \A u \in Threads \ {t} : calls'[u] = calls[u]
        /\ Busy(t) /\ calls'[t].a = calls[t].a
    BY DEF Moved, Keeps
  <1>2. ASSUME NEW u \in Threads \ {t}, Mirrored(calls[u].a)
        PROVE  CallMirrors(calls'[u], files', mock', off')
    <2>1. CallMirrors(calls[u], files, mock, off)
      BY <1>2 DEF MirrorInv
    <2>2. FilesOK(files) /\ FilesOK(files') /\ FilesOK(mock) /\ FilesOK(mock')
      BY DEF MirrorInv, EditInv, MockOK
    <2>3. CASE calls[u].pc = "idle"
      BY <1>1, <2>3 DEF CallMirrors, LookMirrors, Looking
    <2>4. CASE calls[u].pc # "idle"
      <3>1. Writes(calls[t].a) \subseteq calls[u].blur
        BY <1>1, <2>4 DEF MirrorInv, EditInv, CallsOK, BlurOK
      <3>2. \A q : q \in off' \cup calls[u].blur \/ At(files, q) = At(files', q)
        BY <3>1
      <3>3. \A q : q \in off' \cup calls[u].blur \/ At(mock, q) = At(mock', q)
        BY <3>1
      <3>4. calls[u].pc \in {"list", "each"} /\ ~ calls[u].a.scoped
                => Target(calls[u].a.path) = <<>>
        BY <1>2, ListedBelow
      <3>5. CallMirrors(calls[u], files', mock', off')
        BY <2>1, <2>2, <3>2, <3>3, <3>4, MirrorsStill
      <3>. QED
        BY <1>1, <3>5
    <2>. QED
      BY <2>3, <2>4
  <1>3. ASSUME NEW q
        PROVE  \/ q \in off' \/ At(files', q) = At(mock', q)
               \/ \E u \in Threads : calls'[u].pc = "fill" /\ q \in Writes(calls'[u].a)
    <2>1. CASE q \in Writes(calls[t].a)
      BY <1>1, <2>1 DEF Filling
    <2>2. CASE q \notin Writes(calls[t].a) /\ q \notin off'
      <3>1. q \in off \/ At(files, q) = At(mock, q) \/ \E u \in Threads : Filling(u, q)
        BY DEF MirrorInv, SameFiles
      <3>2. At(files', q) = At(files, q) /\ At(mock', q) = At(mock, q)
        BY <2>2
      <3>3. ~ Filling(t, q)
        BY <2>2 DEF Filling
      <3>. QED
        BY <1>1, <3>1, <3>2, <3>3 DEF Filling
    <2>. QED
      BY <2>1, <2>2
  <1>4. SameFiles'
    BY <1>3 DEF SameFiles, Filling
  <1>5. ASSUME NEW u \in Threads, Mirrored(calls'[u].a)
        PROVE  CallMirrors(calls'[u], files', mock', off')
    <2>1. CASE u = t
      BY <1>1, <1>5, <2>1
    <2>2. CASE u # t
      BY <1>1, <1>2, <1>5, <2>2
    <2>. QED
      BY <2>1, <2>2
  <1>. QED
    BY <1>4, <1>5 DEF MirrorInv, Mirrored

\* A step that changes neither the mock nor, unless it is about to fill it, a file.
LEMMA QuietMirrors ==
    ASSUME ToolConstants, MirrorInv, NEW t \in Threads, Moved(t), EditInv',
           UNCHANGED <<mock, off>>, calls[t].pc # "fill", Tree(files'),
           \/ files' = files
           \/ /\ calls'[t].pc = "fill"
              /\ \A q : q \in Writes(calls[t].a) \/ At(files, q) = At(files', q),
           Mirrored(calls[t].a) => CallMirrors(calls'[t], files', mock, off)
    PROVE  MirrorInv'
  <1>1. MockOK' /\ off \subseteq off'
    BY DEF MirrorInv, MockOK, FilesOK
  <1>2. /\ \A q : q \in Writes(calls[t].a) \/ At(files, q) = At(files', q)
        /\ \A q : q \in Writes(calls[t].a) \cup off' \/ At(mock, q) = At(mock', q)
        /\ Mirrored(calls[t].a) => CallMirrors(calls'[t], files', mock', off')
    OBVIOUS
  <1>3. ASSUME NEW q \in Writes(calls[t].a), files' = files
        PROVE  \/ q \in off' \/ At(files', q) = At(mock', q)
               \/ \E u \in Threads \ {t} : Filling(u, q)
    <2>1. q \in off \/ At(files, q) = At(mock, q) \/ \E u \in Threads : Filling(u, q)
      BY DEF MirrorInv, SameFiles
    <2>2. ~ Filling(t, q)
      BY DEF Filling
    <2>. QED
      BY <1>3, <2>1, <2>2
  <1>. QED
    BY <1>1, <1>2, <1>3, OthersMirror

LEMMA ReplacingOK ==
    ASSUME NEW content \in Text
    PROVE  /\ Replacing(content) \in Text
           /\ ~ Undecodable(content) => Replacing(content) = content
  <1>1. "?" \in Symbols /\ content \in Seq(Symbols)
    BY WorkspaceConstants DEF WorkspaceConstants, Text
  <1>. QED
    BY <1>1 DEF Replacing, Undecodable, Text

LEMMA MockTextOK ==
    ASSUME NEW fs, FilesOK(fs), NEW p
    PROVE  /\ MockText(fs, p) \in Text \cup {NoFile}
           /\ p \in DOMAIN fs => MockText(fs, p) \in Text
           /\ p \in DOMAIN fs /\ ~ Undecodable(fs[p]) => MockText(fs, p) = Converted(fs[p])
  <1>1. CASE p \in DOMAIN fs
    <2>1. fs[p] \in Text
      BY <1>1 DEF FilesOK
    <2>2. /\ Replacing(fs[p]) \in Text
          /\ ~ Undecodable(fs[p]) => Replacing(fs[p]) = fs[p]
      BY <2>1, ReplacingOK
    <2>3. Converted(Replacing(fs[p])) \in Text
      BY <2>2, ConvertedOK, WorkspaceConstants
    <2>. QED
      BY <1>1, <2>2, <2>3 DEF MockText
  <1>2. CASE p \notin DOMAIN fs
    BY <1>2 DEF MockText
  <1>. QED
    BY <1>1, <1>2

\* A call of the mock changes one file, if any.
LEMMA MockFilesOK ==
    ASSUME ToolConstants, NEW a \in Acts, FilesOK(mock)
    PROVE  \/ MockFiles(mock, a) = mock
           \/ \E w \in MockWrites(a), content \in Text \cup {NoFile} :
                 /\ content = NoFile \/ w # <<>> \/ <<>> \in DOMAIN mock
                 /\ MockFiles(mock, a) = With(mock, w, content)
  <1>1. CASE a.tool = "bash"
    <2>1. Target(a.path) \in MockWrites(a) /\ a.new \in Text \cup {NoFile}
      BY <1>1 DEF MockWrites, ToolConstants
    <2>2. MockFiles(mock, a) = Shell(mock, Target(a.path), a.new)
      BY <1>1, Zenon DEF MockFiles
    <2>3. MockFiles(mock, a) = mock \/ MockFiles(mock, a) = With(mock, Target(a.path), a.new)
      BY <2>2 DEF Shell
    <2>4. a.new # NoFile /\ Target(a.path) = <<>> /\ <<>> \notin DOMAIN mock => MockFiles(mock, a) = mock
      BY <2>2 DEF Shell, Kind
    <2>. QED
      BY <2>1, <2>3, <2>4
  <1>2. CASE a.tool = "replace" /\ MockReplaceObs(mock, a) = Ok
    <2>. DEFINE p == Place(mock, a.path)
                w == WritePlace(mock, a)
                text == MockText(mock, p)
    <2>1. MockFiles(mock, a) = With(mock, w, Edited(text, a))
      BY <1>2 DEF MockFiles
    <2>2. /\ Ok # Raises /\ Ok.error = "none" /\ Raises.error # "none"
          /\ \A why : Err(why).error = why
      BY DEF Ok, Shows, Raises, Err
    <2>3. a.old # "" => w = p
      BY DEF WritePlace
    <2>4. \A q : q = <<>> => Stands(mock, q) # "file"
      BY DEF Stands, Above
    <2>5. CASE a.old = ""
      <3>1. w # NoFile /\ Stands(mock, w) # "dir"
        BY <1>2, <2>2, <2>5 DEF MockReplaceObs
      <3>2. w # <<>>
        BY <3>1 DEF Stands, Above
      <3>3. text \in Text \cup {NoFile}
        BY MockTextOK
      <3>. HIDE DEF text
      <3>4. Edited(text, a) \in Text
        BY <1>2, <2>5, <3>3, EditedOK
      <3>5. w \in MockWrites(a)
        BY <1>2, <3>1 DEF MockWrites
      <3>. QED
        BY <2>1, <3>2, <3>4, <3>5
    <2>6. CASE a.old # ""
      <3>. DEFINE why == ReplaceError(text, a.old)
      <3>1. Stands(mock, p) \in {"none", "dir", "file"}
        BY DEF Stands, Kind
      <3>. HIDE DEF why
      <3>2. MockReplaceObs(mock, a) =
              (CASE Stands(mock, p) = "none" -> Err("not found")
                 [] Stands(mock, p) = "dir"  -> Raises
                 [] Stands(mock, p) = "file" -> IF why = "none" THEN Ok ELSE Err(why))
        BY <2>6 DEF MockReplaceObs, why
      <3>3. Stands(mock, p) = "file" /\ why = "none"
        <4>1. CASE Stands(mock, p) = "none"
          BY <1>2, <2>2, <3>2, <4>1
        <4>2. CASE Stands(mock, p) = "dir"
          BY <1>2, <2>2, <3>2, <4>2
        <4>3. CASE Stands(mock, p) = "file"
          <5>1. MockReplaceObs(mock, a) = IF why = "none" THEN Ok ELSE Err(why)
            BY <3>2, <4>3
          <5>. QED
            BY <1>2, <2>2, <4>3, <5>1
        <4>. QED
          BY <3>1, <4>1, <4>2, <4>3
      <3>4. p # NoFile /\ p # <<>> /\ p \in DOMAIN mock
        BY <2>4, <3>3 DEF Stands, Kind
      <3>5. text \in Text
        BY <3>4, MockTextOK
      <3>. HIDE DEF text
      <3>6. Edited(text, a) \in Text
        BY <1>2, <3>3, <3>5, EditedOK DEF why
      <3>7. w \in MockWrites(a)
        BY <1>2, <2>3, <2>6, <3>4 DEF MockWrites
      <3>. QED
        BY <2>1, <2>3, <2>6, <3>4, <3>6, <3>7
    <2>. QED
      BY <2>5, <2>6
  <1>3. CASE a.tool # "bash" /\ ~ (a.tool = "replace" /\ MockReplaceObs(mock, a) = Ok)
    BY <1>3 DEF MockFiles
  <1>. QED
    BY <1>1, <1>2, <1>3

LEMMA GivenOK ==
    ASSUME ToolConstants, MockOK, NEW c, c.a \in Acts, Given(c)
    PROVE  /\ MockOK' /\ off \subseteq off'
           /\ \A q : q \in Writes(c.a) \cup off' \/ At(mock, q) = At(mock', q)
  <1>1. mock' = MockFiles(mock, c.a) /\ off' = off \cup Doubt(c)
    BY DEF Given
  <1>2. CASE mock' = mock
    BY <1>1, <1>2 DEF MockOK, FilesOK
  <1>3. ASSUME NEW w \in MockWrites(c.a), NEW content \in Text \cup {NoFile},
               content = NoFile \/ w # <<>>, mock' = With(mock, w, content)
        PROVE  /\ MockOK' /\ off \subseteq off'
               /\ \A q : q \in Writes(c.a) \cup off' \/ At(mock, q) = At(mock', q)
    <2>1. /\ w \in Writes(c.a) \cup off'
          /\ Outer(w) => w \in off'
      <3>1. CASE Mirrored(c.a)
        <4>1. w = Target(c.a.path) /\ c.a.tool \in {"replace", "bash"}
          BY <1>3, <3>1, PlainPlace DEF MockWrites
        <4>. QED
          BY <3>1, <4>1, PlainPath DEF Writes
      <3>2. CASE ~ Mirrored(c.a)
        BY <1>1, <1>3, <3>2 DEF Doubt
      <3>. QED
        BY <3>1, <3>2
    <2>2. FilesOK(mock')
      BY <1>3, WithFiles DEF MockOK
    <2>3. IsFiniteSet(DOMAIN mock')
      <3>1. IsFiniteSet(DOMAIN mock \cup {w})
        BY FS_AddElement DEF MockOK
      <3>2. DOMAIN mock' \subseteq DOMAIN mock \cup {w}
        BY <1>3 DEF With
      <3>. QED
        BY <3>1, <3>2, FS_Subset
    <2>4. \A q : q # w => At(mock', q) = At(mock, q)
      BY <1>3, WithOK
    <2>5. \A q \in DOMAIN mock' : q = w \/ q \in DOMAIN mock
      BY <1>3 DEF With
    <2>6. <<>> \notin DOMAIN mock'
      BY <1>3 DEF With, MockOK
    <2>7. \A q \in DOMAIN mock' : Outer(q) => q \in off'
      BY <1>1, <2>1, <2>5 DEF MockOK
    <2>8. MockOK'
      BY <2>2, <2>3, <2>6, <2>7 DEF MockOK, FilesOK
    <2>. QED
      BY <1>1, <2>1, <2>4, <2>8
  <1>4. \/ mock' = mock
        \/ \E w \in MockWrites(c.a), content \in Text \cup {NoFile} :
              /\ content = NoFile \/ w # <<>>
              /\ mock' = With(mock, w, content)
    BY <1>1, MockFilesOK DEF MockOK
  <1>. QED
    BY <1>2, <1>3, <1>4

\* A call ends, and the mock is given it.
LEMMA EndsMirror ==
    ASSUME ToolConstants, MirrorInv, NEW t \in Threads, Moved(t), EditInv',
           NEW c, Keeps(c, calls[t]), NEW obs, Reply(t, c, obs), Tree(files'),
           \A q : q \in Writes(calls[t].a) \/ At(files, q) = At(files', q),
           \/ c.failed \/ ~ Mirrored(c.a)
           \/ Agree(Answered(c, obs), MockFiles(mock, c.a), off \cup Doubt(c)),
           \A q \in Writes(c.a) :
              q \in off \cup Doubt(c) \/ At(files', q) = At(MockFiles(mock, c.a), q)
    PROVE  MirrorInv'
  <1>. DEFINE b == calls[t]
  <1>1. DOMAIN c = Fields /\ c.a = b.a
    BY DEF Keeps
  <1>2. b.a \in Acts
    BY DEF Moved, Busy, MirrorInv, EditInv, CallsOK, CallOK, PcOK
  <1>3. Given(c) /\ mock' = MockFiles(mock, c.a) /\ off' = off \cup Doubt(c)
    BY DEF Reply, Given
  <1>4. calls' = [calls EXCEPT ![t] = Answered(c, obs)]
    BY Zenon DEF Reply, Update, Answered
  <1>5. calls'[t] = Answered(c, obs)
    BY <1>4 DEF MirrorInv, EditInv, CallsOK
  <1>6. Answered(c, obs).pc = "done" /\ Answered(c, obs).failed = c.failed
    BY <1>1, AnsweredOK
  <1>7. /\ MockOK' /\ off \subseteq off'
        /\ \A q : q \in Writes(b.a) \cup off' \/ At(mock, q) = At(mock', q)
    <2>1. MockOK
      BY DEF MirrorInv
    <2>. QED
      BY <1>1, <1>2, <1>3, <2>1, GivenOK
  <1>8. Mirrored(b.a) => CallMirrors(calls'[t], files', mock', off')
    BY <1>1, <1>3, <1>5, <1>6 DEF CallMirrors, LookMirrors, Looking
  <1>9. \A q \in Writes(b.a) : q \in off' \/ At(files', q) = At(mock', q)
    BY <1>1, <1>3
  <1>. QED
    BY <1>7, <1>8, <1>9, OthersMirror

\* What the mock answers when it takes the path for what the tools take it.
LEMMA MirrorView ==
    ASSUME ToolConstants, NEW a \in Acts, Mirrored(a), <<>> \notin DOMAIN mock
    PROVE  LET p == Target(a.path)
           IN  /\ Kind(mock, p) = "none" => MockView(mock, a) = Err("not found")
               /\ Kind(mock, p) = "dir" => MockView(mock, a) = Err("directory")
               /\ Kind(mock, p) = "file" => MockView(mock, a) = View(p, MockText(mock, p), a)
  BY PlainPlace DEF MockView

LEMMA MirrorReplace ==
    ASSUME ToolConstants, NEW a \in Acts, Mirrored(a), <<>> \notin DOMAIN mock
    PROVE  LET p == Target(a.path)
               why == ReplaceError(MockText(mock, p), a.old)
           IN  /\ a.old = "" => MockReplaceObs(mock, a) =
                     IF Kind(mock, p) = "dir" \/ Blocked(mock, p) THEN Raises ELSE Ok
               /\ a.old # "" /\ Kind(mock, p) = "none" => MockReplaceObs(mock, a) = Err("not found")
               /\ a.old # "" /\ Kind(mock, p) = "dir" => MockReplaceObs(mock, a) = Raises
               /\ a.old # "" /\ Kind(mock, p) = "file" =>
                     MockReplaceObs(mock, a) = IF why = "none" THEN Ok ELSE Err(why)
               /\ a.tool = "replace" /\ MockReplaceObs(mock, a) = Ok =>
                     MockFiles(mock, a) = With(mock, p, Edited(MockText(mock, p), a))
  <1>. DEFINE p == Target(a.path)
              why == ReplaceError(MockText(mock, p), a.old)
  <1>1. /\ Place(mock, a.path) = p /\ WritePlace(mock, a) = p /\ Stands(mock, p) = Kind(mock, p)
    BY PlainPlace
  <1>2. p # NoFile
    BY PlainPath
  <1>3. a.tool = "replace" /\ MockReplaceObs(mock, a) = Ok =>
            MockFiles(mock, a) = With(mock, p, Edited(MockText(mock, p), a))
    BY <1>1 DEF MockFiles
  <1>4. a.old = "" => MockReplaceObs(mock, a) =
            IF Kind(mock, p) = "dir" \/ Blocked(mock, p) THEN Raises ELSE Ok
    BY <1>1, <1>2 DEF MockReplaceObs
  <1>. HIDE DEF p, why
  <1>5. a.old # "" => MockReplaceObs(mock, a) =
            (CASE Kind(mock, p) = "none" -> Err("not found")
               [] Kind(mock, p) = "dir"  -> Raises
               [] Kind(mock, p) = "file" -> IF why = "none" THEN Ok ELSE Err(why))
    BY <1>1 DEF MockReplaceObs, why
  <1>6. a.old # "" /\ Kind(mock, p) = "none" => MockReplaceObs(mock, a) = Err("not found")
    BY <1>5
  <1>7. a.old # "" /\ Kind(mock, p) = "dir" => MockReplaceObs(mock, a) = Raises
    BY <1>5
  <1>8. a.old # "" /\ Kind(mock, p) = "file" =>
            MockReplaceObs(mock, a) = IF why = "none" THEN Ok ELSE Err(why)
    BY <1>5
  <1>. QED
    BY <1>3, <1>4, <1>6, <1>7, <1>8 DEF p, why

MockHits(a) ==
    UNION {{<<q, i>> : i \in FileHits(MockText(mock, q), a.query, MaxMatches)} :
           q \in {r \in DOMAIN mock : Under(Target(a.path), r) /\ ~ Outer(r)}}

LEMMA MirrorSearch ==
    ASSUME ToolConstants, NEW a \in Acts, Mirrored(a), <<>> \notin DOMAIN mock, a.query # BadRegex
    PROVE  LET p == Target(a.path)
           IN  /\ Kind(mock, p) = "none" => MockSearch(mock, a) = Err("not found")
               /\ Kind(mock, p) # "none" => MockSearch(mock, a) =
                     Shows(MockHits(a), Cardinality(MockHits(a)) >= MaxMatches)
  <1>. DEFINE p == Target(a.path)
              reached == {q \in DOMAIN mock : Under(p, q) /\ (Outer(q) => Outer(p))}
              hits == UNION {{<<q, i>> : i \in FileHits(MockText(mock, q), a.query, MaxMatches)} :
                             q \in reached}
  <1>1. Place(mock, a.path) = p /\ Stands(mock, p) = Kind(mock, p)
    BY PlainPlace
  <1>2. ~ Outer(p) /\ ~ a.path.abs
    BY PlainPath
  <1>3. reached = {r \in DOMAIN mock : Under(p, r) /\ ~ Outer(r)}
    BY <1>2
  <1>4. hits = MockHits(a)
    BY <1>3 DEF MockHits
  <1>5. MockSearch(mock, a) = IF Kind(mock, p) = "none" THEN Err("not found")
                              ELSE Shows(hits, Cardinality(hits) >= MaxMatches)
    BY <1>1, <1>2 DEF MockSearch
  <1>. HIDE DEF hits
  <1>. QED
    BY <1>4, <1>5

-----------------------------------------------------------------------------
\* A call that looks: it writes nothing, and sees the mock but for what is in doubt.
LEMMA InLook ==
    ASSUME MirrorInv, NEW t \in Threads, calls[t].pc \in Looking, Mirrored(calls[t].a)
    PROVE  LET b == calls[t]
               p == Target(b.a.path)
           IN  /\ Busy(t) /\ b.a \in Acts /\ ~ Refused(b.a.path) /\ b.a.tool \in {"search", "view"}
               /\ CallOK(b) /\ LookMirrors(b, mock, off)
               /\ DOMAIN b = Fields /\ Keeps(b, b) /\ Keeps(Failed(b), b) /\ Failed(b).failed
               /\ \A q : q \in off \cup b.blur \/ At(files, q) = At(mock, q)
               /\ ~ Near(b, off) => Kind(files, p) = Kind(mock, p) /\ At(files, p) = At(mock, p)
               /\ FilesOK(files) /\ FilesOK(mock) /\ IsFiniteSet(DOMAIN mock) /\ <<>> \notin DOMAIN mock
               /\ \A q \in DOMAIN mock : Outer(q) => q \in off
  <1>. DEFINE b == calls[t]
              p == Target(b.a.path)
              apart == off \cup b.blur
  <1>1. CallOK(b) /\ Busy(t)
    BY DEF MirrorInv, EditInv, CallsOK, Busy, Looking
  <1>2. b.a \in Acts /\ ~ Refused(b.a.path) /\ b.a.tool \in {"search", "view"}
    BY <1>1 DEF CallOK, PcOK, Looking
  <1>3. LookMirrors(b, mock, off)
    BY DEF MirrorInv, CallMirrors
  <1>4. \A q : q \in apart \/ At(files, q) = At(mock, q)
    BY <1>1, InStep DEF Filling, Looking
  <1>5. /\ FilesOK(files) /\ FilesOK(mock) /\ IsFiniteSet(DOMAIN mock) /\ <<>> \notin DOMAIN mock
        /\ \A q \in DOMAIN mock : Outer(q) => q \in off
    BY DEF MirrorInv, EditInv, MockOK
  <1>6. ~ Near(b, off) => Kind(files, p) = Kind(mock, p) /\ At(files, p) = At(mock, p)
    <2>. HIDE DEF apart, p
    <2>1. ~ Meets(p, apart) => Kind(files, p) = Kind(mock, p) /\ At(files, p) = At(mock, p)
      BY <1>4, <1>5, SameAround
    <2>. QED
      BY <2>1 DEF Near, apart, p
  <1>. HIDE DEF b
  <1>7. DOMAIN b = Fields /\ Keeps(b, b) /\ Keeps(Failed(b), b) /\ Failed(b).failed
    BY <1>1, Failing
  <1>. QED
    BY <1>1, <1>2, <1>3, <1>4, <1>5, <1>6, <1>7 DEF b

LEMMA LookEnds ==
    ASSUME ToolConstants, MirrorInv, NEW t \in Threads, calls[t].pc \in Looking, Moved(t), EditInv',
           Mirrored(calls[t].a),
           files' = files, NEW c, Keeps(c, calls[t]), NEW obs, Reply(t, c, obs),
           c.failed \/ Agree(Answered(c, obs), mock, off)
    PROVE  MirrorInv'
  <1>1. DOMAIN c = Fields /\ c.a = calls[t].a /\ c.a.tool \in {"search", "view"}
    BY InLook DEF Keeps
  <1>2. Writes(c.a) = {} /\ MockFiles(mock, c.a) = mock
    BY <1>1 DEF Writes, MockFiles
  <1>3. c.failed \/ Agree(Answered(c, obs), mock, off \cup Doubt(c))
    <2>. DEFINE d == Answered(c, obs)
                apart == off \cup Doubt(c)
    <2>1. FilesOK(mock) /\ off \subseteq apart
      BY InLook
    <2>. HIDE DEF d, apart
    <2>2. Agree(d, mock, off) => Agree(d, mock, apart)
      BY <2>1, AgreesStill
    <2>. QED
      BY <2>2 DEF d, apart
  <1>4. Tree(files')
    BY DEF MirrorInv
  <1>. QED
    BY <1>1, <1>2, <1>3, <1>4, EndsMirror

LEMMA Viewed ==
    ASSUME NEW c, DOMAIN c = Fields, c.a.tool = "view", ~ Refused(c.a.path), NEW obs, NEW of, NEW mk,
           \/ obs = MockView(mock, c.a) \/ Near(c, of)
           \/ LET p == Target(c.a.path) IN obs = Raises /\ p \in DOMAIN mk /\ Undecodable(mk[p])
    PROVE  Agree(Answered(c, obs), mk, of)
  <1>. DEFINE d == Answered(c, obs)
  <1>1. d.a = c.a /\ d.blur = c.blur /\ d.obs = obs /\ d.mock = MockView(mock, c.a)
    BY DEF Answered, MockObs, Fields
  <1>. HIDE DEF d
  <1>2. Agree(d, mk, of)
    BY <1>1 DEF Agree, Near
  <1>. QED
    BY <1>2 DEF d

LEMMA Searched ==
    ASSUME NEW c, DOMAIN c = Fields, c.a.tool = "search", ~ Refused(c.a.path), NEW obs, NEW of,
           obs.error = MockSearch(mock, c.a).error \/ (c.a.scoped /\ Near(c, of)),
           \/ obs.more \/ MockSearch(mock, c.a).more
           \/ LET sure == {q \in DOMAIN mock \ (of \cup c.blur) : ~ Undecodable(mock[q])}
              IN  Found(obs, sure) = Found(MockSearch(mock, c.a), sure)
    PROVE  Agree(Answered(c, obs), mock, of)
  <1>. DEFINE d == Answered(c, obs)
              m == MockSearch(mock, c.a)
              sure == {q \in DOMAIN mock \ (of \cup c.blur) : ~ Undecodable(mock[q])}
  <1>1. d.a = c.a /\ d.blur = c.blur /\ d.obs = obs /\ d.mock = m
    BY DEF Answered, MockObs, Fields
  <1>2. obs.more \/ m.more \/ Found(obs, sure) = Found(m, sure)
    OBVIOUS
  <1>3. obs.error = m.error \/ (c.a.scoped /\ Near(c, of))
    OBVIOUS
  <1>4. sure = {q \in DOMAIN mock \ (of \cup d.blur) : ~ Undecodable(mock[q])}
    BY <1>1
  <1>. HIDE DEF d, m, sure
  <1>5. Agree(d, mock, of)
    BY <1>1, <1>2, <1>3, <1>4 DEF Agree, Near
  <1>. QED
    BY <1>5 DEF d

LEMMA InLooks ==
    ASSUME ToolConstants, MirrorInv, NEW t \in Threads, Looks(t)
    PROVE  Moved(t) /\ EditInv' /\ files' = files /\ calls[t].pc \in Looking
  <1>1. EditInv /\ CallsOK
    BY DEF MirrorInv, EditInv
  <1>2. Moved(t) /\ files' = files /\ calls[t].pc \in Looking
    BY <1>1, LookingOK
  <1>3. ToolStep(t)
    BY DEF Looks, ToolStep
  <1>. QED
    BY <1>1, <1>2, <1>3, StepsKeep

\* A look that goes on.
LEMMA LookGoes ==
    ASSUME ToolConstants, MirrorInv, NEW t \in Threads, calls[t].pc \in Looking, Moved(t), EditInv',
           UNCHANGED <<files, mock, off>>, NEW d, calls' = [calls EXCEPT ![t] = d],
           d.pc \in Looking, LookMirrors(d, mock, off)
    PROVE  MirrorInv'
  <1>1. calls'[t] = d
    BY DEF MirrorInv, EditInv, CallsOK
  <1>2. CallMirrors(d, files, mock, off)
    BY DEF CallMirrors, Looking
  <1>3. Tree(files')
    BY DEF MirrorInv
  <1>. QED
    BY <1>1, <1>2, <1>3, QuietMirrors DEF Looking

LEMMA NoHitsYet == IsFiniteSet({}) /\ Cardinality({}) < MaxMatches
  BY FS_EmptySet, WorkspaceConstants DEF WorkspaceConstants

LEMMA StatMirrors ==
    ASSUME ToolConstants, MirrorInv, NEW t \in Threads, Mirrored(calls[t].a), Stat(t)
    PROVE  MirrorInv'
  <1>. DEFINE b == calls[t]
              p == Target(b.a.path)
              kind == Kind(files, p)
              list == [b EXCEPT !.pc = "list"]
              each == [b EXCEPT !.pc = "each", !.todo = {p}]
              show == [b EXCEPT !.pc = "show"]
  <1>1. Moved(t) /\ EditInv' /\ files' = files /\ b.pc \in Looking /\ b.pc = "stat"
    BY InLooks DEF Looks, Stat
  <1>2. /\ b.a \in Acts /\ ~ Refused(b.a.path) /\ b.a.tool \in {"search", "view"}
        /\ LookMirrors(b, mock, off) /\ DOMAIN b = Fields
        /\ Keeps(b, b) /\ Keeps(Failed(b), b) /\ Failed(b).failed
        /\ \A q : q \in off \cup b.blur \/ At(files, q) = At(mock, q)
        /\ ~ Near(b, off) => kind = Kind(mock, p) /\ At(files, p) = At(mock, p)
        /\ FilesOK(files) /\ FilesOK(mock) /\ <<>> \notin DOMAIN mock
    BY <1>1, InLook
  <1>3. kind \in {"none", "dir", "file"}
    BY DEF Kind
  <1>4. \/ Reply(t, Failed(b), Err("not found"))
        \/ kind = "none" /\ Reply(t, b, Err("not found"))
        \/ kind = "dir" /\ b.a.tool = "view" /\ Reply(t, b, Err("directory"))
        \/ /\ kind = "dir" /\ b.a.tool = "search"
           /\ UNCHANGED <<mock, off>> /\ calls' = [calls EXCEPT ![t] = list]
        \/ /\ kind = "file" /\ b.a.tool = "search"
           /\ UNCHANGED <<mock, off>> /\ calls' = [calls EXCEPT ![t] = each]
        \/ /\ kind = "file" /\ b.a.tool = "view"
           /\ UNCHANGED <<mock, off>> /\ calls' = [calls EXCEPT ![t] = show]
    BY <1>2, <1>3 DEF Stat, GoTo, Update, Keep
  <1>5. CASE Reply(t, Failed(b), Err("not found"))
    BY <1>1, <1>2, <1>5, LookEnds
  <1>6. CASE kind = "none" /\ Reply(t, b, Err("not found"))
    <2>1. CASE b.a.tool = "view"
      <3>1. ~ Near(b, off) => Err("not found") = MockView(mock, b.a)
        BY <1>2, <1>6, MirrorView
      <3>2. Agree(Answered(b, Err("not found")), mock, off)
        BY <1>2, <2>1, <3>1, Viewed
      <3>. QED
        BY <1>1, <1>2, <1>6, <3>2, LookEnds
    <2>2. CASE b.a.tool = "search"
      <3>. DEFINE m == MockSearch(mock, b.a)
                  obs == Err("not found")
                  sure == {q \in DOMAIN mock \ (off \cup b.blur) : ~ Undecodable(mock[q])}
      <3>1. b.a.scoped /\ b.a.query # BadRegex
        BY <1>1, <1>2, <2>2 DEF LookMirrors
      <3>2. CASE Kind(mock, p) = "none"
        <4>1. m = obs
          BY <1>2, <3>1, <3>2, MirrorSearch
        <4>2. Agree(Answered(b, obs), mock, off)
          BY <1>2, <2>2, <4>1, Searched
        <4>. QED
          BY <1>1, <1>2, <1>6, <4>2, LookEnds
      <3>3. CASE Kind(mock, p) # "none"
        <4>1. Near(b, off)
          BY <1>2, <1>6, <3>3
        <4>2. ~ \E q \in sure : Under(p, q)
          <5>. SUFFICES ASSUME NEW q \in sure, Under(p, q) PROVE FALSE
            OBVIOUS
          <5>1. q \in DOMAIN files
            BY <1>2, AtOK
          <5>. QED
            BY <1>6, <5>1 DEF Kind, Under
        <4>3. \A h \in m.data : Under(p, h[1])
          <5>1. m = Shows(MockHits(b.a), Cardinality(MockHits(b.a)) >= MaxMatches)
            BY <1>2, <3>1, <3>3, MirrorSearch
          <5>2. m.data = MockHits(b.a)
            BY <5>1 DEF Shows
          <5>. QED
            BY <5>2 DEF MockHits
        <4>4. Found(m, sure) = {} /\ Found(obs, sure) = {}
          BY <4>2, <4>3 DEF Found, Err
        <4>. HIDE DEF obs, m
        <4>5. Agree(Answered(b, obs), mock, off)
          BY <1>2, <2>2, <3>1, <4>1, <4>4, Searched DEF m
        <4>. QED
          BY <1>1, <1>2, <1>6, <4>5, LookEnds DEF obs
      <3>. QED
        BY <3>2, <3>3
    <2>. QED
      BY <1>2, <2>1, <2>2
  <1>7. CASE kind = "dir" /\ b.a.tool = "view" /\ Reply(t, b, Err("directory"))
    <2>1. ~ Near(b, off) => Err("directory") = MockView(mock, b.a)
      BY <1>2, <1>7, MirrorView
    <2>2. Agree(Answered(b, Err("directory")), mock, off)
      BY <1>2, <1>7, <2>1, Viewed
    <2>. QED
      BY <1>1, <1>2, <1>7, <2>2, LookEnds
  <1>8. /\ list.pc = "list" /\ list.a = b.a /\ list.blur = b.blur /\ list.hits = b.hits
        /\ list.failed = b.failed
        /\ each.pc = "each" /\ each.a = b.a /\ each.blur = b.blur /\ each.hits = b.hits
        /\ each.failed = b.failed /\ each.todo = {p}
        /\ show.pc = "show" /\ show.a = b.a /\ show.blur = b.blur
    BY <1>2 DEF Fields
  <1>9. b.hits = {} /\ (b.a.tool = "search" => b.a.scoped /\ b.a.query # BadRegex)
    BY <1>1, <1>2 DEF LookMirrors
  <1>10. b.a.tool = "search" /\ kind # "none" =>
            (b.a.scoped /\ Near(b, off)) \/ Kind(mock, p) # "none"
    BY <1>2, <1>9
  <1>. HIDE DEF list, each, show
  <1>11. CASE /\ kind = "dir" /\ b.a.tool = "search"
              /\ UNCHANGED <<mock, off>> /\ calls' = [calls EXCEPT ![t] = list]
    <2>1. LookMirrors(list, mock, off)
      BY <1>8, <1>9, <1>10, <1>11 DEF LookMirrors, There, Near
    <2>. QED
      BY <1>1, <1>8, <1>11, <2>1, LookGoes DEF Looking
  <1>12. CASE /\ kind = "file" /\ b.a.tool = "search"
              /\ UNCHANGED <<mock, off>> /\ calls' = [calls EXCEPT ![t] = each]
    <2>1. p \in DOMAIN files
      BY <1>12 DEF Kind
    <2>2. ASSUME NEW q \in DOMAIN mock, q \notin off \cup b.blur, Under(p, q)
          PROVE  q = p
      <3>1. Tree(files)
        BY DEF MirrorInv
      <3>2. q \in DOMAIN files
        BY <1>2, <2>2, AtOK
      <3>. QED
        BY <2>1, <2>2, <3>1, <3>2 DEF Tree, Under
    <2>3. HitsMirror(each, mock, off)
      BY <1>8, <1>9, <2>2, NoHitsYet DEF HitsMirror, Under
    <2>4. LookMirrors(each, mock, off)
      BY <1>8, <1>9, <1>10, <1>12, <2>3 DEF LookMirrors, There, Near
    <2>. QED
      BY <1>1, <1>8, <1>12, <2>4, LookGoes DEF Looking
  <1>13. CASE /\ kind = "file" /\ b.a.tool = "view"
              /\ UNCHANGED <<mock, off>> /\ calls' = [calls EXCEPT ![t] = show]
    <2>1. Near(b, off) \/ p \in DOMAIN mock
      <3>1. p \in DOMAIN files
        BY <1>13 DEF Kind
      <3>. QED
        BY <1>2, <3>1, AtOK
    <2>2. LookMirrors(show, mock, off)
      BY <1>8, <1>13, <2>1 DEF LookMirrors, Near
    <2>. QED
      BY <1>1, <1>8, <1>13, <2>2, LookGoes DEF Looking
  <1>. QED
    BY <1>4, <1>5, <1>6, <1>7, <1>11, <1>12, <1>13

LEMMA ListMirrors ==
    ASSUME ToolConstants, MirrorInv, NEW t \in Threads, Mirrored(calls[t].a), List(t)
    PROVE  MirrorInv'
  <1>. DEFINE b == calls[t]
              p == Target(b.a.path)
              below == {q \in DOMAIN files : Under(p, q)}
              each == [b EXCEPT !.pc = "each", !.todo = below]
              none == [Failed(b) EXCEPT !.pc = "each"]
  <1>1. Moved(t) /\ EditInv' /\ files' = files /\ b.pc \in Looking /\ b.pc = "list"
    BY InLooks DEF Looks, List
  <1>2. /\ LookMirrors(b, mock, off) /\ DOMAIN b = Fields
        /\ \A q : q \in off \cup b.blur \/ At(files, q) = At(mock, q)
        /\ FilesOK(files) /\ FilesOK(mock)
    BY <1>1, InLook
  <1>3. UNCHANGED <<mock, off>>
    BY DEF List, Keep
  <1>4. calls' = [calls EXCEPT ![t] = each] \/ calls' = [calls EXCEPT ![t] = none]
    BY Zenon DEF List, Update
  <1>5. /\ each.pc = "each" /\ each.a = b.a /\ each.blur = b.blur /\ each.hits = b.hits
        /\ each.failed = b.failed /\ each.todo = below
        /\ none.pc = "each" /\ none.a = b.a /\ none.failed
    BY <1>2 DEF Failed, Fields
  <1>6. /\ b.hits = {} /\ b.a.tool = "search" /\ b.a.query # BadRegex
        /\ b.failed \/ There(b, mock, off)
    BY <1>1, <1>2 DEF LookMirrors, Looking
  <1>. HIDE DEF each, none
  <1>7. HitsMirror(each, mock, off)
    <2>1. ASSUME NEW q \in DOMAIN mock, q \notin off \cup b.blur, Under(p, q)
          PROVE  q \in below
      BY <1>2, <2>1, AtOK
    <2>. QED
      BY <1>5, <1>6, <2>1, NoHitsYet DEF HitsMirror
  <1>8. LookMirrors(each, mock, off)
    BY <1>5, <1>6, <1>7 DEF LookMirrors, There, Near
  <1>9. LookMirrors(none, mock, off)
    BY <1>5, <1>6 DEF LookMirrors
  <1>10. each.pc \in Looking /\ none.pc \in Looking
    BY <1>5 DEF Looking
  <1>11. CASE calls' = [calls EXCEPT ![t] = each]
    BY <1>1, <1>3, <1>8, <1>10, <1>11, LookGoes
  <1>12. CASE calls' = [calls EXCEPT ![t] = none]
    BY <1>1, <1>3, <1>9, <1>10, <1>12, LookGoes
  <1>. QED
    BY <1>4, <1>11, <1>12

LEMMA ViewMirrors ==
    ASSUME ToolConstants, MirrorInv, NEW t \in Threads, Mirrored(calls[t].a), ViewFile(t)
    PROVE  MirrorInv'
  <1>. DEFINE b == calls[t]
              p == Target(b.a.path)
              content == At(files, p)
              obs == IF content = NoFile \/ Undecodable(content) THEN Raises
                     ELSE View(p, Converted(content), b.a)
  <1>1. Moved(t) /\ EditInv' /\ files' = files /\ b.pc \in Looking /\ b.pc = "show"
    BY InLooks DEF Looks, ViewFile
  <1>2. /\ ~ Refused(b.a.path) /\ LookMirrors(b, mock, off) /\ DOMAIN b = Fields
        /\ Keeps(b, b) /\ Keeps(Failed(b), b) /\ Failed(b).failed
        /\ ~ Near(b, off) => At(files, p) = At(mock, p)
        /\ FilesOK(mock) /\ <<>> \notin DOMAIN mock /\ b.a \in Acts
    BY <1>1, InLook
  <1>3. Reply(t, b, obs) \/ Reply(t, Failed(b), Raises)
    BY DEF ViewFile
  <1>4. b.a.tool = "view"
    BY <1>1, <1>2 DEF LookMirrors
  <1>5. \/ Near(b, off) \/ obs = MockView(mock, b.a)
        \/ obs = Raises /\ p \in DOMAIN mock /\ Undecodable(mock[p])
    <2>. SUFFICES ASSUME ~ Near(b, off)
                  PROVE  \/ obs = MockView(mock, b.a)
                         \/ obs = Raises /\ p \in DOMAIN mock /\ Undecodable(mock[p])
      OBVIOUS
    <2>1. p \in DOMAIN mock /\ mock[p] = content /\ content # NoFile
      BY <1>1, <1>2, AtOK DEF LookMirrors
    <2>2. Kind(mock, p) = "file"
      BY <2>1 DEF Kind
    <2>3. MockView(mock, b.a) = View(p, MockText(mock, p), b.a)
      BY <1>2, <2>2, MirrorView
    <2>4. ~ Undecodable(content) => MockText(mock, p) = Converted(content)
      BY <1>2, <2>1, MockTextOK
    <2>. HIDE DEF content
    <2>. QED
      BY <2>1, <2>3, <2>4
  <1>. HIDE DEF obs
  <1>6. Agree(Answered(b, obs), mock, off)
    BY <1>2, <1>4, <1>5, Viewed
  <1>7. CASE Reply(t, b, obs)
    BY <1>1, <1>2, <1>6, <1>7, LookEnds
  <1>8. CASE Reply(t, Failed(b), Raises)
    BY <1>1, <1>2, <1>8, LookEnds
  <1>. QED
    BY <1>3, <1>7, <1>8

-----------------------------------------------------------------------------
\* Cut at a limit that is not reached, a file shows all of its hits.
LEMMA PairsOK ==
    ASSUME NEW S, IsFiniteSet(S), NEW q
    PROVE  LET pairs == {<<q, i>> : i \in S}
           IN  IsFiniteSet(pairs) /\ Cardinality(pairs) = Cardinality(S)
  <1>. DEFINE pairs == {<<q, i>> : i \in S}
              f == [i \in S |-> <<q, i>>]
  <1>1. f \in Bijection(S, pairs)
    BY DEF Bijection, Injection, IsInjective, Surjection
  <1>2. ExistsBijection(S, pairs)
    BY <1>1 DEF ExistsBijection
  <1>. QED
    BY <1>2, FS_Bijection

LEMMA HitsUncut ==
    ASSUME NEW content \in Text, NEW query, NEW room \in Int
    PROVE  /\ IsFiniteSet(FileHits(content, query, room))
           /\ Cardinality(FileHits(content, query, room)) < room =>
                 FileHits(content, query, room) = FullHits(content, query)
  <1>. DEFINE all == Occurrences(content, query)
              before(i) == {j \in all : j < i}
              shown == {i \in all : Cardinality(before(i)) < room}
  <1>1. DOMAIN content = 1 .. Len(content) /\ Len(content) \in Nat
    BY DEF Text
  <1>2. all \in SUBSET Nat /\ IsFiniteSet(all)
    <2>1. all \in SUBSET (1 .. Len(content))
      BY <1>1 DEF Occurrences
    <2>2. IsFiniteSet(1 .. Len(content))
      BY <1>1, FS_Interval
    <2>. HIDE DEF all
    <2>3. IsFiniteSet(all)
      BY <2>1, <2>2, FS_Subset
    <2>. QED
      BY <1>1, <2>1, <2>3
  <1>. HIDE DEF all
  <1>3. IsFiniteSet(shown) /\ Cardinality(shown) \in Nat
    <2>1. shown \in SUBSET all
      OBVIOUS
    <2>. HIDE DEF shown
    <2>. QED
      BY <1>2, <2>1, FS_Subset, FS_CardinalityType
  <1>4. ASSUME Cardinality(shown) < room PROVE shown = all
    <2>. SUFFICES ASSUME shown # all PROVE FALSE
      OBVIOUS
    <2>1. all \ shown \in SUBSET Nat /\ all \ shown # {}
      BY <1>2
    <2>2. PICK i \in all \ shown : \A j \in all \ shown : i <= j
      BY <2>1, LeastNat
    <2>3. before(i) \in SUBSET shown
      <3>1. ASSUME NEW j \in all, j < i PROVE j \in shown
        <4>1. j \in Nat /\ i \in Nat
          BY <1>2, <2>2
        <4>. HIDE DEF shown
        <4>. QED
          BY <2>2, <3>1, <4>1
      <3>. HIDE DEF shown
      <3>. QED
        BY <3>1
    <2>4. ~ (Cardinality(before(i)) < room)
      BY <2>2
    <2>. HIDE DEF shown, before
    <2>5. IsFiniteSet(before(i)) /\ Cardinality(before(i)) <= Cardinality(shown)
      BY <1>3, <2>3, FS_Subset
    <2>6. Cardinality(before(i)) \in Nat
      BY <2>5, FS_CardinalityType
    <2>. QED
      BY <1>3, <1>4, <2>4, <2>5, <2>6
  <1>5. CASE Occurrences(content, Nul) # {}
    <2>1. FileHits(content, query, room) = {} /\ FullHits(content, query) = {}
      BY <1>5 DEF FileHits, FullHits
    <2>. QED
      BY <2>1, FS_EmptySet
  <1>6. CASE Occurrences(content, Nul) = {}
    <2>1. FileHits(content, query, room) = shown /\ FullHits(content, query) = all
      BY <1>6 DEF FileHits, FullHits, all
    <2>. HIDE DEF shown
    <2>. QED
      BY <1>3, <1>4, <2>1
  <1>. QED
    BY <1>5, <1>6

\* A search that ends without an error, on what is there.
LEMMA FoundThere ==
    ASSUME ToolConstants, NEW c, c.a \in Acts, Mirrored(c.a), <<>> \notin DOMAIN mock,
           c.a.query # BadRegex, There(c, mock, off), NEW hits, NEW more
    PROVE  \/ Shows(hits, more).error = MockSearch(mock, c.a).error
           \/ c.a.scoped /\ Near(c, off)
  <1>. DEFINE m == MockSearch(mock, c.a)
  <1>1. Shows(hits, more).error = "none"
    BY DEF Shows
  <1>2. Kind(mock, Target(c.a.path)) # "none" => m.error = "none"
    <2>. SUFFICES ASSUME Kind(mock, Target(c.a.path)) # "none" PROVE m.error = "none"
      OBVIOUS
    <2>1. m = Shows(MockHits(c.a), Cardinality(MockHits(c.a)) >= MaxMatches)
      BY MirrorSearch
    <2>. HIDE DEF m
    <2>. QED
      BY <2>1 DEF Shows
  <1>. HIDE DEF m
  <1>. QED
    BY <1>1, <1>2 DEF There, m

LEMMA SearchFileMirrors ==
    ASSUME ToolConstants, MirrorInv, NEW t \in Threads, Mirrored(calls[t].a),
           NEW q \in DOMAIN files \cup calls[t].todo, SearchFile(t, q)
    PROVE  MirrorInv'
  <1>. DEFINE b == calls[t]
              p == Target(b.a.path)
              room == MaxMatches - Cardinality(b.hits)
              readable == q \in DOMAIN files /\ ~ Undecodable(files[q])
              rows == IF readable THEN FileHits(Converted(files[q]), b.a.query, room) ELSE {}
              found == {<<q, i>> : i \in rows}
              next == [b EXCEPT !.todo = @ \ {q}, !.hits = @ \cup found]
              skip == [Failed(b) EXCEPT !.todo = @ \ {q}]
              obs == Shows(next.hits, TRUE)
  <1>1. /\ Moved(t) /\ EditInv' /\ files' = files /\ b.pc \in Looking /\ b.pc = "each"
        /\ q \in b.todo
    BY InLooks DEF Looks, SearchFile
  <1>2. /\ ~ Refused(b.a.path) /\ LookMirrors(b, mock, off) /\ DOMAIN b = Fields
        /\ Keeps(b, b) /\ Keeps(Failed(b), b) /\ Failed(b).failed
        /\ \A r : r \in off \cup b.blur \/ At(files, r) = At(mock, r)
        /\ b.a \in Acts /\ <<>> \notin DOMAIN mock /\ FilesOK(files) /\ FilesOK(mock)
    BY <1>1, InLook
  <1>3. \/ Reply(t, b, obs)
        \/ /\ ~ (Cardinality(next.hits) >= MaxMatches) /\ UNCHANGED <<mock, off>>
           /\ calls' = [calls EXCEPT ![t] = next]
        \/ UNCHANGED <<mock, off>> /\ calls' = [calls EXCEPT ![t] = skip]
    BY Zenon DEF SearchFile, Update, Keep
  <1>4. /\ b.a.tool = "search" /\ b.a.query # BadRegex /\ (b.failed \/ There(b, mock, off))
        /\ b.failed \/ HitsMirror(b, mock, off)
    BY <1>1, <1>2 DEF LookMirrors
  <1>5. /\ next.pc = "each" /\ next.a = b.a /\ next.blur = b.blur /\ next.failed = b.failed
        /\ next.todo = b.todo \ {q} /\ next.hits = b.hits \cup found
        /\ skip.pc = "each" /\ skip.a = b.a /\ skip.failed
    BY <1>1, <1>2 DEF Failed, Fields
  <1>6. obs.more
    BY DEF Shows
  <1>. HIDE DEF next, skip
  <1>7. CASE Reply(t, b, obs)
    <2>1. b.failed \/ Agree(Answered(b, obs), mock, off)
      <3>. SUFFICES ASSUME ~ b.failed PROVE Agree(Answered(b, obs), mock, off)
        OBVIOUS
      <3>1. obs.error = MockSearch(mock, b.a).error \/ (b.a.scoped /\ Near(b, off))
        BY <1>2, <1>4, FoundThere
      <3>. HIDE DEF obs
      <3>. QED
        BY <1>2, <1>4, <1>6, <3>1, Searched
    <2>. HIDE DEF obs
    <2>. QED
      BY <1>1, <1>2, <1>7, <2>1, LookEnds
  <1>8. ASSUME ~ (Cardinality(next.hits) >= MaxMatches), ~ b.failed
        PROVE  HitsMirror(next, mock, off)
    <2>1. /\ IsFiniteSet(b.hits) /\ Cardinality(b.hits) < MaxMatches
          /\ \A r \in b.todo : Under(p, r)
          /\ \A h \in b.hits : h = <<h[1], h[2]>> /\ Under(p, h[1]) /\ h[1] \notin b.todo
      BY <1>4, <1>8, Zenon DEF HitsMirror
    <2>2. FilesOK(files) /\ FilesOK(mock)
      BY <1>2
    <2>3. Cardinality(b.hits) \in Nat /\ MaxMatches \in Nat
      BY <2>1, FS_CardinalityType, WorkspaceConstants DEF WorkspaceConstants
    <2>4. readable => Converted(files[q]) \in Text
      BY <2>2, ConvertedOK, WorkspaceConstants DEF FilesOK
    <2>5. IsFiniteSet(rows)
      BY <2>3, <2>4, HitsUncut, FS_EmptySet
    <2>6. IsFiniteSet(found) /\ Cardinality(found) = Cardinality(rows)
      <3>. HIDE DEF rows
      <3>. QED
        BY <2>5, PairsOK
    <2>7. b.hits \cap found = {}
      BY <1>1, <2>1
    <2>8. /\ IsFiniteSet(next.hits)
          /\ Cardinality(next.hits) = Cardinality(b.hits) + Cardinality(found)
      <3>. HIDE DEF found
      <3>1. Cardinality(b.hits \cap found) = 0
        BY <2>7, FS_EmptySet
      <3>2. IsFiniteSet(b.hits \cup found) /\ Cardinality(b.hits \cup found) =
                Cardinality(b.hits) + Cardinality(found) - Cardinality(b.hits \cap found)
        BY <2>1, <2>6, FS_Union
      <3>3. Cardinality(found) \in Nat
        BY <2>6, FS_CardinalityType
      <3>. QED
        BY <1>5, <2>3, <3>1, <3>2, <3>3
    <2>9. Cardinality(next.hits) < MaxMatches /\ Cardinality(rows) < room
      <3>1. Cardinality(rows) \in Nat
        BY <2>5, FS_CardinalityType
      <3>. HIDE DEF rows, found
      <3>. QED
        BY <1>8, <2>3, <2>6, <2>8, <3>1
    <2>10. readable => rows = FullHits(Converted(files[q]), b.a.query)
      BY <2>3, <2>4, <2>9, HitsUncut
    <2>11. \A h \in next.hits : h = <<h[1], h[2]>> /\ Under(p, h[1]) /\ h[1] \notin next.todo
      <3>1. ASSUME NEW h \in found PROVE h = <<h[1], h[2]>> /\ h[1] = q
        <4>. HIDE DEF rows
        <4>. QED
          BY <3>1
      <3>. HIDE DEF found
      <3>. QED
        BY <1>1, <1>5, <2>1, <3>1
    <2>12. ASSUME NEW r \in DOMAIN mock, r \notin off \cup b.blur, ~ Undecodable(mock[r]),
                  Under(p, r), r \notin next.todo, NEW i
           PROVE  <<r, i>> \in next.hits <=> i \in FullHits(Converted(mock[r]), b.a.query)
      <3>1. r \in DOMAIN files /\ files[r] = mock[r]
        BY <1>2, <2>2, <2>12, AtOK
      <3>2. CASE r = q
        <4>1. rows = FullHits(Converted(mock[r]), b.a.query)
          BY <2>10, <2>12, <3>1, <3>2
        <4>2. <<r, i>> \notin b.hits
          BY <1>1, <2>1, <3>2
        <4>. HIDE DEF rows
        <4>. QED
          BY <1>5, <3>2, <4>1, <4>2
      <3>3. CASE r # q
        <4>1. r \notin b.todo /\ <<r, i>> \notin found
          BY <1>5, <2>12, <3>3
        <4>2. <<r, i>> \in b.hits <=> i \in FullHits(Converted(mock[r]), b.a.query)
          BY <1>4, <1>8, <2>12, <4>1 DEF HitsMirror
        <4>. HIDE DEF found
        <4>. QED
          BY <1>5, <4>1, <4>2
      <3>. QED
        BY <3>2, <3>3
    <2>13. \A r \in next.todo : Under(p, r)
      BY <1>5, <2>1
    <2>. HIDE DEF found, rows
    <2>. QED
      BY <1>5, <2>8, <2>9, <2>11, <2>12, <2>13 DEF HitsMirror
  <1>9. CASE /\ ~ (Cardinality(next.hits) >= MaxMatches) /\ UNCHANGED <<mock, off>>
             /\ calls' = [calls EXCEPT ![t] = next]
    <2>1. LookMirrors(next, mock, off)
      BY <1>4, <1>5, <1>8, <1>9 DEF LookMirrors, There, Near
    <2>. QED
      BY <1>1, <1>5, <1>9, <2>1, LookGoes DEF Looking
  <1>10. CASE UNCHANGED <<mock, off>> /\ calls' = [calls EXCEPT ![t] = skip]
    <2>1. LookMirrors(skip, mock, off)
      BY <1>4, <1>5 DEF LookMirrors
    <2>. QED
      BY <1>1, <1>5, <1>10, <2>1, LookGoes DEF Looking
  <1>. QED
    BY <1>3, <1>7, <1>9, <1>10

\* The hits of the mock are finitely many; below its limit they are all there are.
LEMMA MockHitsFinite ==
    ASSUME FilesOK(mock), IsFiniteSet(DOMAIN mock), NEW a
    PROVE  IsFiniteSet(MockHits(a))
  <1>. DEFINE below == {r \in DOMAIN mock : Under(Target(a.path), r) /\ ~ Outer(r)}
              hits(q) == {<<q, i>> : i \in FileHits(MockText(mock, q), a.query, MaxMatches)}
              sets == {hits(q) : q \in below}
              f == [q \in below |-> hits(q)]
  <1>1. IsFiniteSet(below)
    <2>1. below \in SUBSET DOMAIN mock
      OBVIOUS
    <2>. QED
      BY <2>1, FS_Subset
  <1>2. \A q \in below : IsFiniteSet(hits(q))
    <2>. SUFFICES ASSUME NEW q \in below PROVE IsFiniteSet(hits(q))
      OBVIOUS
    <2>. DEFINE rows == FileHits(MockText(mock, q), a.query, MaxMatches)
    <2>1. MockText(mock, q) \in Text /\ MaxMatches \in Int
      BY MockTextOK, WorkspaceConstants DEF WorkspaceConstants
    <2>2. IsFiniteSet(rows)
      BY <2>1, HitsUncut
    <2>. HIDE DEF rows
    <2>3. IsFiniteSet({<<q, i>> : i \in rows})
      BY <2>2, PairsOK
    <2>. QED
      BY <2>3 DEF rows
  <1>. HIDE DEF hits, below
  <1>3. f \in Surjection(below, sets)
    BY DEF Surjection
  <1>4. IsFiniteSet(sets)
    BY <1>1, <1>3, FS_Surjection
  <1>5. \A S \in sets : IsFiniteSet(S)
    BY <1>2
  <1>. HIDE DEF sets
  <1>6. IsFiniteSet(UNION sets)
    BY <1>4, <1>5, FS_UNION
  <1>. QED
    BY <1>6 DEF MockHits, sets, hits, below

LEMMA MockHitsUncut ==
    ASSUME FilesOK(mock), IsFiniteSet(DOMAIN mock), NEW a, Cardinality(MockHits(a)) < MaxMatches,
           NEW q \in DOMAIN mock, ~ Undecodable(mock[q]), Under(Target(a.path), q), ~ Outer(q)
    PROVE  \A i : <<q, i>> \in MockHits(a) <=> i \in FullHits(Converted(mock[q]), a.query)
  <1>. DEFINE rows == FileHits(Converted(mock[q]), a.query, MaxMatches)
              pairs == {<<q, i>> : i \in rows}
  <1>1. Converted(mock[q]) \in Text /\ MockText(mock, q) = Converted(mock[q]) /\ MaxMatches \in Nat
    BY ConvertedOK, MockTextOK, WorkspaceConstants DEF FilesOK, WorkspaceConstants
  <1>2. \A i : <<q, i>> \in MockHits(a) <=> i \in rows
    BY <1>1 DEF MockHits
  <1>3. IsFiniteSet(rows) /\ (Cardinality(rows) < MaxMatches => rows = FullHits(Converted(mock[q]), a.query))
    BY <1>1, HitsUncut
  <1>. HIDE DEF rows
  <1>4. IsFiniteSet(pairs) /\ Cardinality(pairs) = Cardinality(rows)
    BY <1>3, PairsOK
  <1>5. pairs \in SUBSET MockHits(a)
    BY <1>2
  <1>6. IsFiniteSet(MockHits(a)) /\ Cardinality(MockHits(a)) \in Nat
    BY MockHitsFinite, FS_CardinalityType
  <1>. HIDE DEF pairs
  <1>7. Cardinality(pairs) <= Cardinality(MockHits(a)) /\ Cardinality(pairs) \in Nat
    BY <1>4, <1>5, <1>6, FS_Subset, FS_CardinalityType
  <1>. QED
    BY <1>1, <1>2, <1>3, <1>4, <1>6, <1>7

LEMMA SearchEndsMirrors ==
    ASSUME ToolConstants, MirrorInv, NEW t \in Threads, Mirrored(calls[t].a), SearchEnds(t)
    PROVE  MirrorInv'
  <1>. DEFINE b == calls[t]
              p == Target(b.a.path)
              obs == Shows(b.hits, FALSE)
              m == MockSearch(mock, b.a)
              sure == {q \in DOMAIN mock \ (off \cup b.blur) : ~ Undecodable(mock[q])}
  <1>1. /\ Moved(t) /\ EditInv' /\ files' = files /\ b.pc \in Looking /\ b.pc = "each"
        /\ b.todo = {}
    BY InLooks DEF Looks, SearchEnds
  <1>2. /\ ~ Refused(b.a.path) /\ LookMirrors(b, mock, off) /\ DOMAIN b = Fields /\ Keeps(b, b)
        /\ b.a \in Acts /\ <<>> \notin DOMAIN mock /\ \A q \in DOMAIN mock : Outer(q) => q \in off
    BY <1>1, InLook
  <1>3. Reply(t, b, obs)
    BY DEF SearchEnds
  <1>4. /\ b.a.tool = "search" /\ b.a.query # BadRegex /\ (b.failed \/ There(b, mock, off))
        /\ b.failed \/ HitsMirror(b, mock, off)
    BY <1>1, <1>2 DEF LookMirrors
  <1>5. FilesOK(mock) /\ IsFiniteSet(DOMAIN mock)
    BY <1>1, InLook
  <1>6. b.failed \/ Agree(Answered(b, obs), mock, off)
    <2>. SUFFICES ASSUME ~ b.failed PROVE Agree(Answered(b, obs), mock, off)
      OBVIOUS
    <2>1. obs.error = m.error \/ (b.a.scoped /\ Near(b, off))
      BY <1>2, <1>4, FoundThere
    <2>2. /\ \A h \in b.hits : h = <<h[1], h[2]>> /\ Under(p, h[1])
          /\ \A q \in sure : Under(p, q) =>
                \A i : <<q, i>> \in b.hits <=> i \in FullHits(Converted(mock[q]), b.a.query)
      BY <1>1, <1>4 DEF HitsMirror
    <2>3. m.more \/ Found(obs, sure) = Found(m, sure)
      <3>1. CASE Kind(mock, p) = "none"
        <4>1. m.data = {}
          <5>1. m = Err("not found")
            BY <1>2, <1>4, <3>1, MirrorSearch
          <5>. HIDE DEF m
          <5>. QED
            BY <5>1 DEF Err
        <4>2. \A q \in sure : ~ Under(p, q)
          BY <3>1 DEF Kind, Under
        <4>3. obs.data = b.hits
          BY DEF Shows
        <4>. HIDE DEF obs, m, sure
        <4>. QED
          BY <2>2, <4>1, <4>2, <4>3 DEF Found
      <3>2. CASE Kind(mock, p) # "none"
        <4>1. m = Shows(MockHits(b.a), Cardinality(MockHits(b.a)) >= MaxMatches)
          BY <1>2, <1>4, <3>2, MirrorSearch
        <4>2. m.data = MockHits(b.a) /\ obs.data = b.hits
              /\ m.more = (Cardinality(MockHits(b.a)) >= MaxMatches)
          BY <4>1 DEF Shows
        <4>3. SUFFICES ASSUME ~ m.more PROVE Found(obs, sure) = Found(m, sure)
          OBVIOUS
        <4>4. Cardinality(MockHits(b.a)) < MaxMatches
          <5>1. Cardinality(MockHits(b.a)) \in Nat /\ MaxMatches \in Nat
            BY <1>5, MockHitsFinite, FS_CardinalityType, WorkspaceConstants DEF WorkspaceConstants
          <5>2. ~ (Cardinality(MockHits(b.a)) >= MaxMatches)
            BY <4>2, <4>3
          <5>. QED
            BY <5>1, <5>2
        <4>5. \A q \in sure : Under(p, q) =>
                  \A i : <<q, i>> \in MockHits(b.a) <=> i \in FullHits(Converted(mock[q]), b.a.query)
          BY <1>2, <1>5, <4>4, MockHitsUncut
        <4>6. \A h \in MockHits(b.a) : h = <<h[1], h[2]>> /\ Under(p, h[1])
          BY DEF MockHits
        <4>. HIDE DEF obs, m, sure, p
        <4>7. \A h : h \in b.hits /\ h[1] \in sure <=> h \in MockHits(b.a) /\ h[1] \in sure
          BY <2>2, <4>5, <4>6
        <4>. QED
          BY <4>2, <4>7 DEF Found
      <3>. QED
        BY <3>1, <3>2
    <2>. HIDE DEF obs, m
    <2>. QED
      BY <1>2, <1>4, <2>1, <2>3, Searched DEF m
  <1>. HIDE DEF obs
  <1>. QED
    BY <1>1, <1>2, <1>3, <1>6, LookEnds

-----------------------------------------------------------------------------
\* A call that writes.
LEMMA TreeWith ==
    ASSUME NEW fs, Tree(fs), NEW w, NEW content,
           content = NoFile \/ w \in DOMAIN fs \/ (Kind(fs, w) # "dir" /\ ~ Blocked(fs, w))
    PROVE  Tree(With(fs, w, content))
  <1>1. CASE content = NoFile \/ w \in DOMAIN fs
    <2>1. DOMAIN With(fs, w, content) \subseteq DOMAIN fs
      BY <1>1 DEF With
    <2>. QED
      BY <2>1 DEF Tree
  <1>2. CASE w \notin DOMAIN fs /\ Kind(fs, w) # "dir" /\ ~ Blocked(fs, w)
    <2>1. DOMAIN With(fs, w, content) \subseteq DOMAIN fs \cup {w}
      BY DEF With
    <2>2. w # <<>> /\ (\A q \in DOMAIN fs : ~ IsStrictPrefix(w, q) /\ ~ IsStrictPrefix(q, w))
      BY <1>2 DEF Kind, Blocked
    <2>3. ~ IsStrictPrefix(w, w)
      BY DEF IsStrictPrefix
    <2>. QED
      BY <2>1, <2>2, <2>3 DEF Tree
  <1>. QED
    BY <1>1, <1>2

LEMMA InWrite ==
    ASSUME ToolConstants, MirrorInv, NEW t \in Threads, EditSteps(t) \/ Bash(t)
    PROVE  LET b == calls[t]
               p == Target(b.a.path)
           IN  /\ Moved(t) /\ EditInv' /\ Busy(t) /\ CallOK(b) /\ b.pc \in Editing \cup {"bash"}
               /\ b.a \in Acts /\ b.a.tool \in {"replace", "bash"} /\ ~ Refused(b.a.path)
               /\ b.a.tool = "replace" <=> b.pc \in Editing
               /\ Writes(b.a) = IF b.a.tool = "bash" THEN {p} ELSE {p, WriteTarget(p)}
               /\ DOMAIN b = Fields /\ Keeps(b, b) /\ Keeps(Failed(b), b) /\ Failed(b).failed
               /\ b.pc # "fill" /\ ~ Near(b, off) =>
                     /\ Kind(files, p) = Kind(mock, p) /\ At(files, p) = At(mock, p)
                     /\ Blocked(files, p) <=> Blocked(mock, p)
  <1>. DEFINE b == calls[t]
              p == Target(b.a.path)
              apart == off \cup b.blur
  <1>1. EditInv /\ CallsOK
    BY DEF MirrorInv, EditInv
  <1>2. Moved(t) /\ b.pc \in Editing \cup {"bash"}
    BY <1>1, EditingOK, BashOK
  <1>3. EditInv'
    <2>1. ToolStep(t)
      BY DEF EditSteps, ToolStep
    <2>. QED
      BY <1>1, <2>1, StepsKeep
  <1>4. CallOK(b) /\ Busy(t)
    BY <1>1, <1>2 DEF CallsOK, Moved
  <1>5. /\ b.a \in Acts /\ b.a.tool \in {"replace", "bash"} /\ ~ Refused(b.a.path)
        /\ b.a.tool = "replace" <=> b.pc \in Editing
    BY <1>2, <1>4 DEF CallOK, PcOK, Editing
  <1>6. Writes(b.a) = IF b.a.tool = "bash" THEN {p} ELSE {p, WriteTarget(p)}
    BY <1>5 DEF Writes
  <1>7. b.pc # "fill" /\ ~ Near(b, off) =>
            /\ Kind(files, p) = Kind(mock, p) /\ At(files, p) = At(mock, p)
            /\ Blocked(files, p) <=> Blocked(mock, p)
    <2>. SUFFICES ASSUME b.pc # "fill", ~ Meets(p, apart)
                  PROVE  /\ Kind(files, p) = Kind(mock, p) /\ At(files, p) = At(mock, p)
                         /\ Blocked(files, p) <=> Blocked(mock, p)
      BY DEF Near
    <2>1. \A q : q \in apart \/ At(files, q) = At(mock, q)
      BY <1>4, InStep DEF Filling
    <2>2. FilesOK(files) /\ FilesOK(mock)
      BY DEF MirrorInv, EditInv, MockOK
    <2>. HIDE DEF apart, p
    <2>. QED
      BY <2>1, <2>2, SameAround
  <1>. HIDE DEF b
  <1>8. DOMAIN b = Fields /\ Keeps(b, b) /\ Keeps(Failed(b), b) /\ Failed(b).failed
    BY <1>4, Failing
  <1>. QED
    BY <1>2, <1>3, <1>4, <1>5, <1>6, <1>7, <1>8 DEF b

\* What a call writes, it writes where it may, and below no file.
LEMMA WritesThere ==
    ASSUME ToolConstants, MirrorInv, NEW t \in Threads, OpenFile(t) \/ FillFile(t) \/ Bash(t)
    PROVE  Tree(files') /\ \A q : q \in Writes(calls[t].a) \/ At(files, q) = At(files', q)
  <1>. DEFINE b == calls[t]
              p == Target(b.a.path)
  <1>1. Tree(files)
    BY DEF MirrorInv
  <1>2. ASSUME NEW w \in Writes(b.a), NEW content, files' = files \/ files' = With(files, w, content),
               \/ files' = files \/ content = NoFile \/ w \in DOMAIN files
               \/ Kind(files, w) # "dir" /\ ~ Blocked(files, w)
        PROVE  Tree(files') /\ \A q : q \in Writes(b.a) \/ At(files, q) = At(files', q)
    <2>1. Tree(files')
      BY <1>1, <1>2, TreeWith
    <2>2. \A q : q # w => At(With(files, w, content), q) = At(files, q)
      BY WithOK
    <2>. HIDE DEF b
    <2>3. \A q : q \in Writes(b.a) \/ At(files, q) = At(files', q)
      BY <1>2, <2>2
    <2>. QED
      BY <2>1, <2>3
  <1>3. CASE OpenFile(t)
    <2>. DEFINE w == IF p = <<>> THEN p ELSE WriteTarget(p)
    <2>1. EditSteps(t) /\ b.pc = "open"
      BY <1>3 DEF OpenFile, EditSteps
    <2>2. w \in Writes(b.a)
      BY <2>1, InWrite DEF Editing
    <2>3. \/ files' = files
          \/ files' = With(files, w, <<>>) /\ Kind(files, w) # "dir" /\ ~ Blocked(files, w)
      BY <1>3, Zenon DEF OpenFile
    <2>. HIDE DEF w, b
    <2>. QED
      BY <1>2, <2>2, <2>3 DEF b
  <1>4. CASE FillFile(t)
    <2>. DEFINE w == WriteTarget(p)
    <2>1. EditSteps(t) /\ b.pc = "fill"
      BY <1>4 DEF FillFile, EditSteps
    <2>2. w \in Writes(b.a)
      BY <2>1, InWrite DEF Editing
    <2>3. files' = files \/ (w \in DOMAIN files /\ files' = With(files, w, Source(b)))
      BY <1>4 DEF FillFile
    <2>. HIDE DEF w, b
    <2>. QED
      BY <1>2, <2>2, <2>3 DEF b
  <1>5. CASE Bash(t)
    <2>1. b.pc = "bash"
      BY <1>5 DEF Bash
    <2>2. p \in Writes(b.a)
      BY <1>5, <2>1, InWrite DEF Editing
    <2>3. files' = files \/ files' = Shell(files, p, b.a.new)
      BY <1>5 DEF Bash
    <2>4. \/ files' = files
          \/ /\ files' = With(files, p, b.a.new)
             /\ b.a.new = NoFile \/ (Kind(files, p) # "dir" /\ ~ Blocked(files, p))
      BY <2>3 DEF Shell
    <2>. HIDE DEF b, p
    <2>. QED
      BY <1>2, <2>2, <2>4 DEF b, p
  <1>. QED
    BY <1>3, <1>4, <1>5

\* The paths in doubt after a call that failed, has a space in its name or met
\* another one.
LEMMA DoubtOK ==
    ASSUME NEW c, NEW p, p = Target(c.a.path), p \in Writes(c.a)
    PROVE  /\ c.failed \/ Cardinality(Writes(c.a)) > 1 => Writes(c.a) \subseteq Doubt(c)
           /\ Near(c, off) \/ (p \in DOMAIN files /\ Undecodable(files[p])) => p \in Doubt(c)
           /\ p \in Doubt(c) => Near(c, off \cup Doubt(c))
  <1>1. c.failed \/ Cardinality(Writes(c.a)) > 1 => Writes(c.a) \subseteq Doubt(c)
    BY DEF Doubt
  <1>2. off \cup c.blur = c.blur \cup off
    OBVIOUS
  <1>3. Near(c, off) \/ (p \in DOMAIN files /\ Undecodable(files[p])) => p \in Doubt(c)
    BY <1>2 DEF Doubt, Near
  <1>4. p \in Doubt(c) => Near(c, off \cup Doubt(c))
    BY DEF Near, Meets
  <1>. QED
    BY <1>1, <1>3, <1>4

LEMMA Edition ==
    ASSUME NEW c, DOMAIN c = Fields, c.a.tool = "replace", ~ Refused(c.a.path), NEW obs, NEW of, NEW mk,
           \/ obs = MockReplaceObs(mock, c.a) \/ Near(c, of)
           \/ MockReplaceObs(mock, c.a) = Raises /\ obs.error # "none"
    PROVE  Agree(Answered(c, obs), mk, of)
  <1>. DEFINE d == Answered(c, obs)
  <1>1. d.a = c.a /\ d.blur = c.blur /\ d.obs = obs /\ d.mock = MockReplaceObs(mock, c.a)
    BY DEF Answered, MockObs, Fields
  <1>. HIDE DEF d
  <1>2. Agree(d, mk, of)
    BY <1>1 DEF Agree, Near
  <1>. QED
    BY <1>2 DEF d

\* An edit ends: where nothing is in doubt it must answer what the mock does and
\* leave what it leaves.
LEMMA EditEnds ==
    ASSUME ToolConstants, MirrorInv, NEW t \in Threads, Mirrored(calls[t].a), EditSteps(t),
           NEW c \in {calls[t], Failed(calls[t])}, NEW obs, Reply(t, c, obs), Tree(files'),
           \A q : q \in Writes(calls[t].a) \/ At(files, q) = At(files', q),
           LET p == Target(calls[t].a.path)
               reference == MockReplaceObs(mock, calls[t].a)
           IN  \/ c.failed \/ WriteTarget(p) # p \/ Near(calls[t], off)
               \/ p \in DOMAIN files /\ Undecodable(files[p])
               \/ /\ obs = reference \/ (reference = Raises /\ obs.error # "none")
                  /\ At(files', p) = At(MockFiles(mock, calls[t].a), p)
    PROVE  MirrorInv'
  <1>. DEFINE b == calls[t]
              p == Target(b.a.path)
              after == off \cup Doubt(c)
  <1>1. /\ Moved(t) /\ EditInv' /\ ~ Refused(b.a.path) /\ b.a.tool = "replace"
        /\ Writes(b.a) = {p, WriteTarget(p)} /\ DOMAIN b = Fields
        /\ Keeps(b, b) /\ Keeps(Failed(b), b) /\ Failed(b).failed
    <2>1. b.pc \in Editing
      BY EditingOK DEF MirrorInv, EditInv
    <2>. QED
      BY <2>1, InWrite
  <1>2. Keeps(c, b) /\ DOMAIN c = Fields /\ c.a = b.a /\ c.blur = b.blur
    BY <1>1 DEF Keeps
  <1>3. Near(c, off) <=> Near(b, off)
    BY <1>2 DEF Near
  <1>4. /\ c.failed \/ Cardinality(Writes(c.a)) > 1 => Writes(c.a) \subseteq Doubt(c)
        /\ Near(c, off) \/ (p \in DOMAIN files /\ Undecodable(files[p])) => p \in Doubt(c)
        /\ p \in Doubt(c) => Near(c, after)
    BY <1>1, <1>2, DoubtOK
  <1>5. WriteTarget(p) # p => Cardinality(Writes(c.a)) > 1
    BY <1>1, <1>2, TwoIsMany
  <1>6. c.failed \/ Agree(Answered(c, obs), MockFiles(mock, c.a), after)
    <2>. SUFFICES ASSUME ~ c.failed PROVE Agree(Answered(c, obs), MockFiles(mock, c.a), after)
      OBVIOUS
    <2>. HIDE DEF after
    <2>1. \/ obs = MockReplaceObs(mock, c.a) \/ Near(c, after)
          \/ MockReplaceObs(mock, c.a) = Raises /\ obs.error # "none"
      BY <1>1, <1>2, <1>3, <1>4, <1>5
    <2>. QED
      BY <1>1, <1>2, <2>1, Edition
  <1>7. ASSUME NEW q \in Writes(c.a)
        PROVE  q \in after \/ At(files', q) = At(MockFiles(mock, c.a), q)
    <2>1. CASE WriteTarget(p) # p \/ c.failed
      BY <1>4, <1>5, <2>1
    <2>2. CASE WriteTarget(p) = p /\ ~ c.failed
      <3>1. q = p
        BY <1>1, <1>2, <2>2
      <3>. QED
        BY <1>2, <1>3, <1>4, <2>2, <3>1
    <2>. QED
      BY <2>1, <2>2
  <1>. HIDE DEF b, p
  <1>. QED
    BY <1>1, <1>2, <1>6, <1>7, EndsMirror DEF b

\* An error of the mock: it changes nothing.
LEMMA MockRefuses ==
    ASSUME NEW a, a.tool = "replace", MockReplaceObs(mock, a) # Ok
    PROVE  MockFiles(mock, a) = mock
  BY DEF MockFiles

LEMMA ErrorsOK ==
    /\ Raises # Ok /\ Raises.error # "none" /\ Ok.error = "none"
    /\ \A why : Err(why).error = why
  BY DEF Raises, Err, Ok, Shows

\* An edit that goes on and has written nothing yet.
LEMMA EditGoes ==
    ASSUME ToolConstants, MirrorInv, NEW t \in Threads, Mirrored(calls[t].a), EditSteps(t), calls[t].pc # "fill",
           UNCHANGED <<files, mock, off>>, NEW d, calls' = [calls EXCEPT ![t] = d],
           d.pc \in {"mkdir", "open"},
           Exempt(d) \/ Near(d, off) \/ EditMirrors(d, files, mock)
    PROVE  MirrorInv'
  <1>1. calls'[t] = d
    BY DEF MirrorInv, EditInv, CallsOK
  <1>2. CallMirrors(d, files, mock, off)
    BY DEF CallMirrors, LookMirrors, Looking
  <1>3. Moved(t) /\ EditInv'
    BY InWrite
  <1>4. Tree(files')
    BY DEF MirrorInv
  <1>. QED
    BY <1>1, <1>2, <1>3, <1>4, QuietMirrors

LEMMA ReadMirrors ==
    ASSUME ToolConstants, MirrorInv, NEW t \in Threads, Mirrored(calls[t].a), ReadFile(t)
    PROVE  MirrorInv'
  <1>. DEFINE b == calls[t]
              p == Target(b.a.path)
              read == AsText(At(files, p))
  <1>1. b.pc = "read" /\ files' = files /\ EditSteps(t)
    BY DEF ReadFile, EditSteps
  <1>2. /\ b.a.tool = "replace" /\ DOMAIN b = Fields /\ Writes(b.a) = {p, WriteTarget(p)}
        /\ Failed(b).failed /\ Failed(b).a = b.a /\ Failed(b).blur = b.blur /\ DOMAIN Failed(b) = Fields
        /\ ~ Near(b, off) => Kind(files, p) = Kind(mock, p) /\ At(files, p) = At(mock, p)
        /\ b.a \in Acts
    BY <1>1, InWrite DEF Editing, Keeps
  <1>3. Tree(files') /\ FilesOK(files) /\ FilesOK(mock) /\ <<>> \notin DOMAIN mock
    BY <1>1 DEF MirrorInv, EditInv, MockOK
  <1>9. /\ read # NoFile => p \in DOMAIN files
        /\ p \in DOMAIN files => read # NoFile /\ (Undecodable(read) <=> Undecodable(files[p]))
    <2>1. p \in DOMAIN files => files[p] \in Text /\ At(files, p) = files[p]
      BY <1>3 DEF FilesOK, At
    <2>2. p \in DOMAIN files =>
             /\ Converted(files[p]) \in Text
             /\ Undecodable(Converted(files[p])) <=> Undecodable(files[p])
      BY <2>1, ConvertedOK, WorkspaceConstants
    <2>3. NoFile \notin Text
      BY WorkspaceConstants DEF WorkspaceConstants
    <2>4. p \in DOMAIN files => read = Converted(files[p])
      BY <2>1, <2>3 DEF AsText
    <2>5. p \notin DOMAIN files => read = NoFile
      BY DEF AsText, At
    <2>. HIDE DEF read
    <2>6. p \in DOMAIN files => read # NoFile
      BY <2>2, <2>3, <2>4
    <2>7. p \in DOMAIN files => (Undecodable(read) <=> Undecodable(files[p]))
      BY <2>2, <2>4
    <2>. QED
      BY <2>5, <2>6, <2>7
  <1>4. \/ read # NoFile /\ Undecodable(read) /\ Reply(t, b, Err("decode"))
        \/ ~ (read # NoFile /\ Undecodable(read)) /\ Replacement(t, b, read)
        \/ Replacement(t, Failed(b), NoFile)
    BY DEF ReadFile, Readable
  <1>5. CASE read # NoFile /\ Undecodable(read) /\ Reply(t, b, Err("decode"))
    <2>1. p \in DOMAIN files /\ Undecodable(files[p])
      BY <1>5, <1>9
    <2>. HIDE DEF read
    <2>. QED
      BY <1>1, <1>3, <1>5, <2>1, EditEnds
  <1>6. ASSUME NEW c \in {b, Failed(b)}, NEW content, Replacement(t, c, content),
               \/ c = Failed(b)
               \/ c = b /\ content = read /\ ~ (read # NoFile /\ Undecodable(read))
        PROVE  MirrorInv'
    <2>. DEFINE why == IF content = NoFile THEN "not found" ELSE ReplaceError(content, c.a.old)
                next == [c EXCEPT !.pc = "mkdir", !.text = Edited(content, c.a)]
    <2>1. \/ c.a.old # "" /\ why # "none" /\ Reply(t, c, Err(why))
          \/ /\ c.a.old # "" => why = "none"
             /\ UNCHANGED <<mock, off>> /\ calls' = [calls EXCEPT ![t] = next]
      BY <1>6, Zenon DEF Replacement, Update, Keep
    <2>2. DOMAIN c = Fields /\ c.a = b.a /\ c.blur = b.blur /\ Writes(c.a) = {p, WriteTarget(p)}
      BY <1>2
    <2>3. ~ c.failed /\ ~ Near(b, off) =>
              /\ content = AsText(At(mock, p)) /\ Kind(files, p) = Kind(mock, p)
              /\ content = NoFile => p \notin DOMAIN mock
              /\ content # NoFile => /\ p \in DOMAIN mock /\ MockText(mock, p) = content
                                     /\ Converted(mock[p]) = content /\ ~ Undecodable(mock[p])
      <3>. SUFFICES ASSUME ~ c.failed, ~ Near(b, off)
                    PROVE  /\ content = AsText(At(mock, p)) /\ Kind(files, p) = Kind(mock, p)
                           /\ content = NoFile => p \notin DOMAIN mock
                           /\ content # NoFile => /\ p \in DOMAIN mock /\ MockText(mock, p) = content
                                                  /\ Converted(mock[p]) = content
                                                  /\ ~ Undecodable(mock[p])
        OBVIOUS
      <3>1. content = read /\ ~ (read # NoFile /\ Undecodable(read))
        BY <1>2, <1>6
      <3>2. content = AsText(At(mock, p)) /\ Kind(files, p) = Kind(mock, p)
        BY <1>2, <3>1
      <3>3. p \in DOMAIN mock <=> p \in DOMAIN files
        BY <1>2, <1>3, AtOK
      <3>4. p \in DOMAIN mock => mock[p] = files[p]
        BY <1>2, <1>3, <3>3, AtOK
      <3>5. content = NoFile => p \notin DOMAIN mock
        BY <1>9, <3>1, <3>3
      <3>6. content # NoFile => p \in DOMAIN mock /\ ~ Undecodable(mock[p])
        BY <1>9, <3>1, <3>3, <3>4
      <3>7. p \in DOMAIN mock => At(mock, p) = mock[p] /\ At(mock, p) # NoFile
        BY <1>3, AtOK
      <3>8. content # NoFile => Converted(mock[p]) = content
        BY <3>2, <3>6, <3>7 DEF AsText
      <3>9. content # NoFile => MockText(mock, p) = content
        BY <1>3, <3>6, <3>8, MockTextOK
      <3>. HIDE DEF read
      <3>. QED
        BY <3>2, <3>5, <3>6, <3>8, <3>9
    <2>4. CASE c.a.old # "" /\ why # "none" /\ Reply(t, c, Err(why))
      <3>. DEFINE reference == MockReplaceObs(mock, b.a)
      <3>1. ASSUME ~ c.failed, ~ Near(b, off)
            PROVE  reference = Err(why) \/ reference = Raises
        <4>1. b.a.old # ""
          BY <2>2, <2>4
        <4>2. Kind(mock, p) \in {"none", "dir", "file"} /\ (Kind(mock, p) = "file" <=> p \in DOMAIN mock)
          BY DEF Kind
        <4>3. CASE Kind(mock, p) = "none"
          <5>1. why = "not found"
            BY <2>3, <3>1, <4>2, <4>3
          <5>. HIDE DEF why
          <5>. QED
            BY <1>2, <1>3, <4>1, <4>3, <5>1, MirrorReplace
        <4>4. CASE Kind(mock, p) = "dir"
          BY <1>2, <1>3, <4>1, <4>4, MirrorReplace
        <4>5. CASE Kind(mock, p) = "file"
          <5>1. why = ReplaceError(MockText(mock, p), b.a.old)
            BY <2>2, <2>3, <3>1, <4>2, <4>5
          <5>2. why # "none"
            BY <2>4
          <5>. HIDE DEF why
          <5>. QED
            BY <1>2, <1>3, <4>1, <4>5, <5>1, <5>2, MirrorReplace
        <4>. QED
          BY <4>2, <4>3, <4>4, <4>5
      <3>. HIDE DEF why
      <3>2. Err(why).error # "none" /\ Err(why) # Ok
        BY <2>4, ErrorsOK
      <3>3. ASSUME ~ c.failed, ~ Near(b, off)
            PROVE  At(files', p) = At(MockFiles(mock, b.a), p)
        <4>1. reference # Ok
          BY <3>1, <3>2, <3>3, ErrorsOK
        <4>2. MockFiles(mock, b.a) = mock
          BY <1>2, <4>1, MockRefuses
        <4>. QED
          BY <1>1, <1>2, <3>3, <4>2
      <3>. QED
        BY <1>1, <1>3, <2>4, <3>1, <3>2, <3>3, EditEnds
    <2>5. CASE /\ c.a.old # "" => why = "none"
               /\ UNCHANGED <<mock, off>> /\ calls' = [calls EXCEPT ![t] = next]
      <3>1. /\ next.pc = "mkdir" /\ next.a = b.a /\ next.blur = b.blur /\ next.failed = c.failed
            /\ next.text = Edited(content, b.a)
        BY <2>2 DEF Fields
      <3>. HIDE DEF next
      <3>2. ASSUME ~ Exempt(next), ~ Near(next, off)
            PROVE  EditMirrors(next, files, mock)
        <4>1. ~ c.failed /\ ~ Near(b, off)
          BY <3>1, <3>2 DEF Exempt, Near
        <4>2. b.a.old # "" => content # NoFile /\ ReplaceError(content, b.a.old) = "none"
          BY <2>2, <2>5
        <4>3. content = AsText(At(mock, p))
          BY <2>3, <4>1
        <4>4. p \in DOMAIN mock => ~ Undecodable(mock[p])
          BY <2>3, <4>1
        <4>5. b.a.old # "" => p \in DOMAIN mock /\ ReplaceError(Converted(mock[p]), b.a.old) = "none"
          BY <2>3, <4>1, <4>2
        <4>. QED
          BY <3>1, <4>3, <4>4, <4>5 DEF EditMirrors
      <3>. QED
        BY <1>1, <2>5, <3>1, <3>2, EditGoes
    <2>. QED
      BY <2>1, <2>4, <2>5
  <1>7. CASE ~ (read # NoFile /\ Undecodable(read)) /\ Replacement(t, b, read)
    BY <1>6, <1>7
  <1>8. CASE Replacement(t, Failed(b), NoFile)
    BY <1>6, <1>8
  <1>. QED
    BY <1>4, <1>5, <1>7, <1>8

\* What mkdir -p and `cat >` stumble over makes the mock raise: there is nothing
\* to edit in that place.
LEMMA Stumbles ==
    ASSUME ToolConstants, NEW c, c.a \in Acts, Mirrored(c.a), <<>> \notin DOMAIN mock,
           EditMirrors(c, files, mock), c.a.tool = "replace", Tree(files), FilesOK(files),
           FilesOK(mock), NEW p, p = Target(c.a.path), At(files, p) = At(mock, p),
           Kind(files, p) = Kind(mock, p), Blocked(files, p) <=> Blocked(mock, p),
           Kind(files, p) = "dir" \/ Blocked(files, p)
    PROVE  MockReplaceObs(mock, c.a) = Raises /\ MockFiles(mock, c.a) = mock
  <1>1. c.a.old = ""
    <2>. SUFFICES ASSUME c.a.old # "" PROVE FALSE
      OBVIOUS
    <2>1. p \in DOMAIN mock
      BY DEF EditMirrors
    <2>2. p \in DOMAIN files
      BY <2>1, AtOK
    <2>. QED
      BY <2>2 DEF Kind, Blocked, Tree
  <1>2. MockReplaceObs(mock, c.a) = Raises
    BY <1>1, MirrorReplace
  <1>. QED
    BY <1>2, ErrorsOK, MockRefuses

LEMMA OneIsOne ==
    ASSUME NEW x
    PROVE  ~ (Cardinality({x}) > 1)
  <1>1. Cardinality({x}) = 1
    BY FS_Singleton
  <1>. QED
    BY <1>1

LEMMA MakeDirMirrors ==
    ASSUME ToolConstants, MirrorInv, NEW t \in Threads, Mirrored(calls[t].a), MakeDir(t)
    PROVE  MirrorInv'
  <1>. DEFINE b == calls[t]
              p == Target(b.a.path)
              open == [b EXCEPT !.pc = "open"]
              obs == Err("io")
  <1>1. b.pc = "mkdir" /\ files' = files /\ EditSteps(t)
    BY DEF MakeDir, EditSteps
  <1>2. /\ b.a.tool = "replace" /\ DOMAIN b = Fields /\ Writes(b.a) = {p, WriteTarget(p)}
        /\ Failed(b).failed /\ b.a \in Acts
        /\ ~ Near(b, off) => /\ Kind(files, p) = Kind(mock, p) /\ At(files, p) = At(mock, p)
                             /\ Blocked(files, p) <=> Blocked(mock, p)
    BY <1>1, InWrite DEF Editing
  <1>3. Tree(files') /\ Tree(files) /\ FilesOK(files) /\ FilesOK(mock) /\ <<>> \notin DOMAIN mock
    BY <1>1 DEF MirrorInv, EditInv, MockOK
  <1>4. Exempt(b) \/ Near(b, off) \/ EditMirrors(b, files, mock)
    BY <1>1 DEF MirrorInv, CallMirrors
  <1>5. \/ Blocked(files, p) /\ Reply(t, b, obs)
        \/ UNCHANGED <<mock, off>> /\ calls' = [calls EXCEPT ![t] = open]
        \/ Reply(t, Failed(b), obs)
    BY Zenon DEF MakeDir, GoTo, Update, Keep
  <1>6. CASE Blocked(files, p) /\ Reply(t, b, obs)
    <2>1. ASSUME ~ b.failed, WriteTarget(p) = p, ~ Near(b, off)
          PROVE  /\ MockReplaceObs(mock, b.a) = Raises /\ obs.error # "none"
                 /\ At(files', p) = At(MockFiles(mock, b.a), p)
      <3>1. ~ (Cardinality({p}) > 1)
        BY OneIsOne
      <3>2. EditMirrors(b, files, mock)
        BY <1>1, <1>2, <1>4, <2>1, <3>1 DEF Exempt
      <3>3. MockReplaceObs(mock, b.a) = Raises /\ MockFiles(mock, b.a) = mock
        BY <1>2, <1>3, <1>6, <2>1, <3>2, Stumbles
      <3>. QED
        BY <1>1, <1>2, <2>1, <3>3, ErrorsOK
    <2>. HIDE DEF obs
    <2>. QED
      BY <1>1, <1>3, <1>6, <2>1, EditEnds
  <1>7. CASE UNCHANGED <<mock, off>> /\ calls' = [calls EXCEPT ![t] = open]
    <2>1. /\ open.pc = "open" /\ open.a = b.a /\ open.blur = b.blur /\ open.failed = b.failed
          /\ open.text = b.text
      BY <1>2 DEF Fields
    <2>. HIDE DEF open
    <2>2. Exempt(open) \/ Near(open, off) \/ EditMirrors(open, files, mock)
      BY <1>1, <1>4, <2>1 DEF Exempt, Near, EditMirrors
    <2>. QED
      BY <1>1, <1>7, <2>1, <2>2, EditGoes
  <1>8. CASE Reply(t, Failed(b), obs)
    <2>. HIDE DEF obs
    <2>. QED
      BY <1>1, <1>2, <1>3, <1>8, EditEnds
  <1>. QED
    BY <1>5, <1>6, <1>7, <1>8

LEMMA OpenMirrors ==
    ASSUME ToolConstants, MirrorInv, NEW t \in Threads, Mirrored(calls[t].a), OpenFile(t)
    PROVE  MirrorInv'
  <1>. DEFINE b == calls[t]
              p == Target(b.a.path)
              w == IF p = <<>> THEN p ELSE WriteTarget(p)
              fill == [b EXCEPT !.pc = "fill"]
              obs == Err("io")
              stuck == Kind(files, w) = "dir" \/ Blocked(files, w)
  <1>1. b.pc = "open" /\ EditSteps(t)
    BY DEF OpenFile, EditSteps
  <1>2. /\ Moved(t) /\ EditInv' /\ b.a.tool = "replace" /\ DOMAIN b = Fields
        /\ Writes(b.a) = {p, WriteTarget(p)} /\ Failed(b).failed /\ b.a \in Acts
        /\ ~ Near(b, off) => /\ Kind(files, p) = Kind(mock, p) /\ At(files, p) = At(mock, p)
                             /\ Blocked(files, p) <=> Blocked(mock, p)
    BY <1>1, InWrite DEF Editing
  <1>3. Tree(files) /\ FilesOK(files) /\ FilesOK(mock) /\ <<>> \notin DOMAIN mock
    BY DEF MirrorInv, EditInv, MockOK
  <1>4. Exempt(b) \/ Near(b, off) \/ EditMirrors(b, files, mock)
    BY <1>1 DEF MirrorInv, CallMirrors
  <1>5. \/ stuck /\ files' = files /\ Reply(t, b, obs)
        \/ /\ ~ stuck /\ files' = With(files, w, <<>>)
           /\ UNCHANGED <<mock, off>> /\ calls' = [calls EXCEPT ![t] = fill]
        \/ files' = files /\ Reply(t, Failed(b), obs)
    BY Zenon DEF OpenFile, GoTo, Update, Keep
  <1>6. CASE stuck /\ files' = files /\ Reply(t, b, obs)
    <2>1. ASSUME ~ b.failed, WriteTarget(p) = p, ~ Near(b, off)
          PROVE  /\ MockReplaceObs(mock, b.a) = Raises /\ obs.error # "none"
                 /\ At(files', p) = At(MockFiles(mock, b.a), p)
      <3>1. ~ (Cardinality({p}) > 1)
        BY OneIsOne
      <3>2. EditMirrors(b, files, mock)
        BY <1>1, <1>2, <1>4, <2>1, <3>1 DEF Exempt
      <3>3. Kind(files, p) = "dir" \/ Blocked(files, p)
        BY <1>6, <2>1
      <3>4. MockReplaceObs(mock, b.a) = Raises /\ MockFiles(mock, b.a) = mock
        BY <1>2, <1>3, <2>1, <3>2, <3>3, Stumbles
      <3>. QED
        BY <1>2, <1>6, <2>1, <3>4, ErrorsOK
    <2>2. Tree(files')
      BY <1>3, <1>6
    <2>. HIDE DEF obs
    <2>. QED
      BY <1>1, <1>6, <2>1, <2>2, EditEnds
  <1>7. CASE /\ ~ stuck /\ files' = With(files, w, <<>>)
             /\ UNCHANGED <<mock, off>> /\ calls' = [calls EXCEPT ![t] = fill]
    <2>1. /\ fill.pc = "fill" /\ fill.a = b.a /\ fill.blur = b.blur /\ fill.failed = b.failed
          /\ fill.text = b.text
      BY <1>2 DEF Fields
    <2>2. calls'[t] = fill
      BY <1>7 DEF MirrorInv, EditInv, CallsOK
    <2>3. w \in Writes(b.a)
      BY <1>2
    <2>4. <<>> # NoFile
      BY EmptySeq, WorkspaceConstants DEF WorkspaceConstants, Text
    <2>. HIDE DEF fill, w
    <2>5. Tree(files') /\ \A q : q \in Writes(b.a) \/ At(files, q) = At(files', q)
      BY WritesThere
    <2>6. (\A q : q # w => At(files', q) = At(files, q)) /\ w \in DOMAIN files'
      BY <1>7, <2>4, WithOK
    <2>7. Exempt(fill) \/ Near(fill, off) \/ EditMirrors(fill, files', mock)
      <3>. SUFFICES ASSUME ~ Exempt(fill), ~ Near(fill, off) PROVE EditMirrors(fill, files', mock)
        OBVIOUS
      <3>1. ~ Near(b, off) /\ EditMirrors(b, files, mock)
        BY <1>1, <1>4, <2>1 DEF Exempt, Near
      <3>2. WriteTarget(p) = p
        BY <1>2, <2>1, TwoIsMany DEF Exempt
      <3>3. w = p
        BY <3>2 DEF w
      <3>4. Kind(mock, p) # "dir" /\ ~ Blocked(mock, p)
        BY <1>2, <1>7, <3>1, <3>3
      <3>. QED
        BY <2>1, <2>6, <3>1, <3>3, <3>4 DEF EditMirrors
    <2>8. CallMirrors(calls'[t], files', mock, off)
      BY <2>1, <2>2, <2>7 DEF CallMirrors, LookMirrors, Looking
    <2>10. calls'[t].pc = "fill"
      BY <2>1, <2>2
    <2>. HIDE DEF b
    <2>. QED
      BY <1>1, <1>2, <1>7, <2>5, <2>8, <2>10, QuietMirrors DEF b
  <1>8. CASE files' = files /\ Reply(t, Failed(b), obs)
    <2>1. Tree(files')
      BY <1>3, <1>8
    <2>. HIDE DEF obs
    <2>. QED
      BY <1>1, <1>2, <1>8, <2>1, EditEnds
  <1>. QED
    BY <1>5, <1>6, <1>7, <1>8

LEMMA FillMirrors ==
    ASSUME ToolConstants, MirrorInv, NEW t \in Threads, Mirrored(calls[t].a), FillFile(t)
    PROVE  MirrorInv'
  <1>. DEFINE b == calls[t]
              p == Target(b.a.path)
              w == WriteTarget(p)
              full == IF w \in DOMAIN files THEN With(files, w, Source(b)) ELSE files
              obs == Err("io")
  <1>1. b.pc = "fill" /\ EditSteps(t)
    BY DEF FillFile, EditSteps
  <1>2. /\ b.a.tool = "replace" /\ Writes(b.a) = {p, w} /\ Failed(b).failed /\ b.a \in Acts
    BY <1>1, InWrite DEF Editing
  <1>3. Tree(files) /\ FilesOK(files) /\ FilesOK(mock) /\ <<>> \notin DOMAIN mock
    BY DEF MirrorInv, EditInv, MockOK
  <1>4. Exempt(b) \/ Near(b, off) \/ EditMirrors(b, files, mock)
    BY <1>1 DEF MirrorInv, CallMirrors
  <1>5. b.text \in Text
    BY <1>1 DEF MirrorInv, EditInv, TextOK
  <1>6. \/ files' = full /\ Reply(t, b, Ok)
        \/ Source(b) = NoFile /\ files' = files /\ Reply(t, b, obs)
        \/ files' \in {files, full} /\ Reply(t, Failed(b), obs)
    BY Zenon DEF FillFile
  <1>7. files' \in {files, full}
    BY <1>6
  <1>8. Tree(files') /\ \A q : q \in Writes(b.a) \/ At(files, q) = At(files', q)
    BY WritesThere
  <1>9. ASSUME ~ b.failed, w = p, ~ Near(b, off), files' = full
        PROVE  MockReplaceObs(mock, b.a) = Ok /\ At(files', p) = At(MockFiles(mock, b.a), p)
    <2>. DEFINE text == MockText(mock, p)
    <2>1. EditMirrors(b, files, mock)
      BY <1>1, <1>2, <1>4, <1>9, OneIsOne DEF Exempt
    <2>2. /\ b.text = Edited(AsText(At(mock, p)), b.a)
          /\ p \in DOMAIN mock => ~ Undecodable(mock[p])
          /\ b.a.old # "" => p \in DOMAIN mock /\ ReplaceError(Converted(mock[p]), b.a.old) = "none"
          /\ p \in DOMAIN files /\ Kind(mock, p) # "dir" /\ ~ Blocked(mock, p)
      BY <1>1, <2>1 DEF EditMirrors
    <2>3. text = AsText(At(mock, p))
      <3>1. CASE p \in DOMAIN mock
        <4>1. At(mock, p) = mock[p] /\ At(mock, p) # NoFile
          BY <1>3, <3>1, AtOK
        <4>. QED
          BY <1>3, <2>2, <3>1, <4>1, MockTextOK DEF AsText
      <3>2. CASE p \notin DOMAIN mock
        BY <3>2 DEF MockText, AsText, At
      <3>. QED
        BY <3>1, <3>2
    <2>4. MockReplaceObs(mock, b.a) = Ok
      <3>1. CASE b.a.old = ""
        BY <1>2, <1>3, <2>2, <3>1, MirrorReplace
      <3>2. CASE b.a.old # ""
        <4>1. Kind(mock, p) = "file" /\ text = Converted(mock[p])
          BY <1>3, <2>2, <3>2, MockTextOK DEF Kind
        <4>. QED
          BY <1>2, <1>3, <2>2, <3>2, <4>1, MirrorReplace
      <3>. QED
        BY <3>1, <3>2
    <2>5. MockFiles(mock, b.a) = With(mock, p, Edited(text, b.a))
      BY <1>2, <1>3, <2>4, MirrorReplace
    <2>6. Source(b) = b.text
      BY <1>9 DEF Source
    <2>7. files' = With(files, p, b.text)
      BY <1>9, <2>2, <2>6
    <2>. HIDE DEF text
    <2>8. MockFiles(mock, b.a) = With(mock, p, b.text)
      BY <2>2, <2>3, <2>5
    <2>. QED
      BY <2>4, <2>7, <2>8, WithOK
  <1>10. CASE files' = full /\ Reply(t, b, Ok)
    <2>. HIDE DEF full
    <2>. QED
      BY <1>1, <1>8, <1>9, <1>10, EditEnds
  <1>11. CASE Source(b) = NoFile /\ files' = files /\ Reply(t, b, obs)
    <2>1. w # p
      BY <1>5, <1>11, WorkspaceConstants DEF Source, WorkspaceConstants
    <2>. HIDE DEF obs
    <2>. QED
      BY <1>1, <1>8, <1>11, <2>1, EditEnds
  <1>12. CASE files' \in {files, full} /\ Reply(t, Failed(b), obs)
    <2>. HIDE DEF obs, full
    <2>. QED
      BY <1>1, <1>2, <1>8, <1>12, EditEnds
  <1>. QED
    BY <1>6, <1>10, <1>11, <1>12

LEMMA BashMirrors ==
    ASSUME ToolConstants, MirrorInv, NEW t \in Threads, Mirrored(calls[t].a), Bash(t)
    PROVE  MirrorInv'
  <1>. DEFINE b == calls[t]
              p == Target(b.a.path)
              after == Shell(files, p, b.a.new)
  <1>1. b.pc = "bash"
    BY DEF Bash
  <1>2. /\ Moved(t) /\ EditInv' /\ b.a.tool = "bash" /\ ~ Refused(b.a.path) /\ DOMAIN b = Fields
        /\ Writes(b.a) = {p} /\ Keeps(b, b) /\ Keeps(Failed(b), b) /\ Failed(b).failed
        /\ ~ Near(b, off) => /\ Kind(files, p) = Kind(mock, p) /\ At(files, p) = At(mock, p)
                             /\ Blocked(files, p) <=> Blocked(mock, p)
    BY <1>1, InWrite DEF Editing
  <1>3. \/ files' = after /\ Reply(t, b, Ok)
        \/ files' \in {files, after} /\ Reply(t, Failed(b), Ok)
    BY Zenon DEF Bash
  <1>4. Tree(files') /\ \A q : q \in Writes(b.a) \/ At(files, q) = At(files', q)
    BY WritesThere
  <1>5. MockFiles(mock, b.a) = Shell(mock, p, b.a.new)
    BY <1>2, Zenon DEF MockFiles
  <1>6. ~ Near(b, off) => At(after, p) = At(MockFiles(mock, b.a), p)
    BY <1>2, <1>5, WithOK DEF Shell
  <1>7. ASSUME NEW c \in {b, Failed(b)}, c.failed \/ files' = after, Reply(t, c, Ok)
        PROVE  MirrorInv'
    <2>1. Keeps(c, b) /\ DOMAIN c = Fields /\ c.a = b.a /\ c.blur = b.blur
      BY <1>2 DEF Keeps
    <2>2. /\ c.failed => Writes(c.a) \subseteq Doubt(c)
          /\ Near(c, off) => p \in Doubt(c)
      BY <1>2, <2>1, DoubtOK
    <2>3. \A q \in Writes(c.a) :
              q \in off \cup Doubt(c) \/ At(files', q) = At(MockFiles(mock, c.a), q)
      BY <1>2, <1>6, <1>7, <2>1, <2>2 DEF Near
    <2>4. Agree(Answered(c, Ok), MockFiles(mock, c.a), off \cup Doubt(c))
      BY <1>2, <2>1, AnsweredOK DEF Agree
    <2>. HIDE DEF b
    <2>. QED
      BY <1>2, <1>4, <1>7, <2>1, <2>3, <2>4, EndsMirror DEF b
  <1>8. CASE files' = after /\ Reply(t, b, Ok)
    BY <1>7, <1>8
  <1>9. CASE files' \in {files, after} /\ Reply(t, Failed(b), Ok)
    BY <1>2, <1>7, <1>9
  <1>. QED
    BY <1>3, <1>8, <1>9

\* An export changes no file and shows nothing the mock does not.
LEMMA ExportMirrors ==
    ASSUME ToolConstants, MirrorInv, NEW t \in Threads, AddIntent(t) \/ GitDiff(t)
    PROVE  MirrorInv'
  <1>. DEFINE b == calls[t]
  <1>1. /\ Moved(t) /\ EditInv' /\ files' = files /\ b.pc \in {"add", "diff"} /\ CallOK(b)
        /\ AddIntent(t) => calls'[t].pc = "diff"
    <2>1. EditInv /\ CallsOK
      BY DEF MirrorInv, EditInv
    <2>2. ToolStep(t)
      BY DEF ToolStep
    <2>. QED
      BY <2>1, <2>2, StepsKeep, AddIntentOK, GitDiffOK DEF CallsOK
  <1>2. b.a.tool = "export"
    BY <1>1 DEF CallOK, PcOK, Exporting
  <1>3. CASE AddIntent(t)
    <2>1. UNCHANGED <<mock, off>>
      BY <1>3 DEF AddIntent, Keep
    <2>2. CallMirrors(calls'[t], files, mock, off)
      BY <1>1, <1>3 DEF CallMirrors, LookMirrors, Looking
    <2>3. Tree(files')
      BY <1>1 DEF MirrorInv
    <2>. QED
      BY <1>1, <2>1, <2>2, <2>3, QuietMirrors
  <1>4. CASE GitDiff(t)
    <2>. DEFINE c == [b EXCEPT !.want = Should]
                shown == IF repo = "missing" THEN Ok ELSE Diff(Patch)
    <2>1. \/ Reply(t, c, shown)
          \/ \E o \in {Ok, Raises} : Reply(t, Failed(c), o)
      BY <1>4, Zenon DEF GitDiff, Patch, Should
    <2>. HIDE DEF b
    <2>2. Keeps(b, b) /\ DOMAIN b = Fields
      BY <1>1, Failing
    <2>3. Keeps(c, b) /\ DOMAIN c = Fields
      BY <2>2 DEF Fields, Keeps
    <2>. HIDE DEF c, shown
    <2>4. Keeps(Failed(c), b)
      BY <2>3 DEF Failed, Fields, Keeps
    <2>5. ASSUME NEW d \in {c, Failed(c)}, NEW o, Reply(t, d, o)
          PROVE  MirrorInv'
      <3>1. Keeps(d, b) /\ DOMAIN d = Fields /\ d.a = b.a
        BY <2>3, <2>4 DEF Keeps
      <3>2. Writes(d.a) = {} /\ MockFiles(mock, d.a) = mock
        BY <1>2, <3>1 DEF Writes, MockFiles
      <3>3. Agree(Answered(d, o), MockFiles(mock, d.a), off \cup Doubt(d))
        BY <1>2, <3>1, AnsweredOK DEF Agree
      <3>4. Tree(files')
        BY <1>1 DEF MirrorInv
      <3>5. \A q \in Writes(d.a) :
                q \in off \cup Doubt(d) \/ At(files', q) = At(MockFiles(mock, d.a), q)
        BY <3>2
      <3>6. \A q : q \in Writes(calls[t].a) \/ At(files, q) = At(files', q)
        BY <1>1
      <3>. QED
        BY <1>1, <2>5, <3>1, <3>3, <3>4, <3>5, <3>6, EndsMirror DEF b
    <2>. QED
      BY <2>1, <2>5
  <1>. QED
    BY <1>3, <1>4

\* A call whose path the two sides take differently leaves the mock behind on the
\* paths it writes, and on no other.
LEMMA StrayMirrors ==
    ASSUME ToolConstants, MirrorInv, NEW t \in Threads, ~ Mirrored(calls[t].a),
           Looks(t) \/ EditSteps(t) \/ Bash(t)
    PROVE  MirrorInv'
  <1>. DEFINE b == calls[t]
  <1>1. EditInv /\ CallsOK
    BY DEF MirrorInv, EditInv
  <1>2. Moved(t) /\ EditInv'
    <2>1. Moved(t)
      BY <1>1, LookingOK, EditingOK, BashOK
    <2>2. ToolStep(t)
      BY DEF Looks, EditSteps, ToolStep
    <2>. QED
      BY <1>1, <2>1, <2>2, StepsKeep
  <1>3. CallOK(b)
    BY <1>1 DEF CallsOK
  <1>4. Keeps(b, b) /\ Keeps(Failed(b), b)
    <2>. HIDE DEF b
    <2>. QED
      BY <1>3, Failing
  <1>5. Tree(files') /\ \A q : q \in Writes(b.a) \/ At(files, q) = At(files', q)
    <2>1. CASE OpenFile(t) \/ FillFile(t) \/ Bash(t)
      BY <2>1, WritesThere
    <2>2. CASE ~ (OpenFile(t) \/ FillFile(t) \/ Bash(t))
      <3>1. files' = files
        BY <2>2 DEF Looks, EditSteps, Stat, List, SearchEnds, ViewFile, SearchFile, ReadFile, MakeDir
      <3>. QED
        BY <3>1 DEF MirrorInv
    <2>. QED
      BY <2>1, <2>2
  <1>6. ASSUME NEW c \in {b, Failed(b)}, NEW obs, Reply(t, c, obs)
        PROVE  MirrorInv'
    <2>1. Keeps(c, b)
      BY <1>4
    <2>2. c.a = b.a
      BY <2>1 DEF Keeps
    <2>3. \A q \in Writes(c.a) : q \in Doubt(c)
      BY <2>2 DEF Doubt
    <2>. HIDE DEF b
    <2>. QED
      BY <1>2, <1>5, <1>6, <2>1, <2>2, <2>3, EndsMirror DEF b
  <1>7. ASSUME Keep, b.pc # "fill", files' = files \/ calls'[t].pc = "fill"
        PROVE  MirrorInv'
    BY <1>2, <1>5, <1>7, QuietMirrors DEF Keep
  <1>8. CASE Looks(t)
    <2>1. \/ Keep /\ b.pc # "fill" /\ files' = files
          \/ \E c \in {b, Failed(b)} : \E obs : Reply(t, c, obs)
      <3>1. CASE Stat(t)
        <4>1. Kind(files, Target(b.a.path)) \in {"none", "dir", "file"} /\ b.a.tool \in {"search", "view"}
          BY <1>3, <3>1 DEF Kind, Stat, CallOK, PcOK, Looking
        <4>2. b.pc # "fill" /\ files' = files
          BY <3>1 DEF Stat
        <4>3. Keep \/ \E obs : Reply(t, b, obs) \/ Reply(t, Failed(b), obs)
          BY <3>1, <4>1 DEF Stat
        <4>. QED
          BY <4>2, <4>3
      <3>2. CASE List(t)
        BY <3>2 DEF List
      <3>3. CASE SearchEnds(t)
        BY <3>3 DEF SearchEnds
      <3>4. CASE ViewFile(t)
        BY <3>4 DEF ViewFile
      <3>5. CASE \E p \in DOMAIN files \cup b.todo : SearchFile(t, p)
        BY <3>5, Zenon DEF SearchFile
      <3>. QED
        BY <1>8, <3>1, <3>2, <3>3, <3>4, <3>5 DEF Looks
    <2>. QED
      BY <1>6, <1>7, <2>1
  <1>9. CASE EditSteps(t)
    <2>1. \/ Keep /\ b.pc # "fill" /\ (files' = files \/ calls'[t].pc = "fill")
          \/ \E c \in {b, Failed(b)} : \E obs : Reply(t, c, obs)
      <3>1. CASE ReadFile(t)
        BY <3>1 DEF ReadFile, Replacement
      <3>2. CASE MakeDir(t)
        BY <3>2 DEF MakeDir
      <3>3. CASE OpenFile(t)
        <4>1. b.pc # "fill"
          BY <3>3 DEF OpenFile
        <4>2. [b EXCEPT !.pc = "fill"].pc = "fill"
          BY <1>3 DEF CallOK, Fields
        <4>3. \/ Keep /\ (files' = files \/ calls' = [calls EXCEPT ![t] = [b EXCEPT !.pc = "fill"]])
              \/ \E c \in {b, Failed(b)} : \E obs : Reply(t, c, obs)
          BY <3>3, Zenon DEF OpenFile, GoTo, Update
        <4>4. \A d : calls' = [calls EXCEPT ![t] = d] => calls'[t] = d
          BY <1>1 DEF CallsOK
        <4>. HIDE DEF b
        <4>. QED
          BY <4>1, <4>2, <4>3, <4>4
      <3>4. CASE FillFile(t)
        BY <3>4 DEF FillFile
      <3>. QED
        BY <1>9, <3>1, <3>2, <3>3, <3>4 DEF EditSteps
    <2>. QED
      BY <1>6, <1>7, <2>1
  <1>10. CASE Bash(t)
    <2>1. \E c \in {b, Failed(b)} : \E obs : Reply(t, c, obs)
      BY <1>10 DEF Bash
    <2>. QED
      BY <1>6, <2>1
  <1>. QED
    BY <1>8, <1>9, <1>10

LEMMA BeginMirrors ==
    ASSUME ToolConstants, MirrorInv, NEW t \in Threads, NEW a \in Acts, Begin(t, a)
    PROVE  MirrorInv'
  <1>. DEFINE others == {u \in Threads \ {t} : Busy(u)}
              blur == UNION {Writes(calls[u].a) : u \in others}
              c == [NoCall EXCEPT !.pc = First(a), !.a = a, !.before = files, !.blur = blur]
              wider(u) == [calls[u] EXCEPT !.blur = @ \cup Writes(a)]
  <1>1. UNCHANGED files
    BY DEF Begin
  <1>2. \A u \in others : calls'[u] = wider(u)
    BY Zenon DEF Begin
  <1>3. \A u \in Threads \ others : u # t => calls'[u] = NoCall
    BY Zenon DEF Begin
  <1>4. /\ Rejects(a) # "none" => calls'[t] = Answered(c, Err(Rejects(a))) /\ Given(c)
        /\ Rejects(a) = "none" => calls'[t] = c /\ UNCHANGED <<mock, off>>
    BY Zenon DEF Begin, Keep
  <1>5. EditInv'
    BY BeginKeeps DEF MirrorInv
  <1>6. c.pc = First(a) /\ c.a = a /\ c.hits = {} /\ DOMAIN c = Fields
    BY DEF NoCall, Fields
  <1>. HIDE DEF c
  <1>7. MockOK' /\ off \subseteq off' /\ \A q : q \in off' \/ At(mock, q) = At(mock', q)
    <2>1. MockOK
      BY DEF MirrorInv
    <2>2. CASE Rejects(a) = "none"
      BY <1>4, <2>1, <2>2 DEF MockOK, FilesOK
    <2>3. CASE Rejects(a) # "none"
      <3>1. Writes(a) = {}
        BY <2>3 DEF Rejects, Writes
      <3>. QED
        BY <1>4, <1>6, <2>1, <2>3, <3>1, GivenOK
    <2>. QED
      BY <2>2, <2>3
  <1>8. FilesOK(files) /\ FilesOK(mock) /\ FilesOK(mock')
    BY <1>7 DEF MirrorInv, EditInv, MockOK
  <1>9. ASSUME NEW u \in others
        PROVE  /\ calls'[u].pc = calls[u].pc /\ calls'[u].a = calls[u].a
               /\ Mirrored(calls'[u].a) => CallMirrors(calls'[u], files', mock', off')
    <2>. DEFINE b == calls[u]
                d == calls'[u]
    <2>1. DOMAIN b = Fields
      BY DEF MirrorInv, EditInv, CallsOK, CallOK
    <2>2. d = [b EXCEPT !.blur = @ \cup Writes(a)]
      BY <1>2
    <2>3. Mirrored(b.a) => CallMirrors(b, files, mock, off)
      BY DEF MirrorInv
    <2>4. Mirrored(b.a) /\ b.pc \in {"list", "each"} /\ ~ b.a.scoped => Target(b.a.path) = <<>>
      BY ListedBelow
    <2>. HIDE DEF b, d
    <2>5. /\ d.pc = b.pc /\ d.a = b.a /\ d.text = b.text /\ d.todo = b.todo
          /\ d.hits = b.hits /\ d.obs = b.obs /\ d.mock = b.mock /\ d.failed = b.failed
          /\ b.blur \subseteq d.blur
      BY <2>1, <2>2 DEF Fields
    <2>6. Mirrored(b.a) => CallMirrors(d, files', mock', off')
      <3>1. FilesOK(files') /\ \A q : q \in off' \cup d.blur \/ At(files, q) = At(files', q)
        BY <1>1, <1>8
      <3>2. \A q : q \in off' \cup d.blur \/ At(mock, q) = At(mock', q)
        BY <1>7
      <3>3. SUFFICES ASSUME Mirrored(b.a) PROVE CallMirrors(d, files', mock', off')
        OBVIOUS
      <3>4. CallMirrors(b, files, mock, off)
        BY <2>3, <3>3
      <3>5. b.pc \in {"list", "each"} /\ ~ b.a.scoped => Target(b.a.path) = <<>>
        BY <2>4, <3>3
      <3>. QED
        BY <1>7, <1>8, <2>5, <3>1, <3>2, <3>4, <3>5, MirrorsStill
    <2>. QED
      BY <2>5, <2>6 DEF b, d
  <1>10. CallMirrors(NoCall, files', mock', off') /\ NoCall.pc = "idle"
    BY DEF NoCall, CallMirrors, LookMirrors, Looking
  <1>11. ASSUME Rejects(a) # "none", Mirrored(a)
         PROVE  CallMirrors(calls'[t], files', mock', off')
    <2>. DEFINE d == Answered(c, Err("regex"))
    <2>1. Rejects(a) = "regex" /\ a.tool = "search" /\ a.query = BadRegex
      BY <1>11 DEF Rejects, Mirrored
    <2>2. calls'[t] = d
      BY <1>4, <1>11, <2>1
    <2>3. /\ d.pc = "done" /\ d.a = a /\ d.obs = Err("regex") /\ d.mock = MockObs(mock, a)
      BY <1>6 DEF Answered, Fields
    <2>4. MockObs(mock, a) = Err("regex")
      BY <2>1 DEF MockObs, MockSearch
    <2>. HIDE DEF d
    <2>5. Agree(d, mock', off')
      BY <2>3, <2>4 DEF Agree
    <2>. QED
      BY <2>2, <2>3, <2>5 DEF CallMirrors, LookMirrors, Looking
  <1>12. ASSUME Rejects(a) = "none", Mirrored(a)
         PROVE  CallMirrors(calls'[t], files', mock', off')
    <2>1. /\ c.pc \notin {"each", "show", "mkdir", "open", "fill", "done"}
          /\ c.pc = "list" => a.tool = "search" /\ ~ a.scoped
          /\ c.pc = "stat" /\ a.tool = "search" => a.scoped
      <3>1. a.tool \in Tools
        BY DEF ToolConstants
      <3>. QED
        BY <1>6, <3>1 DEF First, Tools
    <2>2. Mirrored(a) /\ c.pc = "list" => There(c, mock', off')
      <3>. SUFFICES ASSUME Mirrored(a), c.pc = "list" PROVE There(c, mock', off')
        OBVIOUS
      <3>1. a.path = Top
        BY <2>1 DEF ToolConstants
      <3>2. Target(a.path) = <<>>
        BY <3>1, PlainPath DEF Top
      <3>. QED
        BY <1>6, <3>2 DEF There, Kind
    <2>3. a.tool = "search" => a.query # BadRegex
      BY <1>12 DEF Rejects
    <2>4. Mirrored(a) => CallMirrors(c, files', mock', off')
      BY <1>6, <2>1, <2>2, <2>3 DEF CallMirrors, LookMirrors
    <2>. QED
      BY <1>4, <1>12, <2>4
  <1>13. calls'[t].a = a
    BY <1>4, <1>6, AnsweredOK
  <1>14. Mirrored(calls'[t].a) => CallMirrors(calls'[t], files', mock', off')
    BY <1>4, <1>6, <1>11, <1>12, <1>13
  <1>15. \A u \in Threads : u = t \/ u \in others \/ calls'[u] = NoCall
    BY <1>3
  <1>16. \A u \in Threads : Mirrored(calls'[u].a) => CallMirrors(calls'[u], files', mock', off')
    <2>. HIDE DEF others
    <2>. QED
      BY <1>9, <1>10, <1>14, <1>15
  <1>17. SameFiles'
    <2>1. ASSUME NEW u \in Threads, NEW q, Filling(u, q)
          PROVE  calls'[u].pc = "fill" /\ q \in Writes(calls'[u].a)
      <3>1. u \in others
        BY <2>1 DEF Begin, Filling, Busy
      <3>. QED
        BY <1>9, <2>1, <3>1 DEF Filling
    <2>2. ASSUME NEW q
          PROVE  \/ q \in off' \/ At(files', q) = At(mock', q)
                 \/ \E u \in Threads : calls'[u].pc = "fill" /\ q \in Writes(calls'[u].a)
      <3>1. q \in off \/ At(files, q) = At(mock, q) \/ \E u \in Threads : Filling(u, q)
        BY DEF MirrorInv, SameFiles
      <3>. QED
        BY <1>1, <1>7, <2>1, <3>1
    <2>. QED
      BY <2>2 DEF SameFiles, Filling
  <1>18. Tree(files')
    BY <1>1 DEF MirrorInv
  <1>. QED
    BY <1>5, <1>7, <1>16, <1>17, <1>18 DEF MirrorInv, Mirrored

LEMMA InitMirrors == ToolConstants /\ SeedsLeaveRoom /\ Init => MirrorInv
  <1>. SUFFICES ASSUME ToolConstants, SeedsLeaveRoom, Init PROVE MirrorInv
    OBVIOUS
  <1>1. /\ calls = [t \in Threads |-> NoCall] /\ files = Baseline /\ mock = Around
        /\ off = GitOwn \cup DOMAIN Machine
    BY DEF Init
  <1>2. EditInv
    BY InitKept
  <1>3. Tree(files)
    BY <1>1 DEF SeedsLeaveRoom
  <1>4. MockOK
    <2>1. FilesOK(mock)
      BY <1>1 DEF FilesOK, ToolConstants, Around
    <2>2. IsFiniteSet(DOMAIN Seeds \cup DOMAIN Machine)
      BY FS_Union DEF ToolConstants
    <2>3. IsFiniteSet(DOMAIN mock)
      BY <1>1, <2>2 DEF Around
    <2>4. <<>> \notin DOMAIN mock
      BY <1>1 DEF SeedsLeaveRoom, Tree
    <2>5. \A q \in DOMAIN mock : Outer(q) => q \in off
      BY <1>1 DEF Around, ToolConstants
    <2>. QED
      BY <2>1, <2>3, <2>4, <2>5 DEF MockOK
  <1>5. SameFiles
    <2>1. ASSUME NEW q, q \notin off PROVE At(files, q) = At(mock, q)
      <3>1. /\ q \in DOMAIN files <=> q \in DOMAIN Seeds
            /\ q \in DOMAIN mock <=> q \in DOMAIN Seeds
            /\ q \in DOMAIN Seeds => files[q] = Seeds[q] /\ mock[q] = Seeds[q]
        BY <1>1, <2>1 DEF Baseline, Around, GitOwn
      <3>. QED
        BY <3>1 DEF At
    <2>. QED
      BY <2>1 DEF SameFiles
  <1>6. CallMirrors(NoCall, files, mock, off)
    BY DEF NoCall, CallMirrors, LookMirrors, Looking
  <1>. QED
    BY <1>1, <1>2, <1>3, <1>4, <1>5, <1>6 DEF MirrorInv

LEMMA StepMirrors ==
    ASSUME ToolConstants, MirrorInv, NEW t \in Threads, ToolStep(t)
    PROVE  MirrorInv'
  <1>1. CASE \E a \in Acts : Begin(t, a)
    BY <1>1, BeginMirrors
  <1>2. CASE AddIntent(t) \/ GitDiff(t)
    BY <1>2, ExportMirrors
  <1>3. CASE Mirrored(calls[t].a)
    <2>1. CASE \E p \in DOMAIN files \cup calls[t].todo : SearchFile(t, p)
      BY <1>3, <2>1, SearchFileMirrors
    <2>2. CASE Stat(t) \/ List(t) \/ SearchEnds(t) \/ ViewFile(t)
      BY <1>3, <2>2, StatMirrors, ListMirrors, SearchEndsMirrors, ViewMirrors
    <2>3. CASE ReadFile(t) \/ MakeDir(t) \/ OpenFile(t) \/ FillFile(t) \/ Bash(t)
      BY <1>3, <2>3, ReadMirrors, MakeDirMirrors, OpenMirrors, FillMirrors, BashMirrors
    <2>. QED
      BY <1>1, <1>2, <2>1, <2>2, <2>3 DEF ToolStep
  <1>4. CASE ~ Mirrored(calls[t].a)
    <2>1. Looks(t) \/ EditSteps(t) \/ Bash(t) => MirrorInv'
      BY <1>4, StrayMirrors
    <2>. QED
      BY <1>1, <1>2, <2>1 DEF ToolStep, Looks, EditSteps
  <1>. QED
    BY <1>3, <1>4

\* "The semantics mirrors the mock one by one" (tools.py:3), as far as it goes:
\* what a call with a plain path shows and where it leaves the files is what the
\* mock shows and leaves when it is given the same calls in the order in which
\* they end.  Left out are a call whose docker exec failed, and the paths that
\* are in doubt: those such a call wrote or others wrote meanwhile, those whose
\* name has a space in it or whose text does not decode, and those reached by a
\* path that is absolute, has ".." in it or is refused.  Whatever the calls and
\* however their docker execs interleave.
THEOREM ToolsMirrorTheMock == Spec => []MirrorsMock
  <1>1. Init => MirrorInv
    BY InitMirrors, ToolConstants, SeedsLeaveRoom
  <1>2. MirrorInv /\ [Next]_vars => MirrorInv'
    <2>1. MirrorInv /\ UNCHANGED vars => MirrorInv'
      BY DEF vars, MirrorInv, MockOK, EditInv, CallsOK, BlurOK, Busy, SameFiles, Filling
    <2>. QED
      BY <2>1, StepMirrors, ToolConstants DEF Next, vars
  <1>3. MirrorInv => MirrorsMock
    <2>. SUFFICES ASSUME MirrorInv PROVE MirrorsMock
      OBVIOUS
    <2>1. ASSUME \A t \in Threads : ~ Busy(t),
                 NEW p \in (DOMAIN files \cup DOMAIN mock) \ off
          PROVE  At(files, p) = At(mock, p)
      BY <2>1 DEF MirrorInv, SameFiles, Filling, Busy
    <2>2. ASSUME NEW t \in Threads
          PROVE  calls[t].pc # "done" \/ calls[t].failed \/ ~ Mirrored(calls[t].a)
                 \/ Agree(calls[t], mock, off)
      BY DEF MirrorInv, CallMirrors
    <2>. QED
      BY <2>1, <2>2 DEF MirrorsMock
  <1>. QED
    BY <1>1, <1>2, <1>3, PTL DEF Spec
=============================================================================
