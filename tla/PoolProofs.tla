----------------------------- MODULE PoolProofs -----------------------------
(***************************************************************************)
(* Theorems about the three builders under MixedPool, for every set of     *)
(* candidates, every limit and any number of starts and failures.          *)
(***************************************************************************)
EXTENDS MixedPool, SelectionProofs

\* While a candidate is at one of these places its containers may exist.
Boxed == {"create_fix", "patch", "f2p", "p2p", "pack", "remove_base", "remove_fix"}
Verdicts == {"none", "rejected", "verified", "raised"}

BuilderOK ==
    /\ script \in {"public", "reversal", "ast"}
    /\ verdict \in Verdicts
    /\ held = [r \in Roles |-> held[r]]
    /\ state \in [Cand -> Verdicts]
    /\ script = "ast" => pc \in {"stopped", "head", "archive", "manifest", "write"}
    /\ script # "ast" => pc \notin {"archive", "manifest", "write"}

\* The finally block has released what the try block created, and only what
\* it holds can be the container of the candidate in hand.
HeldOK ==
    /\ pc \notin Boxed => \A r \in Roles : held[r] = {}
    /\ pc = "create_fix" => held["fix"] = {}
    /\ pc = "remove_fix" => held["base"] = {}
    /\ \A b \in alive : b.role \in Roles /\ b = [cand |-> b.cand, role |-> b.role, start |-> b.start]

\* The output of a resumable script only grows.
OutOK == script # "ast" => \E Rows : out \in Seq(Rows)

BInv == BuilderOK /\ HeldOK /\ OutOK

LEMMA BInitOK == Init => BInv /\ ContainersReleased /\ VerifiedIsKept
  <1>. SUFFICES ASSUME Init PROVE BInv /\ ContainersReleased /\ VerifiedIsKept
    OBVIOUS
  <1>. USE DEF Init, PoolInit
  <1>1. BuilderOK /\ HeldOK
    BY DEF BuilderOK, HeldOK, Boxed, Verdicts, Absent
  <1>2. OutOK
    BY DEF OutOK
  <1>3. ContainersReleased /\ VerifiedIsKept
    BY DEF ContainersReleased, VerifiedIsKept
  <1>. QED
    BY <1>1, <1>2, <1>3 DEF BInv

\* A step of the scripts by name; the mixer leaves their variables alone.
LEMMA PoolCases ==
    ASSUME [Next]_vars
    PROVE  \/ Start \/ StartFails
           \/ AstStart \/ Finish \/ Pick \/ Screen \/ Reject \/ Uncaught \/ Prepare
           \/ \E role \in Roles : Create(role) \/ CreateLeaks(role)
           \/ Patch \/ F2P \/ P2P \/ Pack
           \/ \E role \in Roles : RemoveBox(role) \/ RemoveTimesOut(role)
           \/ Propagate \/ Killed \/ WriteBundleFails
           \/ Record
           \/ WriteBundle \/ AppendRow \/ Image
           \/ AstStep \/ AstWriteCut
           \/ UNCHANGED poolVars
  <1>1. UNCHANGED vars => UNCHANGED poolVars
    BY Zenon DEF vars
  <1>2. MixStep \/ MixKilled \/ MixCut => UNCHANGED poolVars
    BY Zenon DEF MixStep, MixKilled, MixCut, WriteFull, WritePool, WriteEval, WriteEvalPool,
      WriteManifest
  <1>3. ASSUME NEW q \in Quotas, NEW e \in EvalSets \cup {NoEval}, MixStart(q, e)
        PROVE  UNCHANGED poolVars
    BY <1>3, Zenon DEF MixStart
  <1>. QED
    BY <1>1, <1>2, <1>3, Zenon DEF Next, BuildStep, BuildFault, PoolStep, PoolFault

LEMMA BuilderStep ==
    ASSUME BInv, [Next]_vars
    PROVE  BuilderOK'
  <1>. USE DEF BInv, BuilderOK, Verdicts, Verdict, Roles, durable, volatile
  <1>1. CASE Start \/ StartFails \/ AstStart \/ Finish \/ Pick \/ Screen \/ Reject \/ Uncaught \/ Prepare
    BY <1>1 DEF Start, StartFails, AstStart, Finish, Pick, Screen, Reject, Uncaught, Prepare, Verifying
  <1>2. ASSUME NEW role \in Roles, Create(role) \/ CreateLeaks(role)
        PROVE  BuilderOK'
    BY <1>2 DEF Create, CreateLeaks, CreatePc
  <1>3. CASE Patch \/ F2P \/ P2P \/ Pack
    BY <1>3 DEF Patch, F2P, P2P, Pack
  <1>4. ASSUME NEW role \in Roles, RemoveBox(role) \/ RemoveTimesOut(role)
        PROVE  BuilderOK'
    BY <1>4 DEF RemoveBox, RemoveTimesOut, RemovePc, AfterRemove, Released, Die, Absent
  <1>5. CASE Propagate \/ Killed \/ WriteBundleFails
    BY <1>5 DEF Propagate, Killed, WriteBundleFails, Die, Absent
  <1>6. CASE Record
    BY <1>6 DEF Record, AfterRecord
  <1>7. CASE WriteBundle \/ AppendRow \/ Image
    BY <1>7 DEF WriteBundle, AppendRow, Image, Die, Absent
  <1>8. CASE AstStep \/ AstWriteCut
    BY <1>8 DEF AstStep, AstPick, AstArchive, AstManifest, AstFinish, AstWrite, AstWriteCut, Die,
      Absent
  <1>9. CASE UNCHANGED poolVars
    BY <1>9 DEF poolVars
  <1>. QED
    BY <1>1, <1>2, <1>3, <1>4, <1>5, <1>6, <1>7, <1>8, <1>9, PoolCases

LEMMA HeldStep ==
    ASSUME BInv, [Next]_vars
    PROVE  HeldOK'
  <1>. USE DEF BInv, BuilderOK, HeldOK, Boxed, Verdict, Roles, Container, durable, volatile
  <1>1. CASE Start \/ StartFails \/ AstStart \/ Finish \/ Pick \/ Screen \/ Reject \/ Uncaught \/ Prepare
    BY <1>1 DEF Start, StartFails, AstStart, Finish, Pick, Screen, Reject, Uncaught, Prepare, Verifying
  <1>2. ASSUME NEW role \in Roles, Create(role) \/ CreateLeaks(role)
        PROVE  HeldOK'
    BY <1>2 DEF Create, CreateLeaks, CreatePc
  <1>3. CASE Patch \/ F2P \/ P2P \/ Pack
    BY <1>3 DEF Patch, F2P, P2P, Pack
  <1>4. ASSUME NEW role \in Roles, RemoveBox(role) \/ RemoveTimesOut(role)
        PROVE  HeldOK'
    BY <1>4 DEF RemoveBox, RemoveTimesOut, RemovePc, AfterRemove, Released, Die, Absent
  <1>5. CASE Propagate \/ Killed \/ WriteBundleFails
    BY <1>5 DEF Propagate, Killed, WriteBundleFails, Die, Absent
  <1>6. CASE Record
    BY <1>6 DEF Record, AfterRecord
  <1>7. CASE WriteBundle \/ AppendRow \/ Image
    BY <1>7 DEF WriteBundle, AppendRow, Image, Die, Absent
  <1>8. CASE AstStep \/ AstWriteCut
    BY <1>8 DEF AstStep, AstPick, AstArchive, AstManifest, AstFinish, AstWrite, AstWriteCut, Die,
      Absent
  <1>9. CASE UNCHANGED poolVars
    BY <1>9 DEF poolVars
  <1>. QED
    BY <1>1, <1>2, <1>3, <1>4, <1>5, <1>6, <1>7, <1>8, <1>9, PoolCases

\* The death of the process excuses what it held.
LEMMA Died ==
    ASSUME BInv, ContainersReleased, Die, UNCHANGED <<alive, starts>>
    PROVE  ContainersReleased'
  <1>. SUFFICES ASSUME NEW b \in alive
                PROVE  \E e \in excuses' : e.box = b
    BY DEF ContainersReleased
  <1>1. b.role \in Roles /\ b = [cand |-> b.cand, role |-> b.role, start |-> b.start]
    BY DEF BInv, HeldOK
  <1>2. excuses \subseteq excuses'
    BY DEF Die
  <1>3. CASE b.cand = cur /\ b.start = starts /\ held[b.role] # {}
    <2>1. [box |-> Container(b.role), why |-> "died"] \in excuses'
      BY <1>1, <1>3 DEF Die
    <2>2. Container(b.role) = b
      BY <1>1, <1>3 DEF Container
    <2>. QED
      BY <2>1, <2>2
  <1>4. CASE \E e \in excuses : e.box = b
    BY <1>2, <1>4
  <1>. QED
    BY <1>3, <1>4 DEF ContainersReleased

LEMMA ReleasedStep ==
    ASSUME BInv, ContainersReleased, [Next]_vars
    PROVE  ContainersReleased'
  <1>. USE DEF BInv, BuilderOK, HeldOK, Boxed, ContainersReleased, Verdict, Roles, Container,
         Lose, durable, volatile
  <1>1. CASE Start \/ StartFails \/ AstStart \/ Finish \/ Pick \/ Screen \/ Reject \/ Uncaught \/ Prepare
    BY <1>1 DEF Start, StartFails, AstStart, Finish, Pick, Screen, Reject, Uncaught, Prepare, Verifying
  <1>2. ASSUME NEW role \in Roles, Create(role) \/ CreateLeaks(role)
        PROVE  ContainersReleased'
    <2>1. CASE Create(role)
      <3>1. /\ alive' = alive \cup {Container(role)} /\ UNCHANGED <<cur, starts, excuses>>
            /\ held' = [held EXCEPT ![role] = {Seed(role)}]
        BY <2>1 DEF Create
      <3>. QED
        BY <3>1
    <2>2. CASE CreateLeaks(role)
      <3>1. /\ alive' = alive \cup {Container(role)} /\ UNCHANGED <<cur, starts, held>>
            /\ excuses' = excuses \cup {[box |-> Container(role), why |-> "create_raised"]}
        BY <2>2 DEF CreateLeaks
      <3>. DEFINE excuse == [box |-> Container(role), why |-> "create_raised"]
      <3>2. excuse \in excuses' /\ excuse.box = Container(role)
        BY <3>1
      <3>. HIDE DEF excuse
      <3>. HIDE DEF Container
      <3>. QED
        BY <3>1, <3>2
    <2>. QED
      BY <1>2, <2>1, <2>2
  <1>3. CASE Patch \/ F2P \/ P2P \/ Pack
    BY <1>3 DEF Patch, F2P, P2P, Pack
  <1>4. ASSUME NEW role \in Roles, RemoveBox(role) \/ RemoveTimesOut(role)
        PROVE  ContainersReleased'
    <2>1. CASE RemoveBox(role)
      <3>1. /\ UNCHANGED <<cur, starts>> /\ held' = [held EXCEPT ![role] = {}]
            /\ \/ alive' = alive \ Released(role) /\ UNCHANGED excuses
               \/ /\ excuses' = excuses \cup {[box |-> Container(role), why |-> "rm_failed"]}
                  /\ UNCHANGED alive
        BY <2>1 DEF RemoveBox
      <3>. SUFFICES ASSUME NEW b \in alive'
                    PROVE  \/ b.cand = cur' /\ b.start = starts' /\ held'[b.role] # {}
                           \/ \E e \in excuses' : e.box = b
        OBVIOUS
      <3>2. b \in alive /\ b.role \in Roles /\ excuses \subseteq excuses'
            /\ b = [cand |-> b.cand, role |-> b.role, start |-> b.start]
        BY <3>1
      <3>3. CASE b.cand = cur /\ b.start = starts /\ held[b.role] # {} /\ b.role = role
        <4>1. Container(role) = b /\ Released(role) = {b}
          BY <3>2, <3>3 DEF Released
        <4>2. excuses' = excuses \cup {[box |-> Container(role), why |-> "rm_failed"]}
          BY <3>1, <4>1
        <4>. DEFINE excuse == [box |-> Container(role), why |-> "rm_failed"]
        <4>3. excuse \in excuses' /\ excuse.box = Container(role)
          BY <4>2
        <4>. HIDE DEF excuse
        <4>. QED
          BY <4>1, <4>3
      <3>4. CASE b.cand = cur /\ b.start = starts /\ held[b.role] # {} /\ b.role # role
        BY <3>1, <3>2, <3>4
      <3>5. CASE \E e \in excuses : e.box = b
        BY <3>2, <3>5
      <3>. QED
        BY <3>2, <3>3, <3>4, <3>5
    <2>2. CASE RemoveTimesOut(role)
      BY <2>2, Died DEF RemoveTimesOut
    <2>. QED
      BY <1>4, <2>1, <2>2
  <1>5. CASE Propagate \/ Killed \/ WriteBundleFails
    BY <1>5, Died DEF Propagate, Killed, WriteBundleFails
  <1>6. CASE Record
    BY <1>6 DEF Record, AfterRecord
  <1>7. CASE WriteBundle \/ AppendRow \/ Image
    BY <1>7 DEF WriteBundle, AppendRow, Image, Die, Absent
  <1>8. CASE AstStep \/ AstWriteCut
    BY <1>8 DEF AstStep, AstPick, AstArchive, AstManifest, AstFinish, AstWrite, AstWriteCut, Die,
      Absent
  <1>9. CASE UNCHANGED poolVars
    BY <1>9 DEF poolVars
  <1>. QED
    BY <1>1, <1>2, <1>3, <1>4, <1>5, <1>6, <1>7, <1>8, <1>9, PoolCases

LEMMA OutStep ==
    ASSUME BInv, [Next]_vars
    PROVE  OutOK'
  <1>. USE DEF BInv, BuilderOK, OutOK, durable, volatile
  <1>1. CASE Start \/ StartFails \/ AstStart \/ Finish \/ Pick \/ Screen \/ Reject \/ Uncaught \/ Prepare
    BY <1>1 DEF Start, StartFails, AstStart, Finish, Pick, Screen, Reject, Uncaught, Prepare, Verifying
  <1>2. ASSUME NEW role \in Roles, Create(role) \/ CreateLeaks(role)
        PROVE  OutOK'
    BY <1>2 DEF Create, CreateLeaks, CreatePc
  <1>3. CASE Patch \/ F2P \/ P2P \/ Pack
    BY <1>3 DEF Patch, F2P, P2P, Pack
  <1>4. ASSUME NEW role \in Roles, RemoveBox(role) \/ RemoveTimesOut(role)
        PROVE  OutOK'
    BY <1>4 DEF RemoveBox, RemoveTimesOut, RemovePc, AfterRemove, Released, Die, Absent
  <1>5. CASE Propagate \/ Killed \/ WriteBundleFails
    BY <1>5 DEF Propagate, Killed, WriteBundleFails, Die, Absent
  <1>6. CASE Record
    BY <1>6 DEF Record, AfterRecord
  <1>7. CASE WriteBundle \/ AppendRow \/ Image
    <2>1. CASE AppendRow
      <3>. SUFFICES ASSUME script # "ast" PROVE \E Rows : out' \in Seq(Rows)
        BY <2>1 DEF AppendRow
      <3>1. PICK Rows : out \in Seq(Rows)
        BY DEF OutOK
      <3>2. out \in Seq(Rows \cup {Row})
        BY <3>1, SeqDef
      <3>3. out' \in Seq(Rows \cup {Row})
        BY <2>1, <3>2 DEF AppendRow
      <3>. QED
        BY <3>3
    <2>2. CASE WriteBundle \/ Image
      BY <2>2 DEF WriteBundle, Image, Die
    <2>. QED
      BY <1>7, <2>1, <2>2
  <1>8. CASE AstStep \/ AstWriteCut
    BY <1>8 DEF AstStep, AstPick, AstArchive, AstManifest, AstFinish, AstWrite, AstWriteCut, Die,
      Absent
  <1>9. CASE UNCHANGED poolVars
    BY <1>9 DEF poolVars
  <1>. QED
    BY <1>1, <1>2, <1>3, <1>4, <1>5, <1>6, <1>7, <1>8, <1>9, PoolCases

LEMMA KeptStep ==
    ASSUME BInv, VerifiedIsKept, [Next]_vars
    PROVE  VerifiedIsKept'
  <1>. USE DEF BInv, BuilderOK, OutOK, VerifiedIsKept, Verdict, Verdicts, Roles, durable, volatile
  <1>1. CASE Start \/ StartFails \/ AstStart \/ Finish \/ Pick \/ Screen \/ Reject \/ Uncaught \/ Prepare
    BY <1>1 DEF Start, StartFails, AstStart, Finish, Pick, Screen, Reject, Uncaught, Prepare, Verifying
  <1>2. ASSUME NEW role \in Roles, Create(role) \/ CreateLeaks(role)
        PROVE  VerifiedIsKept'
    BY <1>2 DEF Create, CreateLeaks, CreatePc
  <1>3. CASE Patch \/ F2P \/ P2P \/ Pack
    BY <1>3 DEF Patch, F2P, P2P, Pack
  <1>4. ASSUME NEW role \in Roles, RemoveBox(role) \/ RemoveTimesOut(role)
        PROVE  VerifiedIsKept'
    BY <1>4 DEF RemoveBox, RemoveTimesOut, RemovePc, AfterRemove, Die
  <1>5. CASE Propagate \/ Killed \/ WriteBundleFails
    BY <1>5 DEF Propagate, Killed, WriteBundleFails, Die, Absent
  <1>6. CASE Record
    BY <1>6 DEF Record, AfterRecord
  <1>7. CASE WriteBundle \/ AppendRow \/ Image
    <2>1. CASE AppendRow
      <3>1. script # "ast" /\ pc = "append" /\ out' = Append(out, Row) /\ Row.id = cur
        BY <2>1 DEF AppendRow, Row
      <3>2. PICK Rows : out \in Seq(Rows)
        BY <3>1
      <3>3. out \in Seq(Rows \cup {Row})
        BY <3>2, SeqDef
      <3>4. /\ \A i \in DOMAIN out : i \in DOMAIN out' /\ out'[i] = out[i]
            /\ \E i \in DOMAIN out' : out'[i] = Row
        BY <3>1, <3>3
      <3>5. UNCHANGED <<script, state, deaths>>
        BY <2>1 DEF AppendRow
      <3>. QED
        BY <3>1, <3>4, <3>5
    <2>2. CASE WriteBundle
      BY <2>2 DEF WriteBundle
    <2>3. CASE Image
      BY <2>3 DEF Image, Die
    <2>. QED
      BY <1>7, <2>1, <2>2, <2>3
  <1>8. CASE AstStep \/ AstWriteCut
    BY <1>8 DEF AstStep, AstPick, AstArchive, AstManifest, AstFinish, AstWrite, AstWriteCut, Die,
      Absent
  <1>9. CASE UNCHANGED poolVars
    BY <1>9 DEF poolVars
  <1>. QED
    BY <1>1, <1>2, <1>3, <1>4, <1>5, <1>6, <1>7, <1>8, <1>9, PoolCases

LEMMA BInvariance == Spec => [](BInv /\ ContainersReleased /\ VerifiedIsKept)
  <1>1. BInv /\ ContainersReleased /\ VerifiedIsKept /\ [Next]_vars
          => BInv' /\ ContainersReleased' /\ VerifiedIsKept'
    BY BuilderStep, HeldStep, OutStep, ReleasedStep, KeptStep DEF BInv
  <1>. QED
    BY BInitOK, <1>1, PTL DEF Spec

(* A container that outlives the verification it was made for has an excuse *)
(* in a create that raised, a removal that failed or the death of the       *)
(* process: the finally block of verify_* loses none.                       *)
THEOREM NoContainerIsForgotten == Spec => []ContainersReleased
  BY BInvariance, PTL

(* A candidate with a verified row is in the output or on its way there,    *)
(* unless the process died between the two rows.                            *)
THEOREM VerifiedReachesOutput == Spec => []VerifiedIsKept
  BY BInvariance, PTL

-----------------------------------------------------------------------------
\* What a script lists is a finite set, its order compares all of it, and the
\* groups it takes turns between are numbers.
LEMMA ListedIsSortable ==
    ASSUME NEW s \in {"public", "reversal", "ast"}, NEW cands, cands \subseteq Listed(s)
    PROVE  /\ Listed(s) \subseteq Cand /\ IsFiniteSet(cands)
           /\ OrdersAll(Precedence(s), cands)
           /\ \A c \in cands : GroupOf(s)[c] \in Int
  <1>. USE PoolConstants
  <1>1. Listed(s) \subseteq Cand
    BY DEF Listed
  <1>2. IsFiniteSet(cands)
    BY <1>1, FS_Subset
  <1>3. OrdersAll(Earlier, cands)
    <2>1. \A x, y \in cands : x \in Nat /\ y \in Nat /\ (<<x, y>> \in Earlier <=> x < y)
      BY <1>1 DEF Earlier
    <2>. QED
      BY ONLY <2>1 DEF OrdersAll
  <1>4. OrdersAll(LikelierFix, cands)
    <2>1. \A a, b \in cands : <<a, b>> \in LikelierFix <=>
            \/ Commit[a].fixLike /\ ~ Commit[b].fixLike
            \/ Commit[a].fixLike = Commit[b].fixLike /\ Commit[a].time > Commit[b].time
            \/ Commit[a].fixLike = Commit[b].fixLike /\ Commit[a].time = Commit[b].time /\ a < b
      BY <1>1 DEF LikelierFix
    <2>2. \A a \in cands : a \in Nat /\ Commit[a].time \in Nat /\ Commit[a].fixLike \in BOOLEAN
      BY <1>1
    <2>3. \A x \in cands : <<x, x>> \notin LikelierFix
      BY <2>1, <2>2
    <2>4. \A x, y \in cands : x # y => <<x, y>> \in LikelierFix \/ <<y, x>> \in LikelierFix
      BY <2>1, <2>2
    <2>5. \A x, y, z \in cands : <<x, y>> \in LikelierFix /\ <<y, z>> \in LikelierFix
                                        => <<x, z>> \in LikelierFix
      BY ONLY <2>1, <2>2
    <2>. QED
      BY <2>3, <2>4, <2>5 DEF OrdersAll
  <1>5. \A c \in Cand : RepoOf[c] \in Int /\ RepoKindOf[c] \in Int
    BY DEF RepoOf, RepoKindOf
  <1>6. /\ Precedence(s) \in {Earlier, LikelierFix} /\ GroupOf(s) \in {RepoOf, RepoKindOf}
    BY DEF Precedence, GroupOf
  <1>7. \A c \in cands : GroupOf(s)[c] \in Int
    BY <1>1, <1>5, <1>6
  <1>. QED
    BY <1>1, <1>2, <1>3, <1>4, <1>6, <1>7

\* A walk lists its candidates, each once, and inside a group it keeps the
\* order the candidates were sorted in.
LEMMA WalkEnumerates ==
    ASSUME NEW s \in {"public", "reversal", "ast"}, NEW cands, cands \subseteq Listed(s)
    PROVE  /\ Enumerates(Ordered(s, cands), cands)
           /\ \A i, j \in 1 .. Cardinality(cands) :
                /\ GroupOf(s)[Ordered(s, cands)[i]] = GroupOf(s)[Ordered(s, cands)[j]]
                /\ <<Ordered(s, cands)[i], Ordered(s, cands)[j]>> \in Precedence(s)
                => i < j
           /\ Ordered(s, cands) \in Seq(Cand)
  <1>1. /\ IsFiniteSet(cands) /\ OrdersAll(Precedence(s), cands)
        /\ \A c \in cands : GroupOf(s)[c] \in Int
        /\ cands \subseteq Cand
    BY ListedIsSortable
  <1>2. Enumerates(Ordered(s, cands), cands)
    BY <1>1, RoundRobinEnumerates, Zenon DEF Ordered
  <1>3. ASSUME NEW i \in 1 .. Cardinality(cands), NEW j \in 1 .. Cardinality(cands),
               GroupOf(s)[Ordered(s, cands)[i]] = GroupOf(s)[Ordered(s, cands)[j]],
               <<Ordered(s, cands)[i], Ordered(s, cands)[j]>> \in Precedence(s)
        PROVE  i < j
    BY <1>1, <1>3, RoundRobinKeepsOrder, Zenon DEF Ordered
  <1>4. Ordered(s, cands) \in Seq(Cand)
    <2>1. /\ Cardinality(cands) \in Nat
          /\ Ordered(s, cands) \in [1 .. Cardinality(cands) -> cands]
      BY <1>2 DEF Enumerates
    <2>. QED
      BY <1>1, <2>1
  <1>. QED
    BY <1>2, <1>3, <1>4

\* The next candidate is one that is not done, and all before it are.
LEMMA NextIsFirst ==
    ASSUME walk \in Seq(Cand), Remaining # {}
    PROVE  \E i \in DOMAIN walk :
             /\ NextCandidate = walk[i]
             /\ NextCandidate \in Cand /\ NextCandidate \notin done
             /\ \A j \in DOMAIN walk : j < i => walk[j] \in done
  <1>1. /\ DOMAIN walk = 1 .. Len(walk) /\ Len(walk) \in Nat
        /\ \A i \in 1 .. Len(walk) : walk[i] \in Cand
    OBVIOUS
  <1>2. Remaining \in SUBSET Nat
    BY <1>1 DEF Remaining
  <1>3. \E i \in Remaining : \A j \in Remaining : i <= j
    BY <1>2, LeastNat
  <1>4. PICK i \in Remaining : i = (CHOOSE k \in Remaining : \A j \in Remaining : k <= j)
    BY <1>3
  <1>5. \A j \in Remaining : i <= j
    BY <1>3, <1>4
  <1>6. NextCandidate = walk[i]
    BY <1>4 DEF NextCandidate
  <1>7. i \in 1 .. Len(walk) /\ walk[i] \in Cand /\ walk[i] \notin done
    BY <1>1 DEF Remaining
  <1>8. \A j \in 1 .. Len(walk) : j < i => walk[j] \in done
    BY <1>1, <1>5, <1>7 DEF Remaining
  <1>. QED
    BY <1>1, <1>6, <1>7, <1>8

-----------------------------------------------------------------------------
TaskRows == [id : Cand, f2p : SUBSET Measures, p2p : SUBSET Measures, gold : SUBSET Sections]

\* The first hit of a loop over selectors is a pair of exit codes of one.
LEMMA FirstHit ==
    ASSUME NEW runs \in Runs, NEW limit, NEW wanted, Hits(runs, limit, wanted) # {}
    PROVE  RcsOf(runs, Hits(runs, limit, wanted)) = wanted /\ wanted \in ExitPairs
  <1>. USE PoolConstants
  <1>. DEFINE hits == Hits(runs, limit, wanted)
  <1>1. PICK n \in 0 .. MaxSelectors : runs \in [1 .. n -> ExitPairs]
    BY DEF Runs
  <1>2. hits \subseteq 1 .. n /\ \A i \in hits : runs[i] = wanted /\ wanted \in ExitPairs
    BY <1>1 DEF Hits
  <1>3. hits \in SUBSET Nat
    BY <1>2
  <1>4. \E i \in hits : \A j \in hits : i <= j
    BY <1>3, LeastNat
  <1>5. (CHOOSE i \in hits : \A j \in hits : i <= j) \in hits
    BY <1>4
  <1>. QED
    BY <1>2, <1>5 DEF RcsOf

\* build_ast_bundles writes a row for each task it built, once.
LEMMA BuiltRows ==
    ASSUME accepted \subseteq Cand, Enumerates(walk, Cand)
    PROVE  /\ Built \in Seq(TaskRows)
           /\ Len(Built) = Cardinality(accepted)
           /\ \A i \in 1 .. Len(Built) : Built[i].id \in accepted
  <1>. USE PoolConstants
  <1>. DEFINE order == walk
              size == Cardinality(Cand)
              places == {i \in DOMAIN order : order[i] \in accepted}
              lower == {p \in places \X places : p[1] < p[2]}
              n == Cardinality(places)
  <1>2. /\ size \in Nat /\ order \in [1 .. size -> Cand]
        /\ \A i, j \in 1 .. size : order[i] = order[j] => i = j
        /\ \A x \in Cand : \E i \in 1 .. size : order[i] = x
    BY DEF Enumerates
  <1>. HIDE DEF order, size
  <1>3. places \subseteq 1 .. size
    BY <1>2
  <1>4. IsFiniteSet(places)
    <2>1. IsFiniteSet(1 .. size)
      BY <1>2, FS_Interval
    <2>. QED
      BY <1>3, <2>1, FS_Subset
  <1>5. OrdersAll(lower, places)
    BY <1>2, <1>3, SMTT(30) DEF OrdersAll
  <1>6. n \in Nat /\ Sorted(places, lower) \in [1 .. n -> places]
    <2>. HIDE DEF places, lower
    <2>. QED
      BY <1>4, <1>5, SortedEnumerates
  <1>7. n = Cardinality(accepted)
    <2>. DEFINE f == [i \in places |-> order[i]]
    <2>1. f \in [places -> accepted] /\ \A x, y \in places : f[x] = f[y] => x = y
      BY <1>2, <1>3
    <2>2. \A c \in accepted : \E i \in places : f[i] = c
      BY <1>2
    <2>3. IsFiniteSet(accepted)
      BY FS_Subset
    <2>. HIDE DEF places, f
    <2>. QED
      BY <2>1, <2>2, <2>3, NoLarger
  <1>. DEFINE built == Reordered(order, Sorted(places, lower))
  <1>8. built \in [1 .. n -> accepted]
    <2>. DEFINE sorted == Sorted(places, lower)
    <2>1. \A i \in places : order[i] \in accepted
      OBVIOUS
    <2>2. sorted \in [1 .. n -> places]
      BY <1>6
    <2>. HIDE DEF places, sorted, n
    <2>3. Reordered(order, sorted) \in [1 .. n -> accepted]
      BY <2>1, <2>2 DEF Reordered
    <2>. QED
      BY <2>3 DEF sorted
  <1>9. Built = [i \in 1 .. n |-> [id |-> built[i], f2p |-> {}, p2p |-> {},
                                   gold |-> Commit[built[i]].patch]]
    BY <1>8 DEF Built, order
  <1>. HIDE DEF built, n, places, lower
  <1>10. \A i \in 1 .. n : built[i] \in accepted /\ Commit[built[i]].patch \subseteq Sections
    BY <1>8
  <1>11. \A i \in 1 .. n : Built[i] \in TaskRows /\ Built[i].id \in accepted
    BY <1>9, <1>10 DEF TaskRows
  <1>12. Built \in [1 .. n -> TaskRows]
    BY <1>9, <1>11
  <1>13. Built \in Seq(TaskRows) /\ Len(Built) = n
    BY <1>6, <1>12
  <1>. QED
    BY <1>7, <1>11, <1>13

\* A candidate is in hand from Pick to the next head of the loop.
InHand ==
    /\ script \in {"public", "reversal", "ast"}
    /\ pc \notin {"stopped", "head", "write"} => cur \in Cand
    /\ script = "ast" => pc \in {"stopped", "head", "archive", "manifest", "write"}
    /\ script # "ast" => pc \notin {"archive", "manifest", "write"}
    /\ script = "ast" /\ pc # "stopped" => Enumerates(walk, Cand)

PoolOK == PoolTypeOK /\ InHand

LEMMA PatchParts ==
    ASSUME NEW c \in Cand
    PROVE  /\ Commit[c].patch \subseteq Sections
           /\ TestOnly(Commit[c].patch) \subseteq Sections
           /\ SourceOnly(Commit[c].patch) \subseteq Sections
  BY PoolConstants DEF TestOnly, SourceOnly, Sections

\* What the death of the process leaves alone has its type still.
LEMMA DieTyped ==
    ASSUME PoolOK, Die, UNCHANGED <<script, starts, omitted>>, faults' \in 0 .. MaxFaults,
           state' = state, alive' = alive,
           bundle' \in [Cand -> {"none", "partial", "complete"}],
           out' \in Seq(TaskRows), torn' \in {"none", "state", "out"}
    PROVE  PoolOK'
  <1>1. Absent \in [Roles -> Trees] /\ NoTask \in [f2p : SUBSET Measures, p2p : SUBSET Measures]
    BY DEF Absent, NoTask, Trees
  <1>. QED
    BY <1>1 DEF PoolOK, PoolTypeOK, InHand, Die, TaskRows

LEMMA RowFields ==
    ASSUME out \in Seq(TaskRows)
    PROVE  \A i \in DOMAIN out : out[i] \in TaskRows /\ out[i].id \in Cand
  <1>1. \A i \in DOMAIN out : out[i] \in TaskRows
    OBVIOUS
  <1>2. \A row \in TaskRows : row.id \in Cand
    BY DEF TaskRows
  <1>. QED
    BY <1>1, <1>2

LEMMA BoxTyped ==
    ASSUME PoolOK, cur \in Cand, NEW role \in Roles
    PROVE  Container(role) \in Containers
  BY DEF PoolOK, PoolTypeOK, Container, Containers

LEMMA TypeStep ==
    ASSUME PoolOK, [Next]_vars
    PROVE  PoolOK'
  <1>. USE PoolConstants DEF PoolOK, PoolTypeOK, InHand, Verdict, Fault, durable, volatile
  <1>1. Absent \in [Roles -> Trees] /\ NoTask \in [f2p : SUBSET Measures, p2p : SUBSET Measures]
    BY DEF Absent, NoTask, Trees
  <1>. DEFINE deadly == /\ Die /\ UNCHANGED <<script, starts, omitted, state, alive>>
                        /\ faults' \in 0 .. MaxFaults
  <1>2. /\ bundle \in [Cand -> {"none", "partial", "complete"}] /\ out \in Seq(TaskRows)
        /\ torn \in {"none", "state", "out"} /\ faults \in 0 .. MaxFaults
    BY DEF TaskRows
  <1>3. CASE Start \/ StartFails
    <2>1. CASE StartFails
      BY <2>1, SMTT(30) DEF StartFails
    <2>2. CASE Start
      <3>1. done' \subseteq Cand /\ accepted' \subseteq Cand /\ UNCHANGED <<durable, script>>
        <4>1. {out[i].id : i \in DOMAIN out} \subseteq Cand
          BY <1>2, RowFields
        <4>2. Done \subseteq Cand
          BY DEF Done
        <4>. QED
          BY <2>2, <4>1, <4>2 DEF Start
      <3>2. /\ UNCHANGED <<cur, held, task, verdict>> /\ script # "ast" /\ pc = "stopped"
            /\ pc' = "head" /\ result' = "running" /\ starts' \in 0 .. MaxStarts
        BY <2>2 DEF Start
      <3>3. PICK left \in SUBSET Listed(script) :
               /\ faults + Cardinality(left) <= MaxFaults
               /\ faults' = faults + Cardinality(left)
               /\ omitted' = omitted \cup left
               /\ walk' = Ordered(script, Listed(script) \ left)
        BY <2>2 DEF Start
      <3>4. /\ Listed(script) \subseteq Cand /\ IsFiniteSet(left)
            /\ walk' \in Seq(Cand)
        BY <3>3, ListedIsSortable, WalkEnumerates
      <3>5. faults' \in 0 .. MaxFaults
        <4>1. Cardinality(left) \in Nat
          BY <3>4, FS_CardinalityType
        <4>2. faults \in Nat /\ MaxFaults \in Nat
          BY <1>2, PoolConstants
        <4>. QED
          BY ONLY <3>3, <4>1, <4>2
      <3>. QED
        BY <3>1, <3>2, <3>3, <3>4, <3>5
    <2>. QED
      BY <1>3, <2>1, <2>2
  <1>4. CASE AstStart \/ Finish \/ Screen
    <2>1. CASE AstStart
      <3>1. Enumerates(Ordered("ast", Cand), Cand) /\ Ordered("ast", Cand) \in Seq(Cand)
        BY WalkEnumerates DEF Listed
      <3>2. /\ UNCHANGED <<script, durable, cur, done, accepted, held, task, verdict, omitted, faults>>
            /\ script = "ast" /\ pc' = "head" /\ result' = "running" /\ starts' \in 0 .. MaxStarts
            /\ walk' = Ordered("ast", Cand)
        BY <2>1 DEF AstStart
      <3>. QED
        BY <3>1, <3>2
    <2>2. CASE Finish
      BY <2>2 DEF Finish
    <2>3. CASE Screen
      BY <2>3 DEF Screen
    <2>. QED
      BY <1>4, <2>1, <2>2, <2>3
  <1>5. CASE Reject \/ Uncaught \/ Prepare
    <2>1. CASE Reject \/ Uncaught
      <3>1. /\ pc \notin {"stopped", "head", "write", "archive", "manifest"}
            /\ pc' = "remove_base" /\ verdict' \in {"rejected", "raised"}
            /\ faults' \in 0 .. MaxFaults
            /\ UNCHANGED <<script, durable, walk, cur, done, accepted, held, task, result, starts,
                           omitted>>
        BY <2>1 DEF Reject, Uncaught, Verifying
      <3>. QED
        BY <3>1
    <2>2. CASE Prepare
      BY <2>2 DEF Prepare
    <2>. QED
      BY <1>5, <2>1, <2>2
  <1>6. CASE Pick
    BY <1>6, NextIsFirst DEF Pick, NoTask
  <1>7. ASSUME NEW role \in Roles, Create(role) \/ CreateLeaks(role)
        PROVE  PoolOK'
    <2>1. pc \in {"create_base", "create_fix"} /\ cur \in Cand /\ script # "ast"
      BY <1>7 DEF Create, CreateLeaks, CreatePc, Roles
    <2>2. Container(role) \in Containers /\ {Seed(role)} \in Trees
      BY <2>1, BoxTyped, PatchParts, SMTT(30) DEF Seed, Trees
    <2>. HIDE DEF Trees, Containers
    <2>3. CASE Create(role)
      BY <2>1, <2>2, <2>3 DEF Create
    <2>4. CASE CreateLeaks(role)
      BY <2>1, <2>2, <2>4, SMTT(30) DEF CreateLeaks
    <2>. QED
      BY <1>7, <2>3, <2>4
  <1>8. CASE Patch
    <2>1. cur \in Cand /\ script # "ast"
      BY <1>8 DEF Patch
    <2>2. \A r \in Roles : {PatchedTree(r)} \in Trees
      BY <2>1, PatchParts, SMTT(30) DEF PatchedTree, Trees
    <2>3. held' \in [Roles -> Trees]
      BY <1>8, <2>2 DEF Patch
    <2>. QED
      BY <1>8, <2>1, <2>3 DEF Patch
  <1>9. CASE F2P \/ P2P
    <2>1. pc \in {"f2p", "p2p"} /\ cur \in Cand /\ script # "ast"
      BY <1>9 DEF F2P, P2P
    <2>2. \A rcs \in ExitPairs : Measure(rcs) \in SUBSET Measures
      BY DEF Measure, Measures, Roles
    <2>3. task' \in [f2p : SUBSET Measures, p2p : SUBSET Measures]
      <3>1. CASE F2P
        <4>1. PICK runs \in Runs :
                 \/ task' = task
                 \/ /\ Hits(runs, F2PLimit, <<1, 0>>) # {}
                    /\ task' = [task EXCEPT !.f2p = Measure(RcsOf(runs, Hits(runs, F2PLimit, <<1, 0>>)))]
          BY <3>1 DEF F2P
        <4>2. CASE Hits(runs, F2PLimit, <<1, 0>>) # {}
          <5>1. Measure(RcsOf(runs, Hits(runs, F2PLimit, <<1, 0>>))) \in SUBSET Measures
            BY <4>2, <2>2, FirstHit
          <5>. HIDE DEF Measure, Measures, Hits
          <5>. QED
            BY <4>1, <5>1
        <4>. QED
          BY <4>1, <4>2
      <3>2. CASE P2P
        <4>1. PICK runs \in Runs :
                 \/ task' = task
                 \/ /\ Hits(runs, P2PLimit, <<0, 0>>) # {}
                    /\ task' = [task EXCEPT !.p2p = Measure(RcsOf(runs, Hits(runs, P2PLimit, <<0, 0>>)))]
          BY <3>2 DEF P2P
        <4>2. CASE Hits(runs, P2PLimit, <<0, 0>>) # {}
          <5>1. Measure(RcsOf(runs, Hits(runs, P2PLimit, <<0, 0>>))) \in SUBSET Measures
            BY <4>2, <2>2, FirstHit
          <5>. HIDE DEF Measure, Measures, Hits
          <5>. QED
            BY <4>1, <5>1
        <4>. QED
          BY <4>1, <4>2
      <3>. QED
        BY <1>9, <3>1, <3>2
    <2>4. /\ UNCHANGED <<script, durable, walk, cur, done, accepted, held, result, starts, omitted,
                         faults>>
          /\ pc' \in {"p2p", "pack", "remove_base"} /\ verdict' \in {verdict, "rejected", "verified"}
      BY <1>9 DEF F2P, P2P
    <2>. QED
      BY <2>1, <2>3, <2>4
  <1>10. CASE Pack
    BY <1>10, SMTT(30) DEF Pack
  <1>11. CASE WriteBundle
    BY <1>11 DEF WriteBundle
  <1>12. ASSUME NEW role \in Roles, RemoveBox(role) \/ RemoveTimesOut(role)
         PROVE  PoolOK'
    <2>1. CASE RemoveBox(role)
      <3>1. alive' \subseteq alive /\ held' = [held EXCEPT ![role] = {}] /\ {} \in Trees
        BY <2>1 DEF RemoveBox, Trees
      <3>2. held' \in [Roles -> Trees]
        BY <3>1
      <3>3. pc \in {"remove_base", "remove_fix"} /\ pc' \in {"remove_fix", "record"}
        BY <2>1 DEF RemoveBox, RemovePc, AfterRemove, Roles
      <3>4. /\ UNCHANGED <<script, state, out, torn, bundle, walk, cur, done, accepted, task, verdict,
                           result, starts, omitted>>
            /\ faults' \in 0 .. MaxFaults
        BY <2>1 DEF RemoveBox
      <3>. QED
        BY <3>1, <3>2, <3>3, <3>4
    <2>2. CASE RemoveTimesOut(role)
      BY <2>2, DieTyped, SMTT(30) DEF RemoveTimesOut, TaskRows
    <2>. QED
      BY <1>12, <2>1, <2>2
  <1>13. CASE Propagate \/ Killed \/ WriteBundleFails
    <2>1. deadly /\ out' = out
      BY <1>13, SMTT(30) DEF Propagate, Killed, WriteBundleFails
    <2>2. torn' \in {"none", "state", "out"}
      BY <1>13, <1>2 DEF Propagate, Killed, WriteBundleFails
    <2>3. bundle' \in [Cand -> {"none", "partial", "complete"}]
      BY <1>13, <1>2 DEF Propagate, Killed, WriteBundleFails
    <2>. HIDE DEF PoolOK
    <2>. QED
      BY <1>2, <2>1, <2>2, <2>3, DieTyped
  <1>14. CASE Record
    BY <1>14 DEF Record, AfterRecord
  <1>15. CASE AppendRow
    BY <1>15, PatchParts, SMTT(30) DEF AppendRow, Row
  <1>16. CASE Image
    <2>1. CASE Die
      <3>1. deadly /\ UNCHANGED <<out, torn, bundle>>
        BY <1>16, <2>1 DEF Image, Die
      <3>. HIDE DEF PoolOK
      <3>. QED
        BY <1>2, <3>1, DieTyped
    <2>2. CASE ~ Die
      BY <1>16, <2>2, <1>1 DEF Image
    <2>. QED
      BY <2>1, <2>2
  <1>17. CASE AstPick
    BY <1>17, NextIsFirst DEF AstPick
  <1>18. CASE AstArchive \/ AstManifest
    BY <1>18 DEF AstArchive, AstManifest
  <1>19. CASE AstFinish
    BY <1>19, DieTyped DEF AstFinish, TaskRows
  <1>20. CASE AstWrite
    <2>1. Built \in Seq(TaskRows)
      BY <1>20, BuiltRows DEF AstWrite
    <2>2. /\ out' = Built /\ torn' = "none" /\ pc' = "stopped" /\ result' = "ready"
          /\ walk' = <<>> /\ done' = {} /\ accepted' = {} /\ pc = "write"
          /\ UNCHANGED <<script, state, bundle, alive, cur, held, task, verdict, starts, omitted,
                         faults>>
      BY <1>20 DEF AstWrite
    <2>. QED
      BY <2>1, <2>2 DEF TaskRows
  <1>21. CASE AstWriteCut
    <2>1. Built \in Seq(TaskRows)
      BY <1>21, BuiltRows DEF AstWriteCut
    <2>2. PICK n \in 0 .. Len(Built) - 1 : out' = SubSeq(Built, 1, n)
      BY <1>21 DEF AstWriteCut
    <2>3. out' \in Seq(TaskRows)
      <3>. HIDE DEF Built
      <3>. QED
        BY ONLY <2>1, <2>2, SubSeqProperties
    <2>. QED
      <3>1. deadly /\ bundle' = bundle /\ torn' \in {"none", "state", "out"}
        BY <1>21 DEF AstWriteCut
      <3>. HIDE DEF PoolOK
      <3>. QED
        BY <1>2, <2>3, <3>1, DieTyped
  <1>22. CASE UNCHANGED poolVars
    BY <1>22, SMTT(30) DEF poolVars
  <1>. QED
    BY <1>3, <1>4, <1>5, <1>6, <1>7, <1>8, <1>9, <1>10, <1>11, <1>12, <1>13, <1>14, <1>15, <1>16,
       <1>17, <1>18, <1>19, <1>20, <1>21, <1>22, PoolCases DEF AstStep

-----------------------------------------------------------------------------
\* The places of a verification: before its verdict, between the verdict and
\* the state row, and between the state row and the task row.
Trying == {"verify", "prepare", "create_base", "create_fix", "patch", "f2p", "p2p", "pack"}
Ending == {"remove_base", "remove_fix", "record"}
Keeping == {"bundle", "append"}

\* A run goes on until it stops, and a verdict is there when it is recorded.
RunOK ==
    /\ pc \in {"stopped", "head", "image", "archive", "manifest", "write"}
              \cup Trying \cup Ending \cup Keeping
    /\ pc # "stopped" => result = "running"
    /\ pc \notin Ending \cup Keeping \cup {"image"} => verdict = "none"
    /\ pc \in Ending => verdict # "none"
    /\ pc \in Keeping => verdict = "verified"
    /\ pc = "bundle" => script = "public"
    /\ pc = "pack" => script = "reversal"
    /\ pc \in {"stopped", "head", "write"} => cur = NoCand

LEMMA RunStep ==
    ASSUME PoolOK, RunOK, [Next]_vars
    PROVE  RunOK'
  <1>. USE DEF PoolOK, InHand, RunOK, Trying, Ending, Keeping, Verdict, durable, volatile
  <1>1. CASE Start \/ StartFails \/ AstStart \/ Finish \/ Pick \/ Screen \/ Prepare
    BY <1>1 DEF Start, StartFails, AstStart, Finish, Pick, Screen, Prepare
  <1>2. CASE Reject \/ Uncaught
    BY <1>2 DEF Reject, Uncaught, Verifying
  <1>3. ASSUME NEW role \in Roles, Create(role) \/ CreateLeaks(role)
        PROVE  RunOK'
    <2>1. pc \in {"create_base", "create_fix"}
      BY <1>3 DEF Create, CreateLeaks, CreatePc, Roles
    <2>2. CASE Create(role)
      BY <2>1, <2>2 DEF Create
    <2>3. CASE CreateLeaks(role)
      BY <2>1, <2>3 DEF CreateLeaks
    <2>. QED
      BY <1>3, <2>2, <2>3
  <1>4. CASE Patch \/ F2P \/ P2P \/ Pack
    BY <1>4 DEF Patch, F2P, P2P, Pack
  <1>5. ASSUME NEW role \in Roles, RemoveBox(role) \/ RemoveTimesOut(role)
        PROVE  RunOK'
    <2>1. CASE RemoveBox(role)
      BY <2>1 DEF RemoveBox, RemovePc, AfterRemove, Roles
    <2>2. CASE RemoveTimesOut(role)
      BY <2>2 DEF RemoveTimesOut, Die
    <2>. QED
      BY <1>5, <2>1, <2>2
  <1>6. CASE Propagate \/ Killed \/ WriteBundleFails
    BY <1>6 DEF Propagate, Killed, WriteBundleFails, Die
  <1>7. CASE Record
    BY <1>7 DEF Record, AfterRecord
  <1>8. CASE WriteBundle \/ AppendRow \/ Image
    BY <1>8 DEF WriteBundle, AppendRow, Image, Die
  <1>9. CASE AstStep \/ AstWriteCut
    BY <1>9 DEF AstStep, AstPick, AstArchive, AstManifest, AstFinish, AstWrite, AstWriteCut, Die
  <1>10. CASE UNCHANGED poolVars
    BY <1>10 DEF poolVars
  <1>. QED
    BY <1>1, <1>2, <1>3, <1>4, <1>5, <1>6, <1>7, <1>8, <1>9, <1>10, PoolCases

\* What a step of a resumable script does to the rows.  A verification goes on
\* and leaves them alone; only a public candidate or Pack is verified by it.
TriesOn ==
    /\ pc \in Trying \cup Ending /\ pc' \in Trying \cup Ending
    /\ pc \in Ending => pc' \in Ending /\ verdict' = verdict
    /\ verdict' = "verified" => verdict = "verified" \/ script = "public"
    /\ UNCHANGED <<script, state, out, bundle, walk, cur, done, accepted, result, omitted, deaths>>
Dies == Die /\ pc # "stopped" /\ UNCHANGED <<script, state, out, bundle, omitted>>
TurnsTo ==
    /\ pc = "image" /\ pc' = "head" /\ cur' = NoCand
    /\ UNCHANGED <<script, state, out, bundle, walk, done, accepted, result, omitted, deaths>>

LEMMA RowMoves ==
    ASSUME PoolOK, RunOK, [Next]_vars, script # "ast"
    PROVE  \/ Start \/ StartFails \/ Finish \/ Pick \/ Pack \/ Record \/ WriteBundle \/ WriteBundleFails
           \/ AppendRow \/ TriesOn \/ Dies \/ TurnsTo
           \/ UNCHANGED poolVars
  <1>. USE DEF PoolOK, InHand, RunOK, Trying, Ending, Keeping, Verdict, durable, volatile
  <1>1. CASE Screen \/ Prepare \/ Patch \/ F2P \/ P2P
    <2>1. TriesOn
      BY <1>1 DEF TriesOn, Screen, Prepare, Patch, F2P, P2P
    <2>. QED
      BY <2>1
  <1>2. CASE Reject \/ Uncaught
    <2>1. TriesOn
      BY <1>2 DEF TriesOn, Reject, Uncaught, Verifying
    <2>. QED
      BY <2>1
  <1>3. ASSUME NEW role \in Roles, Create(role) \/ CreateLeaks(role)
        PROVE  TriesOn
    <2>1. pc \in {"create_base", "create_fix"}
      BY <1>3 DEF Create, CreateLeaks, CreatePc, Roles
    <2>2. CASE Create(role)
      BY <2>1, <2>2 DEF TriesOn, Create
    <2>3. CASE CreateLeaks(role)
      BY <2>1, <2>3 DEF TriesOn, CreateLeaks
    <2>. QED
      BY <1>3, <2>2, <2>3
  <1>4. ASSUME NEW role \in Roles, RemoveBox(role)
        PROVE  TriesOn
    BY <1>4 DEF TriesOn, RemoveBox, RemovePc, AfterRemove, Roles
  <1>5. ASSUME NEW role \in Roles, RemoveTimesOut(role)
        PROVE  Dies
    BY <1>5 DEF Dies, RemoveTimesOut, RemovePc, Roles
  <1>6. CASE Propagate \/ Killed
    BY <1>6 DEF Dies, Propagate, Killed
  <1>7. CASE Image
    BY <1>7 DEF TurnsTo, Dies, Image
  <1>8. CASE AstStart \/ AstStep \/ AstWriteCut
    BY <1>8 DEF AstStart, AstStep, AstPick, AstArchive, AstManifest, AstFinish, AstWrite, AstWriteCut
  <1>. QED
    BY <1>1, <1>2, <1>3, <1>4, <1>5, <1>6, <1>7, <1>8, PoolCases

-----------------------------------------------------------------------------
\* The whole walk of a resumable script; what it would be without omissions.
FullWalk == Ordered(script, Listed(script))

\* Every candidate that should come before c has a row.
WalkCovers(rows, c) ==
    \A i, j \in DOMAIN FullWalk : FullWalk[j] = c /\ i < j => rows[FullWalk[i]] # "none"
GroupCovers(rows, c) ==
    \A b \in Listed(script) :
        RepoOf[b] = RepoOf[c] /\ <<b, c>> \in Precedence(script)
            => rows[b] # "none" \/ b \in omitted

\* While a resumable script runs it walks what it has not left out and knows
\* every state row, the candidate in hand has none before Record, and every
\* candidate that should come before it has one.
HandOK ==
    script # "ast" =>
    /\ pc # "stopped" =>
        /\ done = Done
        /\ \E cands \in SUBSET Listed(script) :
              Listed(script) \ cands \subseteq omitted /\ walk = Ordered(script, cands)
    /\ pc \notin {"stopped", "head"} =>
        /\ cur \in Listed(script)
        /\ omitted = {} => WalkCovers(state, cur)
        /\ GroupCovers(state, cur)
    /\ pc \in Trying \cup Ending => state[cur] = "none"
    /\ pc \in Keeping => state[cur] = "verified"

LEMMA FullWalkLists ==
    ASSUME script \in {"public", "reversal", "ast"}
    PROVE  /\ Listed(script) \subseteq Cand
           /\ Cardinality(Listed(script)) \in Nat
           /\ FullWalk \in [1 .. Cardinality(Listed(script)) -> Listed(script)]
           /\ \A i, j \in DOMAIN FullWalk : FullWalk[i] = FullWalk[j] => i = j
  BY ListedIsSortable, WalkEnumerates DEF Enumerates, FullWalk

\* Pick takes the first candidate of the walk without a row.
LEMMA PickCovers ==
    ASSUME PoolOK, HandOK, script # "ast", Pick
    PROVE  /\ cur' \in Listed(script) /\ state[cur'] = "none"
           /\ omitted = {} => WalkCovers(state, cur')
           /\ GroupCovers(state, cur')
  <1>1. /\ pc = "head" /\ cur' = NextCandidate /\ Remaining # {}
        /\ done = Done /\ walk \in Seq(Cand) /\ script \in {"public", "reversal"}
    BY DEF Pick, HandOK, PoolOK, PoolTypeOK, InHand
  <1>2. PICK cands \in SUBSET Listed(script) :
           Listed(script) \ cands \subseteq omitted /\ walk = Ordered(script, cands)
    BY <1>1 DEF HandOK
  <1>. DEFINE n == Cardinality(cands)
  <1>3. /\ n \in Nat /\ walk \in [1 .. n -> cands]
        /\ \A i, j \in 1 .. n : walk[i] = walk[j] => i = j
        /\ \A c \in cands : \E i \in 1 .. n : walk[i] = c
        /\ \A i, j \in 1 .. n :
             GroupOf(script)[walk[i]] = GroupOf(script)[walk[j]]
                /\ <<walk[i], walk[j]>> \in Precedence(script) => i < j
    BY <1>1, <1>2, WalkEnumerates DEF Enumerates
  <1>4. PICK i \in DOMAIN walk :
           /\ cur' = walk[i] /\ cur' \in Cand /\ cur' \notin done
           /\ \A j \in DOMAIN walk : j < i => walk[j] \in done
    BY <1>1, NextIsFirst
  <1>. HIDE DEF n
  <1>5. i \in 1 .. n /\ \A j \in 1 .. n : j < i => state[walk[j]] # "none"
    BY <1>1, <1>3, <1>4 DEF Done
  <1>6. cur' \in Listed(script) /\ state[cur'] = "none"
    BY <1>1, <1>3, <1>4, <1>5 DEF Done
  <1>7. ASSUME omitted = {} PROVE WalkCovers(state, cur')
    <2>1. walk = FullWalk
      <3>1. cands = Listed(script)
        BY <1>2, <1>7
      <3>. QED
        BY <1>2, <3>1 DEF FullWalk
    <2>2. \A k \in 1 .. n : walk[k] = cur' => k = i
      BY <1>3, <1>4, <1>5
    <2>3. DOMAIN walk = 1 .. n
      BY <1>3
    <2>4. ASSUME NEW j \in 1 .. n, NEW k \in 1 .. n, walk[k] = cur', j < k
          PROVE  state[walk[j]] # "none"
      BY <1>5, <2>2, <2>4
    <2>. QED
      BY <2>1, <2>3, <2>4 DEF WalkCovers
  <1>8. GroupCovers(state, cur')
    <2>. SUFFICES ASSUME NEW b \in Listed(script), RepoOf[b] = RepoOf[cur'],
                         <<b, cur'>> \in Precedence(script), b \notin omitted
                  PROVE  state[b] # "none"
      BY DEF GroupCovers
    <2>1. b \in cands
      BY <1>2
    <2>2. PICK j \in 1 .. n : walk[j] = b
      BY <1>3, <2>1
    <2>3. GroupOf(script) = RepoOf
      BY <1>1 DEF GroupOf
    <2>4. j < i
      BY <1>3, <1>4, <1>5, <2>2, <2>3
    <2>. QED
      BY <1>5, <2>2, <2>4
  <1>. QED
    BY <1>6, <1>7, <1>8

\* A row of the candidate in hand keeps the rows in order.
LEMMA RecordCovers ==
    ASSUME PoolOK, RowsFollowOrder, script # "ast", cur \in Listed(script),
           omitted = {} => WalkCovers(state, cur), GroupCovers(state, cur),
           NEW rows, \A c \in Cand : c # cur => rows[c] = state[c], rows[cur] # "none",
           state' = rows, UNCHANGED <<script, omitted>>
    PROVE  /\ RowsFollowOrder'
           /\ omitted = {} => WalkCovers(rows, cur)
           /\ GroupCovers(rows, cur)
  <1>1. /\ Listed(script) \subseteq Cand
        /\ \A i \in DOMAIN FullWalk : FullWalk[i] \in Listed(script)
        /\ \A i, j \in DOMAIN FullWalk : FullWalk[i] = FullWalk[j] => i = j
    BY FullWalkLists DEF PoolOK, InHand
  <1>2. \A c \in Cand : state[c] # "none" => rows[c] # "none"
    OBVIOUS
  <1>3. \A c \in Cand : rows[c] # "none" => c \in Listed(script)
    BY DEF RowsFollowOrder
  <1>4. ASSUME omitted = {}, NEW i \in DOMAIN FullWalk, NEW j \in DOMAIN FullWalk,
               i < j, rows[FullWalk[j]] # "none"
        PROVE  rows[FullWalk[i]] # "none"
    <2>1. FullWalk[i] \in Cand /\ FullWalk[j] \in Cand
      BY <1>1
    <2>2. CASE FullWalk[j] = cur
      BY <1>2, <1>4, <2>1, <2>2 DEF WalkCovers
    <2>3. CASE FullWalk[j] # cur
      BY <1>2, <1>4, <2>1, <2>3 DEF RowsFollowOrder, FullWalk
    <2>. QED
      BY <2>2, <2>3
  <1>5. ASSUME NEW b \in Listed(script), NEW c \in Listed(script), RepoOf[b] = RepoOf[c],
               <<b, c>> \in Precedence(script), rows[c] # "none"
        PROVE  rows[b] # "none" \/ b \in omitted
    <2>1. b \in Cand /\ c \in Cand
      BY <1>1
    <2>2. CASE c = cur
      BY <1>2, <1>5, <2>1, <2>2 DEF GroupCovers
    <2>3. CASE c # cur
      BY <1>2, <1>5, <2>1, <2>3 DEF RowsFollowOrder
    <2>. QED
      BY <2>2, <2>3
  <1>6. RowsFollowOrder'
    <2>1. FullWalk' = FullWalk /\ Listed(script)' = Listed(script)
          /\ Precedence(script)' = Precedence(script)
      BY DEF FullWalk
    <2>. QED
      BY <1>3, <1>4, <1>5, <2>1 DEF RowsFollowOrder, FullWalk
  <1>7. omitted = {} => WalkCovers(rows, cur)
    BY <1>1, <1>2 DEF WalkCovers
  <1>8. GroupCovers(rows, cur)
    BY <1>1, <1>2 DEF GroupCovers
  <1>. QED
    BY <1>6, <1>7, <1>8

LEMMA HandStep ==
    ASSUME PoolOK, RunOK, HandOK, RowsFollowOrder, [Next]_vars, script' = script
    PROVE  HandOK' /\ RowsFollowOrder'
  <1>. SUFFICES ASSUME script # "ast"
                PROVE  HandOK' /\ RowsFollowOrder'
    BY DEF HandOK, RowsFollowOrder
  <1>1. /\ state \in [Cand -> {"none", "rejected", "verified"}] /\ done \subseteq Cand
        /\ script \in {"public", "reversal"}
    BY DEF PoolOK, PoolTypeOK, InHand
  <1>2. ASSUME UNCHANGED state, omitted \subseteq omitted' PROVE RowsFollowOrder' /\ Done' = Done
    BY <1>2 DEF RowsFollowOrder, Done
  <1>. DEFINE walks == \E cands \in SUBSET Listed(script) :
                          Listed(script) \ cands \subseteq omitted /\ walk = Ordered(script, cands)
  <1>3. ASSUME UNCHANGED <<walk, omitted>>, walks PROVE walks'
    BY <1>3
  <1>4. pc # "stopped" => walks /\ done = Done
    BY DEF HandOK
  <1>5. CASE Start
    <2>1. /\ UNCHANGED state /\ pc' = "head" /\ done' = Done
      BY <1>5 DEF Start, durable
    <2>2. PICK left \in SUBSET Listed(script) :
             omitted' = omitted \cup left /\ walk' = Ordered(script, Listed(script) \ left)
      BY <1>5 DEF Start
    <2>3. walks'
      <3>1. /\ Listed(script) \ left \in SUBSET Listed(script)
            /\ Listed(script) \ (Listed(script) \ left) \subseteq omitted'
        BY <2>2
      <3>. QED
        BY <2>2, <3>1
    <2>. HIDE DEF walks
    <2>. QED
      BY <1>2, <2>1, <2>2, <2>3 DEF HandOK, Trying, Ending, Keeping, walks
  <1>6. CASE Pick
    <2>1. /\ UNCHANGED <<state, done, walk, omitted>> /\ pc = "head" /\ pc' = "verify"
      BY <1>6 DEF Pick, durable
    <2>2. Done' = Done /\ RowsFollowOrder' /\ done = Done
      BY <1>2, <1>4, <2>1
    <2>3. walks'
      BY <1>3, <1>4, <2>1
    <2>4. /\ cur' \in Listed(script) /\ state[cur'] = "none"
          /\ omitted = {} => WalkCovers(state, cur')
          /\ GroupCovers(state, cur')
      BY <1>6, PickCovers
    <2>5. (omitted' = {} => WalkCovers(state, cur)') /\ GroupCovers(state, cur)'
      BY <2>1, <2>4 DEF WalkCovers, GroupCovers, FullWalk
    <2>. HIDE DEF walks
    <2>. QED
      BY <2>1, <2>2, <2>3, <2>4, <2>5 DEF HandOK, Trying, Ending, Keeping, walks
  <1>7. CASE Record
    <2>1. /\ pc = "record" /\ verdict # "raised" /\ state' = [state EXCEPT ![cur] = verdict]
          /\ done' = done \cup {cur} /\ pc' = AfterRecord /\ UNCHANGED <<cur, walk, omitted>>
      BY <1>7 DEF Record
    <2>2. /\ verdict # "none" /\ done = Done /\ cur \in Listed(script)
          /\ omitted = {} => WalkCovers(state, cur)
          /\ GroupCovers(state, cur)
      BY <2>1 DEF RunOK, HandOK, Ending
    <2>3. cur \in Cand
      BY <2>1 DEF PoolOK, InHand
    <2>4. state'[cur] = verdict /\ \A c \in Cand : c # cur => state'[c] = state[c]
      BY <1>1, <2>1, <2>3
    <2>5. /\ RowsFollowOrder'
          /\ omitted = {} => WalkCovers(state', cur)
          /\ GroupCovers(state', cur)
      BY <2>1, <2>2, <2>4, RecordCovers
    <2>6. (omitted' = {} => WalkCovers(state, cur)') /\ GroupCovers(state, cur)'
      BY <2>1, <2>5 DEF WalkCovers, GroupCovers, FullWalk
    <2>7. done' = Done'
      BY <2>1, <2>2, <2>3, <2>4 DEF Done
    <2>8. pc' \in Keeping \cup {"image"} /\ (pc' \in Keeping => verdict = "verified")
      BY <2>1 DEF AfterRecord, Keeping
    <2>9. walks'
      BY <1>3, <1>4, <2>1
    <2>. HIDE DEF walks
    <2>10. HandOK'
      BY <2>1, <2>2, <2>4, <2>6, <2>7, <2>8, <2>9 DEF HandOK, Trying, Ending, Keeping, walks
    <2>. QED
      BY <2>5, <2>10
  <1>8. CASE Pack \/ TriesOn \/ WriteBundle \/ AppendRow \/ TurnsTo
    <2>1. UNCHANGED <<state, done, walk, omitted>>
      BY <1>8 DEF Pack, TriesOn, WriteBundle, AppendRow, TurnsTo, volatile
    <2>2. Done' = Done /\ RowsFollowOrder'
      BY <1>2, <2>1
    <2>3. \/ pc' = "head"
          \/ pc \in Trying \cup Ending /\ pc' \in Trying \cup Ending /\ UNCHANGED cur
          \/ pc \in Keeping /\ pc' \in Keeping \cup {"image"} /\ UNCHANGED cur
      BY <1>8 DEF Pack, TriesOn, WriteBundle, AppendRow, TurnsTo, volatile, Verdict, Trying,
        Ending, Keeping
    <2>4. pc # "stopped" /\ (pc' # "head" => pc # "head")
      BY <1>8, <2>3 DEF Pack, TriesOn, WriteBundle, AppendRow, TurnsTo, Trying, Ending, Keeping
    <2>5. walks' /\ done' = Done'
      BY <1>3, <1>4, <2>1, <2>2, <2>4
    <2>6. pc' # "head" =>
             /\ omitted' = {} => WalkCovers(state, cur)'
             /\ GroupCovers(state, cur)'
             /\ cur' \in Listed(script)
      BY <2>1, <2>3, <2>4 DEF HandOK, WalkCovers, GroupCovers, FullWalk
    <2>. HIDE DEF walks
    <2>7. /\ pc' \in Trying \cup Ending => state'[cur'] = "none"
          /\ pc' \in Keeping => state'[cur'] = "verified"
      BY <2>1, <2>3 DEF HandOK, Trying, Ending, Keeping
    <2>. QED
      BY <2>2, <2>4, <2>5, <2>6, <2>7 DEF HandOK, walks
  <1>9. CASE StartFails \/ WriteBundleFails \/ Dies \/ Finish
    <2>1. UNCHANGED <<state, omitted>> /\ pc' = "stopped"
      BY <1>9 DEF StartFails, WriteBundleFails, Dies, Finish, Die, durable
    <2>. QED
      BY <1>2, <2>1 DEF HandOK, Trying, Ending, Keeping
  <1>10. CASE UNCHANGED poolVars
    <2>1. UNCHANGED <<state, done, cur, pc, walk, omitted>>
      BY <1>10 DEF poolVars, durable, volatile
    <2>2. Done' = Done /\ RowsFollowOrder'
      BY <1>2, <2>1
    <2>3. /\ WalkCovers(state, cur)' = WalkCovers(state, cur)
          /\ GroupCovers(state, cur)' = GroupCovers(state, cur)
      BY <2>1 DEF WalkCovers, GroupCovers, FullWalk
    <2>. QED
      BY <1>3, <2>1, <2>2, <2>3 DEF HandOK
  <1>. QED
    BY <1>5, <1>6, <1>7, <1>8, <1>9, <1>10, RowMoves

-----------------------------------------------------------------------------
Ids == {out[i].id : i \in DOMAIN out}
Distinct == \A i, j \in DOMAIN out : out[i].id = out[j].id => i = j
DiedOn(c) == \E d \in deaths : d[1] = c

\* A resumable script knows its task rows, the candidate in hand has none and
\* there is room for it.
ShelfOK ==
    script # "ast" =>
    /\ pc # "stopped" => accepted = Ids
    /\ pc \notin {"stopped", "head", "image"} => cur \notin Ids /\ Len(out) < Target
    /\ \A c \in Ids : state[c] = "verified" /\ bundle[c] = "complete"
    /\ script = "reversal" /\ pc \in Ending /\ verdict = "verified" => bundle[cur] = "complete"
    /\ pc = "append" => bundle[cur] = "complete"
    /\ (pc \notin {"stopped", "head"} /\ bundle[cur] = "complete") =>
          \/ cur \in Ids \/ DiedOn(cur) \/ pc = "append"
          \/ script = "reversal" /\ pc \in Ending /\ verdict = "verified"

LEMMA IdsCount ==
    ASSUME out \in Seq(TaskRows), Distinct
    PROVE  Ids \subseteq Cand /\ Cardinality(Ids) = Len(out) /\ Len(out) \in Nat
  <1>. DEFINE n == Len(out)
              f == [i \in 1 .. n |-> out[i].id]
  <1>1. n \in Nat /\ DOMAIN out = 1 .. n
    OBVIOUS
  <1>2. \A i \in 1 .. n : out[i].id \in Cand
    BY <1>1, RowFields
  <1>3. Ids \subseteq Cand
    BY <1>1, <1>2 DEF Ids
  <1>4. IsFiniteSet(Ids)
    BY <1>3, PoolConstants, FS_Subset
  <1>5. f \in [1 .. n -> Ids] /\ \A i, j \in 1 .. n : f[i] = f[j] => i = j
    BY <1>1 DEF Ids, Distinct
  <1>6. \A c \in Ids : \E i \in 1 .. n : f[i] = c
    BY <1>1 DEF Ids
  <1>7. Cardinality(1 .. n) = n
    BY <1>1, FS_Interval
  <1>8. Cardinality(1 .. n) = Cardinality(Ids)
    <2>. DEFINE places == 1 .. n
    <2>1. f \in [places -> Ids] /\ (\A i, j \in places : f[i] = f[j] => i = j)
          /\ \A c \in Ids : \E i \in places : f[i] = c
      BY <1>5, <1>6
    <2>. HIDE DEF f, places
    <2>2. Cardinality(places) = Cardinality(Ids)
      BY <1>4, <2>1, NoLarger
    <2>. QED
      BY <2>2 DEF places
  <1>. QED
    BY <1>1, <1>3, <1>7, <1>8

\* A row appended: the rows before it stay.
LEMMA Appended ==
    ASSUME out \in Seq(TaskRows), NEW row \in TaskRows, out' = Append(out, row)
    PROVE  /\ Ids' = Ids \cup {row.id} /\ Len(out') = Len(out) + 1
           /\ Distinct /\ row.id \notin Ids => Distinct'
  <1>1. /\ Len(out) \in Nat /\ DOMAIN out = 1 .. Len(out)
        /\ Len(out') = Len(out) + 1 /\ DOMAIN out' = 1 .. Len(out) + 1
        /\ \A i \in 1 .. Len(out) : out'[i] = out[i]
        /\ out'[Len(out) + 1] = row
    OBVIOUS
  <1>2. Ids' = Ids \cup {row.id}
    <2>1. \A i \in DOMAIN out' : out'[i].id \in Ids \cup {row.id}
      <3>. SUFFICES ASSUME NEW i \in 1 .. Len(out) + 1
                    PROVE  out'[i].id \in Ids \cup {row.id}
        BY <1>1
      <3>. QED
        BY <1>1 DEF Ids
    <2>2. \A c \in Ids \cup {row.id} : \E i \in DOMAIN out' : out'[i].id = c
      BY <1>1 DEF Ids
    <2>3. Ids' = {out'[i].id : i \in DOMAIN out'}
      BY DEF Ids
    <2>. QED
      BY <2>1, <2>2, <2>3
  <1>3. ASSUME Distinct, row.id \notin Ids PROVE Distinct'
    <2>. SUFFICES ASSUME NEW i \in 1 .. Len(out) + 1, NEW j \in 1 .. Len(out) + 1,
                         out'[i].id = out'[j].id
                  PROVE  i = j
      BY <1>1 DEF Distinct
    <2>1. \A k \in 1 .. Len(out) : out[k].id # row.id
      BY <1>1, <1>3 DEF Ids
    <2>. QED
      BY <1>1, <1>3, <2>1 DEF Distinct
  <1>. QED
    BY <1>1, <1>2, <1>3

LEMMA ShelfStep ==
    ASSUME PoolOK, RunOK, HandOK, ShelfOK, RestartSafe, [Next]_vars, script' = script
    PROVE  ShelfOK' /\ RestartSafe'
  <1>. SUFFICES ASSUME script # "ast"
                PROVE  ShelfOK' /\ RestartSafe'
    BY DEF ShelfOK, RestartSafe
  <1>1. /\ out \in Seq(TaskRows) /\ Len(out) \in Nat /\ Target \in Nat
        /\ state \in [Cand -> {"none", "rejected", "verified"}]
        /\ bundle \in [Cand -> {"none", "partial", "complete"}]
        /\ NoCand \notin Cand /\ Ids \subseteq Cand
        /\ (pc \notin {"stopped", "head"} => cur \in Cand)
        /\ script \in {"public", "reversal"}
        /\ DOMAIN out = 1 .. Len(out)
    <2>1. out \in Seq(TaskRows)
      BY DEF PoolOK, PoolTypeOK, TaskRows
    <2>2. Ids \subseteq Cand
      BY <2>1, RowFields DEF Ids
    <2>. QED
      BY <2>1, <2>2, PoolConstants DEF PoolOK, PoolTypeOK, InHand
  <1>2. Distinct
    BY DEF RestartSafe, Distinct
  <1>. DEFINE safe == /\ Distinct /\ Len(out) <= Target
                      /\ (result = "ready" => Len(out) = Target)
                      /\ \A c \in Ids : state[c] = "verified" /\ bundle[c] = "complete"
                      /\ \A c \in Cand : \/ bundle[c] # "complete" \/ cur = c \/ c \in Ids
                                         \/ DiedOn(c)
  <1>3. safe
    BY <1>2 DEF RestartSafe, ShelfOK, Ids, DiedOn
  <1>4. safe' => RestartSafe'
    BY DEF RestartSafe, Distinct, Ids, DiedOn
  <1>5. ASSUME UNCHANGED out PROVE Ids' = Ids /\ Distinct'
    BY <1>2, <1>5 DEF Ids, Distinct
  <1>6. CASE Start \/ StartFails
    <2>1. /\ UNCHANGED <<state, out, bundle, cur, deaths>> /\ pc = "stopped"
          /\ pc' \in {"stopped", "head"} /\ (pc' = "head" => accepted' = Ids)
          /\ result' # "ready"
      BY <1>6 DEF Start, StartFails, durable, volatile, Ids
    <2>2. Ids' = Ids /\ Distinct'
      BY <1>5, <2>1
    <2>. QED
      BY <1>3, <1>4, <2>1, <2>2 DEF ShelfOK, Ending, DiedOn
  <1>7. CASE Finish
    <2>1. /\ UNCHANGED <<state, out, bundle, cur, deaths>> /\ pc = "head" /\ pc' = "stopped"
          /\ (result' = "ready" => Cardinality(accepted) >= Target)
      BY <1>7 DEF Finish, durable, volatile, Enough
    <2>2. Cardinality(accepted) = Len(out)
      BY <1>1, <1>2, <2>1, IdsCount DEF ShelfOK
    <2>3. Ids' = Ids /\ Distinct'
      BY <1>5, <2>1
    <2>4. result' = "ready" => Len(out) = Target
      <3>1. Len(out) <= Target
        BY <1>3
      <3>. QED
        <4>. SUFFICES ASSUME result' = "ready" PROVE Len(out) = Target
          OBVIOUS
        <4>1. Len(out) >= Target
          BY ONLY <2>1, <2>2, result' = "ready"
        <4>. QED
          <5>1. Len(out) \in Nat /\ Target \in Nat
            BY <1>1
          <5>. QED
            BY ONLY <3>1, <4>1, <5>1
    <2>. QED
      BY <1>3, <1>4, <2>1, <2>3, <2>4 DEF ShelfOK, Ending, DiedOn
  <1>8. CASE Pick
    <2>1. /\ UNCHANGED <<state, out, bundle, accepted, deaths, result>> /\ pc = "head"
          /\ pc' = "verify" /\ ~ Enough /\ cur' = NextCandidate /\ Remaining # {}
      BY <1>8 DEF Pick, durable
    <2>2. cur' \in Cand /\ cur' \notin done
      BY <2>1, NextIsFirst DEF PoolOK, PoolTypeOK
    <2>3. state[cur'] = "none" /\ cur' \notin Ids
      BY <1>3, <2>1, <2>2 DEF HandOK, Done
    <2>4. Len(out) < Target
      <3>1. Cardinality(accepted) = Len(out)
        BY <1>1, <1>2, <2>1, IdsCount DEF ShelfOK
      <3>. QED
        BY <1>1, <2>1, <3>1 DEF Enough
    <2>5. Ids' = Ids /\ Distinct'
      BY <1>5, <2>1
    <2>6. cur \notin Cand
      BY <1>1, <2>1 DEF RunOK
    <2>. QED
      BY <1>3, <1>4, <2>1, <2>2, <2>3, <2>4, <2>5, <2>6 DEF ShelfOK, Ending, DiedOn
  <1>9. CASE Record
    <2>1. /\ pc = "record" /\ verdict # "raised" /\ state' = [state EXCEPT ![cur] = verdict]
          /\ pc' = AfterRecord /\ UNCHANGED <<script, out, bundle, cur, accepted, deaths, result, verdict>>
      BY <1>9 DEF Record
    <2>2. cur \in Cand /\ state[cur] = "none" /\ cur \notin Ids
      BY <1>1, <2>1 DEF HandOK, ShelfOK, Ending
    <2>3. \A c \in Cand : c # cur => state'[c] = state[c]
      BY <1>1, <2>1
    <2>4. Ids' = Ids /\ Distinct'
      BY <1>5, <2>1
    <2>5. \/ pc' = "image" /\ verdict # "verified"
          \/ pc' = "bundle" /\ script = "public"
          \/ pc' = "append" /\ script = "reversal" /\ verdict = "verified"
      BY <1>1, <2>1 DEF AfterRecord
    <2>6. safe'
      BY <1>1, <1>3, <2>1, <2>2, <2>3, <2>4 DEF DiedOn
    <2>7. ShelfOK'
      BY <1>1, <1>3, <2>1, <2>2, <2>4, <2>5, <2>6 DEF ShelfOK, Ending, DiedOn
    <2>. QED
      BY <1>4, <2>6, <2>7
  <1>10. CASE Pack \/ WriteBundle
    <2>1. /\ UNCHANGED <<script, state, out, cur, accepted, deaths, result>> /\ cur \in Cand
          /\ \/ /\ bundle' = [bundle EXCEPT ![cur] = "complete"]
                /\ \/ script = "reversal" /\ pc' \in Ending /\ verdict' = "verified"
                   \/ script = "public" /\ pc' = "append"
             \/ bundle' = bundle /\ pc' = "remove_base" /\ verdict' = "rejected" /\ pc = "pack"
             \/ /\ bundle' = [bundle EXCEPT ![cur] = "partial"]
                /\ pc' = "remove_base" /\ verdict' = "rejected"
      <3>1. CASE Pack
        BY <1>1, <3>1 DEF Pack, Verdict, Ending, RunOK
      <3>2. CASE WriteBundle
        BY <1>1, <3>2 DEF WriteBundle, volatile, RunOK
      <3>. QED
        BY <1>10, <3>1, <3>2
    <2>2. cur \notin Ids /\ Len(out) < Target /\ pc \in {"pack", "bundle"}
      BY <1>10 DEF Pack, WriteBundle, ShelfOK
    <2>3. \A c \in Cand : c # cur => bundle'[c] = bundle[c]
      BY <1>1, <2>1
    <2>4. Ids' = Ids /\ Distinct'
      BY <1>5, <2>1
    <2>5. /\ accepted = Ids
          /\ bundle[cur] = "complete" => DiedOn(cur)
      BY <2>2 DEF ShelfOK, Ending
    <2>6. safe'
      BY <1>1, <1>3, <2>1, <2>2, <2>3, <2>4 DEF DiedOn
    <2>7. bundle'[cur] = "complete" =>
             \/ DiedOn(cur) \/ pc' = "append"
             \/ script = "reversal" /\ pc' \in Ending /\ verdict' = "verified"
      BY <1>1, <2>1, <2>5
    <2>8. script' = "reversal" /\ pc' \in Ending /\ verdict' = "verified" => bundle'[cur] = "complete"
      BY <1>1, <2>1
    <2>9. pc' = "append" => bundle'[cur] = "complete"
      BY <1>1, <2>1
    <2>10. \A c \in Ids : state'[c] = "verified" /\ bundle'[c] = "complete"
      BY <2>4, <2>6
    <2>11. ShelfOK'
      BY <2>1, <2>2, <2>4, <2>5, <2>7, <2>8, <2>9, <2>10 DEF ShelfOK, DiedOn
    <2>. QED
      BY <1>4, <2>6, <2>11
  <1>11. CASE WriteBundleFails
    <2>1. /\ Die /\ bundle' = [bundle EXCEPT ![cur] = "partial"] /\ pc = "bundle"
          /\ UNCHANGED <<script, state, out>>
      BY <1>11 DEF WriteBundleFails
    <2>2. cur \notin Ids /\ cur \in Cand
      BY <1>1, <2>1 DEF ShelfOK
    <2>3. \A c \in Cand : IF c = cur THEN bundle'[c] = "partial" ELSE bundle'[c] = bundle[c]
      BY <1>1, <2>1
    <2>4. Ids' = Ids /\ Distinct'
      BY <1>5, <2>1
    <2>5. pc' = "stopped" /\ result' = "died" /\ deaths \subseteq deaths'
      BY <2>1 DEF Die
    <2>6. safe'
      BY <1>1, <1>3, <2>1, <2>2, <2>3, <2>4, <2>5 DEF DiedOn
    <2>7. ShelfOK'
      BY <2>5, <2>6 DEF ShelfOK, Ending
    <2>. QED
      BY <1>4, <2>6, <2>7
  <1>12. CASE Dies
    <2>1. /\ pc' = "stopped" /\ result' = "died" /\ deaths' = deaths \cup {<<cur, pc>>}
          /\ UNCHANGED <<script, state, out, bundle>>
      BY <1>12 DEF Dies, Die
    <2>2. Ids' = Ids /\ Distinct'
      BY <1>5, <2>1
    <2>3. \A c \in Cand : \/ bundle'[c] # "complete" \/ c \in Ids
                          \/ \E d \in deaths' : d[1] = c
      <3>1. <<cur, pc>> \in deaths' /\ deaths \subseteq deaths' /\ <<cur, pc>>[1] = cur
        BY <2>1
      <3>. QED
        BY <1>3, <2>1, <3>1 DEF DiedOn
    <2>4. safe'
      BY <1>3, <2>1, <2>2, <2>3 DEF DiedOn
    <2>5. ShelfOK'
      BY <2>1, <2>4 DEF ShelfOK, Ending
    <2>. QED
      BY <1>4, <2>4, <2>5
  <1>13. CASE AppendRow
    <2>1. /\ pc = "append" /\ out' = Append(out, Row) /\ accepted' = accepted \cup {cur}
          /\ pc' = "image" /\ UNCHANGED <<script, state, bundle, cur, verdict, result, deaths>>
      BY <1>13 DEF AppendRow
    <2>2. Row \in TaskRows /\ Row.id = cur
      BY <1>1, <2>1, PatchParts DEF Row, TaskRows, PoolOK, PoolTypeOK
    <2>3. /\ cur \notin Ids /\ Len(out) < Target /\ accepted = Ids /\ bundle[cur] = "complete"
          /\ state[cur] = "verified" /\ result = "running"
      BY <2>1 DEF ShelfOK, HandOK, RunOK, Keeping
    <2>4. Ids' = Ids \cup {cur} /\ Len(out') = Len(out) + 1 /\ Distinct'
      <3>. HIDE DEF Row
      <3>. QED
        BY <1>1, <1>2, <2>1, <2>2, <2>3, Appended
    <2>5. safe'
      <3>1. Len(out') <= Target
        BY ONLY <1>1, <2>3, <2>4
      <3>. QED
        BY <1>3, <2>1, <2>3, <2>4, <3>1 DEF DiedOn
    <2>6. ShelfOK'
      BY <2>1, <2>3, <2>4, <2>5 DEF ShelfOK, Ending
    <2>. QED
      BY <1>4, <2>5, <2>6
  <1>14. CASE TriesOn
    <2>1. /\ pc \in Trying \cup Ending /\ pc' \in Trying \cup Ending
          /\ pc \in Ending => pc' \in Ending /\ verdict' = verdict
          /\ verdict' = "verified" => verdict = "verified" \/ script = "public"
          /\ UNCHANGED <<script, state, out, bundle, cur, accepted, result, deaths>>
      BY <1>14 DEF TriesOn
    <2>2. Ids' = Ids /\ Distinct'
      BY <1>5, <2>1
    <2>3. safe'
      BY <1>3, <2>1, <2>2 DEF DiedOn
    <2>4. pc \in Trying => verdict = "none"
      BY DEF RunOK, Trying, Ending, Keeping
    <2>5. ShelfOK'
      BY <2>1, <2>2, <2>3, <2>4 DEF ShelfOK, Trying, Ending, DiedOn
    <2>. QED
      BY <1>4, <2>3, <2>5
  <1>15. CASE TurnsTo
    <2>1. /\ pc = "image" /\ pc' = "head" /\ cur' = NoCand
          /\ UNCHANGED <<script, state, out, bundle, accepted, result, deaths>>
      BY <1>15 DEF TurnsTo
    <2>2. Ids' = Ids /\ Distinct'
      BY <1>5, <2>1
    <2>3. bundle[cur] = "complete" => cur \in Ids \/ DiedOn(cur)
      BY <2>1 DEF ShelfOK, Ending
    <2>4. safe'
      BY <1>3, <2>1, <2>2, <2>3 DEF DiedOn
    <2>5. ShelfOK'
      BY <2>1, <2>2, <2>4 DEF ShelfOK, Ending
    <2>. QED
      BY <1>4, <2>4, <2>5
  <1>16. CASE UNCHANGED poolVars
    <2>1. UNCHANGED <<script, state, out, bundle, cur, accepted, result, deaths, pc, verdict>>
      BY <1>16 DEF poolVars, durable, volatile
    <2>2. Ids' = Ids /\ Distinct'
      BY <1>5, <2>1
    <2>. QED
      BY <1>3, <1>4, <2>1, <2>2 DEF ShelfOK, DiedOn
  <1>. QED
    BY <1>6, <1>7, <1>8, <1>9, <1>10, <1>11, <1>12, <1>13, <1>14, <1>15, <1>16, RowMoves

-----------------------------------------------------------------------------
\* build_ast_bundles: what it has built is whole, seen, and not too much.
AstRows == (script = "ast" /\ result = "ready") =>
               /\ Len(out) = Target
               /\ \A i \in DOMAIN out : bundle[out[i].id] = "complete"
AstOK ==
    script = "ast" =>
    /\ accepted \subseteq done
    /\ pc = "stopped" => accepted = {} /\ done = {}
    /\ \A c \in accepted : bundle[c] = "complete"
    /\ Cardinality(accepted) <= Target
    /\ pc \in {"archive", "manifest"} =>
          cur \in done /\ cur \notin accepted /\ Cardinality(accepted) < Target
    /\ pc = "write" => Cardinality(accepted) = Target

LEMMA AstMoves ==
    ASSUME PoolOK, [Next]_vars, script = "ast"
    PROVE  \/ AstStart \/ AstPick \/ AstArchive \/ AstManifest \/ AstFinish \/ AstWrite
           \/ AstWriteCut
           \/ Killed
           \/ UNCHANGED poolVars
  <1>1. pc \in {"stopped", "head", "archive", "manifest", "write"}
    BY DEF PoolOK, InHand
  <1>2. ~ (Start \/ StartFails \/ Finish \/ Pick \/ Screen \/ Reject \/ Uncaught \/ Prepare)
    BY <1>1 DEF Start, StartFails, Finish, Pick, Screen, Reject, Uncaught, Prepare, Verifying
  <1>3. \A role \in Roles : ~ (Create(role) \/ CreateLeaks(role))
    BY <1>1 DEF Create, CreateLeaks, CreatePc, Roles
  <1>4. \A role \in Roles : ~ (RemoveBox(role) \/ RemoveTimesOut(role))
    BY <1>1 DEF RemoveBox, RemoveTimesOut, RemovePc, Roles
  <1>5. ~ (Patch \/ F2P \/ P2P \/ Pack)
    BY <1>1 DEF Patch, F2P, P2P, Pack
  <1>6. ~ (Propagate \/ WriteBundleFails \/ Record \/ WriteBundle \/ AppendRow \/ Image)
    BY <1>1 DEF Propagate, WriteBundleFails, Record, WriteBundle, AppendRow, Image
  <1>. QED
    BY <1>2, <1>3, <1>4, <1>5, <1>6, PoolCases DEF AstStep

LEMMA AstRowStep ==
    ASSUME PoolOK, RunOK, AstOK, AstRows, [Next]_vars, script' = script
    PROVE  AstOK' /\ AstRows'
  <1>. SUFFICES ASSUME script = "ast"
                PROVE  AstOK' /\ AstRows'
    BY DEF AstOK, AstRows
  <1>1. /\ Target \in Nat /\ accepted \subseteq Cand
        /\ bundle \in [Cand -> {"none", "partial", "complete"}]
        /\ (pc \notin {"stopped", "head", "write"} => cur \in Cand)
        /\ NoCand \notin Cand
    BY PoolConstants DEF PoolOK, PoolTypeOK, InHand
  <1>2. IsFiniteSet(accepted) /\ Cardinality(accepted) \in Nat
    BY <1>1, PoolConstants, FS_Subset, FS_CardinalityType
  <1>3. Cardinality({}) = 0
    BY FS_EmptySet
  <1>4. pc # "stopped" => result = "running"
    BY DEF RunOK
  <1>5. CASE AstStart
    <2>1. /\ result' = "running" /\ pc' = "head" /\ UNCHANGED <<bundle, accepted, done>>
      BY <1>5 DEF AstStart, durable, volatile
    <2>. QED
      BY <2>1 DEF AstOK, AstRows
  <1>6. CASE AstPick
    <2>1. /\ pc = "head" /\ ~ Enough /\ Remaining # {} /\ done' = done \cup {NextCandidate}
          /\ UNCHANGED <<bundle, out, accepted, result>>
          /\ \/ pc' = "head"
             \/ pc' = "archive" /\ cur' = NextCandidate
      BY <1>6 DEF AstPick, durable
    <2>2. NextCandidate \notin accepted
      BY <2>1, NextIsFirst DEF AstOK, PoolOK, PoolTypeOK
    <2>3. Cardinality(accepted) < Target
      BY <1>1, <1>2, <2>1 DEF Enough
    <2>. QED
      BY <1>4, <2>1, <2>2, <2>3 DEF AstOK, AstRows
  <1>7. CASE AstArchive
    <2>1. /\ pc = "archive" /\ pc' = "manifest" /\ bundle' = [bundle EXCEPT ![cur] = "partial"]
          /\ UNCHANGED <<cur, done, accepted, result>>
      BY <1>7 DEF AstArchive, volatile
    <2>2. cur \notin accepted
      BY <2>1 DEF AstOK
    <2>3. \A c \in accepted : bundle'[c] = bundle[c]
      BY <1>1, <2>1, <2>2
    <2>. QED
      BY <1>4, <2>1, <2>2, <2>3 DEF AstOK, AstRows
  <1>8. CASE AstManifest
    <2>1. /\ pc = "manifest" /\ pc' = "head" /\ bundle' = [bundle EXCEPT ![cur] = "complete"]
          /\ accepted' = accepted \cup {cur} /\ UNCHANGED <<done, result>>
      BY <1>8 DEF AstManifest
    <2>2. Cardinality(accepted') = Cardinality(accepted) + 1
      BY <1>2, <2>1, FS_AddElement DEF AstOK
    <2>3. \A c \in accepted' : bundle'[c] = "complete"
      BY <1>1, <2>1 DEF AstOK
    <2>4. accepted \subseteq done /\ cur \in done /\ Cardinality(accepted) < Target
      BY <2>1 DEF AstOK
    <2>5. Cardinality(accepted') <= Target
      BY ONLY <1>1, <1>2, <2>2, <2>4
    <2>6. accepted' \subseteq done'
      BY <2>1, <2>4
    <2>. QED
      BY <1>4, <2>1, <2>3, <2>5, <2>6 DEF AstOK, AstRows
  <1>9. CASE AstFinish
    <2>1. CASE Enough
      <3>1. /\ pc' = "write" /\ UNCHANGED <<bundle, out, accepted, done, result>> /\ pc = "head"
        BY <1>9, <2>1 DEF AstFinish, durable, volatile
      <3>2. Cardinality(accepted) <= Target
        BY DEF AstOK
      <3>3. Cardinality(accepted) = Target
        BY ONLY <1>1, <1>2, <2>1, <3>2 DEF Enough
      <3>. QED
        BY <1>4, <3>1, <3>2, <3>3 DEF AstOK, AstRows
    <2>2. CASE ~ Enough
      <3>1. /\ pc' = "stopped" /\ result' = "died" /\ accepted' = {} /\ done' = {}
        BY <1>9, <2>2 DEF AstFinish, Die
      <3>. QED
        BY <1>1, <1>3, <3>1 DEF AstOK, AstRows
    <2>. QED
      BY <2>1, <2>2
  <1>10. CASE AstWrite
    <2>1. /\ pc = "write" /\ pc' = "stopped" /\ out' = Built /\ accepted' = {} /\ done' = {}
          /\ UNCHANGED bundle
      BY <1>10 DEF AstWrite
    <2>2. /\ Cardinality(accepted) = Target /\ \A c \in accepted : bundle[c] = "complete"
      BY <2>1 DEF AstOK
    <2>3. /\ Built \in Seq(TaskRows) /\ Len(Built) = Cardinality(accepted)
          /\ \A i \in 1 .. Len(Built) : Built[i].id \in accepted
      BY <1>1, <2>1, BuiltRows DEF PoolOK, InHand
    <2>. HIDE DEF Built
    <2>4. Len(out') = Target /\ \A i \in DOMAIN out' : bundle'[out'[i].id] = "complete"
      BY <2>1, <2>2, <2>3
    <2>. QED
      BY <1>1, <1>3, <2>1, <2>4 DEF AstOK, AstRows
  <1>11. CASE AstWriteCut \/ Killed
    <2>1. /\ pc' = "stopped" /\ result' = "died" /\ accepted' = {} /\ done' = {}
      BY <1>11 DEF AstWriteCut, Killed, Die
    <2>. QED
      BY <1>1, <1>3, <2>1 DEF AstOK, AstRows
  <1>12. CASE UNCHANGED poolVars
    BY <1>12 DEF poolVars, durable, volatile, AstOK, AstRows
  <1>. QED
    BY <1>5, <1>6, <1>7, <1>8, <1>9, <1>10, <1>11, <1>12, AstMoves

-----------------------------------------------------------------------------
\* What the containers of the candidate in hand hold, and what was measured.
Tree(role) == PatchedTree(role)
Shown(rcs) == {[base |-> {Tree("base")}, fix |-> {Tree("fix")}, rcs |-> rcs]}
HasTests == TestOnly(Commit[cur].patch) # {}

MeasuredOK ==
    script # "ast" =>
    /\ pc \in Trying \ {"verify"} => HasTests
    /\ pc = "create_fix" /\ script = "reversal" => held["base"] = {Tree("base")}
    /\ pc \in {"f2p", "p2p", "pack"} => \A r \in Roles : held[r] = {Tree(r)}
    /\ pc \in {"p2p", "pack"} => task.f2p = Shown(<<1, 0>>)
    /\ pc = "pack" => task.p2p = Shown(<<0, 0>>)
    /\ pc \in Ending \cup Keeping /\ verdict = "verified" =>
          HasTests /\ task = [f2p |-> Shown(<<1, 0>>), p2p |-> Shown(<<0, 0>>)]

LEMMA ScriptKept ==
    ASSUME [Next]_vars
    PROVE  script' = script
  BY PoolCases DEF Start, StartFails, AstStart, Finish, Pick, Screen, Reject, Uncaught, Prepare, Create,
    CreateLeaks, Patch, F2P, P2P, Pack, RemoveBox, RemoveTimesOut, Propagate, Killed,
    WriteBundleFails, Record, WriteBundle, AppendRow, Image, AstStep, AstPick, AstArchive,
    AstManifest, AstFinish, AstWrite, AstWriteCut, poolVars

LEMMA MeasuredStep ==
    ASSUME PoolOK, RunOK, MeasuredOK, [Next]_vars
    PROVE  MeasuredOK'
  <1>. SUFFICES ASSUME script # "ast"
                PROVE  MeasuredOK'
    BY ScriptKept DEF MeasuredOK
  <1>. USE DEF RunOK, MeasuredOK, Trying, Ending, Keeping, Verdict, HasTests, Shown, Tree, PatchedTree,
         durable, volatile
  <1>1. /\ held \in [Roles -> Trees] /\ task \in [f2p : SUBSET Measures, p2p : SUBSET Measures]
        /\ script \in {"public", "reversal"} /\ script' = script /\ Roles = {"base", "fix"}
    BY ScriptKept DEF PoolOK, PoolTypeOK, InHand, Roles
  <1>2. CASE Start \/ StartFails \/ Finish \/ Pick
    BY <1>2 DEF Start, StartFails, Finish, Pick
  <1>3. CASE Screen
    BY <1>3 DEF Screen, Screened
  <1>4. CASE Reject \/ Uncaught \/ Prepare
    BY <1>4 DEF Reject, Uncaught, Prepare, Verifying
  <1>5. ASSUME NEW role \in Roles, Create(role) \/ CreateLeaks(role)
        PROVE  MeasuredOK'
    <2>1. CASE Create(role)
      <3>1. /\ pc = CreatePc[role] /\ held' = [held EXCEPT ![role] = {Seed(role)}]
            /\ pc' = IF role = "base" THEN "create_fix"
                     ELSE IF script = "public" THEN "patch" ELSE "f2p"
            /\ UNCHANGED <<cur, task, verdict>>
        BY <2>1 DEF Create
      <3>2. script = "reversal" => Seed(role) = Tree(role)
        BY DEF Seed
      <3>3. CASE role = "base"
        BY <1>1, <3>1, <3>2, <3>3 DEF CreatePc
      <3>4. CASE role = "fix"
        BY <1>1, <3>1, <3>2, <3>4 DEF CreatePc
      <3>. QED
        BY <1>1, <3>3, <3>4
    <2>2. CASE CreateLeaks(role)
      BY <2>2 DEF CreateLeaks
    <2>. QED
      BY <1>5, <2>1, <2>2
  <1>6. CASE Patch
    BY <1>6 DEF Patch
  <1>7. CASE F2P
    <2>1. pc = "f2p" /\ UNCHANGED <<cur, held>> /\ pc' \in {"p2p", "remove_base"}
          /\ (pc' = "remove_base" => verdict' = "rejected")
      BY <1>7 DEF F2P
    <2>2. held["base"] = {Tree("base")} /\ held["fix"] = {Tree("fix")} /\ HasTests
      BY <1>1, <2>1
    <2>3. Measure(<<1, 0>>) = Shown(<<1, 0>>)
      BY <2>2 DEF Measure
    <2>4. pc' = "p2p" => task'.f2p = Shown(<<1, 0>>)
      <3>. SUFFICES ASSUME pc' = "p2p" PROVE task'.f2p = Shown(<<1, 0>>)
        OBVIOUS
      <3>1. PICK runs \in Runs :
               /\ Hits(runs, F2PLimit, <<1, 0>>) # {}
               /\ task' = [task EXCEPT !.f2p = Measure(RcsOf(runs, Hits(runs, F2PLimit, <<1, 0>>)))]
        BY <1>7 DEF F2P
      <3>2. task' = [task EXCEPT !.f2p = Shown(<<1, 0>>)]
        BY <2>3, <3>1, FirstHit
      <3>. QED
        BY <1>1, <3>2
    <2>. HIDE DEF Tree, Shown
    <2>5. Shown(<<1, 0>>)' = Shown(<<1, 0>>) /\ Tree("base")' = Tree("base")
          /\ Tree("fix")' = Tree("fix") /\ HasTests'
      BY <2>1, <2>2 DEF Shown, Tree
    <2>. QED
      BY <1>1, <2>1, <2>2, <2>4, <2>5
  <1>8. CASE P2P
    <2>1. pc = "p2p" /\ UNCHANGED <<cur, held>> /\ pc' \in {"pack", "remove_base"}
          /\ (pc' = "remove_base" => verdict' \in {"rejected", "verified"})
      BY <1>8 DEF P2P
    <2>2. held["base"] = {Tree("base")} /\ held["fix"] = {Tree("fix")} /\ HasTests
          /\ task.f2p = Shown(<<1, 0>>)
      BY <1>1, <2>1
    <2>3. Measure(<<0, 0>>) = Shown(<<0, 0>>)
      BY <2>2 DEF Measure
    <2>4. pc' = "pack" \/ verdict' = "verified" =>
             task' = [f2p |-> Shown(<<1, 0>>), p2p |-> Shown(<<0, 0>>)]
      <3>. SUFFICES ASSUME pc' = "pack" \/ verdict' = "verified"
                    PROVE  task' = [f2p |-> Shown(<<1, 0>>), p2p |-> Shown(<<0, 0>>)]
        OBVIOUS
      <3>1. PICK runs \in Runs :
               /\ Hits(runs, P2PLimit, <<0, 0>>) # {}
               /\ task' = [task EXCEPT !.p2p = Measure(RcsOf(runs, Hits(runs, P2PLimit, <<0, 0>>)))]
        BY <1>8, <2>1 DEF P2P
      <3>2. task' = [task EXCEPT !.p2p = Shown(<<0, 0>>)]
        BY <2>3, <3>1, FirstHit
      <3>. QED
        BY <1>1, <2>2, <3>2
    <2>. HIDE DEF Tree, Shown
    <2>5. Shown(<<1, 0>>)' = Shown(<<1, 0>>) /\ Shown(<<0, 0>>)' = Shown(<<0, 0>>)
          /\ Tree("base")' = Tree("base") /\ Tree("fix")' = Tree("fix") /\ HasTests'
      BY <2>1, <2>2 DEF Shown, Tree
    <2>. QED
      BY <1>1, <2>1, <2>2, <2>4, <2>5
  <1>9. CASE Pack
    BY <1>1, <1>9 DEF Pack
  <1>10. ASSUME NEW role \in Roles, RemoveBox(role) \/ RemoveTimesOut(role)
        PROVE  MeasuredOK'
    <2>1. CASE RemoveBox(role)
      BY <2>1 DEF RemoveBox, RemovePc, AfterRemove, Roles
    <2>2. CASE RemoveTimesOut(role)
      BY <2>2 DEF RemoveTimesOut, Die
    <2>. QED
      BY <1>10, <2>1, <2>2
  <1>11. CASE Propagate \/ Killed \/ WriteBundleFails
    BY <1>11 DEF Propagate, Killed, WriteBundleFails, Die
  <1>12. CASE Record
    BY <1>12 DEF Record, AfterRecord
  <1>13. CASE WriteBundle \/ AppendRow \/ Image
    BY <1>13 DEF WriteBundle, AppendRow, Image, Die
  <1>14. CASE AstStart \/ AstStep \/ AstWriteCut
    <2>1. pc \notin {"archive", "manifest", "write"}
      BY DEF PoolOK, InHand
    <2>. QED
      BY <1>14, <2>1 DEF AstStart, AstStep, AstPick, AstArchive, AstManifest, AstFinish, AstWrite,
        AstWriteCut
  <1>15. CASE UNCHANGED poolVars
    BY <1>15 DEF poolVars
  <1>. QED
    BY <1>2, <1>3, <1>4, <1>5, <1>6, <1>7, <1>8, <1>9, <1>10, <1>11, <1>12, <1>13, <1>14, <1>15,
       PoolCases

LEMMA HonestStep ==
    ASSUME PoolOK, RunOK, HandOK, MeasuredOK, OutIsHonest, [Next]_vars
    PROVE  OutIsHonest'
  <1>. SUFFICES ASSUME script # "ast"
                PROVE  \A i \in DOMAIN out' : Proven(out'[i])
    BY ScriptKept DEF OutIsHonest, Proven
  <1>1. \A i \in DOMAIN out : Proven(out[i])
    BY DEF OutIsHonest
  <1>2. CASE AppendRow
    <2>1. pc = "append" /\ out' = Append(out, Row) /\ cur \in Listed(script) /\ cur \in Cand
          /\ verdict = "verified" /\ HasTests
          /\ task = [f2p |-> Shown(<<1, 0>>), p2p |-> Shown(<<0, 0>>)]
          /\ script \in {"public", "reversal"}
      BY <1>2 DEF AppendRow, HandOK, MeasuredOK, RunOK, Keeping, PoolOK, InHand
    <2>2. script = "reversal" => "source" \in Commit[cur].patch
      BY <2>1 DEF Listed, IsCandidateCommit
    <2>3. "test" \in TestOnly(Commit[cur].patch) /\ "source" \notin TestOnly(Commit[cur].patch)
      BY <2>1 DEF HasTests, TestOnly
    <2>4. Proven(Row)
      BY <2>1, <2>2, <2>3 DEF Proven, Row, Shown, Tree, PatchedTree, SourceOnly
    <2>5. out \in Seq(TaskRows)
      BY DEF PoolOK, PoolTypeOK, TaskRows
    <2>6. /\ DOMAIN out' = 1 .. Len(out) + 1 /\ DOMAIN out = 1 .. Len(out)
          /\ \A i \in 1 .. Len(out) : out'[i] = out[i]
          /\ out'[Len(out) + 1] = Row /\ Len(out) \in Nat
      <3>. HIDE DEF Row
      <3>. QED
        BY <2>1, <2>5
    <2>. HIDE DEF Row
    <2>. QED
      BY <1>1, <2>4, <2>6
  <1>3. CASE UNCHANGED out
    BY <1>1, <1>3
  <1>. QED
    BY <1>2, <1>3, RowMoves DEF Start, StartFails, Finish, Pick, Pack, Record, WriteBundle, WriteBundleFails,
      TriesOn, Dies, TurnsTo, poolVars, durable

-----------------------------------------------------------------------------
BuildInv ==
    /\ PoolOK /\ RunOK
    /\ HandOK /\ RowsFollowOrder
    /\ ShelfOK /\ RestartSafe
    /\ AstOK /\ AstRows
    /\ MeasuredOK

LEMMA BuildInit == Init => BuildInv
  <1>. SUFFICES ASSUME Init PROVE BuildInv
    OBVIOUS
  <1>. USE PoolConstants DEF Init, PoolInit
  <1>1. PoolOK
    <2>1. Absent \in [Roles -> Trees] /\ NoTask \in [f2p : SUBSET Measures, p2p : SUBSET Measures]
      BY DEF Absent, NoTask, Trees
    <2>2. out \in Seq(TaskRows)
      OBVIOUS
    <2>. QED
      BY <2>1, <2>2 DEF PoolOK, PoolTypeOK, InHand, TaskRows
  <1>2. RunOK /\ HandOK /\ MeasuredOK
    BY DEF RunOK, HandOK, MeasuredOK, Trying, Ending, Keeping
  <1>3. ShelfOK
    BY DEF ShelfOK, Ids, Ending
  <1>4. RestartSafe
    BY DEF RestartSafe
  <1>5. RowsFollowOrder
    <2>1. /\ Listed(script) \subseteq Cand
          /\ \A i \in DOMAIN FullWalk : FullWalk[i] \in Cand
      BY FullWalkLists
    <2>2. \A c \in Cand : state[c] = "none"
      OBVIOUS
    <2>. QED
      BY <2>1, <2>2 DEF RowsFollowOrder, FullWalk
  <1>6. AstOK /\ AstRows
    BY FS_EmptySet DEF AstOK, AstRows
  <1>. QED
    BY <1>1, <1>2, <1>3, <1>4, <1>5, <1>6 DEF BuildInv

LEMMA BuildInvariance == Spec => []BuildInv
  <1>1. BuildInv /\ [Next]_vars => BuildInv'
    <2>. SUFFICES ASSUME BuildInv, [Next]_vars PROVE BuildInv'
      OBVIOUS
    <2>1. PoolOK' /\ RunOK' /\ script' = script
      BY TypeStep, RunStep, ScriptKept DEF BuildInv
    <2>2. HandOK' /\ RowsFollowOrder'
      BY <2>1, HandStep DEF BuildInv
    <2>3. ShelfOK' /\ RestartSafe'
      BY <2>1, ShelfStep DEF BuildInv
    <2>4. AstOK' /\ AstRows'
      BY <2>1, AstRowStep DEF BuildInv
    <2>5. MeasuredOK'
      BY MeasuredStep DEF BuildInv
    <2>. QED
      BY <2>1, <2>2, <2>3, <2>4, <2>5 DEF BuildInv
  <1>. QED
    BY BuildInit, <1>1, PTL DEF Spec

(* The files, the containers, the measurements and the counters of the      *)
(* builders keep their types; no "raised" reaches a state row.              *)
THEOREM PoolTypeCorrect == Spec => []PoolTypeOK
  <1>1. BuildInv => PoolTypeOK
    BY DEF BuildInv, PoolOK
  <1>. QED
    BY BuildInvariance, <1>1, PTL

(* However often a resumable script dies and starts again, the candidates   *)
(* with a state row are a prefix of its round robin until a start could not *)
(* list a commit, and ever after no commit is judged before a likelier fix  *)
(* of its repository that no start has left out.                            *)
THEOREM NoCandidateIsSkipped == Spec => []RowsFollowOrder
  <1>1. BuildInv => RowsFollowOrder
    BY DEF BuildInv
  <1>. QED
    BY BuildInvariance, <1>1, PTL

(* No task is written twice, each has its state row and its whole bundle    *)
(* behind it, there are never more than the target, and a complete bundle   *)
(* without a row is one the script died on; a complete output of            *)
(* build_ast_bundles names whole bundles until a later start.               *)
THEOREM OutputIsBacked == Spec => []OutIsBacked
  <1>1. BuildInv => OutIsBacked
    BY DEF BuildInv, OutIsBacked, AstRows
  <1>. QED
    BY BuildInvariance, <1>1, PTL

(* What a resumable script writes out as verified was measured on the two   *)
(* trees it claims: the fail-to-pass test failed with the tests of the      *)
(* patch alone and passed with all of it, the pass-to-pass test passed in   *)
(* both, the patch has tests and, for a reversal, a source.                 *)
THEOREM OutputIsHonest == Spec => []OutIsHonest
  <1>1. Init => OutIsHonest
    BY DEF Init, PoolInit, OutIsHonest
  <1>2. BuildInv /\ OutIsHonest /\ [Next]_vars => OutIsHonest'
    BY HonestStep DEF BuildInv
  <1>. QED
    BY BuildInvariance, <1>1, <1>2, PTL DEF Spec
=============================================================================
