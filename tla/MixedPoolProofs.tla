-------------------------- MODULE MixedPoolProofs --------------------------
(***************************************************************************)
(* Theorems about the mixer: what it writes on top of whatever a builder   *)
(* has written, for every input, quota and evaluation file, with starts of *)
(* the builder, deaths of both and runs of the mixer in any order.         *)
(***************************************************************************)
EXTENDS PoolProofs

\* A file of tasks that names each task once.
TaskFile(T) == /\ T \subseteq Tasks /\ IsFiniteSet(T)
               /\ \A t, u \in T : t.id = u.id => t = u

LEMMA AsTaskFields ==
    ASSUME NEW row \in TaskRows, script \in {"public", "reversal", "ast"}
    PROVE  /\ AsTask(row) \in Tasks /\ AsTask(row).id = row.id
           /\ AsTask(row).source = SourceOf[script]
  <1>1. row.id \in Cand
    BY DEF TaskRows
  <1>2. row.id \in Nat /\ RepoOf[row.id] \in Nat
    BY <1>1, PoolConstants DEF RepoOf
  <1>3. SourceOf[script] \in Sources
    BY DEF SourceOf, Sources
  <1>. QED
    BY <1>2, <1>3 DEF AsTask, Tasks

LEMMA PortableFields ==
    ASSUME NEW t \in Tasks
    PROVE  /\ Portable(t) \in Tasks /\ PoolView(t) \in Tasks
           /\ Portable(t).id = t.id /\ Portable(t).repo = t.repo
           /\ Portable(t).source = t.source
           /\ ~ PoolView(t).secret /\ PoolView(t).portable
  BY DEF Portable, PoolView, Tasks

\* The builder's output becomes a file of tasks of its own source.
LEMMA EligibleTasks ==
    ASSUME PoolOK, NEW s \in Sources
    PROVE  /\ TaskFile(Eligible(s))
           /\ \A t \in Eligible(s) : t.source = s
           /\ s = SourceOf[script] => \A t \in Eligible(s) : t.id \in Ids
  <1>1. /\ out \in Seq(TaskRows) /\ script \in {"public", "reversal", "ast"}
        /\ \A i \in DOMAIN out : out[i] \in TaskRows
    <2>1. out \in Seq(TaskRows)
      BY DEF PoolOK, PoolTypeOK, TaskRows
    <2>. QED
      BY <2>1, RowFields DEF PoolOK, InHand
  <1>2. \A t \in Eligible(s) : t.source = s
    BY DEF Eligible
  <1>3. CASE s # SourceOf[script]
    <2>1. TaskFile(Given[s])
      BY MixConstants DEF TaskFile
    <2>2. Eligible(s) \subseteq Given[s]
      BY <1>3 DEF Eligible, Input
    <2>3. IsFiniteSet(Eligible(s))
      BY <2>1, <2>2, FS_Subset DEF TaskFile
    <2>. QED
      BY <1>2, <1>3, <2>1, <2>2, <2>3 DEF TaskFile
  <1>4. CASE s = SourceOf[script]
    <2>. DEFINE row == [i \in DOMAIN out |-> AsTask(out[i])]
                byId == [c \in Cand |-> AsTask([id |-> c])]
    <2>1. Eligible(s) \subseteq {row[i] : i \in DOMAIN out}
      BY <1>4 DEF Eligible, Input
    <2>2. \A i \in DOMAIN out : row[i] \in Tasks /\ row[i].id = out[i].id /\ out[i].id \in Cand
      BY <1>1, AsTaskFields, RowFields
    <2>3. \A i \in DOMAIN out : row[i] = byId[row[i].id]
      BY <2>2 DEF AsTask
    <2>. HIDE DEF row, byId
    <2>4. \A t \in Eligible(s) : t \in Tasks /\ t = byId[t.id] /\ t.id \in Ids
      BY <2>1, <2>2, <2>3 DEF Ids
    <2>5. IsFiniteSet(Eligible(s))
      <3>. DEFINE f == [t \in Eligible(s) |-> t.id]
      <3>1. Ids \subseteq Cand
        BY <1>1, <2>2 DEF Ids
      <3>2. IsFiniteSet(Ids)
        BY <3>1, PoolConstants, FS_Subset
      <3>3. f \in [Eligible(s) -> Ids] /\ \A x, y \in Eligible(s) : f[x] = f[y] => x = y
        BY <2>4
      <3>. HIDE DEF f
      <3>. QED
        BY <3>2, <3>3, NoLarger
    <2>. QED
      BY <1>2, <2>4, <2>5 DEF TaskFile
  <1>. QED
    BY <1>3, <1>4

\* The selection of a source: as many different tasks of it as were asked for,
\* balanced over its repositories.
Balances(seq, k, E) ==
    /\ seq \in [1 .. k -> E]
    /\ \A i, j \in 1 .. k : seq[i].id = seq[j].id => i = j
    /\ \A t, u \in E :
         LET n(r) == Cardinality({i \in 1 .. k : seq[i].repo = r})
         IN  \/ n(t.repo) <= n(u.repo) + 1
             \/ n(u.repo) = Cardinality({x \in E : x.repo = u.repo})

LEMMA QuotaOfSource ==
    ASSUME NEW s \in Sources, TaskFile(Eligible(s)), NEW k \in Nat, k <= Cardinality(Eligible(s))
    PROVE  Balances(SelectQuota(s, k), k, Eligible(s)) /\ Len(SelectQuota(s, k)) = k
  <1>. DEFINE E == Eligible(s)
              n == Cardinality(E)
              before == TaskPrecedes(E)
              sorted == Sorted(E, before)
              key == TaskRepo(s)
              seq == SelectQuota(s, k)
  <1>1. IsFiniteSet(E) /\ \A t \in E : t.id \in Nat /\ t.repo \in Int /\ key[t] = t.repo
    BY DEF TaskFile, Tasks, TaskRepo
  <1>2. OrdersAll(before, E)
    <2>1. \A t, u \in E : <<t, u>> \in before <=> t.id < u.id
      BY DEF TaskPrecedes
    <2>2. \A t, u \in E : t.id = u.id => t = u
      BY DEF TaskFile
    <2>. HIDE DEF before, E
    <2>. QED
      BY <1>1, <2>1, <2>2 DEF OrdersAll
  <1>3. /\ n \in Nat /\ sorted \in [1 .. n -> E]
        /\ \A i, j \in 1 .. n : sorted[i] = sorted[j] => i = j
        /\ \A x \in E : \E i \in 1 .. n : sorted[i] = x
    <2>1. IsFiniteSet(E)
      BY <1>1
    <2>. HIDE DEF E, before
    <2>. QED
      BY <1>2, <2>1, SortedEnumerates, Zenon
  <1>4. seq = SubSeq(RoundRobin(sorted, key), 1, k) /\ k <= n
    BY DEF SelectQuota
  <1>5. \A t, u \in E : t.id = u.id => t = u
    BY DEF TaskFile
  <1>. HIDE DEF E, n, before, sorted, key, seq
  <1>6. \A i \in 1 .. n : key[sorted[i]] \in Int /\ key[sorted[i]] = sorted[i].repo
    BY <1>1, <1>3
  <1>7. PICK order \in [1 .. n -> 1 .. n] :
             /\ RoundRobin(sorted, key) = [j \in 1 .. n |-> sorted[order[j]]]
             /\ \A i, j \in 1 .. n : order[i] = order[j] => i = j
             /\ \A i \in 1 .. n : \E j \in 1 .. n : order[j] = i
             /\ \A i, j \in 1 .. n : i < j => <<order[i], order[j]>> \in Turns(sorted, key)
    BY <1>3, <1>6, RoundRobinTakesAll, Zenon
  <1>8. TakesTurns(order, n, sorted, key) /\ \A i, j \in 1 .. n : order[i] = order[j] => i = j
    BY <1>7 DEF TakesTurns
  <1>9. seq = [i \in 1 .. k |-> sorted[order[i]]] /\ seq \in Seq(E) /\ Len(seq) = k
    <2>. DEFINE rr == RoundRobin(sorted, key)
    <2>1. rr \in [1 .. n -> E]
      BY <1>3, <1>7
    <2>2. rr \in Seq(E) /\ Len(rr) = n
      <3>. HIDE DEF rr
      <3>. QED
        BY <1>3, <2>1
    <2>3. \A i \in 1 .. n : rr[i] = sorted[order[i]]
      BY <1>7
    <2>. HIDE DEF rr
    <2>4. /\ seq \in Seq(E) /\ Len(seq) = k
          /\ \A i \in 1 .. k : seq[i] = rr[i]
      BY ONLY <1>3, <1>4, <2>2, k \in Nat, SMTT(30) DEF rr
    <2>5. \A i \in 1 .. k : seq[i] = sorted[order[i]]
      BY <1>3, <1>4, <2>3, <2>4
    <2>. QED
      BY <2>4, <2>5
  <1>10. seq \in [1 .. k -> E]
    BY <1>9
  <1>11. \A i, j \in 1 .. k : seq[i].id = seq[j].id => i = j
    <2>. SUFFICES ASSUME NEW i \in 1 .. k, NEW j \in 1 .. k, seq[i].id = seq[j].id PROVE i = j
      OBVIOUS
    <2>1. seq[i] = seq[j]
      BY <1>5, <1>10
    <2>2. i \in 1 .. n /\ j \in 1 .. n
      BY <1>3, <1>4
    <2>3. sorted[order[i]] = sorted[order[j]] /\ order[i] \in 1 .. n /\ order[j] \in 1 .. n
      BY <1>7, <1>9, <2>1, <2>2
    <2>4. order[i] = order[j]
      BY ONLY <1>3, <2>3, SMTT(30)
    <2>. QED
      BY <1>8, <2>2, <2>4
  <1>12. ASSUME NEW t \in E, NEW u \in E
         PROVE  \/ Cardinality({i \in 1 .. k : seq[i].repo = t.repo})
                     <= Cardinality({i \in 1 .. k : seq[i].repo = u.repo}) + 1
                \/ Cardinality({i \in 1 .. k : seq[i].repo = u.repo})
                     = Cardinality({x \in E : x.repo = u.repo})
    <2>. DEFINE taken(x) == Taken(k, order, sorted, key, x)
                group(x) == Group(n, sorted, key, x)
                owned == {x \in E : x.repo = u.repo}
    <2>1. \/ Cardinality(taken(t.repo)) <= Cardinality(taken(u.repo)) + 1
          \/ Cardinality(taken(u.repo)) = Cardinality(group(u.repo))
      <3>1. k \in 0 .. n /\ DOMAIN sorted = 1 .. n
        BY <1>3, <1>4
      <3>2. \A i \in 1 .. n : key[sorted[i]] \in Int
        BY <1>6
      <3>. QED
        BY <1>3, <1>8, <3>1, <3>2, PrefixIsBalanced, SMTT(60)
    <2>2. \A i \in 1 .. k : key[sorted[order[i]]] = seq[i].repo
      <3>. SUFFICES ASSUME NEW i \in 1 .. k PROVE key[sorted[order[i]]] = seq[i].repo
        OBVIOUS
      <3>1. i \in 1 .. n
        BY <1>3, <1>4
      <3>. QED
        BY <1>6, <1>7, <1>9, <3>1
    <2>3. \A x : taken(x) = {i \in 1 .. k : seq[i].repo = x}
      BY <2>2 DEF Taken
    <2>4. Cardinality(group(u.repo)) = Cardinality(owned)
      <3>. DEFINE place == group(u.repo)
                  f == [i \in place |-> sorted[i]]
      <3>1. IsFiniteSet(owned)
        BY <1>1, FS_Subset
      <3>2. f \in [place -> owned] /\ \A i, j \in place : f[i] = f[j] => i = j
        BY <1>3, <1>6 DEF Group
      <3>3. \A x \in owned : \E i \in place : f[i] = x
        <4>. SUFFICES ASSUME NEW x \in E, x.repo = u.repo PROVE \E i \in place : f[i] = x
          OBVIOUS
        <4>1. PICK i \in 1 .. n : sorted[i] = x
          BY <1>3
        <4>2. i \in place
          BY <1>6, <4>1 DEF Group
        <4>. QED
          BY <4>1, <4>2
      <3>. HIDE DEF f, place, owned
      <3>4. Cardinality(place) = Cardinality(owned)
        BY <3>1, <3>2, <3>3, NoLarger
      <3>. QED
        BY <3>4 DEF place
    <2>. HIDE DEF taken, group
    <2>. QED
      BY <2>1, <2>3, <2>4
  <1>. QED
    BY <1>9, <1>10, <1>11, <1>12 DEF Balances, E, seq

-----------------------------------------------------------------------------
OfSource(full, s) == {i \in DOMAIN full : full[i].source = s}
FromRepo(full, s, r) == {i \in OfSource(full, s) : full[i].repo = r}

\* QuotaBalanced, of one source: quota tasks of those in E.
SourceBalanced(full, s, quota, E) ==
    /\ Cardinality(OfSource(full, s)) = quota
    /\ \A i, j \in OfSource(full, s) : full[i].id = full[j].id => i = j
    /\ \A t, u \in E :
         \/ Cardinality(FromRepo(full, s, t.repo)) <= Cardinality(FromRepo(full, s, u.repo)) + 1
         \/ Cardinality(FromRepo(full, s, u.repo)) = Cardinality({x \in E : x.repo = u.repo})

Balanced(full, run) ==
    \A s \in Sources : SourceBalanced(full, s, run.quotas[s], run.avail[s])

\* The selection of a source lies in the mixed file as one block.
LEMMA BlockIsBalanced ==
    ASSUME NEW m \in Nat, NEW full, DOMAIN full = 1 .. m, NEW s,
           NEW from \in Nat, NEW k \in Nat, from + k <= m,
           NEW E, NEW seq, Balances(seq, k, E),
           \A i \in 1 .. k : /\ full[from + i].source = s /\ full[from + i].id = seq[i].id
                             /\ full[from + i].repo = seq[i].repo,
           \A j \in 1 .. m : full[j].source = s => from < j /\ j <= from + k
    PROVE  SourceBalanced(full, s, k, E)
  <1>. DEFINE mine == OfSource(full, s)
              at == [i \in 1 .. k |-> from + i]
  <1>1. /\ \A i \in 1 .. k : at[i] = from + i /\ at[i] \in mine
        /\ \A j \in mine : \E i \in 1 .. k : at[i] = j
    <2>1. \A i \in 1 .. k : from + i \in 1 .. m
      OBVIOUS
    <2>2. \A i \in 1 .. k : at[i] = from + i /\ at[i] \in mine
      BY <2>1 DEF OfSource
    <2>3. ASSUME NEW j \in mine PROVE \E i \in 1 .. k : at[i] = j
      <3>1. j \in 1 .. m /\ from < j /\ j <= from + k
        BY DEF OfSource
      <3>2. j - from \in 1 .. k /\ from + (j - from) = j
        BY <3>1
      <3>. QED
        BY <3>2
    <2>. QED
      BY <2>2, <2>3
  <1>2. IsFiniteSet(1 .. m) /\ IsFiniteSet(1 .. k) /\ Cardinality(1 .. k) = k
    BY FS_Interval
  <1>3. IsFiniteSet(mine)
    <2>1. mine \subseteq 1 .. m
      BY DEF OfSource
    <2>. QED
      BY <1>2, <2>1, FS_Subset
  <1>4. \A i \in 1 .. k : full[at[i]].id = seq[i].id /\ full[at[i]].repo = seq[i].repo
    OBVIOUS
  <1>5. \A i, j \in 1 .. k : at[i] = at[j] => i = j
    OBVIOUS
  <1>6. at \in [1 .. k -> mine]
    BY <1>1
  <1>. HIDE DEF at, mine
  <1>7. Cardinality(mine) = k
    <2>. DEFINE places == 1 .. k
    <2>1. /\ at \in [places -> mine] /\ \A i, j \in places : at[i] = at[j] => i = j
          /\ \A j \in mine : \E i \in places : at[i] = j
      BY <1>1, <1>5, <1>6
    <2>. HIDE DEF places
    <2>2. Cardinality(places) = Cardinality(mine)
      BY <1>3, <2>1, NoLarger
    <2>. QED
      BY <1>2, <2>2 DEF places
  <1>8. \A i, j \in mine : full[i].id = full[j].id => i = j
    <2>. SUFFICES ASSUME NEW i \in mine, NEW j \in mine, full[i].id = full[j].id PROVE i = j
      OBVIOUS
    <2>1. PICK a \in 1 .. k : at[a] = i
      BY <1>1
    <2>2. PICK b \in 1 .. k : at[b] = j
      BY <1>1
    <2>3. seq[a].id = seq[b].id
      BY <1>4, <2>1, <2>2
    <2>4. a = b
      BY <2>3 DEF Balances
    <2>. QED
      BY <2>1, <2>2, <2>4
  <1>9. ASSUME NEW r
        PROVE  Cardinality(FromRepo(full, s, r)) = Cardinality({i \in 1 .. k : seq[i].repo = r})
    <2>. DEFINE theirs == FromRepo(full, s, r)
                places == {i \in 1 .. k : seq[i].repo = r}
                f == [i \in places |-> at[i]]
    <2>1. theirs = {i \in mine : full[i].repo = r}
      BY DEF FromRepo, mine
    <2>2. IsFiniteSet(theirs)
      BY <1>3, <2>1, FS_Subset
    <2>3. f \in [places -> theirs] /\ \A i, j \in places : f[i] = f[j] => i = j
      BY <1>4, <1>5, <1>6, <2>1
    <2>4. \A j \in theirs : \E i \in places : f[i] = j
      <3>. SUFFICES ASSUME NEW j \in mine, full[j].repo = r PROVE \E i \in places : f[i] = j
        BY <2>1
      <3>1. PICK i \in 1 .. k : at[i] = j
        BY <1>1
      <3>2. i \in places
        BY <1>4, <3>1
      <3>. QED
        BY <3>1, <3>2
    <2>. HIDE DEF theirs, places, f
    <2>5. Cardinality(places) = Cardinality(theirs)
      BY <2>2, <2>3, <2>4, NoLarger
    <2>. QED
      BY <2>5 DEF theirs, places
  <1>10. \A t, u \in E :
           \/ Cardinality({i \in 1 .. k : seq[i].repo = t.repo})
                <= Cardinality({i \in 1 .. k : seq[i].repo = u.repo}) + 1
           \/ Cardinality({i \in 1 .. k : seq[i].repo = u.repo})
                = Cardinality({x \in E : x.repo = u.repo})
    BY Zenon DEF Balances
  <1>11. \A t, u \in E :
           \/ Cardinality(FromRepo(full, s, t.repo)) <= Cardinality(FromRepo(full, s, u.repo)) + 1
           \/ Cardinality(FromRepo(full, s, u.repo)) = Cardinality({x \in E : x.repo = u.repo})
    BY <1>9, <1>10
  <1>. QED
    BY <1>7, <1>8, <1>11 DEF SourceBalanced, mine

LEMMA TwoBlocks ==
    ASSUME NEW T, NEW x \in Seq(T), NEW y \in Seq(T)
    PROVE  /\ x \o y \in Seq(T) /\ Len(x \o y) = Len(x) + Len(y)
           /\ \A i \in 1 .. Len(x) : (x \o y)[i] = x[i]
           /\ \A i \in 1 .. Len(y) : (x \o y)[Len(x) + i] = y[i]
  OBVIOUS

LEMMA ThreeBlocks ==
    ASSUME NEW T, NEW x \in Seq(T), NEW y \in Seq(T), NEW z \in Seq(T)
    PROVE  /\ x \o y \o z \in Seq(T) /\ Len(x \o y \o z) = Len(x) + Len(y) + Len(z)
           /\ \A i \in 1 .. Len(x) : (x \o y \o z)[i] = x[i]
           /\ \A i \in 1 .. Len(y) : (x \o y \o z)[Len(x) + i] = y[i]
           /\ \A i \in 1 .. Len(z) : (x \o y \o z)[Len(x) + Len(y) + i] = z[i]
  <1>. DEFINE xy == x \o y
  <1>1. /\ xy \in Seq(T) /\ Len(xy) = Len(x) + Len(y)
        /\ Len(x) \in Nat /\ Len(y) \in Nat /\ Len(z) \in Nat
        /\ \A i \in 1 .. Len(x) : xy[i] = x[i]
        /\ \A i \in 1 .. Len(y) : xy[Len(x) + i] = y[i]
    BY TwoBlocks
  <1>. HIDE DEF xy
  <1>2. /\ xy \o z \in Seq(T) /\ Len(xy \o z) = Len(xy) + Len(z)
        /\ \A i \in 1 .. Len(xy) : (xy \o z)[i] = xy[i]
        /\ \A i \in 1 .. Len(z) : (xy \o z)[Len(xy) + i] = z[i]
    <2>1. xy \in Seq(T)
      BY <1>1
    <2>. QED
      BY ONLY <2>1, TwoBlocks
  <1>3. \A i \in 1 .. Len(x) : i \in 1 .. Len(xy)
    BY <1>1
  <1>4. \A i \in 1 .. Len(y) : Len(x) + i \in 1 .. Len(xy)
    BY <1>1
  <1>5. Len(xy \o z) = Len(x) + Len(y) + Len(z)
    BY <1>1, <1>2
  <1>6. /\ \A i \in 1 .. Len(x) : (xy \o z)[i] = x[i]
        /\ \A i \in 1 .. Len(y) : (xy \o z)[Len(x) + i] = y[i]
        /\ \A i \in 1 .. Len(z) : (xy \o z)[Len(x) + Len(y) + i] = z[i]
    <2>. DEFINE xyz == xy \o z
    <2>. HIDE DEF xyz
    <2>. QED
      BY <1>1, <1>2, <1>3, <1>4 DEF xyz
  <1>. QED
    BY <1>2, <1>5, <1>6 DEF xy

LEMMA SelectedIsBalanced ==
    ASSUME PoolOK, NEW q \in [Sources -> Nat], EnoughFor(q)
    PROVE  /\ Selected(q) \in Seq(Tasks)
           /\ Balanced(Selected(q), [quotas |-> q, avail |-> [s \in Sources |-> Eligible(s)]])
           /\ \A i \in DOMAIN Selected(q) : \E s \in Sources : \E t \in Eligible(s) :
                 /\ Selected(q)[i] = Portable(t)
  <1>. DEFINE p == "PUBLIC_EXECUTABLE"
              a == "AST_MUTATION"
              r == "REPAIR_REVERSAL"
              sp == SelectQuota(p, q[p])
              sa == SelectQuota(a, q[a])
              sr == SelectQuota(r, q[r])
              all == sp \o sa \o sr
              full == Selected(q)
              m == q[p] + q[a] + q[r]
  <1>1. \A s \in Sources : /\ TaskFile(Eligible(s)) /\ \A t \in Eligible(s) : t.source = s
                           /\ q[s] \in Nat /\ q[s] <= Cardinality(Eligible(s))
                           /\ Cardinality(Eligible(s)) \in Nat
    <2>. SUFFICES ASSUME NEW s \in Sources
                  PROVE  /\ TaskFile(Eligible(s)) /\ \A t \in Eligible(s) : t.source = s
                         /\ q[s] \in Nat /\ q[s] <= Cardinality(Eligible(s))
                         /\ Cardinality(Eligible(s)) \in Nat
      OBVIOUS
    <2>1. TaskFile(Eligible(s)) /\ \A t \in Eligible(s) : t.source = s
      BY EligibleTasks
    <2>2. Cardinality(Eligible(s)) \in Nat
      BY <2>1, FS_CardinalityType DEF TaskFile
    <2>. QED
      BY <2>1, <2>2 DEF EnoughFor
  <1>2. /\ Balances(sp, q[p], Eligible(p)) /\ Balances(sa, q[a], Eligible(a))
        /\ Balances(sr, q[r], Eligible(r))
    BY <1>1, QuotaOfSource DEF Sources
  <1>3. /\ sp \in Seq(Tasks) /\ Len(sp) = q[p] /\ \A i \in 1 .. q[p] : sp[i] \in Eligible(p)
        /\ sa \in Seq(Tasks) /\ Len(sa) = q[a] /\ \A i \in 1 .. q[a] : sa[i] \in Eligible(a)
        /\ sr \in Seq(Tasks) /\ Len(sr) = q[r] /\ \A i \in 1 .. q[r] : sr[i] \in Eligible(r)
    <2>. SUFFICES ASSUME NEW s \in Sources
                  PROVE  LET seq == SelectQuota(s, q[s])
                         IN  /\ seq \in Seq(Tasks) /\ Len(seq) = q[s]
                             /\ \A i \in 1 .. q[s] : seq[i] \in Eligible(s)
      BY DEF Sources
    <2>. DEFINE seq == SelectQuota(s, q[s])
                k == q[s]
                E == Eligible(s)
    <2>1. k \in Nat /\ E \subseteq Tasks /\ seq \in [1 .. k -> E] /\ Len(seq) = k
      BY <1>1, QuotaOfSource DEF Balances, TaskFile
    <2>. HIDE DEF seq, k, E
    <2>2. seq \in Seq(Tasks) /\ \A i \in 1 .. k : seq[i] \in E
      <3>1. seq \in [1 .. k -> Tasks]
        BY <2>1
      <3>. QED
        BY <2>1, <3>1
    <2>. QED
      BY <2>1, <2>2 DEF seq, k, E
  <1>4. q[p] \in Nat /\ q[a] \in Nat /\ q[r] \in Nat /\ p \in Sources /\ a \in Sources /\ r \in Sources
        /\ p # a /\ a # r /\ p # r /\ \A s \in Sources : s \in {p, a, r}
    BY DEF Sources
  <1>5. full = Each(Portable, all)
    BY DEF Selected
  <1>. HIDE DEF sp, sa, sr, full, p, a, r
  <1>6. /\ all \in Seq(Tasks) /\ Len(all) = m
        /\ \A i \in 1 .. q[p] : all[i] = sp[i]
        /\ \A i \in 1 .. q[a] : all[q[p] + i] = sa[i]
        /\ \A i \in 1 .. q[r] : all[q[p] + q[a] + i] = sr[i]
    <2>. HIDE DEF all, m
    <2>1. /\ all \in Seq(Tasks) /\ Len(all) = Len(sp) + Len(sa) + Len(sr)
          /\ \A i \in 1 .. Len(sp) : all[i] = sp[i]
          /\ \A i \in 1 .. Len(sa) : all[Len(sp) + i] = sa[i]
          /\ \A i \in 1 .. Len(sr) : all[Len(sp) + Len(sa) + i] = sr[i]
      <3>1. sp \in Seq(Tasks) /\ sa \in Seq(Tasks) /\ sr \in Seq(Tasks)
        BY <1>3
      <3>2. /\ sp \o sa \o sr \in Seq(Tasks)
            /\ Len(sp \o sa \o sr) = Len(sp) + Len(sa) + Len(sr)
            /\ \A i \in 1 .. Len(sp) : (sp \o sa \o sr)[i] = sp[i]
            /\ \A i \in 1 .. Len(sa) : (sp \o sa \o sr)[Len(sp) + i] = sa[i]
            /\ \A i \in 1 .. Len(sr) : (sp \o sa \o sr)[Len(sp) + Len(sa) + i] = sr[i]
        BY ONLY <3>1, ThreeBlocks
      <3>. QED
        BY <3>2, Zenon DEF all
    <2>. QED
      BY <1>3, <2>1 DEF m
  <1>. HIDE DEF all
  <1>7. /\ DOMAIN full = 1 .. m /\ m \in Nat
        /\ \A i \in 1 .. m : full[i] = Portable(all[i]) /\ all[i] \in Tasks
    BY <1>4, <1>5, <1>6 DEF Each
  <1>8. \A i \in 1 .. m : /\ full[i] \in Tasks /\ full[i].id = all[i].id
                          /\ full[i].repo = all[i].repo /\ full[i].source = all[i].source
    BY <1>7, PortableFields
  <1>. HIDE DEF full
  <1>9. /\ \A i \in 1 .. q[p] : all[i].source = p
        /\ \A i \in 1 .. q[a] : all[q[p] + i].source = a
        /\ \A i \in 1 .. q[r] : all[q[p] + q[a] + i].source = r
    BY <1>1, <1>3, <1>4, <1>6
  <1>10. /\ SourceBalanced(full, p, q[p], Eligible(p))
         /\ SourceBalanced(full, a, q[a], Eligible(a))
         /\ SourceBalanced(full, r, q[r], Eligible(r))
    <2>1. \A j \in 1 .. m : \/ full[j].source = p /\ 0 < j /\ j <= 0 + q[p]
                            \/ full[j].source = a /\ q[p] < j /\ j <= q[p] + q[a]
                            \/ full[j].source = r /\ q[p] + q[a] < j /\ j <= q[p] + q[a] + q[r]
      <3>. SUFFICES ASSUME NEW j \in 1 .. m
                    PROVE  \/ full[j].source = p /\ 0 < j /\ j <= 0 + q[p]
                           \/ full[j].source = a /\ q[p] < j /\ j <= q[p] + q[a]
                           \/ full[j].source = r /\ q[p] + q[a] < j /\ j <= q[p] + q[a] + q[r]
        OBVIOUS
      <3>1. CASE j <= q[p]
        <4>1. j \in 1 .. q[p]
          BY <1>4, <3>1
        <4>. QED
          BY <1>4, <1>8, <1>9, <4>1
      <3>2. CASE q[p] < j /\ j <= q[p] + q[a]
        <4>1. j - q[p] \in 1 .. q[a] /\ q[p] + (j - q[p]) = j
          BY <1>4, <3>2
        <4>2. all[j].source = a
          BY <1>9, <4>1
        <4>. QED
          BY <1>8, <3>2, <4>2
      <3>3. CASE q[p] + q[a] < j
        <4>1. j - (q[p] + q[a]) \in 1 .. q[r] /\ q[p] + q[a] + (j - (q[p] + q[a])) = j
              /\ j <= q[p] + q[a] + q[r]
          BY <1>4, <3>3
        <4>2. all[j].source = r
          BY <1>9, <4>1
        <4>. QED
          BY <1>8, <3>3, <4>1, <4>2
      <3>. QED
        BY <1>4, <3>1, <3>2, <3>3
    <2>2. /\ \A i \in 1 .. q[p] : 0 + i \in 1 .. m /\ all[0 + i] = sp[i]
          /\ \A i \in 1 .. q[a] : q[p] + i \in 1 .. m /\ all[q[p] + i] = sa[i]
          /\ \A i \in 1 .. q[r] : q[p] + q[a] + i \in 1 .. m /\ all[q[p] + q[a] + i] = sr[i]
      BY <1>4, <1>6
    <2>3. SourceBalanced(full, p, q[p], Eligible(p))
      <3>1. \A i \in 1 .. q[p] : /\ full[0 + i].source = p /\ full[0 + i].id = sp[i].id
                                 /\ full[0 + i].repo = sp[i].repo
        <4>1. \A i \in 1 .. q[p] : 0 + i = i
          BY <1>4
        <4>. QED
          BY <1>8, <1>9, <2>2, <4>1
      <3>2. \A j \in 1 .. m : full[j].source = p => 0 < j /\ j <= 0 + q[p]
        BY <1>4, <2>1
      <3>3. 0 \in Nat /\ 0 + q[p] <= m
        BY <1>4
      <3>. QED
        BY <1>2, <1>4, <1>7, <3>1, <3>2, <3>3, BlockIsBalanced
    <2>4. SourceBalanced(full, a, q[a], Eligible(a))
      <3>1. \A i \in 1 .. q[a] : /\ full[q[p] + i].source = a /\ full[q[p] + i].id = sa[i].id
                                 /\ full[q[p] + i].repo = sa[i].repo
        BY <1>8, <1>9, <2>2
      <3>2. \A j \in 1 .. m : full[j].source = a => q[p] < j /\ j <= q[p] + q[a]
        BY <1>4, <2>1
      <3>3. q[p] \in Nat /\ q[p] + q[a] <= m
        BY <1>4
      <3>. QED
        BY <1>2, <1>4, <1>7, <3>1, <3>2, <3>3, BlockIsBalanced
    <2>5. SourceBalanced(full, r, q[r], Eligible(r))
      <3>. DEFINE from == q[p] + q[a]
                  k == q[r]
                  E == Eligible(r)
      <3>1. \A i \in 1 .. k : /\ full[from + i].source = r /\ full[from + i].id = sr[i].id
                              /\ full[from + i].repo = sr[i].repo
        BY <1>8, <1>9, <2>2
      <3>2. \A j \in 1 .. m : full[j].source = r => from < j /\ j <= from + k
        BY <1>4, <2>1
      <3>3. from \in Nat /\ k \in Nat /\ from + k <= m /\ Balances(sr, k, E)
        BY <1>2, <1>4
      <3>. HIDE DEF from, k, E, m
      <3>4. SourceBalanced(full, r, k, E)
        BY <1>7, <3>1, <3>2, <3>3, BlockIsBalanced, SMTT(30)
      <3>. QED
        BY <3>4 DEF k, E
    <2>. QED
      BY <2>3, <2>4, <2>5
  <1>11. full \in Seq(Tasks)
    BY <1>5, <1>6, <1>7, <1>8 DEF Each
  <1>12. Balanced(full, [quotas |-> q, avail |-> [s \in Sources |-> Eligible(s)]])
    <2>1. \A s \in Sources : SourceBalanced(full, s, q[s], Eligible(s))
      BY <1>4, <1>10
    <2>. QED
      BY <2>1 DEF Balanced
  <1>13. ASSUME NEW i \in 1 .. m
         PROVE  \E s \in Sources : \E t \in Eligible(s) : full[i] = Portable(t)
    <2>1. \E s \in Sources : all[i] \in Eligible(s)
      <3>1. CASE i <= q[p]
        <4>1. i \in 1 .. q[p]
          BY <1>4, <3>1
        <4>. QED
          BY <1>3, <1>4, <1>6, <4>1
      <3>2. CASE q[p] < i /\ i <= q[p] + q[a]
        <4>1. i - q[p] \in 1 .. q[a] /\ q[p] + (i - q[p]) = i
          BY <1>4, <3>2
        <4>2. all[i] = sa[i - q[p]]
          BY <1>6, <4>1
        <4>. QED
          BY <1>3, <1>4, <4>1, <4>2
      <3>3. CASE q[p] + q[a] < i
        <4>1. i - (q[p] + q[a]) \in 1 .. q[r] /\ q[p] + q[a] + (i - (q[p] + q[a])) = i
          BY <1>4, <3>3
        <4>2. all[i] = sr[i - (q[p] + q[a])]
          BY <1>6, <4>1
        <4>. QED
          BY <1>3, <1>4, <4>1, <4>2
      <3>. QED
        BY <1>4, <3>1, <3>2, <3>3
    <2>. QED
      BY <1>7, <2>1
  <1>. QED
    BY <1>7, <1>11, <1>12, <1>13 DEF full

-----------------------------------------------------------------------------
\* A smaller quota takes the first of what a larger one takes.
LEMMA QuotaPrefix ==
    ASSUME NEW s \in Sources, TaskFile(Eligible(s)),
           NEW k \in Nat, k <= Cardinality(Eligible(s)), NEW j \in Nat, j <= k
    PROVE  \A i \in 1 .. j : SelectQuota(s, j)[i] = SelectQuota(s, k)[i]
  <1>. DEFINE E == Eligible(s)
              rr == RoundRobin(Sorted(E, TaskPrecedes(E)), TaskRepo(s))
  <1>1. /\ IsFiniteSet(E) /\ OrdersAll(TaskPrecedes(E), E)
        /\ \A t \in E : TaskRepo(s)[t] \in Int
    <2>1. \A t \in E : t.id \in Nat /\ t.repo \in Int
      BY DEF TaskFile, Tasks
    <2>2. \A t, u \in E : <<t, u>> \in TaskPrecedes(E) <=> t.id < u.id
      BY DEF TaskPrecedes
    <2>3. \A t, u \in E : t.id = u.id => t = u
      BY DEF TaskFile
    <2>4. \A t \in E : TaskRepo(s)[t] \in Int
      BY <2>1 DEF TaskRepo
    <2>5. IsFiniteSet(E)
      BY DEF TaskFile
    <2>. HIDE DEF E
    <2>. QED
      BY <2>1, <2>2, <2>3, <2>4, <2>5 DEF OrdersAll
  <1>2. Enumerates(rr, E)
    BY <1>1, RoundRobinEnumerates, Zenon
  <1>3. /\ Cardinality(E) \in Nat /\ \A i \in 1 .. Cardinality(E) : rr[i] \in E
        /\ SelectQuota(s, j) = SubSeq(rr, 1, j) /\ SelectQuota(s, k) = SubSeq(rr, 1, k)
    BY <1>2 DEF Enumerates, SelectQuota
  <1>4. k <= Cardinality(E)
    OBVIOUS
  <1>. HIDE DEF E, rr
  <1>5. \A i \in 1 .. j : SubSeq(rr, 1, j)[i] = rr[i]
    <2>1. \A i \in 1 .. j : rr[i] \in E
      BY <1>3, <1>4
    <2>2. \A i \in 1 .. j - 1 + 1 : SubSeq(rr, 1, j)[i] = rr[1 + i - 1]
      BY <2>1, SubSeqProperties
    <2>. QED
      BY <2>2
  <1>6. \A i \in 1 .. k : SubSeq(rr, 1, k)[i] = rr[i]
    <2>1. \A i \in 1 .. k : rr[i] \in E
      BY <1>3, <1>4
    <2>2. \A i \in 1 .. k - 1 + 1 : SubSeq(rr, 1, k)[i] = rr[1 + i - 1]
      BY <2>1, SubSeqProperties
    <2>. QED
      BY <2>2
  <1>. QED
    BY <1>3, <1>5, <1>6

\* The mixed file is the three selections one after another.
Blocks(q, p, a, r) ==
    /\ q[p] \in Nat /\ q[a] \in Nat /\ q[r] \in Nat
    /\ Selected(q) \in Seq(Tasks) /\ Len(Selected(q)) = q[p] + q[a] + q[r]
    /\ \A i \in 1 .. q[p] : Selected(q)[i] = Portable(SelectQuota(p, q[p])[i])
    /\ \A i \in 1 .. q[a] : Selected(q)[q[p] + i] = Portable(SelectQuota(a, q[a])[i])
    /\ \A i \in 1 .. q[r] :
         Selected(q)[q[p] + q[a] + i] = Portable(SelectQuota(r, q[r])[i])

PE == "PUBLIC_EXECUTABLE"
AM == "AST_MUTATION"
RR == "REPAIR_REVERSAL"

LEMMA SelectedBlocks ==
    ASSUME PoolOK, NEW q \in [Sources -> Nat], EnoughFor(q)
    PROVE  Blocks(q, PE, AM, RR)
  <1>. DEFINE p == PE
              a == AM
              r == RR
              sp == SelectQuota(p, q[p])
              sa == SelectQuota(a, q[a])
              sr == SelectQuota(r, q[r])
              all == sp \o sa \o sr
              m == q[p] + q[a] + q[r]
  <1>1. p \in Sources /\ a \in Sources /\ r \in Sources
    BY DEF Sources, PE, AM, RR
  <1>2. \A s \in Sources : /\ TaskFile(Eligible(s)) /\ q[s] \in Nat
                           /\ q[s] <= Cardinality(Eligible(s))
    BY EligibleTasks DEF EnoughFor
  <1>3. \A s \in Sources : SelectQuota(s, q[s]) \in Seq(Tasks) /\ Len(SelectQuota(s, q[s])) = q[s]
    <2>. SUFFICES ASSUME NEW s \in Sources
                  PROVE  SelectQuota(s, q[s]) \in Seq(Tasks) /\ Len(SelectQuota(s, q[s])) = q[s]
      OBVIOUS
    <2>. DEFINE seq == SelectQuota(s, q[s])
                k == q[s]
                E == Eligible(s)
    <2>1. k \in Nat /\ E \subseteq Tasks /\ seq \in [1 .. k -> E] /\ Len(seq) = k
      BY <1>2, QuotaOfSource DEF Balances, TaskFile
    <2>. HIDE DEF seq, k, E
    <2>2. seq \in [1 .. k -> Tasks]
      BY <2>1
    <2>3. seq \in Seq(Tasks)
      BY <2>1, <2>2
    <2>. QED
      BY <2>1, <2>3 DEF seq, k
  <1>4. /\ sp \in Seq(Tasks) /\ Len(sp) = q[p] /\ sa \in Seq(Tasks) /\ Len(sa) = q[a]
        /\ sr \in Seq(Tasks) /\ Len(sr) = q[r]
        /\ q[p] \in Nat /\ q[a] \in Nat /\ q[r] \in Nat
    BY <1>1, <1>2, <1>3
  <1>5. Selected(q) = Each(Portable, all)
    BY DEF Selected, PE, AM, RR
  <1>. HIDE DEF sp, sa, sr, p, a, r
  <1>6. /\ all \in Seq(Tasks) /\ Len(all) = m
        /\ \A i \in 1 .. q[p] : all[i] = sp[i]
        /\ \A i \in 1 .. q[a] : all[q[p] + i] = sa[i]
        /\ \A i \in 1 .. q[r] : all[q[p] + q[a] + i] = sr[i]
    <2>1. /\ sp \o sa \o sr \in Seq(Tasks)
          /\ Len(sp \o sa \o sr) = Len(sp) + Len(sa) + Len(sr)
          /\ \A i \in 1 .. Len(sp) : (sp \o sa \o sr)[i] = sp[i]
          /\ \A i \in 1 .. Len(sa) : (sp \o sa \o sr)[Len(sp) + i] = sa[i]
          /\ \A i \in 1 .. Len(sr) : (sp \o sa \o sr)[Len(sp) + Len(sa) + i] = sr[i]
      <3>1. sp \in Seq(Tasks) /\ sa \in Seq(Tasks) /\ sr \in Seq(Tasks)
        BY <1>4
      <3>. QED
        BY ONLY <3>1, ThreeBlocks
    <2>. DEFINE joined == sp \o sa \o sr
    <2>. HIDE DEF joined
    <2>2. /\ joined \in Seq(Tasks) /\ Len(joined) = Len(sp) + Len(sa) + Len(sr)
          /\ \A i \in 1 .. Len(sp) : joined[i] = sp[i]
          /\ \A i \in 1 .. Len(sa) : joined[Len(sp) + i] = sa[i]
          /\ \A i \in 1 .. Len(sr) : joined[Len(sp) + Len(sa) + i] = sr[i]
      BY <2>1, Zenon DEF joined
    <2>. HIDE DEF all
    <2>3. all = joined
      BY DEF all, joined
    <2>. QED
      BY <1>4, <2>2, <2>3 DEF m
  <1>. HIDE DEF all, m
  <1>7. /\ DOMAIN all = 1 .. m /\ m \in Nat /\ DOMAIN Selected(q) = 1 .. m
        /\ \A i \in 1 .. m : Selected(q)[i] = Portable(all[i]) /\ all[i] \in Tasks
    BY <1>4, <1>5, <1>6 DEF Each, m
  <1>8. Selected(q) \in Seq(Tasks) /\ Len(Selected(q)) = m
    <2>1. \A i \in 1 .. m : Selected(q)[i] \in Tasks
      BY <1>7, PortableFields
    <2>2. Selected(q) = [i \in 1 .. m |-> Portable(all[i])]
      BY <1>5, <1>7 DEF Each
    <2>. HIDE DEF Selected
    <2>3. Selected(q) \in [1 .. m -> Tasks]
      BY <2>1, <2>2
    <2>. QED
      BY <1>7, <2>3
  <1>9. /\ \A i \in 1 .. q[p] : i \in 1 .. m
        /\ \A i \in 1 .. q[a] : q[p] + i \in 1 .. m
        /\ \A i \in 1 .. q[r] : q[p] + q[a] + i \in 1 .. m
    <2>1. q[p] \in Nat /\ q[a] \in Nat /\ q[r] \in Nat /\ m = q[p] + q[a] + q[r]
      BY <1>4 DEF m
    <2>. QED
      BY ONLY <2>1
  <1>10. /\ \A i \in 1 .. q[p] : Selected(q)[i] = Portable(sp[i])
         /\ \A i \in 1 .. q[a] : Selected(q)[q[p] + i] = Portable(sa[i])
         /\ \A i \in 1 .. q[r] : Selected(q)[q[p] + q[a] + i] = Portable(sr[i])
    <2>. HIDE DEF Portable, Selected
    <2>. QED
      BY <1>6, <1>7, <1>9
  <1>. QED
    BY <1>4, <1>8, <1>10, Zenon DEF sp, sa, sr, m, p, a, r, Blocks

\* Quotas of which none is larger.
Within(q, quotas) == q \in [Sources -> Nat] /\ \A s \in Sources : q[s] <= quotas[s]

\* The first rows of a mixed file are the mixed file of smaller quotas.
LEMMA PrefixIsSelected ==
    ASSUME PoolOK, NEW q \in [Sources -> Nat], EnoughFor(q),
           NEW n \in 0 .. Len(Selected(q))
    PROVE  \E small : /\ Within(small, q) /\ EnoughFor(small)
                      /\ SubSeq(Selected(q), 1, n) = Selected(small)
  <1>. DEFINE p == PE
              a == AM
              r == RR
  <1>1. p \in Sources /\ a \in Sources /\ r \in Sources /\ \A s \in Sources : s \in {p, a, r}
        /\ p # a /\ p # r /\ a # r
    BY DEF Sources, PE, AM, RR
  <1>2. /\ q[p] \in Nat /\ q[a] \in Nat /\ q[r] \in Nat
        /\ Selected(q) \in Seq(Tasks) /\ Len(Selected(q)) = q[p] + q[a] + q[r]
        /\ \A i \in 1 .. q[p] : Selected(q)[i] = Portable(SelectQuota(p, q[p])[i])
        /\ \A i \in 1 .. q[a] : Selected(q)[q[p] + i] = Portable(SelectQuota(a, q[a])[i])
        /\ \A i \in 1 .. q[r] :
             Selected(q)[q[p] + q[a] + i] = Portable(SelectQuota(r, q[r])[i])
    BY SelectedBlocks, Zenon DEF Blocks
  <1>. HIDE DEF p, a, r
  <1>3. \E x, y, z \in Nat :
           /\ x <= q[p] /\ y <= q[a] /\ z <= q[r] /\ x + y + z = n
           /\ x < q[p] => y = 0 /\ z = 0
           /\ y < q[a] => z = 0
    <2>1. n \in Nat /\ n <= q[p] + q[a] + q[r]
      BY <1>2
    <2>2. CASE n <= q[p]
      <3>1. n <= q[p] /\ 0 <= q[a] /\ 0 <= q[r] /\ n + 0 + 0 = n /\ 0 \in Nat
        BY ONLY <1>2, <2>1, <2>2
      <3>. QED
        BY <2>1, <3>1
    <2>3. CASE q[p] < n /\ n <= q[p] + q[a]
      <3>1. /\ n - q[p] \in Nat /\ n - q[p] <= q[a] /\ q[p] + (n - q[p]) + 0 = n
            /\ q[p] <= q[p] /\ ~ (q[p] < q[p]) /\ 0 <= q[r] /\ 0 \in Nat
        BY ONLY <1>2, <2>1, <2>3
      <3>. QED
        BY <1>2, <3>1
    <2>4. CASE q[p] + q[a] < n
      <3>1. /\ n - q[p] - q[a] \in Nat /\ n - q[p] - q[a] <= q[r]
            /\ q[p] + q[a] + (n - q[p] - q[a]) = n
            /\ q[p] <= q[p] /\ ~ (q[p] < q[p]) /\ q[a] <= q[a] /\ ~ (q[a] < q[a])
        BY ONLY <1>2, <2>1, <2>4
      <3>. QED
        BY <1>2, <3>1
    <2>. QED
      BY <1>2, <2>1, <2>2, <2>3, <2>4
  <1>4. PICK x \in Nat, y \in Nat, z \in Nat :
           /\ x <= q[p] /\ y <= q[a] /\ z <= q[r] /\ x + y + z = n
           /\ x < q[p] => y = 0 /\ z = 0
           /\ y < q[a] => z = 0
    BY <1>3
  <1>. DEFINE small == [s \in Sources |-> IF s = p THEN x ELSE IF s = a THEN y ELSE z]
  <1>5. /\ small \in [Sources -> Nat]
        /\ small[p] = x /\ small[a] = y /\ small[r] = z
    BY <1>1
  <1>. HIDE DEF small
  <1>6. Within(small, q)
    BY <1>1, <1>4, <1>5 DEF Within
  <1>7. \A s \in Sources : /\ TaskFile(Eligible(s)) /\ q[s] \in Nat
                           /\ q[s] <= Cardinality(Eligible(s)) /\ Cardinality(Eligible(s)) \in Nat
    <2>1. \A s \in Sources : TaskFile(Eligible(s))
      BY EligibleTasks
    <2>2. \A s \in Sources : Cardinality(Eligible(s)) \in Nat
      BY <2>1, FS_CardinalityType DEF TaskFile
    <2>. QED
      BY <2>1, <2>2 DEF EnoughFor
  <1>8. EnoughFor(small)
    <2>. SUFFICES ASSUME NEW s \in Sources PROVE Cardinality(Eligible(s)) >= small[s]
      BY DEF EnoughFor
    <2>1. small[s] \in Nat /\ small[s] <= q[s] /\ q[s] <= Cardinality(Eligible(s))
          /\ q[s] \in Nat /\ Cardinality(Eligible(s)) \in Nat
      BY <1>5, <1>6, <1>7 DEF Within
    <2>. QED
      BY ONLY <2>1
  <1>9. /\ Selected(small) \in Seq(Tasks) /\ Len(Selected(small)) = n
        /\ \A i \in 1 .. x : Selected(small)[i] = Portable(SelectQuota(p, x)[i])
        /\ \A i \in 1 .. y : Selected(small)[x + i] = Portable(SelectQuota(a, y)[i])
        /\ \A i \in 1 .. z : Selected(small)[x + y + i] = Portable(SelectQuota(r, z)[i])
    <2>1. /\ Selected(small) \in Seq(Tasks)
          /\ Len(Selected(small)) = small[p] + small[a] + small[r]
          /\ \A i \in 1 .. small[p] :
                Selected(small)[i] = Portable(SelectQuota(p, small[p])[i])
          /\ \A i \in 1 .. small[a] :
                Selected(small)[small[p] + i] = Portable(SelectQuota(a, small[a])[i])
          /\ \A i \in 1 .. small[r] :
                Selected(small)[small[p] + small[a] + i] = Portable(SelectQuota(r, small[r])[i])
      <3>1. Blocks(small, PE, AM, RR)
        BY <1>5, <1>8, SelectedBlocks
      <3>. QED
        BY <3>1, Zenon DEF Blocks, p, a, r
    <2>. HIDE DEF Selected, Portable, SelectQuota
    <2>. QED
      BY <1>4, <1>5, <2>1
  <1>10. /\ \A i \in 1 .. x : SelectQuota(p, x)[i] = SelectQuota(p, q[p])[i]
         /\ \A i \in 1 .. y : SelectQuota(a, y)[i] = SelectQuota(a, q[a])[i]
         /\ \A i \in 1 .. z : SelectQuota(r, z)[i] = SelectQuota(r, q[r])[i]
    BY <1>1, <1>4, <1>7, QuotaPrefix
  <1>. DEFINE full == Selected(q)
              part == Selected(small)
  <1>11. \A i \in 1 .. n : part[i] = full[i]
    <2>. SUFFICES ASSUME NEW i \in 1 .. n PROVE part[i] = full[i]
      OBVIOUS
    <2>. HIDE DEF full, part
    <2>1. CASE i <= x
      <3>1. i \in 1 .. x /\ i \in 1 .. q[p]
        BY ONLY <1>2, <1>4, <2>1, i \in 1 .. n
      <3>. QED
        BY <1>2, <1>9, <1>10, <3>1, ZenonT(60) DEF full, part
    <2>2. CASE x < i /\ i <= x + y
      <3>1. /\ i - x \in 1 .. y /\ i - x \in 1 .. q[a] /\ x = q[p] /\ x + (i - x) = i
        BY ONLY <1>2, <1>4, <2>2, i \in 1 .. n
      <3>. DEFINE k == i - x
      <3>2. part[x + k] = Portable(SelectQuota(a, y)[k])
        BY <1>9, <3>1, Zenon DEF part
      <3>3. full[q[p] + k] = Portable(SelectQuota(a, q[a])[k])
        BY <1>2, <3>1, Zenon DEF full
      <3>4. SelectQuota(a, y)[k] = SelectQuota(a, q[a])[k]
        BY <1>10, <3>1, Zenon
      <3>. QED
        BY <3>1, <3>2, <3>3, <3>4
    <2>3. CASE x + y < i
      <3>1. /\ i - (x + y) \in 1 .. z /\ i - (x + y) \in 1 .. q[r] /\ x = q[p] /\ y = q[a]
            /\ x + y + (i - (x + y)) = i
        BY ONLY <1>2, <1>4, <2>3, i \in 1 .. n
      <3>. DEFINE k == i - (x + y)
      <3>2. part[x + y + k] = Portable(SelectQuota(r, z)[k])
        BY <1>9, <3>1, Zenon DEF part
      <3>3. full[q[p] + q[a] + k] = Portable(SelectQuota(r, q[r])[k])
        BY <1>2, <3>1, Zenon DEF full
      <3>4. SelectQuota(r, z)[k] = SelectQuota(r, q[r])[k]
        BY <1>10, <3>1, Zenon
      <3>. QED
        BY <3>1, <3>2, <3>3, <3>4
    <2>. QED
      BY <1>4, <2>1, <2>2, <2>3
  <1>12. /\ full \in Seq(Tasks) /\ part \in Seq(Tasks) /\ Len(part) = n
         /\ n \in Nat /\ n <= Len(full)
    BY <1>2, <1>9
  <1>. HIDE DEF full, part
  <1>13. SubSeq(full, 1, n) = part
    <2>1. \A i \in 1 .. n : full[i] \in Tasks
      BY <1>12
    <2>2. /\ SubSeq(full, 1, n) \in Seq(Tasks)
          /\ Len(SubSeq(full, 1, n)) = IF 1 <= n THEN n - 1 + 1 ELSE 0
          /\ \A i \in 1 .. n - 1 + 1 : SubSeq(full, 1, n)[i] = full[1 + i - 1]
      BY <1>12, <2>1, SubSeqProperties
    <2>. DEFINE cut == SubSeq(full, 1, n)
    <2>. HIDE DEF cut
    <2>3. cut \in Seq(Tasks) /\ Len(cut) = n /\ \A i \in 1 .. n : cut[i] = full[i]
      BY <1>12, <2>2 DEF cut
    <2>4. cut = part
      BY <1>11, <1>12, <2>3
    <2>. QED
      BY <2>4 DEF cut
  <1>. QED
    BY <1>6, <1>8, <1>13 DEF full, part

-----------------------------------------------------------------------------
\* A bundle is whole, or build_ast_bundles is replacing it or died while it did.
Whole(c) == \/ bundle[c] = "complete"
            \/ /\ script = "ast"
               /\ \/ cur = c /\ pc = "manifest"
                  \/ <<c, "manifest">> \in deaths
\* What may stand in a train file: a row of a resumable script stays.
Backed(c) == c \in Cand /\ Whole(c) /\ (script # "ast" => c \in Ids)
AllBacked(full) == \A i \in DOMAIN full : full[i].source = SourceOf[script] => Backed(full[i].id)

AstIdsOK == script = "ast" => \A c \in Ids : Whole(c)

LEMMA WholeStep ==
    ASSUME BuildInv, [Next]_vars, script = "ast", NEW c \in Cand, Whole(c)
    PROVE  Whole(c)'
  <1>1. script' = script /\ bundle \in [Cand -> {"none", "partial", "complete"}]
    BY ScriptKept DEF BuildInv, PoolOK, PoolTypeOK
  <1>. USE DEF Whole, durable, volatile
  <1>2. CASE AstStart \/ AstPick
    BY <1>1, <1>2 DEF AstStart, AstPick, BuildInv, RunOK
  <1>3. CASE AstArchive \/ AstManifest
    BY <1>1, <1>3 DEF AstArchive, AstManifest
  <1>4. CASE AstFinish \/ AstWrite \/ AstWriteCut
    BY <1>1, <1>4 DEF AstFinish, AstWrite, AstWriteCut, Die
  <1>5. CASE Killed
    BY <1>1, <1>5 DEF Killed, Die
  <1>6. CASE UNCHANGED poolVars
    BY <1>1, <1>6 DEF poolVars
  <1>. QED
    BY <1>2, <1>3, <1>4, <1>5, <1>6, AstMoves DEF BuildInv

LEMMA BackedStep ==
    ASSUME BuildInv, BuildInv', [Next]_vars
    PROVE  /\ \A c : Backed(c) => Backed(c)'
           /\ AstIdsOK => AstIdsOK'
  <1>1. script' = script
    BY ScriptKept
  <1>2. CASE script = "ast"
    <2>1. ASSUME NEW c, Backed(c) PROVE Backed(c)'
      BY <1>1, <1>2, <2>1, WholeStep DEF Backed
    <2>2. ASSUME AstIdsOK PROVE AstIdsOK'
      <3>1. accepted \subseteq Cand /\ Ids \subseteq Cand
        <4>1. out \in Seq(TaskRows) /\ accepted \subseteq Cand
          BY DEF BuildInv, PoolOK, PoolTypeOK, TaskRows
        <4>. QED
          BY <4>1, RowFields DEF Ids
      <3>2. CASE AstWrite \/ AstWriteCut
        <4>1. /\ pc = "write" /\ bundle' = bundle
              /\ out' = Built \/ \E n \in 0 .. Len(Built) - 1 : out' = SubSeq(Built, 1, n)
          BY <3>2 DEF AstWrite, AstWriteCut
        <4>2. /\ Built \in Seq(TaskRows)
              /\ \A i \in 1 .. Len(Built) : Built[i].id \in accepted
          BY <1>2, <3>1, <4>1, BuiltRows DEF BuildInv, PoolOK, InHand
        <4>. HIDE DEF Built
        <4>3. \A i \in DOMAIN out' : out'[i].id \in accepted
          <5>1. CASE out' = Built
            BY <4>2, <5>1
          <5>2. CASE \E n \in 0 .. Len(Built) - 1 : out' = SubSeq(Built, 1, n)
            <6>1. PICK n \in 0 .. Len(Built) - 1 : out' = SubSeq(Built, 1, n)
              BY <5>2
            <6>2. DOMAIN out' = 1 .. n /\ \A i \in 1 .. n : out'[i] = Built[i] /\ i \in 1 .. Len(Built)
              BY ONLY <4>2, <6>1, SubSeqProperties
            <6>. QED
              BY <4>2, <6>2
          <5>. QED
            BY <4>1, <5>1, <5>2
        <4>4. \A c \in Ids' : c \in accepted
          BY <4>3 DEF Ids
        <4>5. \A c \in accepted : bundle[c] = "complete"
          BY <1>2 DEF BuildInv, AstOK
        <4>. QED
          BY <4>1, <4>4, <4>5 DEF AstIdsOK, Whole
      <3>3. CASE UNCHANGED out
        <4>1. Ids' = Ids
          BY <3>3 DEF Ids
        <4>2. \A c \in Ids : Whole(c)
          BY <1>2, <2>2 DEF AstIdsOK
        <4>3. \A c \in Ids : Whole(c)'
          BY <1>2, <3>1, <4>2, WholeStep
        <4>. QED
          BY <4>1, <4>3 DEF AstIdsOK
      <3>. QED
        BY <1>2, <3>2, <3>3, AstMoves DEF BuildInv, AstStart, AstPick, AstArchive, AstManifest,
          AstFinish, Killed, poolVars, durable
    <2>. QED
      BY <2>1, <2>2
  <1>3. CASE script # "ast"
    <2>1. Ids \subseteq Ids'
      <3>1. out \in Seq(TaskRows)
        BY DEF BuildInv, PoolOK, PoolTypeOK, TaskRows
      <3>2. CASE AppendRow
        <4>1. out' = Append(out, Row)
          BY <3>2 DEF AppendRow
        <4>2. \A i \in DOMAIN out : i \in DOMAIN out' /\ out'[i] = out[i]
          <5>. HIDE DEF Row
          <5>. QED
            BY <3>1, <4>1
        <4>. QED
          BY <4>2 DEF Ids
      <3>3. CASE UNCHANGED out
        BY <3>3 DEF Ids
      <3>. QED
        BY <1>3, <3>2, <3>3, RowMoves DEF BuildInv, Start, StartFails, Finish, Pick, Pack, Record, WriteBundle,
          WriteBundleFails, TriesOn, Dies, TurnsTo, poolVars, durable
    <2>2. \A c \in Ids' : bundle'[c] = "complete"
      BY <1>1, <1>3 DEF BuildInv, ShelfOK
    <2>. QED
      BY <1>1, <1>3, <2>1, <2>2 DEF Backed, Whole, AstIdsOK
  <1>. QED
    BY <1>2, <1>3

-----------------------------------------------------------------------------
\* No task of the train file comes from a repository of the evaluation files.
Clear == Repos(train.full) \cap (Repos(eval.full) \cup Repos(eval.pool)) = {}

\* How far the mixer has come says what the files hold.
FilesOK ==
    /\ mixPc \in {"idle", "full", "pool", "eval", "evalpool", "manifest"}
    /\ train = [full |-> train.full, pool |-> train.pool, job |-> train.job, cut |-> train.cut]
    /\ eval = [full |-> eval.full, pool |-> eval.pool]
    /\ job.picked \in Seq(Tasks) /\ train.full \in Seq(Tasks)
    /\ job.eval \in EvalSets \cup {NoEval}
    /\ mixPc \in {"pool", "eval", "evalpool", "manifest"} =>
          /\ train.full = job.picked /\ train.job = job
          /\ mixEnd = "writing" /\ train.cut = FALSE
    /\ mixPc \in {"eval", "evalpool", "manifest"} => train.pool = Each(PoolView, job.picked)
    /\ mixPc \in {"eval", "evalpool"} => job.eval # NoEval
    /\ mixPc = "evalpool" => Overlap = {} /\ Repos(eval.full) = Repos(job.eval)
    /\ mixPc = "manifest" /\ job.eval # NoEval => Clear
    /\ \A i \in DOMAIN train.pool : ~ train.pool[i].secret /\ train.pool[i].portable
    /\ train.cut => mixEnd = "killed"
    /\ mixEnd = "done" =>
          /\ train.pool = Each(PoolView, train.full)
          /\ manifest = [train |-> train.full, quotas |-> train.job.quotas,
                         eval |-> train.job.eval, cut |-> FALSE]
          /\ train.job.eval # NoEval => Clear

\* A file, or the part of one that was written, against the quotas of its run.
PartlyBalanced(full, run) ==
    \E q : Within(q, run.quotas) /\ Balanced(full, [quotas |-> q, avail |-> run.avail])

\* The selection in hand, each part of it that may get written, and the train file.
JobOK == /\ Balanced(job.picked, job) /\ PartlyBalanced(job.picked, job)
         /\ \A n \in 0 .. Len(job.picked) : PartlyBalanced(SubSeq(job.picked, 1, n), job)
TrainOK == /\ PartlyBalanced(train.full, train.job)
           /\ train.cut \/ Balanced(train.full, train.job)

ChoiceOK == JobOK /\ TrainOK /\ AllBacked(job.picked) /\ AllBacked(train.full)

MixInv == BuildInv /\ AstIdsOK /\ FilesOK /\ ChoiceOK

LEMMA MixCases ==
    ASSUME [Next]_vars
    PROVE  \/ UNCHANGED mixVars
           \/ /\ UNCHANGED poolVars
              /\ \/ \E q \in Quotas, e \in EvalSets \cup {NoEval} : MixStart(q, e)
                 \/ WriteFull \/ WritePool \/ WriteEval \/ WriteEvalPool \/ WriteManifest
                 \/ MixKilled \/ MixCut
  BY Zenon DEF Next, vars, BuildStep, BuildFault, MixStep, MixStart, WriteFull, WritePool, WriteEval,
     WriteEvalPool, WriteManifest, MixKilled, MixCut

\* The first n tasks of a file.
LEMMA FirstTasks ==
    ASSUME NEW full \in Seq(Tasks), NEW n \in 0 .. Len(full)
    PROVE  /\ SubSeq(full, 1, n) \in Seq(Tasks) /\ DOMAIN SubSeq(full, 1, n) = 1 .. n
           /\ \A i \in 1 .. n : SubSeq(full, 1, n)[i] = full[i] /\ i \in DOMAIN full
  <1>1. n \in Nat /\ \A i \in 1 .. n : full[i] \in Tasks /\ i \in DOMAIN full
    OBVIOUS
  <1>2. /\ SubSeq(full, 1, n) \in Seq(Tasks)
        /\ Len(SubSeq(full, 1, n)) = IF 1 <= n THEN n - 1 + 1 ELSE 0
        /\ \A i \in 1 .. n - 1 + 1 : SubSeq(full, 1, n)[i] = full[1 + i - 1]
    BY <1>1, SubSeqProperties
  <1>. DEFINE part == SubSeq(full, 1, n)
  <1>. HIDE DEF part
  <1>3. part \in Seq(Tasks) /\ Len(part) = n /\ \A i \in 1 .. n : part[i] = full[i]
    BY <1>1, <1>2 DEF part
  <1>4. DOMAIN part = 1 .. n
    BY <1>3
  <1>. QED
    BY <1>1, <1>3, <1>4 DEF part

LEMMA ViewOfTasks ==
    ASSUME NEW full \in Seq(Tasks)
    PROVE  /\ Each(PoolView, full) \in Seq(Tasks)
           /\ \A i \in DOMAIN Each(PoolView, full) :
                ~ Each(PoolView, full)[i].secret /\ Each(PoolView, full)[i].portable
           /\ Repos(Each(PoolView, full)) = Repos(full)
  <1>1. \A i \in DOMAIN full : full[i] \in Tasks
    OBVIOUS
  <1>2. \A i \in DOMAIN full : /\ PoolView(full[i]) \in Tasks
                               /\ ~ PoolView(full[i]).secret /\ PoolView(full[i]).portable
                               /\ PoolView(full[i]).repo = full[i].repo
    BY <1>1, PortableFields DEF PoolView, Portable, Tasks
  <1>. HIDE DEF PoolView
  <1>3. Each(PoolView, full) = [i \in 1 .. Len(full) |-> PoolView(full[i])]
    BY DEF Each
  <1>4. Each(PoolView, full) \in Seq(Tasks)
    <2>1. \A i \in 1 .. Len(full) : PoolView(full[i]) \in Tasks
      BY <1>2
    <2>. QED
      BY <1>3, <2>1
  <1>. QED
    BY <1>2, <1>4 DEF Each, Repos

\* ... of which a part that was written shows nothing either.
LEMMA PartShowsNothing ==
    ASSUME NEW full \in Seq(Tasks), NEW rows \in Short(Each(PoolView, full))
    PROVE  \A i \in DOMAIN rows : ~ rows[i].secret /\ rows[i].portable
  <1>. DEFINE view == Each(PoolView, full)
  <1>1. view \in Seq(Tasks) /\ \A i \in DOMAIN view : ~ view[i].secret /\ view[i].portable
    BY ViewOfTasks
  <1>. HIDE DEF view
  <1>2. PICK n \in 0 .. Len(view) - 1 : rows = SubSeq(view, 1, n)
    BY DEF Short, view
  <1>3. n \in 0 .. Len(view)
    BY <1>1
  <1>4. DOMAIN rows = 1 .. n /\ \A i \in 1 .. n : rows[i] = view[i] /\ i \in DOMAIN view
    BY <1>1, <1>2, <1>3, FirstTasks
  <1>. QED
    BY <1>1, <1>4

LEMMA PortableKeepsRepos ==
    ASSUME NEW tasks \in Seq(Tasks)
    PROVE  Repos(Each(Portable, tasks)) = Repos(tasks)
  <1>1. \A i \in DOMAIN tasks : tasks[i] \in Tasks
    OBVIOUS
  <1>2. \A i \in DOMAIN tasks : Portable(tasks[i]).repo = tasks[i].repo
    BY <1>1, PortableFields
  <1>. HIDE DEF Portable
  <1>. QED
    BY <1>2 DEF Repos, Each

\* A writer that dies asserts nothing but that it died.
LEMMA DyingMixer ==
    ASSUME FilesOK, mixPc' = "idle", mixEnd' = "killed", job' = job,
           train' = [full |-> train'.full, pool |-> train'.pool, job |-> train'.job,
                     cut |-> train'.cut],
           eval' = [full |-> eval'.full, pool |-> eval'.pool],
           train'.full \in Seq(Tasks),
           \A i \in DOMAIN train'.pool : ~ train'.pool[i].secret /\ train'.pool[i].portable
    PROVE  FilesOK'
  <1>. HIDE DEF Each, Repos, Overlap, Clear
  <1>. QED
    BY DEF FilesOK

LEMMA CutFiles ==
    ASSUME FilesOK, MixCut
    PROVE  FilesOK'
  <1>. USE DEF FilesOK
  <1>1. mixPc' = "idle" /\ mixEnd' = "killed" /\ job' = job
    BY DEF MixCut
  <1>2. CASE /\ mixPc = "full" /\ UNCHANGED <<eval, manifest>>
             /\ \E rows \in Short(job.picked) :
                  train' = [train EXCEPT !.full = rows, !.job = job, !.cut = TRUE]
    <2>1. PICK n \in 0 .. Len(job.picked) - 1 :
                 train' = [train EXCEPT !.full = SubSeq(job.picked, 1, n), !.job = job, !.cut = TRUE]
      BY <1>2 DEF Short
    <2>2. n \in 0 .. Len(job.picked) /\ job.picked \in Seq(Tasks)
      OBVIOUS
    <2>. DEFINE rows == SubSeq(job.picked, 1, n)
    <2>3. rows \in Seq(Tasks)
      BY <2>2, FirstTasks
    <2>. HIDE DEF rows
    <2>4. /\ train'.full = rows /\ train'.pool = train.pool
          /\ train' = [full |-> train'.full, pool |-> train'.pool, job |-> train'.job,
                       cut |-> train'.cut]
      BY <2>1 DEF rows
    <2>. QED
      BY <1>1, <1>2, <2>3, <2>4, DyingMixer
  <1>3. CASE /\ mixPc = "pool" /\ UNCHANGED <<eval, manifest>>
             /\ \E rows \in Short(Each(PoolView, job.picked)) :
                  train' = [train EXCEPT !.pool = rows]
    <2>1. PICK rows \in Short(Each(PoolView, job.picked)) : train' = [train EXCEPT !.pool = rows]
      BY <1>3
    <2>2. \A i \in DOMAIN rows : ~ rows[i].secret /\ rows[i].portable
      BY PartShowsNothing
    <2>3. /\ train'.full = train.full /\ train'.pool = rows
          /\ train' = [full |-> train'.full, pool |-> train'.pool, job |-> train'.job,
                       cut |-> train'.cut]
      BY <2>1
    <2>. QED
      BY <1>1, <1>3, <2>2, <2>3, DyingMixer
  <1>4. ASSUME UNCHANGED train, NEW rows, eval' = [eval EXCEPT !.full = rows]
                                           \/ eval' = [eval EXCEPT !.pool = rows]
        PROVE  FilesOK'
    <2>1. eval' = [full |-> eval'.full, pool |-> eval'.pool]
      BY <1>4
    <2>2. /\ train' = [full |-> train'.full, pool |-> train'.pool, job |-> train'.job,
                       cut |-> train'.cut]
          /\ train'.full \in Seq(Tasks)
          /\ \A i \in DOMAIN train'.pool : ~ train'.pool[i].secret /\ train'.pool[i].portable
      BY <1>4
    <2>. QED
      BY <1>1, <2>1, <2>2, DyingMixer
  <1>5. CASE UNCHANGED <<train, eval>>
    BY <1>1, <1>5, DyingMixer
  <1>. QED
    BY <1>2, <1>3, <1>4, <1>5 DEF MixCut

LEMMA FilesStep ==
    ASSUME MixInv, [Next]_vars
    PROVE  FilesOK'
  <1>. USE DEF MixInv, FilesOK
  <1>1. ASSUME UNCHANGED <<train, eval, manifest>>
        PROVE  /\ Clear' = Clear /\ Repos(eval.full)' = Repos(eval.full)
               /\ Each(PoolView, train.full)' = Each(PoolView, train.full)
               /\ train' = train /\ eval' = eval /\ manifest' = manifest
    BY <1>1 DEF Clear, Repos, Each
  <1>2. ASSUME UNCHANGED job
        PROVE  /\ job' = job /\ Overlap' = Overlap /\ Repos(job.eval)' = Repos(job.eval)
               /\ Each(PoolView, job.picked)' = Each(PoolView, job.picked)
    BY <1>2 DEF Overlap, Repos, Each
  <1>3. CASE UNCHANGED mixVars
    <2>1. UNCHANGED <<mixPc, job, train, eval, manifest, mixEnd>>
      BY <1>3 DEF mixVars
    <2>. HIDE DEF Each, Repos, PoolView
    <2>. QED
      BY <1>1, <1>2, <2>1
  <1>4. ASSUME NEW q \in Quotas, NEW e \in EvalSets \cup {NoEval}, MixStart(q, e)
        PROVE  FilesOK'
    <2>1. /\ mixPc' = "full" /\ job'.picked = Selected(q) /\ job'.eval = e /\ EnoughFor(q)
          /\ UNCHANGED <<train, eval, manifest, mixEnd>>
      BY <1>4 DEF MixStart
    <2>2. Selected(q) \in Seq(Tasks)
      BY <2>1, MixConstants, SelectedIsBalanced DEF BuildInv
    <2>. HIDE DEF Selected, Each, Repos, PoolView
    <2>. QED
      BY <1>1, <2>1, <2>2
  <1>5. CASE WriteFull
    <2>1. /\ mixPc' = "pool" /\ mixEnd' = "writing" /\ UNCHANGED <<job, eval>>
          /\ train' = [train EXCEPT !.full = job.picked, !.job = job, !.cut = FALSE]
      BY <1>5 DEF WriteFull
    <2>2. /\ train'.full = job.picked /\ train'.pool = train.pool /\ train'.job = job
          /\ train'.cut = FALSE
          /\ train' = [full |-> train'.full, pool |-> train'.pool, job |-> train'.job,
                       cut |-> train'.cut]
      BY <2>1
    <2>. HIDE DEF Each, Repos, PoolView
    <2>. QED
      BY <1>2, <2>1, <2>2
  <1>6. CASE WritePool
    <2>1. /\ mixPc = "pool" /\ mixPc' = (IF job.eval = NoEval THEN "manifest" ELSE "eval")
          /\ UNCHANGED <<job, eval, manifest, mixEnd>>
          /\ train' = [train EXCEPT !.pool = Each(PoolView, job.picked)]
      BY <1>6 DEF WritePool
    <2>. HIDE DEF Each, Repos, PoolView
    <2>2. /\ train'.pool = Each(PoolView, job.picked) /\ train'.full = train.full
          /\ train'.job = train.job /\ train'.cut = train.cut
          /\ train' = [full |-> train'.full, pool |-> train'.pool, job |-> train'.job,
                       cut |-> train'.cut]
      BY <2>1
    <2>3. \A i \in DOMAIN train'.pool : ~ train'.pool[i].secret /\ train'.pool[i].portable
      BY <2>2, ViewOfTasks
    <2>4. mixEnd' # "done" /\ train.cut = FALSE
      BY <2>1
    <2>. QED
      BY <1>2, <2>1, <2>2, <2>3, <2>4
  <1>7. CASE WriteEval
    <2>1. CASE Overlap = {}
      <3>1. /\ mixPc = "eval" /\ mixPc' = "evalpool"
            /\ eval' = [eval EXCEPT !.full = Each(Portable, job.eval)]
            /\ UNCHANGED <<job, train, manifest, mixEnd>>
        BY <1>7, <2>1 DEF WriteEval
      <3>2. job.eval \in Seq(Tasks)
        BY <3>1, MixConstants
      <3>. HIDE DEF Each, Repos, PoolView
      <3>3. eval'.full = Each(Portable, job.eval) /\ eval' = [full |-> eval'.full, pool |-> eval'.pool]
        BY <3>1
      <3>4. Repos(eval.full)' = Repos(job.eval)
        <4>1. Repos(eval.full)' = Repos(eval'.full)
          BY DEF Repos
        <4>. QED
          BY <3>2, <3>3, <4>1, PortableKeepsRepos
      <3>. QED
        BY <1>2, <2>1, <3>1, <3>3, <3>4
    <2>2. CASE Overlap # {}
      <3>1. mixPc = "eval" /\ mixPc' = "idle" /\ mixEnd' = "raised" /\ UNCHANGED <<job, train, eval>>
        BY <1>7, <2>2 DEF WriteEval
      <3>. HIDE DEF Each, Repos, PoolView
      <3>. QED
        BY <3>1
    <2>. QED
      BY <2>1, <2>2
  <1>8. CASE WriteEvalPool
    <2>1. /\ mixPc = "evalpool" /\ mixPc' = "manifest"
          /\ eval' = [eval EXCEPT !.pool = Each(PoolView, job.eval)]
          /\ UNCHANGED <<job, train, manifest, mixEnd>>
      BY <1>8 DEF WriteEvalPool
    <2>2. job.eval \in Seq(Tasks)
      BY <2>1, MixConstants
    <2>3. Overlap = {} /\ Repos(eval.full) = Repos(job.eval) /\ train.full = job.picked
      BY <2>1
    <2>. HIDE DEF Each, Repos, PoolView
    <2>4. /\ eval'.pool = Each(PoolView, job.eval) /\ eval'.full = eval.full
          /\ eval' = [full |-> eval'.full, pool |-> eval'.pool]
      BY <2>1
    <2>5. Clear'
      <3>1. train'.full = job.picked /\ eval'.full = eval.full
            /\ eval'.pool = Each(PoolView, job.eval)
        BY <2>1, <2>3, <2>4
      <3>2. /\ Repos(train.full)' = Repos(train'.full) /\ Repos(eval.full)' = Repos(eval'.full)
            /\ Repos(eval.pool)' = Repos(eval'.pool)
        BY DEF Repos
      <3>3. Repos(Each(PoolView, job.eval)) = Repos(job.eval)
        BY <2>2, ViewOfTasks
      <3>. QED
        BY <2>3, <3>1, <3>2, <3>3 DEF Clear, Overlap
    <2>. QED
      BY <1>2, <2>1, <2>4, <2>5
  <1>9. CASE WriteManifest
    <2>1. /\ mixPc = "manifest" /\ mixPc' = "idle" /\ mixEnd' = "done"
          /\ manifest' = [train |-> job.picked, quotas |-> job.quotas, eval |-> job.eval,
                          cut |-> FALSE]
          /\ UNCHANGED <<job, train, eval>>
      BY <1>9 DEF WriteManifest, Manifest
    <2>2. Clear' = Clear /\ Each(PoolView, train.full)' = Each(PoolView, train.full)
      BY <2>1 DEF Clear, Repos, Each
    <2>. HIDE DEF Each, Repos, PoolView
    <2>. QED
      BY <2>1, <2>2
  <1>10. CASE MixKilled
    <2>1. /\ mixPc' = "idle" /\ mixEnd' = (IF mixPc = "full" THEN mixEnd ELSE "killed")
          /\ UNCHANGED <<job, train, eval, manifest>>
      BY <1>10 DEF MixKilled
    <2>. HIDE DEF Each, Repos, PoolView
    <2>2. CASE mixPc = "full"
      BY <1>1, <2>1, <2>2
    <2>3. CASE mixPc # "full"
      BY <2>1, <2>3, DyingMixer
    <2>. QED
      BY <2>2, <2>3
  <1>11. CASE MixCut
    BY <1>11, CutFiles
  <1>. QED
    BY <1>3, <1>4, <1>5, <1>6, <1>7, <1>8, <1>9, <1>10, <1>11, MixCases

\* What is said of a whole file is said of every first part of it.
LEMMA PartIsBacked ==
    ASSUME NEW full \in Seq(Tasks), NEW n \in 0 .. Len(full), AllBacked(full)
    PROVE  AllBacked(SubSeq(full, 1, n))
  <1>1. /\ DOMAIN SubSeq(full, 1, n) = 1 .. n
        /\ \A i \in 1 .. n : SubSeq(full, 1, n)[i] = full[i] /\ i \in DOMAIN full
    BY FirstTasks
  <1>. DEFINE part == SubSeq(full, 1, n)
  <1>. HIDE DEF part
  <1>2. AllBacked(part)
    BY <1>1 DEF AllBacked, part
  <1>. QED
    BY <1>2 DEF part

LEMMA WholeIsPartly ==
    ASSUME NEW full, NEW run, run.quotas \in [Sources -> Nat], Balanced(full, run)
    PROVE  PartlyBalanced(full, run)
  <1>1. Within(run.quotas, run.quotas)
    BY DEF Within
  <1>2. \A s \in Sources : SourceBalanced(full, s, run.quotas[s], run.avail[s])
    BY DEF Balanced
  <1>3. Balanced(full, [quotas |-> run.quotas, avail |-> run.avail])
    BY <1>2 DEF Balanced
  <1>. QED
    BY <1>1, <1>3 DEF PartlyBalanced

LEMMA ChoiceStep ==
    ASSUME MixInv, BuildInv', [Next]_vars
    PROVE  ChoiceOK'
  <1>. USE DEF MixInv, ChoiceOK
  <1>1. script' = script /\ (\A c : Backed(c) => Backed(c)')
    BY ScriptKept, BackedStep
  <1>2. ASSUME UNCHANGED job
        PROVE  /\ JobOK' /\ AllBacked(job.picked)'
    <2>1. JobOK'
      BY <1>2, Zenon DEF JobOK
    <2>2. AllBacked(job.picked)'
      BY <1>1, <1>2 DEF AllBacked
    <2>. QED
      BY <2>1, <2>2
  <1>3. ASSUME train'.full = train.full, train'.job = train.job, train'.cut = train.cut
        PROVE  TrainOK' /\ AllBacked(train.full)'
    <2>1. TrainOK'
      BY <1>3, Zenon DEF TrainOK
    <2>2. AllBacked(train.full)'
      BY <1>1, <1>3 DEF AllBacked
    <2>. QED
      BY <2>1, <2>2
  <1>4. CASE UNCHANGED <<job, train>>
    BY <1>2, <1>3, <1>4
  <1>5. ASSUME NEW q \in Quotas, NEW e \in EvalSets \cup {NoEval}, MixStart(q, e), UNCHANGED poolVars
        PROVE  ChoiceOK'
    <2>. DEFINE full == Selected(q)
                avail == [s \in Sources |-> Eligible(s)]
    <2>1. job' = [quotas |-> q, eval |-> e, picked |-> full, avail |-> avail] /\ train' = train
          /\ EnoughFor(q)
      BY <1>5 DEF MixStart
    <2>2. q \in [Sources -> Nat] /\ PoolOK
      BY MixConstants DEF BuildInv
    <2>3. /\ full \in Seq(Tasks) /\ Balanced(full, [quotas |-> q, avail |-> avail])
          /\ \A i \in DOMAIN full : \E s \in Sources : \E t \in Eligible(s) : full[i] = Portable(t)
      BY <2>1, <2>2, SelectedIsBalanced
    <2>4. \A n \in 0 .. Len(full) :
            \E small : /\ Within(small, q)
                       /\ Balanced(SubSeq(full, 1, n), [quotas |-> small, avail |-> avail])
      <3>. SUFFICES ASSUME NEW n \in 0 .. Len(full)
                    PROVE  \E small : /\ Within(small, q)
                                      /\ Balanced(SubSeq(full, 1, n),
                                                  [quotas |-> small, avail |-> avail])
        OBVIOUS
      <3>1. PICK small : /\ Within(small, q) /\ EnoughFor(small)
                         /\ SubSeq(full, 1, n) = Selected(small)
        BY <2>1, <2>2, PrefixIsSelected
      <3>2. Balanced(Selected(small), [quotas |-> small, avail |-> avail])
        BY <2>2, <3>1, SelectedIsBalanced DEF Within
      <3>. QED
        BY <3>1, <3>2, Zenon
    <2>. HIDE DEF full, avail
    <2>5. job'.picked = full /\ job'.quotas = q /\ job'.avail = avail
      BY <2>1
    <2>6. JobOK'
      <3>1. \A s \in Sources : SourceBalanced(full, s, q[s], avail[s])
        BY <2>3 DEF Balanced
      <3>2. Balanced(job'.picked, job')
        <4>1. \A s \in Sources : SourceBalanced(job'.picked, s, job'.quotas[s], job'.avail[s])
          BY <2>5, <3>1
        <4>. QED
          BY <4>1, Zenon DEF Balanced
      <3>3. PartlyBalanced(job'.picked, job')
        BY <2>2, <2>5, <3>2, WholeIsPartly
      <3>4. \A n \in 0 .. Len(job'.picked) : PartlyBalanced(SubSeq(job'.picked, 1, n), job')
        BY <2>4, <2>5, Zenon DEF PartlyBalanced
      <3>. QED
        BY <3>2, <3>3, <3>4, Zenon DEF JobOK
    <2>7. AllBacked(full)
      <3>. SUFFICES ASSUME NEW i \in DOMAIN full, full[i].source = SourceOf[script]
                    PROVE  Backed(full[i].id)
        BY DEF AllBacked
      <3>1. PICK s \in Sources : \E t \in Eligible(s) : full[i] = Portable(t)
        BY <2>3
      <3>2. PICK t \in Eligible(s) : full[i] = Portable(t)
        BY <3>1
      <3>3. /\ TaskFile(Eligible(s)) /\ t.source = s
            /\ s = SourceOf[script] => t.id \in Ids
        BY <2>2, EligibleTasks
      <3>4. full[i].id = t.id /\ full[i].source = t.source
        BY <3>2, <3>3, PortableFields DEF TaskFile
      <3>5. t.id \in Ids
        BY <3>3, <3>4
      <3>6. Ids \subseteq Cand
        <4>1. out \in Seq(TaskRows)
          BY DEF BuildInv, PoolOK, PoolTypeOK, TaskRows
        <4>. QED
          BY <4>1, RowFields DEF Ids
      <3>7. Backed(t.id)
        BY <3>5, <3>6 DEF Backed, Whole, AstIdsOK, BuildInv, ShelfOK
      <3>. QED
        BY <3>4, <3>7
    <2>8. AllBacked(job.picked)'
      BY <1>1, <2>5, <2>7 DEF AllBacked
    <2>. QED
      BY <1>3, <2>1, <2>6, <2>8
  <1>6. CASE WriteFull
    <2>1. /\ train' = [train EXCEPT !.full = job.picked, !.job = job, !.cut = FALSE] /\ job' = job
      BY <1>6 DEF WriteFull
    <2>2. train'.full = job.picked /\ train'.job = job
      BY <2>1 DEF FilesOK
    <2>3. Balanced(job.picked, job) /\ PartlyBalanced(job.picked, job)
      BY DEF JobOK
    <2>4. TrainOK'
      <3>1. Balanced(train'.full, train'.job) /\ PartlyBalanced(train'.full, train'.job)
        BY <2>2, <2>3, Zenon
      <3>. QED
        BY <3>1, Zenon DEF TrainOK
    <2>5. AllBacked(train.full)'
      BY <1>1, <2>2 DEF AllBacked
    <2>. QED
      BY <1>2, <2>1, <2>4, <2>5
  <1>7. CASE WritePool
    <2>1. job' = job /\ train' = [train EXCEPT !.pool = Each(PoolView, job.picked)]
      BY <1>7 DEF WritePool
    <2>2. train'.full = train.full /\ train'.job = train.job /\ train'.cut = train.cut
      BY <2>1 DEF FilesOK
    <2>. QED
      BY <1>2, <1>3, <2>1, <2>2
  <1>8. CASE MixCut
    <2>1. CASE /\ mixPc = "full" /\ UNCHANGED <<eval, manifest>>
               /\ \E rows \in Short(job.picked) :
                    train' = [train EXCEPT !.full = rows, !.job = job, !.cut = TRUE]
      <3>1. PICK n \in 0 .. Len(job.picked) - 1 :
                   train' = [train EXCEPT !.full = SubSeq(job.picked, 1, n), !.job = job,
                                          !.cut = TRUE]
        BY <2>1 DEF Short
      <3>2. n \in 0 .. Len(job.picked) /\ job.picked \in Seq(Tasks)
        BY DEF FilesOK
      <3>. DEFINE part == SubSeq(job.picked, 1, n)
      <3>3. PartlyBalanced(part, job)
        BY <3>2, Zenon DEF JobOK
      <3>4. AllBacked(part)
        BY <3>2, PartIsBacked
      <3>. HIDE DEF part
      <3>5. train'.full = part /\ train'.job = job /\ train'.cut = TRUE
        BY <3>1 DEF part, FilesOK
      <3>6. TrainOK'
        <4>1. PartlyBalanced(train'.full, train'.job)
          BY <3>3, <3>5, Zenon
        <4>. QED
          BY <3>5, <4>1, Zenon DEF TrainOK
      <3>7. AllBacked(train.full)'
        BY <1>1, <3>4, <3>5 DEF AllBacked
      <3>8. job' = job
        BY <1>8 DEF MixCut
      <3>. QED
        BY <1>2, <3>6, <3>7, <3>8
    <2>2. CASE \E rows : train' = [train EXCEPT !.pool = rows]
      <3>1. train'.full = train.full /\ train'.job = train.job /\ train'.cut = train.cut
        BY <2>2 DEF FilesOK
      <3>2. job' = job
        BY <1>8 DEF MixCut
      <3>. QED
        BY <1>2, <1>3, <3>1, <3>2
    <2>3. CASE UNCHANGED train
      <3>1. job' = job
        BY <1>8 DEF MixCut
      <3>. QED
        BY <1>4, <2>3, <3>1
    <2>. QED
      BY <1>8, <2>1, <2>2, <2>3 DEF MixCut
  <1>. QED
    BY <1>4, <1>5, <1>6, <1>7, <1>8, MixCases
       DEF mixVars, WriteEval, WriteEvalPool, WriteManifest, MixKilled

LEMMA MixInit == Init => MixInv
  <1>. SUFFICES ASSUME Init PROVE MixInv
    OBVIOUS
  <1>1. BuildInv
    BY BuildInit
  <1>2. AstIdsOK
    BY DEF Init, PoolInit, AstIdsOK, Ids
  <1>3. FilesOK
    BY DEF Init, FilesOK, NoJob
  <1>4. Balanced(<<>>, NoJob) /\ AllBacked(<<>>) /\ PartlyBalanced(<<>>, NoJob)
    <2>1. \A s : OfSource(<<>>, s) = {}
      BY DEF OfSource
    <2>2. /\ \A s \in Sources : NoJob.quotas[s] = 0 /\ NoJob.avail[s] = {}
          /\ NoJob.quotas \in [Sources -> Nat]
      BY DEF NoJob
    <2>3. \A s \in Sources : SourceBalanced(<<>>, s, NoJob.quotas[s], NoJob.avail[s])
      BY <2>1, <2>2, FS_EmptySet DEF SourceBalanced
    <2>4. Balanced(<<>>, NoJob)
      BY <2>3 DEF Balanced
    <2>5. PartlyBalanced(<<>>, NoJob)
      BY <2>2, <2>4, WholeIsPartly
    <2>. QED
      BY <2>4, <2>5 DEF AllBacked
  <1>5. job.picked = <<>> /\ job = NoJob /\ train.full = <<>> /\ train.job = NoJob
    BY DEF Init, NoJob
  <1>6. \A n \in 0 .. Len(job.picked) : SubSeq(job.picked, 1, n) = <<>>
    BY <1>5
  <1>7. JobOK /\ TrainOK
    <2>1. \A n \in 0 .. Len(job.picked) : PartlyBalanced(SubSeq(job.picked, 1, n), job)
      BY <1>4, <1>5, <1>6, Zenon
    <2>2. Balanced(job.picked, job) /\ PartlyBalanced(job.picked, job)
      BY <1>4, <1>5, Zenon
    <2>3. Balanced(train.full, train.job) /\ PartlyBalanced(train.full, train.job)
      BY <1>4, <1>5, Zenon
    <2>. QED
      BY <2>1, <2>2, <2>3, Zenon DEF JobOK, TrainOK
  <1>. QED
    BY <1>1, <1>2, <1>3, <1>4, <1>5, <1>7 DEF MixInv, ChoiceOK

LEMMA MixInvariance == Spec => []MixInv
  <1>1. MixInv /\ BuildInv' /\ [Next]_vars => MixInv'
    BY FilesStep, ChoiceStep, BackedStep DEF MixInv
  <1>. QED
    BY MixInit, BuildInvariance, <1>1, PTL DEF Spec

(* The train file holds the quota of every source, no task twice, and       *)
(* inside a source no repository has two tasks more than another that had   *)
(* one left (select_quota).  Where the writer of the file died, what there  *)
(* is of it holds at most the quotas and is balanced in the same way, and   *)
(* the run it belongs to did not go through (_write_jsonl).                 *)
THEOREM QuotasAreBalanced == Spec => []QuotaBalanced
  <1>1. MixInv => QuotaBalanced
    <2>. SUFFICES ASSUME MixInv PROVE QuotaBalanced
      OBVIOUS
    <2>1. /\ PartlyBalanced(train.full, train.job) /\ train.full \in Seq(Tasks)
          /\ train.cut \/ Balanced(train.full, train.job)
          /\ train.cut => mixEnd = "killed"
      BY DEF MixInv, ChoiceOK, TrainOK, FilesOK
    <2>2. PICK q : /\ Within(q, train.job.quotas)
                   /\ Balanced(train.full, [quotas |-> q, avail |-> train.job.avail])
      BY <2>1, Zenon DEF PartlyBalanced
    <2>3. ASSUME NEW s \in Sources
          PROVE  /\ Cardinality(OfSource(train.full, s)) <= train.job.quotas[s]
                 /\ SourceBalanced(train.full, s, q[s], train.job.avail[s])
                 /\ train.cut \/ Cardinality(OfSource(train.full, s)) = train.job.quotas[s]
      <3>1. SourceBalanced(train.full, s, q[s], train.job.avail[s]) /\ q[s] <= train.job.quotas[s]
        BY <2>2 DEF Balanced, Within
      <3>2. train.cut \/ Cardinality(OfSource(train.full, s)) = train.job.quotas[s]
        BY <2>1, Zenon DEF Balanced, SourceBalanced
      <3>3. Cardinality(OfSource(train.full, s)) = q[s]
        BY <3>1, Zenon DEF SourceBalanced
      <3>. QED
        BY <3>1, <3>2, <3>3
    <2>. QED
      BY <2>1, <2>3, Zenon DEF QuotaBalanced, SourceBalanced, OfSource, FromRepo
  <1>. QED
    BY MixInvariance, <1>1, PTL

(* The training pool shows no solution; after a run that ended it is the    *)
(* view of the train file and the manifest speaks of it; and the tasks of   *)
(* the builder in it have whole bundles, but for one that build_ast_bundles *)
(* is replacing or died replacing.                                          *)
THEOREM PoolIsPublishedWhole == Spec => []PublishedPool
  <1>1. MixInv => PublishedPool
    BY Zenon DEF MixInv, FilesOK, ChoiceOK, AllBacked, Backed, Whole, PublishedPool
  <1>. QED
    BY MixInvariance, <1>1, PTL

(* After a run with --eval that ended, no repository is on both sides.      *)
THEOREM TrainAndEvalAreDisjoint == Spec => []TrainEvalDisjoint
  <1>1. MixInv => TrainEvalDisjoint
    BY Zenon DEF MixInv, FilesOK, Clear, TrainEvalDisjoint
  <1>. QED
    BY MixInvariance, <1>1, PTL
=============================================================================
