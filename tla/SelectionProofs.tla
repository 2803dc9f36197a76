-------------------------- MODULE SelectionProofs --------------------------
(***************************************************************************)
(* What sorting and taking turns return, for every finite input.           *)
(***************************************************************************)
EXTENDS Selection, FiniteSetTheorems, SequenceTheorems, WellFoundedInduction, TLAPS

LEMMA SmallerSet ==
    ASSUME NEW S, IsFiniteSet(S), NEW T, T \subseteq S, NEW x \in S, x \notin T
    PROVE  IsFiniteSet(T) /\ Cardinality(T) \in Nat /\ Cardinality(T) < Cardinality(S)
  <1>1. /\ IsFiniteSet(T) /\ Cardinality(T) <= Cardinality(S)
        /\ Cardinality(S) = Cardinality(T) => S = T
    BY FS_Subset
  <1>2. Cardinality(T) \in Nat /\ Cardinality(S) \in Nat
    BY <1>1, FS_CardinalityType
  <1>. QED
    BY <1>1, <1>2

\* Induction by a least counterexample: strict inclusion of finite sets is
\* well-founded, and the intervals 0 .. n are finite.
LEMMA LeastNat ==
    ASSUME NEW T \in SUBSET Nat, T # {}
    PROVE  \E n \in T : \A m \in T : n <= m
  <1>. DEFINE upTo(n) == 0 .. n
              intervals == {upTo(n) : n \in T}
  <1>1. \A n \in T : upTo(n) \in FiniteSubsetsOf(Nat)
    <2>. SUFFICES ASSUME NEW n \in T PROVE upTo(n) \in FiniteSubsetsOf(Nat)
      OBVIOUS
    <2>1. IsFiniteSet(0 .. n)
      BY FS_Interval
    <2>. QED
      BY <2>1 DEF FiniteSubsetsOf
  <1>2. intervals \subseteq FiniteSubsetsOf(Nat) /\ intervals # {}
    <2>. HIDE DEF upTo
    <2>. QED
      BY <1>1
  <1>3. IsWellFoundedOn(StrictSubsetOrdering(Nat), FiniteSubsetsOf(Nat))
    BY FS_StrictSubsetOrderingWellFounded
  <1>4. PICK least \in intervals :
            \A other \in intervals : <<other, least>> \notin StrictSubsetOrdering(Nat)
    <2>. HIDE DEF intervals
    <2>. QED
      BY <1>2, <1>3, WFMin, Zenon
  <1>5. PICK n \in T : least = 0 .. n
    OBVIOUS
  <1>6. ASSUME NEW m \in T, m < n PROVE FALSE
    <2>1. 0 .. m \in intervals
      BY <1>6
    <2>2. 0 .. m \subseteq 0 .. n /\ 0 .. m # 0 .. n
      BY <1>6
    <2>3. <<0 .. m, 0 .. n>> \in StrictSubsetOrdering(Nat)
      BY <2>2 DEF StrictSubsetOrdering
    <2>. QED
      BY <1>4, <1>5, <2>1, <2>3
  <1>. QED
    BY <1>6

\* A strict order in which any two members of S are comparable.
OrdersAll(before, S) ==
    /\ \A x \in S : <<x, x>> \notin before
    /\ \A x, y \in S : x # y => <<x, y>> \in before \/ <<y, x>> \in before
    /\ \A x, y, z \in S : <<x, y>> \in before /\ <<y, z>> \in before => <<x, z>> \in before

Before(x, S, before) == {y \in S : <<y, x>> \in before}

LEMMA BeforeIsLess ==
    ASSUME NEW S, IsFiniteSet(S), NEW before, OrdersAll(before, S)
    PROVE  /\ \A x \in S : /\ Cardinality(Before(x, S, before)) \in Nat
                           /\ Cardinality(Before(x, S, before)) < Cardinality(S)
           /\ \A x, y \in S : <<x, y>> \in before =>
                Cardinality(Before(x, S, before)) < Cardinality(Before(y, S, before))
  <1>1. ASSUME NEW x \in S
        PROVE  /\ Cardinality(Before(x, S, before)) \in Nat
               /\ Cardinality(Before(x, S, before)) < Cardinality(S)
    <2>1. Before(x, S, before) \subseteq S /\ x \notin Before(x, S, before)
      BY DEF Before, OrdersAll
    <2>. QED
      BY <2>1, SmallerSet
  <1>2. ASSUME NEW x \in S, NEW y \in S, <<x, y>> \in before
        PROVE  Cardinality(Before(x, S, before)) < Cardinality(Before(y, S, before))
    <2>1. /\ Before(x, S, before) \subseteq Before(y, S, before)
          /\ x \in Before(y, S, before) /\ x \notin Before(x, S, before)
          /\ Before(y, S, before) \subseteq S
      BY <1>2 DEF Before, OrdersAll
    <2>2. IsFiniteSet(Before(y, S, before))
      BY <2>1, FS_Subset
    <2>. QED
      BY <2>1, <2>2, SmallerSet
  <1>. QED
    BY <1>1, <1>2

\* Sorted enumerates S: every member once, each after those before it.
LEMMA SortedEnumerates ==
    ASSUME NEW S, IsFiniteSet(S), NEW before, OrdersAll(before, S)
    PROVE  /\ Cardinality(S) \in Nat
           /\ Sorted(S, before) \in [1 .. Cardinality(S) -> S]
           /\ \A i, j \in 1 .. Cardinality(S) :
                Sorted(S, before)[i] = Sorted(S, before)[j] => i = j
           /\ \A x \in S : \E i \in 1 .. Cardinality(S) : Sorted(S, before)[i] = x
           /\ \A i, j \in 1 .. Cardinality(S) :
                i < j => <<Sorted(S, before)[i], Sorted(S, before)[j]>> \in before
  <1>. DEFINE n == Cardinality(S)
              rank == [x \in S |-> Cardinality(Before(x, S, before)) + 1]
              sorted == Sorted(S, before)
  <1>1. n \in Nat
    BY FS_CardinalityType
  <1>2. rank \in [S -> 1 .. n] /\ \A x, y \in S : <<x, y>> \in before => rank[x] < rank[y]
    BY <1>1, BeforeIsLess
  <1>3. rank \in Injection(S, 1 .. n)
    <2>1. \A x, y \in S : x # y => rank[x] # rank[y]
      <3>. SUFFICES ASSUME NEW x \in S, NEW y \in S, x # y PROVE rank[x] # rank[y]
        OBVIOUS
      <3>. HIDE DEF rank
      <3>1. rank[x] \in Int /\ rank[y] \in Int
        BY <1>2
      <3>2. rank[x] < rank[y] \/ rank[y] < rank[x]
        <4>1. <<x, y>> \in before \/ <<y, x>> \in before
          BY DEF OrdersAll
        <4>. QED
          BY ONLY <1>2, <4>1, x \in S, y \in S
      <3>. QED
        BY ONLY <3>1, <3>2
    <2>. HIDE DEF rank
    <2>. QED
      BY <1>2, <2>1 DEF Injection, IsInjective
  <1>4. IsFiniteSet(1 .. n) /\ Cardinality(1 .. n) = n
    BY <1>1, FS_Interval
  <1>5. rank \in Surjection(S, 1 .. n)
    BY <1>3, <1>4, FS_Injection
  <1>6. \A i \in 1 .. n : sorted[i] \in S /\ rank[sorted[i]] = i
    <2>. SUFFICES ASSUME NEW i \in 1 .. n PROVE sorted[i] \in S /\ rank[sorted[i]] = i
      OBVIOUS
    <2>1. PICK x \in S : rank[x] = i
      BY <1>5 DEF Surjection
    <2>2. Cardinality(Before(x, S, before)) = i - 1
      BY <2>1, BeforeIsLess
    <2>3. sorted[i] = CHOOSE y \in S : Cardinality(Before(y, S, before)) = i - 1
      BY DEF Sorted, Before
    <2>4. sorted[i] \in S /\ Cardinality(Before(sorted[i], S, before)) = i - 1
      BY <2>2, <2>3
    <2>. QED
      BY <2>4, <1>1
  <1>7. sorted \in [1 .. n -> S]
    <2>. DEFINE kth(i) == CHOOSE x \in S : Cardinality({y \in S : <<y, x>> \in before}) = i - 1
    <2>1. sorted = [i \in 1 .. n |-> kth(i)]
      BY DEF Sorted
    <2>. HIDE DEF kth, sorted
    <2>2. \A i \in 1 .. n : kth(i) \in S
      BY <1>6, <2>1
    <2>. QED
      BY <2>1, <2>2
  <1>. HIDE DEF rank, sorted
  <1>8. \A i, j \in 1 .. n : sorted[i] = sorted[j] => i = j
    BY <1>6
  <1>9. ASSUME NEW x \in S PROVE \E i \in 1 .. n : sorted[i] = x
    <2>1. rank[x] \in 1 .. n
      BY <1>2
    <2>2. rank[sorted[rank[x]]] = rank[x] /\ sorted[rank[x]] \in S
      BY <1>6, <2>1
    <2>3. sorted[rank[x]] = x
      BY <1>3, <2>2 DEF Injection, IsInjective
    <2>. QED
      BY <2>1, <2>3
  <1>10. ASSUME NEW i \in 1 .. n, NEW j \in 1 .. n, i < j
         PROVE  <<sorted[i], sorted[j]>> \in before
    <2>1. sorted[i] \in S /\ sorted[j] \in S /\ sorted[i] # sorted[j]
      BY <1>6, <1>8, <1>10
    <2>2. <<sorted[j], sorted[i]>> \notin before
      BY <1>2, <1>6, <1>10, <2>1
    <2>. QED
      BY <2>1, <2>2 DEF OrdersAll
  <1>. QED
    BY <1>1, <1>7, <1>8, <1>9, <1>10 DEF sorted

-----------------------------------------------------------------------------
LEMMA RankInGroup ==
    ASSUME NEW n \in Nat, NEW sorted, DOMAIN sorted = 1 .. n, NEW key
    PROVE  /\ \A i \in 1 .. n : Rank(i, sorted, key) \in 0 .. i - 1
           /\ \A i, j \in 1 .. n :
                i < j /\ key[sorted[i]] = key[sorted[j]]
                    => Rank(i, sorted, key) < Rank(j, sorted, key)
  <1>. DEFINE earlier(i) == {j \in 1 .. i - 1 : key[sorted[j]] = key[sorted[i]]}
  <1>1. ASSUME NEW i \in 1 .. n
        PROVE  /\ earlier(i) \subseteq 1 .. i - 1 /\ IsFiniteSet(earlier(i))
               /\ Cardinality(earlier(i)) \in 0 .. i - 1
    <2>1. /\ IsFiniteSet(1 .. i - 1) /\ Cardinality(1 .. i - 1) = i - 1
          /\ earlier(i) \subseteq 1 .. i - 1
      BY FS_Interval
    <2>2. IsFiniteSet(earlier(i)) /\ Cardinality(earlier(i)) <= i - 1
      BY <2>1, FS_Subset
    <2>. HIDE DEF earlier
    <2>3. Cardinality(earlier(i)) \in Nat
      BY <2>2, FS_CardinalityType
    <2>. QED
      BY <2>1, <2>2, <2>3
  <1>2. ASSUME NEW i \in 1 .. n, NEW j \in 1 .. n, i < j, key[sorted[i]] = key[sorted[j]]
        PROVE  Cardinality(earlier(i)) < Cardinality(earlier(j))
    <2>1. earlier(i) \subseteq earlier(j) /\ i \in earlier(j) /\ i \notin earlier(i)
      BY <1>2
    <2>. QED
      BY <1>1, <2>1, SmallerSet
  <1>. QED
    BY <1>1, <1>2 DEF Rank

\* Taking turns is a strict order of the places.
LEMMA TurnsOrderAll ==
    ASSUME NEW n \in Nat, NEW sorted, DOMAIN sorted = 1 .. n, NEW key,
           \A i \in 1 .. n : key[sorted[i]] \in Int
    PROVE  OrdersAll(Turns(sorted, key), 1 .. n)
  <1>. DEFINE round(i) == Rank(i, sorted, key)
              group(i) == key[sorted[i]]
  <1>1. \A i, j \in 1 .. n : <<i, j>> \in Turns(sorted, key) <=>
            round(i) < round(j) \/ (round(i) = round(j) /\ group(i) < group(j))
    BY DEF Turns
  <1>2. \A i \in 1 .. n : round(i) \in Int /\ group(i) \in Int
    BY RankInGroup
  <1>3. \A i, j \in 1 .. n : i < j /\ group(i) = group(j) => round(i) < round(j)
    BY RankInGroup
  <1>. HIDE DEF round, group
  <1>4. \A i \in 1 .. n : <<i, i>> \notin Turns(sorted, key)
    BY <1>1, <1>2
  <1>5. ASSUME NEW i \in 1 .. n, NEW j \in 1 .. n, i # j
        PROVE  <<i, j>> \in Turns(sorted, key) \/ <<j, i>> \in Turns(sorted, key)
    <2>1. i < j \/ j < i
      BY <1>5
    <2>2. round(i) # round(j) \/ group(i) # group(j)
      BY <2>1, <1>2, <1>3
    <2>. QED
      BY <2>2, <1>1, <1>2, SMTT(30)
  <1>6. ASSUME NEW i \in 1 .. n, NEW j \in 1 .. n, NEW k \in 1 .. n,
               <<i, j>> \in Turns(sorted, key), <<j, k>> \in Turns(sorted, key)
        PROVE  <<i, k>> \in Turns(sorted, key)
    BY <1>1, <1>2, <1>6, SMTT(30)
  <1>. QED
    BY <1>4, <1>5, <1>6 DEF OrdersAll

\* The round robin takes every task of the input once, in the order of turns.
LEMMA RoundRobinTakesAll ==
    ASSUME NEW n \in Nat, NEW S, NEW sorted \in [1 .. n -> S], NEW key,
           \A i \in 1 .. n : key[sorted[i]] \in Int
    PROVE  \E order \in [1 .. n -> 1 .. n] :
             /\ RoundRobin(sorted, key) = [k \in 1 .. n |-> sorted[order[k]]]
             /\ \A i, j \in 1 .. n : order[i] = order[j] => i = j
             /\ \A i \in 1 .. n : \E k \in 1 .. n : order[k] = i
             /\ \A i, j \in 1 .. n : i < j => <<order[i], order[j]>> \in Turns(sorted, key)
  <1>. DEFINE places == 1 .. n
              turns == Turns(sorted, key)
              order == Sorted(places, turns)
  <1>1. IsFiniteSet(places) /\ Cardinality(places) = n
    BY FS_Interval
  <1>2. OrdersAll(turns, places)
    BY TurnsOrderAll
  <1>3. /\ order \in [1 .. n -> 1 .. n]
        /\ \A i, j \in 1 .. n : order[i] = order[j] => i = j
        /\ \A i \in 1 .. n : \E k \in 1 .. n : order[k] = i
        /\ \A i, j \in 1 .. n : i < j => <<order[i], order[j]>> \in Turns(sorted, key)
    <2>. HIDE DEF places, turns
    <2>. HIDE DEF order
    <2>1. /\ order \in [1 .. Cardinality(places) -> places]
          /\ \A i, j \in 1 .. Cardinality(places) : order[i] = order[j] => i = j
          /\ \A x \in places : \E k \in 1 .. Cardinality(places) : order[k] = x
          /\ \A i, j \in 1 .. Cardinality(places) :
                i < j => <<order[i], order[j]>> \in turns
      BY <1>1, <1>2, SortedEnumerates, Zenon DEF order
    <2>2. /\ order \in [1 .. n -> places]
          /\ \A i, j \in 1 .. n : order[i] = order[j] => i = j
          /\ \A x \in places : \E k \in 1 .. n : order[k] = x
          /\ \A i, j \in 1 .. n : i < j => <<order[i], order[j]>> \in turns
      BY <1>1, <2>1
    <2>. QED
      BY <2>2 DEF places, turns
  <1>4. RoundRobin(sorted, key) = [k \in 1 .. n |-> sorted[order[k]]]
    BY <1>3 DEF RoundRobin, Reordered
  <1>. HIDE DEF order
  <1>. QED
    BY <1>3, <1>4

\* A map that sends no two of a finite set to one is no larger than its target.
LEMMA NoLarger ==
    ASSUME NEW S, NEW T, IsFiniteSet(T), NEW f \in [S -> T],
           \A x, y \in S : f[x] = f[y] => x = y
    PROVE  /\ IsFiniteSet(S) /\ Cardinality(S) \in Nat /\ Cardinality(T) \in Nat
           /\ Cardinality(S) <= Cardinality(T)
           /\ (\A t \in T : \E x \in S : f[x] = t) => Cardinality(S) = Cardinality(T)
  <1>1. f \in Injection(S, T)
    BY DEF Injection, IsInjective
  <1>2. (\A t \in T : \E x \in S : f[x] = t) => f \in Surjection(S, T)
    BY DEF Surjection
  <1>3. /\ IsFiniteSet(S) /\ Cardinality(S) <= Cardinality(T)
        /\ Cardinality(S) = Cardinality(T) <=> f \in Surjection(S, T)
    BY <1>1, FS_Injection
  <1>. QED
    BY <1>2, <1>3, FS_CardinalityType

\* order visits the n places of sorted, each once, in the order of turns.
TakesTurns(order, n, sorted, key) ==
    /\ order \in [1 .. n -> 1 .. n]
    /\ \A i, j \in 1 .. n : order[i] = order[j] => i = j
    /\ \A i \in 1 .. n : \E k \in 1 .. n : order[k] = i
    /\ \A i, j \in 1 .. n : i < j => <<order[i], order[j]>> \in Turns(sorted, key)

\* The places of group g, among the first q that are visited and among all.
Taken(q, order, sorted, key, g) == {i \in 1 .. q : key[sorted[order[i]]] = g}
Group(n, sorted, key, g) == {i \in 1 .. n : key[sorted[i]] = g}

\* The first q tasks of a round robin: no group has two more of them than
\* another group that still had one.
LEMMA PrefixIsBalanced ==
    ASSUME NEW n \in Nat, NEW sorted, DOMAIN sorted = 1 .. n, NEW key,
           \A i \in 1 .. n : key[sorted[i]] \in Int,
           NEW order, TakesTurns(order, n, sorted, key),
           NEW q \in 0 .. n, NEW g, NEW h
    PROVE  \/ Cardinality(Taken(q, order, sorted, key, g))
                  <= Cardinality(Taken(q, order, sorted, key, h)) + 1
           \/ Cardinality(Taken(q, order, sorted, key, h))
                  = Cardinality(Group(n, sorted, key, h))
  <1>. DEFINE taken(x) == {i \in 1 .. q : key[sorted[order[i]]] = x}
              group(x) == {i \in 1 .. n : key[sorted[i]] = x}
              missed == {i \in group(h) : \A k \in 1 .. q : order[k] # i}
              round == [i \in 1 .. n |-> Rank(i, sorted, key)]
  <1>1. /\ order \in [1 .. n -> 1 .. n]
        /\ \A i, j \in 1 .. n : order[i] = order[j] => i = j
        /\ \A i \in 1 .. n : \E k \in 1 .. n : order[k] = i
        /\ \A i, j \in 1 .. n : i < j => <<order[i], order[j]>> \in Turns(sorted, key)
    BY DEF TakesTurns
  <1>2. /\ n \in Nat /\ q \in Nat
        /\ \A i \in 1 .. q : i \in 1 .. n /\ order[i] \in 1 .. n
        /\ \A i, j \in 1 .. n : order[i] = order[j] => i = j
    BY <1>1
  <1>3. IsFiniteSet(1 .. q) /\ IsFiniteSet(1 .. n)
    BY FS_Interval
  <1>4. IsFiniteSet(taken(g)) /\ IsFiniteSet(taken(h)) /\ IsFiniteSet(group(h))
    BY <1>3, FS_Subset
  <1>5. /\ round \in [1 .. n -> Nat]
        /\ \A i, j \in 1 .. n :
             i < j /\ key[sorted[i]] = key[sorted[j]] => round[i] < round[j]
    <2>1. \A i \in 1 .. n : Rank(i, sorted, key) \in 0 .. i - 1
      BY RankInGroup
    <2>2. \A i, j \in 1 .. n :
             i < j /\ key[sorted[i]] = key[sorted[j]]
                => Rank(i, sorted, key) < Rank(j, sorted, key)
      BY RankInGroup
    <2>. QED
      BY <2>1, <2>2
  <1>6. \A i, j \in 1 .. n :
          i < j => round[order[i]] < round[order[j]] \/ round[order[i]] = round[order[j]]
    BY <1>1 DEF Turns
  <1>7. \A v \in 1 .. n : round[v] = Cardinality({j \in 1 .. v - 1 : key[sorted[j]] = key[sorted[v]]})
    BY DEF Rank
  <1>. HIDE DEF round
  <1>8. CASE missed = {}
    <2>. DEFINE f == [i \in taken(h) |-> order[i]]
    <2>1. f \in [taken(h) -> group(h)]
      BY <1>2
    <2>2. \A x, y \in taken(h) : f[x] = f[y] => x = y
      <3>1. \A x \in taken(h) : x \in 1 .. n /\ f[x] = order[x]
        BY <1>2
      <3>. QED
        BY ONLY <3>1, <1>2
    <2>3. \A t \in group(h) : \E x \in taken(h) : f[x] = t
      <3>. SUFFICES ASSUME NEW t \in group(h) PROVE \E x \in taken(h) : order[x] = t
        OBVIOUS
      <3>1. PICK k \in 1 .. q : order[k] = t
        BY <1>8
      <3>. QED
        BY <3>1
    <2>. HIDE DEF f, taken, group
    <2>4. Cardinality(taken(h)) = Cardinality(group(h))
      BY <1>4, <2>1, <2>2, <2>3, NoLarger
    <2>. QED
      BY <2>4 DEF taken, group, Taken, Group
  <1>9. CASE missed # {}
    <2>1. missed \subseteq Nat
      OBVIOUS
    <2>2. PICK v \in missed : \A w \in missed : v <= w
      <3>. HIDE DEF missed
      <3>. QED
        BY <1>9, <2>1, LeastNat
    <2>3. v \in 1 .. n /\ key[sorted[v]] = h
      OBVIOUS
    <2>4. PICK k \in 1 .. n : order[k] = v
      BY <1>1, <2>3
    <2>. DEFINE earlier == {j \in 1 .. v - 1 : key[sorted[j]] = key[sorted[v]]}
    <2>5. round[v] = Cardinality(earlier) /\ round[v] \in Nat
      BY <1>7, <1>5
    <2>6. k > q
      BY <2>2, <2>4
    <2>7. Cardinality(earlier) <= Cardinality(taken(h))
      <3>. DEFINE place == [j \in earlier |-> CHOOSE i \in 1 .. q : order[i] = j]
      <3>1. \A j \in earlier : place[j] \in taken(h) /\ order[place[j]] = j
        <4>. SUFFICES ASSUME NEW j \in earlier
                      PROVE  place[j] \in taken(h) /\ order[place[j]] = j
          OBVIOUS
        <4>1. j \in group(h) /\ j < v /\ v \in Nat
          <5>1. j \in 1 .. v - 1 /\ key[sorted[j]] = key[sorted[v]]
            OBVIOUS
          <5>2. j \in 1 .. n /\ j < v /\ v \in Nat
            BY ONLY <1>2, <2>3, <5>1
          <5>. QED
            BY <5>1, <5>2, <2>3
        <4>2. j \notin missed
          <5>. HIDE DEF missed, group, earlier
          <5>. QED
            BY <2>2, <4>1, n \in Nat DEF group
        <4>3. \E i \in 1 .. q : order[i] = j
          BY <4>1, <4>2
        <4>. QED
          BY <4>1, <4>3
      <3>2. place \in [earlier -> taken(h)] /\ \A x, y \in earlier : place[x] = place[y] => x = y
        BY <3>1
      <3>. HIDE DEF place, taken, earlier
      <3>. QED
        BY <1>4, <3>2, NoLarger
    <2>8. Cardinality(taken(g)) <= round[v] + 1
      <3>. DEFINE f == [i \in taken(g) |-> round[order[i]]]
      <3>1. \A i \in taken(g) : round[order[i]] \in 0 .. round[v]
        <4>. SUFFICES ASSUME NEW i \in taken(g) PROVE round[order[i]] \in 0 .. round[v]
          OBVIOUS
        <4>1. i \in 1 .. n /\ i < k /\ order[i] \in 1 .. n
          <5>1. i \in 1 .. q
            OBVIOUS
          <5>. QED
            BY ONLY <1>2, <2>6, <5>1, k \in 1 .. n
        <4>2. round[order[i]] < round[v] \/ round[order[i]] = round[v]
          BY <1>6, <2>4, <4>1
        <4>. QED
          BY ONLY <1>5, <2>5, <4>1, <4>2
      <3>2. \A x, y \in taken(g) : f[x] = f[y] => x = y
        <4>. SUFFICES ASSUME NEW x \in taken(g), NEW y \in taken(g),
                             round[order[x]] = round[order[y]]
                      PROVE  x = y
          OBVIOUS
        <4>1. key[sorted[order[x]]] = g /\ key[sorted[order[y]]] = g
          OBVIOUS
        <4>2. x \in 1 .. n /\ y \in 1 .. n /\ order[x] \in 1 .. n /\ order[y] \in 1 .. n
          BY <1>2
        <4>3. ~ (order[x] < order[y]) /\ ~ (order[y] < order[x])
          <5>. DEFINE a == order[x]
                      b == order[y]
          <5>1. /\ a \in 1 .. n /\ b \in 1 .. n /\ round[a] = round[b]
                /\ key[sorted[a]] = key[sorted[b]]
            BY <4>1, <4>2
          <5>. HIDE DEF a, b
          <5>2. ASSUME a < b PROVE FALSE
            <6>1. round[a] < round[b]
              BY ONLY <1>5, <5>1, <5>2
            <6>. QED
              BY ONLY <1>5, <5>1, <6>1
          <5>3. ASSUME b < a PROVE FALSE
            <6>1. round[b] < round[a]
              BY ONLY <1>5, <5>1, <5>3
            <6>. QED
              BY ONLY <1>5, <5>1, <6>1
          <5>. QED
            BY <5>2, <5>3 DEF a, b
        <4>4. order[x] = order[y]
          BY ONLY <1>2, <4>2, <4>3
        <4>. QED
          BY ONLY <1>2, <4>2, <4>4
      <3>3. IsFiniteSet(0 .. round[v]) /\ Cardinality(0 .. round[v]) = round[v] + 1
        BY <2>5, FS_Interval
      <3>4. f \in [taken(g) -> 0 .. round[v]]
        BY <3>1
      <3>. DEFINE rounds == 0 .. round[v]
      <3>5. IsFiniteSet(rounds) /\ f \in [taken(g) -> rounds] /\ Cardinality(rounds) = round[v] + 1
        BY <3>3, <3>4
      <3>. HIDE DEF f, taken, rounds
      <3>. QED
        <4>1. Cardinality(taken(g)) <= Cardinality(rounds)
          BY <3>2, <3>5, NoLarger, Zenon
        <4>. QED
          BY <3>5, <4>1
    <2>9. Cardinality(taken(g)) \in Nat /\ Cardinality(taken(h)) \in Nat
      BY <1>4, FS_CardinalityType
    <2>. HIDE DEF taken, earlier
    <2>10. Cardinality(taken(g)) <= Cardinality(taken(h)) + 1
      BY <2>5, <2>7, <2>8, <2>9
    <2>. QED
      BY <2>10 DEF taken, Taken
  <1>. QED
    BY <1>8, <1>9 DEF Taken, Group

-----------------------------------------------------------------------------
\* seq lists every member of S once.
Enumerates(seq, S) ==
    /\ Cardinality(S) \in Nat
    /\ seq \in [1 .. Cardinality(S) -> S]
    /\ \A i, j \in 1 .. Cardinality(S) : seq[i] = seq[j] => i = j
    /\ \A x \in S : \E i \in 1 .. Cardinality(S) : seq[i] = x

LEMMA RoundRobinEnumerates ==
    ASSUME NEW S, IsFiniteSet(S), NEW before, OrdersAll(before, S), NEW key,
           \A x \in S : key[x] \in Int
    PROVE  Enumerates(RoundRobin(Sorted(S, before), key), S)
  <1>. DEFINE n == Cardinality(S)
              sorted == Sorted(S, before)
  <1>1. /\ n \in Nat /\ sorted \in [1 .. n -> S]
        /\ \A i, j \in 1 .. n : sorted[i] = sorted[j] => i = j
        /\ \A x \in S : \E i \in 1 .. n : sorted[i] = x
    BY SortedEnumerates, Zenon
  <1>. HIDE DEF n, sorted
  <1>2. \A i \in 1 .. n : key[sorted[i]] \in Int
    BY <1>1
  <1>3. PICK order \in [1 .. n -> 1 .. n] :
             /\ RoundRobin(sorted, key) = [k \in 1 .. n |-> sorted[order[k]]]
             /\ \A i, j \in 1 .. n : order[i] = order[j] => i = j
             /\ \A i \in 1 .. n : \E k \in 1 .. n : order[k] = i
             /\ \A i, j \in 1 .. n : i < j => <<order[i], order[j]>> \in Turns(sorted, key)
    BY <1>1, <1>2, RoundRobinTakesAll, Zenon
  <1>4. /\ order \in [1 .. n -> 1 .. n]
        /\ \A i, j \in 1 .. n : order[i] = order[j] => i = j
        /\ \A i \in 1 .. n : \E k \in 1 .. n : order[k] = i
    BY <1>3
  <1>. DEFINE rr == RoundRobin(sorted, key)
  <1>5. rr \in [1 .. n -> S]
    BY <1>1, <1>3, <1>4
  <1>6. \A i, j \in 1 .. n : rr[i] = rr[j] => i = j
    <2>. SUFFICES ASSUME NEW i \in 1 .. n, NEW j \in 1 .. n, rr[i] = rr[j] PROVE i = j
      OBVIOUS
    <2>1. sorted[order[i]] = sorted[order[j]] /\ order[i] \in 1 .. n /\ order[j] \in 1 .. n
      BY <1>3, <1>4
    <2>2. order[i] = order[j]
      BY ONLY <1>1, <2>1
    <2>. QED
      BY <1>4, <2>2
  <1>7. ASSUME NEW x \in S PROVE \E k \in 1 .. n : rr[k] = x
    <2>1. PICK i \in 1 .. n : sorted[i] = x
      BY <1>1
    <2>2. PICK k \in 1 .. n : order[k] = i
      BY <1>4
    <2>3. rr[k] = x
      BY <1>3, <2>1, <2>2
    <2>. QED
      BY <2>3
  <1>. HIDE DEF rr
  <1>. QED
    BY <1>1, <1>5, <1>6, <1>7 DEF Enumerates, rr, n, sorted

\* Inside a group the turns follow the order the group was sorted in.
LEMMA RoundRobinKeepsOrder ==
    ASSUME NEW S, IsFiniteSet(S), NEW before, OrdersAll(before, S), NEW key,
           \A x \in S : key[x] \in Int,
           NEW i \in 1 .. Cardinality(S), NEW j \in 1 .. Cardinality(S),
           LET taken == RoundRobin(Sorted(S, before), key)
           IN  key[taken[i]] = key[taken[j]] /\ <<taken[i], taken[j]>> \in before
    PROVE  i < j
  <1>. DEFINE n == Cardinality(S)
              sorted == Sorted(S, before)
  <1>1. /\ n \in Nat /\ sorted \in [1 .. n -> S]
        /\ \A a, b \in 1 .. n : a < b => <<sorted[a], sorted[b]>> \in before
    BY SortedEnumerates, Zenon
  <1>2. i \in 1 .. n /\ j \in 1 .. n
    OBVIOUS
  <1>3. /\ key[RoundRobin(sorted, key)[i]] = key[RoundRobin(sorted, key)[j]]
        /\ <<RoundRobin(sorted, key)[i], RoundRobin(sorted, key)[j]>> \in before
    OBVIOUS
  <1>. HIDE DEF n, sorted
  <1>4. \A a \in 1 .. n : key[sorted[a]] \in Int
    BY <1>1
  <1>5. PICK order \in [1 .. n -> 1 .. n] :
             /\ RoundRobin(sorted, key) = [k \in 1 .. n |-> sorted[order[k]]]
             /\ \A a, b \in 1 .. n : a < b => <<order[a], order[b]>> \in Turns(sorted, key)
    BY <1>1, <1>4, RoundRobinTakesAll, Zenon
  <1>. DEFINE a == order[i]
              b == order[j]
  <1>6. /\ a \in 1 .. n /\ b \in 1 .. n /\ sorted[a] \in S /\ sorted[b] \in S
        /\ RoundRobin(sorted, key)[i] = sorted[a] /\ RoundRobin(sorted, key)[j] = sorted[b]
    BY <1>1, <1>2, <1>5
  <1>7. /\ key[sorted[a]] = key[sorted[b]] /\ <<sorted[a], sorted[b]>> \in before
    BY <1>3, <1>6
  <1>8. j < i => <<b, a>> \in Turns(sorted, key)
    BY <1>2, <1>5
  <1>. HIDE DEF a, b
  <1>9. a < b
    <2>1. ~ (b < a)
      BY <1>1, <1>6, <1>7 DEF OrdersAll
    <2>2. a # b
      BY <1>6, <1>7 DEF OrdersAll
    <2>. QED
      BY <1>6, <2>1, <2>2
  <1>10. /\ Rank(a, sorted, key) < Rank(b, sorted, key)
         /\ Rank(a, sorted, key) \in Int /\ Rank(b, sorted, key) \in Int
    <2>1. DOMAIN sorted = 1 .. n
      BY <1>1
    <2>2. /\ \A k \in 1 .. n : Rank(k, sorted, key) \in 0 .. k - 1
          /\ \A k, l \in 1 .. n : k < l /\ key[sorted[k]] = key[sorted[l]]
                => Rank(k, sorted, key) < Rank(l, sorted, key)
      BY <1>1, <2>1, RankInGroup, Zenon
    <2>. QED
      BY <1>6, <1>7, <1>9, <2>2
  <1>11. <<b, a>> \notin Turns(sorted, key)
    BY <1>10 DEF Turns
  <1>12. i # j
    BY <1>9, <1>6 DEF a, b
  <1>. QED
    BY <1>2, <1>8, <1>11, <1>12
=============================================================================
