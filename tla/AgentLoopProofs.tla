-------------------------- MODULE AgentLoopProofs --------------------------
(***************************************************************************)
(* Theorems about AgentLoop and TokenLayer, for every number of steps,     *)
(* every choice of faults and every cut of the messages into tokens.       *)
(***************************************************************************)
EXTENDS TokenLayer, SequenceTheorems, TLAPS
LOCAL Selecting == INSTANCE SelectionProofs

-----------------------------------------------------------------------------
\* Joining: FlattenSeq of a sequence of sequences.

\* Induction over the naturals, for a set in place of a predicate.
LEMMA Induct ==
    ASSUME NEW T, 0 \in T, \A n \in Nat : n \in T => n + 1 \in T
    PROVE  Nat \subseteq T
  <1>. SUFFICES ASSUME Nat \ T # {} PROVE FALSE
    OBVIOUS
  <1>1. PICK n \in Nat \ T : \A m \in Nat \ T : n <= m
    BY Selecting!LeastNat
  <1>. QED
    BY <1>1, n - 1 \in Nat

\* The recursive function of FlattenSeq: what the first i sequences of s join to.
Joins(f, s, n) == f = [i \in 1 .. n |-> IF i = 1 THEN s[i] ELSE f[i - 1] \o s[i]]

LEMMA JoinsExist ==
    ASSUME NEW s, NEW n \in Nat
    PROVE  \E f : Joins(f, s, n)
  <1>. DEFINE T == {k \in Nat : \E f : Joins(f, s, k)}
  <1>1. 0 \in T
    <2>1. Joins([i \in 1 .. 0 |-> s[i]], s, 0)
      BY DEF Joins
    <2>. QED
      BY <2>1
  <1>2. ASSUME NEW k \in Nat, k \in T PROVE k + 1 \in T
    <2>1. PICK f : Joins(f, s, k)
      BY <1>2
    <2>0. \A i \in 1 .. k : f[i] = IF i = 1 THEN s[i] ELSE f[i - 1] \o s[i]
      BY <2>1 DEF Joins
    <2>. DEFINE g == [i \in 1 .. k + 1 |-> IF i <= k THEN f[i]
                                           ELSE IF i = 1 THEN s[i] ELSE f[i - 1] \o s[i]]
    <2>2. ASSUME NEW i \in 1 .. k + 1
          PROVE  g[i] = IF i = 1 THEN s[i] ELSE g[i - 1] \o s[i]
      <3>1. CASE i <= k
        <4>1. i = 1 \/ (i - 1 \in 1 .. k + 1 /\ i - 1 <= k)
          OBVIOUS
        <4>2. f[i] = IF i = 1 THEN s[i] ELSE f[i - 1] \o s[i]
          <5>1. i \in 1 .. k
            BY <3>1
          <5>. QED
            BY <2>0, <5>1, Zenon
        <4>3. g[i] = f[i] /\ (i # 1 => g[i - 1] = f[i - 1])
          BY <3>1, <4>1
        <4>. QED
          BY ONLY <4>2, <4>3
      <3>2. CASE i = k + 1
        <4>1. i = 1 \/ (i - 1 \in 1 .. k + 1 /\ i - 1 <= k)
          BY <3>2
        <4>. QED
          BY <3>2, <4>1
      <3>. QED
        BY <3>1, <3>2
    <2>3. g = [i \in 1 .. k + 1 |-> g[i]]
      OBVIOUS
    <2>4. Joins(g, s, k + 1)
      <3>. HIDE DEF g
      <3>. QED
        BY <2>2, <2>3 DEF Joins
    <2>. QED
      BY <2>4
  <1>3. Nat \subseteq T
    <2>. HIDE DEF T
    <2>. QED
      BY <1>1, <1>2, Induct
  <1>. QED
    BY <1>3

LEMMA FlattenJoins ==
    ASSUME NEW s, Len(s) \in Nat \ {0}
    PROVE  \E f : Joins(f, s, Len(s)) /\ FlattenSeq(s) = f[Len(s)]
  <1>. DEFINE f == CHOOSE g : Joins(g, s, Len(s))
  <1>1. Joins(f, s, Len(s))
    BY JoinsExist
  <1>2. FlattenSeq(s) = f[Len(s)]
    BY Zenon DEF FlattenSeq, Joins
  <1>. QED
    BY <1>1, <1>2

\* Two functions that join the same sequences are equal.
LEMMA JoinsAgree ==
    ASSUME NEW s, NEW t, NEW n \in Nat, NEW m \in Nat, m <= n, NEW f, NEW g,
           Joins(f, s, m), Joins(g, t, n), \A i \in 1 .. m : s[i] = t[i]
    PROVE  \A i \in 1 .. m : f[i] = g[i]
  <1>. DEFINE T == {k \in Nat : k \in 1 .. m => f[k] = g[k]}
  <1>1. \A i \in 1 .. m : f[i] = IF i = 1 THEN s[i] ELSE f[i - 1] \o s[i]
    BY DEF Joins
  <1>2. \A i \in 1 .. n : g[i] = IF i = 1 THEN t[i] ELSE g[i - 1] \o t[i]
    BY DEF Joins
  <1>3. ASSUME NEW k \in Nat, k \in T PROVE k + 1 \in T
    <2>. SUFFICES ASSUME k + 1 \in 1 .. m PROVE f[k + 1] = g[k + 1]
      OBVIOUS
    <2>1. k = 0 \/ f[k] = g[k]
      BY <1>3
    <2>2. /\ f[k + 1] = IF k = 0 THEN s[k + 1] ELSE f[k] \o s[k + 1]
          /\ g[k + 1] = IF k = 0 THEN t[k + 1] ELSE g[k] \o t[k + 1]
          /\ s[k + 1] = t[k + 1]
      <3>1. k + 1 \in 1 .. m /\ k + 1 \in 1 .. n /\ (k + 1 = 1 <=> k = 0) /\ (k + 1) - 1 = k
        OBVIOUS
      <3>. QED
        BY <1>1, <1>2, <3>1
    <2>. QED
      BY <2>1, <2>2
  <1>4. 0 \in T
    OBVIOUS
  <1>5. Nat \subseteq T
    <2>. HIDE DEF T
    <2>. QED
      BY <1>3, <1>4, Induct
  <1>. QED
    BY <1>5

LEMMA FlattenNone == FlattenSeq(<< >>) = << >>
  BY DEF FlattenSeq

LEMMA FlattenOneMore ==
    ASSUME NEW S, NEW s \in Seq(Seq(S)), NEW x \in Seq(S)
    PROVE  FlattenSeq(Append(s, x)) = IF s = << >> THEN x ELSE FlattenSeq(s) \o x
  <1>. DEFINE n == Len(s)
              t == Append(s, x)
  <1>1. n \in Nat /\ Len(t) = n + 1 /\ t[n + 1] = x /\ \A i \in 1 .. n : s[i] = t[i]
    OBVIOUS
  <1>2. s = << >> <=> n = 0
    OBVIOUS
  <1>. HIDE DEF n, t
  <1>3. PICK g : Joins(g, t, n + 1) /\ FlattenSeq(t) = g[n + 1]
    BY <1>1, FlattenJoins
  <1>4. g[n + 1] = IF n = 0 THEN x ELSE g[n] \o x
    <2>1. \A i \in 1 .. n + 1 : g[i] = IF i = 1 THEN t[i] ELSE g[i - 1] \o t[i]
      BY <1>3 DEF Joins
    <2>2. n + 1 \in 1 .. n + 1 /\ (n + 1 = 1 <=> n = 0) /\ (n + 1) - 1 = n
      BY <1>1
    <2>. QED
      BY <1>1, <2>1, <2>2
  <1>5. CASE n # 0
    <2>1. PICK f : Joins(f, s, n) /\ FlattenSeq(s) = f[n]
      BY <1>1, <1>5, FlattenJoins DEF n
    <2>2. f[n] = g[n]
      <3>1. n + 1 \in Nat /\ n <= n + 1 /\ n \in 1 .. n
        BY <1>1, <1>5
      <3>2. \A i \in 1 .. n : f[i] = g[i]
        BY <1>1, <1>3, <2>1, <3>1, JoinsAgree, SMTT(30)
      <3>. QED
        BY <3>1, <3>2
    <2>. QED
      BY <1>2, <1>3, <1>4, <1>5, <2>1, <2>2 DEF t
  <1>. QED
    BY <1>2, <1>3, <1>4, <1>5 DEF t

\* s is the n elements of t, and then x.
Ends(s, t, n, x) == /\ s = Append(t, x) /\ Len(t) = n
                    /\ s[n + 1] = x /\ \A i \in 1 .. n : s[i] = t[i]
LEMMA LastOff ==
    ASSUME NEW X, NEW n \in Nat, NEW s \in Seq(X), Len(s) = n + 1
    PROVE  \E t \in Seq(X), x \in X : Ends(s, t, n, x)
  <1>1. PICK t \in Seq(X), x \in X : s = Append(t, x)
    BY SequenceEmptyOrAppend
  <1>2. Len(t) = n /\ s[n + 1] = x /\ \A i \in 1 .. n : s[i] = t[i]
    BY <1>1
  <1>. QED
    BY <1>1, <1>2 DEF Ends

LEMMA FlattenType ==
    ASSUME NEW S, NEW s \in Seq(Seq(S))
    PROVE  FlattenSeq(s) \in Seq(S)
  <1>. DEFINE T == {n \in Nat : \A t \in Seq(Seq(S)) : Len(t) = n => FlattenSeq(t) \in Seq(S)}
  <1>1. 0 \in T
    <2>. SUFFICES ASSUME NEW t \in Seq(Seq(S)), Len(t) = 0 PROVE FlattenSeq(t) \in Seq(S)
      OBVIOUS
    <2>1. t = << >> /\ << >> \in Seq(S)
      OBVIOUS
    <2>. QED
      BY ONLY <2>1, FlattenNone
  <1>2. ASSUME NEW n \in Nat, n \in T PROVE n + 1 \in T
    <2>. SUFFICES ASSUME NEW t \in Seq(Seq(S)), Len(t) = n + 1 PROVE FlattenSeq(t) \in Seq(S)
      OBVIOUS
    <2>0. t # << >>
      OBVIOUS
    <2>1. PICK r \in Seq(Seq(S)), x \in Seq(S) : t = Append(r, x)
      BY <2>0, SequenceEmptyOrAppend
    <2>2. FlattenSeq(r) \in Seq(S)
      BY <1>2, <2>1
    <2>3. FlattenSeq(r) \o x \in Seq(S)
      BY <2>1, <2>2
    <2>. QED
      BY <2>1, <2>3, FlattenOneMore
  <1>3. Nat \subseteq T
    <2>. HIDE DEF T
    <2>. QED
      BY <1>1, <1>2, Induct
  <1>. QED
    BY <1>3, LenProperties

\* w is f, and x after it.
Continues(w, f, x) ==
    /\ Len(f) \in Nat /\ Len(x) \in Nat /\ Len(w) = Len(f) + Len(x)
    /\ \A k \in 1 .. Len(f) : w[k] = f[k]
    /\ \A k \in 1 .. Len(x) : w[Len(f) + k] = x[k]

LEMMA FlattenAppend ==
    ASSUME NEW S, NEW s \in Seq(Seq(S)), NEW x \in Seq(S)
    PROVE  /\ FlattenSeq(Append(s, x)) = FlattenSeq(s) \o x
           /\ Continues(FlattenSeq(Append(s, x)), FlattenSeq(s), x)
  <1>1. FlattenSeq(s) \in Seq(S)
    BY FlattenType
  <1>2. FlattenSeq(Append(s, x)) = FlattenSeq(s) \o x
    BY FlattenOneMore, FlattenNone, ConcatEmptySeq
  <1>. DEFINE f == FlattenSeq(s)
  <1>. HIDE DEF f
  <1>3. f \in Seq(S)
    BY <1>1 DEF f
  <1>4. Continues(f \o x, f, x)
    BY <1>3 DEF Continues
  <1>. QED
    BY <1>2, <1>4 DEF f

\* Sequences cut alike stay aligned when they are joined.
Alike(s, t) == Len(s) = Len(t) /\ \A i \in 1 .. Len(s) : Len(s[i]) = Len(t[i])
Aligned(s, t) ==
    /\ Len(FlattenSeq(s)) = Len(FlattenSeq(t))
    /\ \A k \in 1 .. Len(FlattenSeq(s)) :
         \E i \in 1 .. Len(s) : \E j \in 1 .. Len(s[i]) :
             FlattenSeq(s)[k] = s[i][j] /\ FlattenSeq(t)[k] = t[i][j]

LEMMA AlignedStill ==
    ASSUME NEW S, NEW R, NEW s \in Seq(Seq(S)), NEW t \in Seq(Seq(R)),
           NEW x \in Seq(S), NEW y \in Seq(R), Len(s) = Len(t), Aligned(s, t), Len(x) = Len(y)
    PROVE  Aligned(Append(s, x), Append(t, y))
  <1>. DEFINE u == Append(s, x)
              v == Append(t, y)
              m == Len(FlattenSeq(s))
  <1>1. /\ m \in Nat /\ Len(x) \in Nat /\ Len(FlattenSeq(u)) = m + Len(x)
        /\ \A k \in 1 .. m : FlattenSeq(u)[k] = FlattenSeq(s)[k]
        /\ \A k \in 1 .. Len(x) : FlattenSeq(u)[m + k] = x[k]
    <2>1. Continues(FlattenSeq(u), FlattenSeq(s), x)
      BY FlattenAppend
    <2>. HIDE DEF u
    <2>. QED
      BY <2>1 DEF Continues
  <1>2. /\ Len(FlattenSeq(v)) = m + Len(x)
        /\ \A k \in 1 .. m : FlattenSeq(v)[k] = FlattenSeq(t)[k]
        /\ \A k \in 1 .. Len(x) : FlattenSeq(v)[m + k] = y[k]
    <2>1. m = Len(FlattenSeq(t)) /\ Len(x) = Len(y)
      BY DEF Aligned
    <2>2. /\ Len(FlattenSeq(v)) = Len(FlattenSeq(t)) + Len(y)
          /\ \A k \in 1 .. Len(FlattenSeq(t)) : FlattenSeq(v)[k] = FlattenSeq(t)[k]
          /\ \A k \in 1 .. Len(y) : FlattenSeq(v)[Len(FlattenSeq(t)) + k] = y[k]
      <3>1. Continues(FlattenSeq(v), FlattenSeq(t), y)
        BY FlattenAppend
      <3>. HIDE DEF v
      <3>. QED
        BY <3>1 DEF Continues
    <2>. HIDE DEF m, v
    <2>. QED
      BY <2>1, <2>2
  <1>3. /\ Len(u) = Len(s) + 1 /\ Len(s) \in Nat /\ u[Len(s) + 1] = x /\ v[Len(s) + 1] = y
        /\ \A i \in 1 .. Len(s) : u[i] = s[i] /\ v[i] = t[i]
    OBVIOUS
  <1>4. \A k \in 1 .. m : \E i \in 1 .. Len(s) : \E j \in 1 .. Len(s[i]) :
            FlattenSeq(s)[k] = s[i][j] /\ FlattenSeq(t)[k] = t[i][j]
    BY DEF Aligned
  <1>. HIDE DEF u, v, m
  <1>5. ASSUME NEW k \in 1 .. m + Len(x)
        PROVE  \E i \in 1 .. Len(u) : \E j \in 1 .. Len(u[i]) :
                   FlattenSeq(u)[k] = u[i][j] /\ FlattenSeq(v)[k] = v[i][j]
    <2>1. CASE k \in 1 .. m
      <3>1. PICK i \in 1 .. Len(s) : \E j \in 1 .. Len(s[i]) :
                 FlattenSeq(s)[k] = s[i][j] /\ FlattenSeq(t)[k] = t[i][j]
        BY <1>4, <2>1
      <3>2. PICK j \in 1 .. Len(s[i]) : FlattenSeq(s)[k] = s[i][j] /\ FlattenSeq(t)[k] = t[i][j]
        BY <3>1
      <3>3. i \in 1 .. Len(u) /\ u[i] = s[i] /\ v[i] = t[i]
        BY <1>3
      <3>4. FlattenSeq(u)[k] = FlattenSeq(s)[k] /\ FlattenSeq(v)[k] = FlattenSeq(t)[k]
        BY <1>1, <1>2, <2>1
      <3>. QED
        BY <3>2, <3>3, <3>4, Zenon
    <2>2. CASE k \notin 1 .. m
      <3>1. PICK j \in 1 .. Len(x) : k = m + j
        <4>1. k - m \in 1 .. Len(x) /\ k = m + (k - m)
          BY <1>1, <2>2
        <4>. QED
          BY <4>1, Zenon
      <3>2. FlattenSeq(u)[k] = x[j] /\ FlattenSeq(v)[k] = y[j]
        BY <1>1, <1>2, <3>1
      <3>3. Len(s) + 1 \in 1 .. Len(u)
        BY <1>3
      <3>. QED
        BY <1>3, <3>2, <3>3
    <2>. QED
      BY <2>1, <2>2
  <1>. QED
    BY <1>1, <1>2, <1>5 DEF Aligned, u, v

LEMMA FlattenTogether ==
    ASSUME NEW S, NEW R, NEW s \in Seq(Seq(S)), NEW t \in Seq(Seq(R)), Alike(s, t)
    PROVE  Aligned(s, t)
  <1>. DEFINE T == {n \in Nat : \A u \in Seq(Seq(S)), v \in Seq(Seq(R)) :
                        Len(u) = n /\ Alike(u, v) => Aligned(u, v)}
  <1>1. 0 \in T
    <2>. SUFFICES ASSUME NEW u \in Seq(Seq(S)), NEW v \in Seq(Seq(R)), Len(u) = 0, Alike(u, v)
                  PROVE  Aligned(u, v)
      OBVIOUS
    <2>1. u = << >> /\ v = << >>
      BY DEF Alike
    <2>. QED
      BY <2>1, FlattenNone DEF Aligned
  <1>2. ASSUME NEW n \in Nat, n \in T PROVE n + 1 \in T
    <2>. SUFFICES ASSUME NEW u \in Seq(Seq(S)), NEW v \in Seq(Seq(R)), Len(u) = n + 1, Alike(u, v)
                  PROVE  Aligned(u, v)
      OBVIOUS
    <2>. HIDE DEF T
    <2>0. u # << >> /\ v # << >>
      BY DEF Alike
    <2>1. PICK a \in Seq(Seq(S)), x \in Seq(S) : u = Append(a, x)
      BY <2>0, SequenceEmptyOrAppend, Zenon
    <2>2. PICK b \in Seq(Seq(R)), y \in Seq(R) : v = Append(b, y)
      BY <2>0, SequenceEmptyOrAppend, Zenon
    <2>3. /\ Len(a) = n /\ u[n + 1] = x /\ \A i \in 1 .. n : u[i] = a[i]
          /\ Len(b) = n /\ v[n + 1] = y /\ \A i \in 1 .. n : v[i] = b[i]
      BY <2>1, <2>2 DEF Alike
    <2>4. Alike(a, b) /\ Len(x) = Len(y)
      BY <2>3 DEF Alike
    <2>5. Aligned(a, b)
      BY <1>2, <2>3, <2>4 DEF T
    <2>. QED
      BY <2>1, <2>2, <2>3, <2>4, <2>5, AlignedStill
  <1>3. Nat \subseteq T
    <2>. HIDE DEF T
    <2>. QED
      BY <1>1, <1>2, Induct
  <1>. QED
    BY <1>3, LenProperties

\* Joining is additive in the lengths.
Adds(s, t, r) ==
    /\ Len(s) = Len(t) /\ Len(s) = Len(r)
    /\ \A i \in 1 .. Len(s) : Len(s[i]) = Len(t[i]) + Len(r[i])
LEMMA FlattenApart ==
    ASSUME NEW S, NEW s \in Seq(Seq(S)), NEW t \in Seq(Seq(S)), NEW r \in Seq(Seq(S)), Adds(s, t, r)
    PROVE  Len(FlattenSeq(s)) = Len(FlattenSeq(t)) + Len(FlattenSeq(r))
  <1>. DEFINE T == {n \in Nat : \A u, v, w \in Seq(Seq(S)) : Len(u) = n /\ Adds(u, v, w) =>
                        Len(FlattenSeq(u)) = Len(FlattenSeq(v)) + Len(FlattenSeq(w))}
  <1>1. 0 \in T
    <2>. SUFFICES ASSUME NEW u \in Seq(Seq(S)), NEW v \in Seq(Seq(S)), NEW w \in Seq(Seq(S)),
                         Len(u) = 0, Adds(u, v, w)
                  PROVE  Len(FlattenSeq(u)) = Len(FlattenSeq(v)) + Len(FlattenSeq(w))
      OBVIOUS
    <2>1. Len(v) = 0 /\ Len(w) = 0
      BY DEF Adds
    <2>2. u = << >> /\ v = << >> /\ w = << >>
      BY <2>1, EmptySeq
    <2>. QED
      BY <2>2, FlattenNone
  <1>2. ASSUME NEW n \in Nat, n \in T PROVE n + 1 \in T
    <2>. SUFFICES ASSUME NEW u \in Seq(Seq(S)), NEW v \in Seq(Seq(S)), NEW w \in Seq(Seq(S)),
                         Len(u) = n + 1, Adds(u, v, w)
                  PROVE  Len(FlattenSeq(u)) = Len(FlattenSeq(v)) + Len(FlattenSeq(w))
      OBVIOUS
    <2>. HIDE DEF T
    <2>0. Len(v) = n + 1 /\ Len(w) = n + 1
      BY DEF Adds
    <2>1. PICK a \in Seq(Seq(S)), x \in Seq(S) : Ends(u, a, n, x)
      BY LastOff
    <2>2. PICK b \in Seq(Seq(S)), y \in Seq(S) : Ends(v, b, n, y)
      BY <2>0, LastOff
    <2>3. PICK c \in Seq(Seq(S)), z \in Seq(S) : Ends(w, c, n, z)
      BY <2>0, LastOff
    <2>5. Adds(a, b, c) /\ Len(x) = Len(y) + Len(z)
      <3>1. n + 1 \in 1 .. Len(u) /\ \A i \in 1 .. n : i \in 1 .. Len(u)
        OBVIOUS
      <3>2. \A i \in 1 .. Len(u) : Len(u[i]) = Len(v[i]) + Len(w[i])
        BY DEF Adds
      <3>3. \A i \in 1 .. n : Len(a[i]) = Len(b[i]) + Len(c[i])
        BY <2>1, <2>2, <2>3, <3>1, <3>2 DEF Ends
      <3>. QED
        BY <2>1, <2>2, <2>3, <3>1, <3>2, <3>3 DEF Adds, Ends
    <2>6. Len(FlattenSeq(a)) = Len(FlattenSeq(b)) + Len(FlattenSeq(c))
      BY <1>2, <2>1, <2>5 DEF T, Ends
    <2>7. /\ Continues(FlattenSeq(u), FlattenSeq(a), x)
          /\ Continues(FlattenSeq(v), FlattenSeq(b), y)
          /\ Continues(FlattenSeq(w), FlattenSeq(c), z)
      BY <2>1, <2>2, <2>3, FlattenAppend DEF Ends
    <2>. QED
      BY <2>5, <2>6, <2>7 DEF Continues
  <1>3. Nat \subseteq T
    <2>. HIDE DEF T
    <2>. QED
      BY <1>1, <1>2, Induct
  <1>. QED
    BY <1>3, LenProperties

\* Where one of the sequences is in the join: after all that come before it.
Cut(s, i) == [j \in 1 .. Len(s) |-> IF j < i THEN s[j] ELSE << >>]
Found(s, i) ==
    LET b == Len(FlattenSeq(Cut(s, i)))
    IN  /\ b \in Nat /\ b + Len(s[i]) <= Len(FlattenSeq(s))
        /\ \A j \in 1 .. Len(s[i]) : FlattenSeq(s)[b + j] = s[i][j]

LEMMA CutMore ==
    ASSUME NEW S, NEW s \in Seq(Seq(S)), NEW x \in Seq(S), NEW i \in 1 .. Len(s) + 1
    PROVE  /\ Cut(s, i) \in Seq(Seq(S)) /\ << >> \in Seq(S)
           /\ Cut(Append(s, x), i) = Append(Cut(s, i), << >>)
           /\ i = Len(s) + 1 => Cut(s, i) = s
  <1>1. \A j \in 1 .. Len(s) : (IF j < i THEN s[j] ELSE << >>) \in Seq(S)
    OBVIOUS
  <1>2. Cut(s, i) \in Seq(Seq(S)) /\ Len(Cut(s, i)) = Len(s)
    BY <1>1 DEF Cut
  <1>3. /\ Cut(Append(s, x), i) \in Seq(Seq(S)) /\ Len(Cut(Append(s, x), i)) = Len(s) + 1
        /\ \A j \in 1 .. Len(s) : Cut(Append(s, x), i)[j] = IF j < i THEN s[j] ELSE << >>
        /\ Cut(Append(s, x), i)[Len(s) + 1] = << >>
    <2>. DEFINE t == Append(s, x)
    <2>1. /\ t \in Seq(Seq(S)) /\ Len(t) = Len(s) + 1 /\ Len(s) \in Nat
          /\ \A j \in 1 .. Len(s) : t[j] = s[j]
      OBVIOUS
    <2>. HIDE DEF t
    <2>2. \A j \in 1 .. Len(s) + 1 : (IF j < i THEN t[j] ELSE << >>) \in Seq(S)
      BY <2>1
    <2>3. Cut(t, i) \in Seq(Seq(S)) /\ Len(Cut(t, i)) = Len(s) + 1
      BY <2>1, <2>2 DEF Cut
    <2>. QED
      BY <2>1, <2>3 DEF Cut, t
  <1>4. << >> \in Seq(S)
    OBVIOUS
  <1>5. Cut(Append(s, x), i) = Append(Cut(s, i), << >>)
    <2>. DEFINE c == Append(Cut(s, i), << >>)
    <2>1. /\ c \in Seq(Seq(S)) /\ Len(c) = Len(s) + 1 /\ c[Len(s) + 1] = << >>
          /\ \A j \in 1 .. Len(s) : c[j] = Cut(s, i)[j]
      BY <1>2, <1>4
    <2>2. \A j \in 1 .. Len(s) : Cut(s, i)[j] = IF j < i THEN s[j] ELSE << >>
      BY DEF Cut
    <2>. HIDE DEF c
    <2>3. \A j \in 1 .. Len(s) + 1 : Cut(Append(s, x), i)[j] = c[j]
      <3>1. \A j \in 1 .. Len(s) + 1 : j \in 1 .. Len(s) \/ j = Len(s) + 1
        OBVIOUS
      <3>2. \A j \in 1 .. Len(s) : Cut(Append(s, x), i)[j] = c[j]
        BY <1>3, <2>1, <2>2, Zenon
      <3>. QED
        BY <1>3, <2>1, <3>1, <3>2, Zenon
    <2>. DEFINE d == Cut(Append(s, x), i)
    <2>. HIDE DEF d
    <2>4. d = c
      BY <1>3, <2>1, <2>3, SeqEqual DEF d
    <2>. QED
      BY <2>4 DEF c, d
  <1>6. ASSUME i = Len(s) + 1 PROVE Cut(s, i) = s
    BY <1>2, <1>6 DEF Cut
  <1>. QED
    BY <1>2, <1>4, <1>5, <1>6

LEMMA FlattenPiece ==
    ASSUME NEW S, NEW s \in Seq(Seq(S)), NEW i \in 1 .. Len(s)
    PROVE  Found(s, i)
  <1>. DEFINE T == {n \in Nat : \A u \in Seq(Seq(S)) : Len(u) = n =>
                                    \A k \in 1 .. n : Found(u, k)}
  <1>1. 0 \in T
    OBVIOUS
  <1>2. ASSUME NEW n \in Nat, n \in T PROVE n + 1 \in T
    <2>. SUFFICES ASSUME NEW u \in Seq(Seq(S)), Len(u) = n + 1, NEW k \in 1 .. n + 1
                  PROVE  Found(u, k)
      OBVIOUS
    <2>. HIDE DEF T
    <2>1. PICK a \in Seq(Seq(S)), x \in Seq(S) : Ends(u, a, n, x)
      BY LastOff
    <2>. DEFINE before == FlattenSeq(Cut(a, k))
                joined == FlattenSeq(a)
    <2>2. Continues(FlattenSeq(u), joined, x)
      BY <2>1, FlattenAppend DEF Ends
    <2>3. /\ Cut(a, k) \in Seq(Seq(S)) /\ << >> \in Seq(S)
          /\ Cut(u, k) = Append(Cut(a, k), << >>)
          /\ k = n + 1 => Cut(a, k) = a
      BY <2>1, CutMore DEF Ends
    <2>4. Continues(FlattenSeq(Cut(u, k)), before, << >>)
      BY <2>3, FlattenAppend
    <2>5. Len(FlattenSeq(Cut(u, k))) = Len(before)
      BY <2>4 DEF Continues
    <2>6. CASE k \in 1 .. n
      <3>1. Found(a, k) /\ u[k] = a[k] /\ Len(a[k]) \in Nat
        BY <1>2, <2>1, <2>6 DEF T, Ends
      <3>2. /\ Len(before) \in Nat /\ Len(before) + Len(u[k]) <= Len(joined)
            /\ \A j \in 1 .. Len(u[k]) : joined[Len(before) + j] = u[k][j]
        BY <3>1 DEF Found
      <3>. DEFINE b == Len(before)
                  m == Len(joined)
                  w == FlattenSeq(u)
                  piece == u[k]
      <3>. HIDE DEF before, joined
      <3>3. /\ Len(joined) \in Nat /\ Len(x) \in Nat /\ Len(w) = Len(joined) + Len(x)
            /\ \A j \in 1 .. Len(joined) : w[j] = joined[j]
        BY <2>2 DEF Continues
      <3>. HIDE DEF b, m, w, piece
      <3>4. b \in Nat /\ m \in Nat /\ Len(piece) \in Nat /\ b + Len(piece) <= m /\ m <= Len(w)
        BY ONLY <3>1, <3>2, <3>3 DEF b, m, piece
      <3>5. \A j \in 1 .. Len(piece) : b + j \in 1 .. m
        BY <3>4
      <3>6. \A j \in 1 .. Len(piece) : w[b + j] = piece[j]
        BY <3>2, <3>3, <3>5 DEF b, m, piece
      <3>7. Len(w) \in Int /\ b + Len(piece) <= Len(w)
        BY <3>3, <3>4
      <3>. QED
        BY <2>5, <3>4, <3>6, <3>7 DEF Found, b, w, piece
    <2>7. CASE k = n + 1
      <3>1. before = joined /\ u[k] = x
        BY <2>1, <2>3, <2>7 DEF Ends
      <3>. HIDE DEF before, joined
      <3>. QED
        BY <2>2, <2>5, <3>1 DEF Continues, Found
    <2>. QED
      BY <2>6, <2>7
  <1>3. Nat \subseteq T
    <2>. HIDE DEF T
    <2>. QED
      BY <1>1, <1>2, Induct
  <1>4. Len(s) \in T
    BY <1>3, LenProperties
  <1>. QED
    BY <1>4
-----------------------------------------------------------------------------

Messages == [role : {"system", "user", "assistant", "tool"}, id : Nat \cup {NoCall}, fin : BOOLEAN]
Turns == [message : Messages, finish : BOOLEAN, observed : BOOLEAN]
CallNames == {"create", "execute", "export", "destroy"}

VarsOK ==
    /\ pc \in {"create", "loop", "execute", "export", "destroy", "validate", "done"}
    /\ step \in 0 .. MaxSteps
    /\ chosen \in {"none", "tool", "finish"}
    /\ messages \in Seq(Messages) /\ turns \in Seq(Turns) /\ calls \in Seq(CallNames)
    /\ termination \in Reasons
    /\ patch \in {"None", "diff"}
    /\ interrupted \in BOOLEAN
    /\ outcome \in {"none", "returned", "invalid", "create_raised", "interrupted", "cut"}
    /\ env \in {"none", "live", "gone"}

\* How long the sequences are, by the place run has come to.
LengthsOK ==
    /\ Len(turns) <= step /\ Len(messages) <= 2 + 2 * step /\ Len(calls) <= step + 3
    /\ pc = "create" => step = 0 /\ Len(messages) = 2 /\ Len(calls) = 0 /\ env = "none"
    /\ pc = "loop" =>
         Len(turns) = step /\ Len(messages) = 2 + 2 * step /\ Len(calls) = 1 + step
    /\ pc = "execute" =>
         Len(turns) = step - 1 /\ Len(messages) = 1 + 2 * step /\ Len(calls) = step
    /\ pc = "export" => Len(calls) \in 1 .. 1 + step
    /\ pc = "destroy" => Len(calls) \in 2 .. 2 + step

\* No call of s ends the environment; none but a last export does; none but a
\* last export and the destroy that follows it does.
Open(s, n) == \A i \in 1 .. n : s[i] \notin {"export", "destroy"}
AllOpen(s) == Open(s, Len(s))
Exported(s) == Len(s) > 1 /\ Open(s, Len(s) - 1) /\ s[Len(s)] = "export"
Closed(s) ==
    /\ Len(s) > 2 /\ Open(s, Len(s) - 2)
    /\ s[Len(s) - 1] = "export" /\ s[Len(s)] = "destroy"

\* Where each is so: the finally block may have been cut short.
CallsOK ==
    /\ pc \in {"create", "loop", "execute", "export"} => AllOpen(calls)
    /\ pc = "destroy" => Exported(calls)
    /\ pc = "validate" => Closed(calls)
    /\ pc = "done" => \/ Closed(calls)
                      \/ (AllOpen(calls) \/ Exported(calls)) /\ (env = "none" \/ outcome = "cut")

\* What the turns tell, by where the loop is or why it stopped.
Observed(n) == \A i \in 1 .. n : turns[i].observed
Story ==
    /\ termination # "interrupted"
    /\ termination = "agent_finished" =>
         Len(turns) = step /\ step > 0 /\ turns[step].finish /\ Observed(step - 1)
    /\ termination = "max_steps_exceeded" => Len(turns) = MaxSteps /\ Observed(MaxSteps)
    /\ termination = "agent_error" => Len(turns) = step - 1 /\ Observed(step - 1)
StoryOK ==
    /\ pc \in {"create", "loop", "execute"} => Observed(Len(turns)) /\ ~ interrupted
    /\ pc \in {"export", "destroy", "validate"} => interrupted \/ Story
    /\ pc = "validate" => ~ interrupted
    /\ outcome = "returned" => pc = "done" /\ Story

AInv == VarsOK /\ LengthsOK /\ CallsOK /\ StoryOK

LEMMA InitOK == Init => AInv
  <1>. SUFFICES ASSUME Init PROVE AInv
    OBVIOUS
  <1>. USE DEF Init
  <1>1. System \in Messages /\ User \in Messages
    BY DEF Messages, System, User, Message
  <1>2. interrupted \in BOOLEAN
    BY Zenon
  <1>3. VarsOK
    BY <1>1, <1>2, ConstantsOK DEF VarsOK, Reasons
  <1>4. LengthsOK /\ CallsOK /\ StoryOK
    BY DEF LengthsOK, CallsOK, StoryOK, AllOpen, Open, Exported, Closed, Observed
  <1>. QED
    BY <1>3, <1>4 DEF AInv

\* The messages that the loop appends.
LEMMA Spoken ==
    ASSUME NEW id \in Nat, NEW fin \in BOOLEAN
    PROVE  Assistant(id, fin) \in Messages
  BY DEF Assistant, Message, Messages

LEMMA Answered ==
    ASSUME VarsOK, Len(messages) > 0
    PROVE  Last(messages) \in Messages /\ Tool(Last(messages).id) \in Messages
  <1>1. Last(messages) \in Messages
    BY DEF VarsOK, Last
  <1>. QED
    BY <1>1 DEF Tool, Message, Messages

\* What recording a turn does to the turns.
LEMMA Recorded ==
    ASSUME VarsOK, Len(messages) > 0, NEW seen \in BOOLEAN, Record(seen)
    PROVE  /\ turns' \in Seq(Turns) /\ Len(turns') = Len(turns) + 1
           /\ \A i \in 1 .. Len(turns) : turns'[i] = turns[i]
           /\ seen => turns'[Len(turns')].observed
           /\ chosen = "finish" => turns'[Len(turns')].finish
  <1>. DEFINE turn == Turn(Last(messages), chosen = "finish", seen)
  <1>1. turn \in Turns /\ turn.observed = seen
    BY Answered DEF Turn, Turns
  <1>2. turn.finish = (chosen = "finish")
    BY Zenon DEF Turn
  <1>3. turns' = Append(turns, turn) /\ turns \in Seq(Turns)
    BY DEF Record, VarsOK
  <1>. HIDE DEF turn
  <1>4. /\ turns' \in Seq(Turns) /\ Len(turns') = Len(turns) + 1
        /\ \A i \in 1 .. Len(turns) : turns'[i] = turns[i]
        /\ turns'[Len(turns')] = turn
    BY <1>1, <1>3
  <1>. QED
    BY <1>1, <1>2, <1>4, Zenon

\* What the three outcomes of execute do to the lists of run.
LEMMA Executed ==
    ASSUME VarsOK, LengthsOK, ExecuteTool \/ ExecuteFinish \/ ExecuteFails
    PROVE  /\ turns' \in Seq(Turns) /\ Len(turns') = Len(turns) + 1
           /\ \A i \in 1 .. Len(turns) : turns'[i] = turns[i]
           /\ ExecuteTool => turns'[Len(turns')].observed
           /\ chosen = "finish" => turns'[Len(turns')].finish
           /\ calls' \in Seq(CallNames) /\ Len(calls') = Len(calls) + 1
           /\ \A i \in 1 .. Len(calls) : calls'[i] = calls[i]
           /\ calls'[Len(calls')] = "execute"
           /\ messages' \in Seq(Messages)
           /\ ExecuteTool => Len(messages') = Len(messages) + 1
           /\ ~ ExecuteTool => messages' = messages
  <1>1. Len(messages) > 0
    <2>1. pc = "execute"
      BY DEF ExecuteTool, ExecuteFinish, ExecuteFails
    <2>. QED
      BY <2>1 DEF VarsOK, LengthsOK
  <1>2. PICK seen \in BOOLEAN : Record(seen) /\ (ExecuteTool => seen)
    BY Zenon DEF ExecuteTool, ExecuteFinish, ExecuteFails
  <1>3. /\ turns' \in Seq(Turns) /\ Len(turns') = Len(turns) + 1
        /\ \A i \in 1 .. Len(turns) : turns'[i] = turns[i]
        /\ ExecuteTool => turns'[Len(turns')].observed
        /\ chosen = "finish" => turns'[Len(turns')].finish
    BY <1>1, <1>2, Recorded, Zenon
  <1>4. calls' = Append(calls, "execute") /\ "execute" \in CallNames /\ calls \in Seq(CallNames)
    BY DEF VarsOK, ExecuteTool, ExecuteFinish, ExecuteFails, Calling, CallNames
  <1>5. CASE ExecuteTool
    <2>1. messages' = Append(messages, Tool(Last(messages).id)) /\ messages \in Seq(Messages)
      BY <1>5 DEF VarsOK, ExecuteTool
    <2>2. messages' \in Seq(Messages) /\ Len(messages') = Len(messages) + 1
      BY <2>1, <1>1, Answered
    <2>. QED
      BY <2>2, <1>3, <1>4, <1>5
  <1>6. CASE ~ ExecuteTool
    <2>1. messages' = messages /\ messages \in Seq(Messages)
      BY <1>6 DEF VarsOK, ExecuteFinish, ExecuteFails
    <2>. QED
      BY <2>1, <1>3, <1>4, <1>6
  <1>. QED
    BY <1>5, <1>6

LEMMA VarsStep ==
    ASSUME AInv, [Next]_vars
    PROVE  VarsOK'
  <1>. USE DEF AInv, VarsOK, LengthsOK, Calling, Stop
  <1>1. CASE Create
    BY <1>1 DEF Create, CallNames
  <1>2. CASE Exhausted
    BY <1>2 DEF Exhausted, Reasons
  <1>3. CASE DecideFails
    BY <1>3, ConstantsOK DEF DecideFails, StepsLeft, Reasons
  <1>4. ASSUME NEW action \in {"tool", "finish"}, Decide(action)
        PROVE  VarsOK'
    <2>1. Assistant(step + 1, action = "finish") \in Messages
      BY DEF Assistant, Message, Messages
    <2>. QED
      BY <1>4, <2>1, ConstantsOK DEF Decide, StepsLeft
  <1>5. CASE ExecuteTool
    BY <1>5, Executed DEF ExecuteTool
  <1>6. CASE ExecuteFinish \/ ExecuteFails
    BY <1>6, Executed DEF ExecuteFinish, ExecuteFails, Reasons
  <1>7. CASE ExportPatch
    BY <1>7 DEF ExportPatch, CallNames
  <1>8. CASE Destroy
    BY <1>8 DEF Destroy, CallNames
  <1>9. CASE Validate
    BY <1>9 DEF Validate
  <1>10. CASE Interrupt \/ CutShort \/ CutLate
    <2>1. /\ UNCHANGED calls \/ \E name \in CallNames : Calling(name)
          /\ UNCHANGED env \/ env' \in {"none", "live", "gone"}
          /\ UNCHANGED <<step, chosen, messages, turns, termination, patch>>
      <3>. HIDE DEF Calling, VarsOK, AInv, LengthsOK
      <3>. QED
        BY <1>10, Zenon DEF Interrupt, Striking, CutShort, CutLate, CallNames
    <2>5. calls' \in Seq(CallNames)
      <3>1. calls \in Seq(CallNames)
        OBVIOUS
      <3>2. ASSUME NEW name \in CallNames, Calling(name) PROVE calls' \in Seq(CallNames)
        BY ONLY <3>1, <3>2 DEF Calling
      <3>. QED
        BY ONLY <2>1, <3>1, <3>2
    <2>2. pc' \in {"export", "done"} /\ (UNCHANGED outcome \/ outcome' \in {"interrupted", "cut"})
      BY <1>10 DEF Interrupt, CutShort, CutLate
    <2>3. UNCHANGED interrupted \/ interrupted' = TRUE
      BY <1>10, Zenon DEF Interrupt, CutShort, CutLate
    <2>4. interrupted' \in BOOLEAN
      BY <2>3, Zenon
    <2>. QED
      BY <2>1, <2>2, <2>4, <2>5
  <1>11. CASE UNCHANGED vars
    BY <1>11 DEF vars
  <1>. QED
    BY <1>1, <1>2, <1>3, <1>4, <1>5, <1>6, <1>7, <1>8, <1>9, <1>10, <1>11 DEF Next, Run, Done

LEMMA LengthsStep ==
    ASSUME AInv, [Next]_vars
    PROVE  LengthsOK'
  <1>. USE DEF AInv, VarsOK, LengthsOK, Calling, Stop
  <1>0. LengthsOK /\ step \in Nat
    BY ConstantsOK
  <1>1. CASE Create
    BY <1>1 DEF Create
  <1>2. CASE Exhausted
    BY <1>2 DEF Exhausted
  <1>3. CASE DecideFails
    BY <1>3 DEF DecideFails
  <1>4. ASSUME NEW action \in {"tool", "finish"}, Decide(action)
        PROVE  LengthsOK'
    <2>1. Assistant(step + 1, action = "finish") \in Messages
      BY DEF Assistant, Message, Messages
    <2>2. \E m \in Messages : messages' = Append(messages, m)
      BY <1>4, <2>1, Zenon DEF Decide
    <2>3. Len(messages') = Len(messages) + 1
      BY <2>2
    <2>4. pc = "loop" /\ pc' = "execute" /\ step' = step + 1 /\ turns' = turns /\ calls' = calls
      BY <1>4, Zenon DEF Decide
    <2>. HIDE DEF AInv, VarsOK
    <2>. QED
      BY SMTT(30), <1>0, <2>3, <2>4
  <1>5. CASE ExecuteTool
    <2>1. Len(messages') = Len(messages) + 1 /\ Len(turns') = Len(turns) + 1 /\ Len(calls') = Len(calls) + 1
      BY <1>5, Executed
    <2>2. pc = "execute" /\ pc' = "loop" /\ step' = step
      BY <1>5, Zenon DEF ExecuteTool
    <2>. HIDE DEF AInv, VarsOK
    <2>. QED
      BY <1>0, <2>1, <2>2
  <1>6. CASE ExecuteFinish \/ ExecuteFails
    <2>1. Len(turns') = Len(turns) + 1 /\ Len(calls') = Len(calls) + 1
      BY <1>6, Executed
    <2>2. pc = "execute" /\ pc' = "export" /\ step' = step /\ messages' = messages
      BY <1>6, Zenon DEF ExecuteFinish, ExecuteFails
    <2>. QED
      BY <2>1, <2>2
  <1>7. CASE ExportPatch
    BY <1>7 DEF ExportPatch
  <1>8. CASE Destroy
    BY <1>8 DEF Destroy
  <1>9. CASE Validate
    BY <1>9 DEF Validate
  <1>10. CASE Interrupt \/ CutShort \/ CutLate
    BY <1>10 DEF Interrupt, Striking, CutShort, CutLate, CallNames
  <1>11. CASE UNCHANGED vars
    BY <1>11 DEF vars
  <1>. QED
    BY <1>1, <1>2, <1>3, <1>4, <1>5, <1>6, <1>7, <1>8, <1>9, <1>10, <1>11 DEF Next, Run, Done

\* What one more call does to the order of the calls.
LEMMA OneMoreCall ==
    ASSUME NEW s \in Seq(CallNames), NEW name \in CallNames
    PROVE  /\ AllOpen(s) /\ name \notin {"export", "destroy"} => AllOpen(Append(s, name))
           /\ AllOpen(s) /\ name = "export" /\ Len(s) > 0 => Exported(Append(s, name))
           /\ Exported(s) /\ name = "destroy" => Closed(Append(s, name))
  <1>. DEFINE n == Len(s)
              t == Append(s, name)
  <1>1. n \in Nat /\ Len(t) = n + 1 /\ t[n + 1] = name /\ \A i \in 1 .. n : t[i] = s[i]
    OBVIOUS
  <1>2. n = Len(s)
    OBVIOUS
  <1>. HIDE DEF n, t
  <1>3. ASSUME Open(s, n) PROVE Open(t, n)
    BY <1>1, <1>3 DEF Open
  <1>4. ASSUME Open(s, n), name \notin {"export", "destroy"} PROVE Open(t, n + 1)
    BY <1>1, <1>4 DEF Open
  <1>5. ASSUME Open(s, n), name = "export", n > 0 PROVE Exported(t)
    <2>1. Len(t) - 1 = n /\ Len(t) > 1
      BY <1>1, <1>5
    <2>. QED
      BY <1>1, <1>3, <1>5, <2>1 DEF Exported
  <1>6. ASSUME Exported(s), name = "destroy" PROVE Closed(t)
    <2>1. n > 1 /\ Open(s, n - 1) /\ s[n] = "export"
      BY <1>2, <1>6 DEF Exported
    <2>2. Len(t) - 2 = n - 1 /\ Len(t) - 1 = n /\ Len(t) > 2 /\ n \in 1 .. n
      BY <1>1, <2>1
    <2>3. Open(t, n - 1)
      BY <1>1, <2>1 DEF Open
    <2>. QED
      BY <1>1, <1>6, <2>1, <2>2, <2>3 DEF Closed
  <1>7. AllOpen(s) => Open(s, n)
    BY <1>2 DEF AllOpen
  <1>8. Open(t, n + 1) => AllOpen(t)
    BY <1>1 DEF AllOpen
  <1>9. /\ AllOpen(s) /\ name \notin {"export", "destroy"} => AllOpen(t)
        /\ AllOpen(s) /\ name = "export" /\ n > 0 => Exported(t)
        /\ Exported(s) /\ name = "destroy" => Closed(t)
    BY <1>4, <1>5, <1>6, <1>7, <1>8
  <1>. QED
    BY <1>9 DEF n, t

LEMMA CallsStep ==
    ASSUME AInv, [Next]_vars
    PROVE  CallsOK'
  <1>0. calls \in Seq(CallNames) /\ CallNames = {"create", "execute", "export", "destroy"}
    BY DEF AInv, VarsOK, CallNames
  <1>1. /\ pc \in {"create", "loop", "execute", "export"} => AllOpen(calls)
        /\ pc = "destroy" => Exported(calls)
        /\ pc = "validate" => Closed(calls)
        /\ pc = "export" => Len(calls) > 0
        /\ pc = "create" => env = "none"
    BY DEF AInv, VarsOK, LengthsOK, CallsOK
  <1>2. ASSUME UNCHANGED calls
        PROVE  /\ AllOpen(calls) => AllOpen(calls')
               /\ Exported(calls) => Exported(calls')
               /\ Closed(calls) => Closed(calls')
    BY <1>2
  <1>3. CASE Create
    <2>1. Calling("create") /\ pc = "create" /\ (pc' = "loop" \/ (pc' = "done" /\ UNCHANGED env))
      BY <1>3 DEF Create
    <2>2. AllOpen(calls')
      BY <1>0, <1>1, <2>1, OneMoreCall DEF Calling
    <2>. QED
      BY <1>1, <2>1, <2>2 DEF CallsOK
  <1>4. CASE Exhausted \/ DecideFails \/ \E action \in {"tool", "finish"} : Decide(action)
    <2>1. UNCHANGED calls /\ pc = "loop" /\ pc' \in {"execute", "export"}
      BY <1>4 DEF Exhausted, DecideFails, Decide, Stop
    <2>. QED
      BY <1>1, <1>2, <2>1 DEF CallsOK
  <1>5. CASE ExecuteTool \/ ExecuteFinish \/ ExecuteFails
    <2>1. Calling("execute") /\ pc = "execute" /\ pc' \in {"loop", "export"}
      BY <1>5 DEF ExecuteTool, ExecuteFinish, ExecuteFails, Stop
    <2>. QED
      BY <1>0, <1>1, <2>1, OneMoreCall DEF CallsOK, Calling
  <1>6. CASE ExportPatch
    <2>1. Calling("export") /\ pc = "export" /\ pc' = "destroy"
      BY <1>6 DEF ExportPatch
    <2>. QED
      BY <1>0, <1>1, <2>1, OneMoreCall DEF CallsOK, Calling
  <1>7. CASE Destroy
    <2>1. Calling("destroy") /\ pc = "destroy" /\ pc' \in {"validate", "done"}
      BY <1>7 DEF Destroy
    <2>. QED
      BY <1>0, <1>1, <2>1, OneMoreCall DEF CallsOK, Calling
  <1>8. CASE Validate \/ CutLate
    <2>1. UNCHANGED calls /\ pc = "validate" /\ pc' = "done"
      BY <1>8 DEF Validate, CutLate
    <2>. QED
      BY <1>1, <1>2, <2>1 DEF CallsOK
  <1>9. CASE Interrupt
    <2>1. /\ UNCHANGED calls \/ Calling("execute")
          /\ pc \in {"loop", "execute"} /\ pc' = "export"
      BY <1>9 DEF Interrupt, Striking
    <2>2. AllOpen(calls')
      BY <1>0, <1>1, <1>2, <2>1, OneMoreCall DEF Calling
    <2>. QED
      BY <2>1, <2>2 DEF CallsOK
  <1>10. CASE CutShort
    <2>1. /\ pc' = "done" /\ outcome' = "cut"
          /\ \/ pc = "create" /\ Calling("create")
             \/ pc \in {"export", "destroy"} /\ UNCHANGED calls
             \/ pc = "export" /\ Calling("export")
             \/ pc = "destroy" /\ Calling("destroy")
      BY <1>10 DEF CutShort
    <2>2. AllOpen(calls') \/ Exported(calls') \/ Closed(calls')
      BY <1>0, <1>1, <1>2, <2>1, OneMoreCall DEF Calling
    <2>. QED
      BY <2>1, <2>2 DEF CallsOK
  <1>11. CASE UNCHANGED vars
    <2>1. UNCHANGED <<pc, calls, env, outcome>>
      BY <1>11 DEF vars
    <2>. QED
      BY <1>2, <2>1 DEF AInv, CallsOK
  <1>. QED
    BY <1>3, <1>4, <1>5, <1>6, <1>7, <1>8, <1>9, <1>10, <1>11 DEF Next, Run, Done

LEMMA StoryStep ==
    ASSUME AInv, [Next]_vars
    PROVE  StoryOK'
  <1>. USE DEF AInv, VarsOK, LengthsOK, StoryOK, Story, Observed, Stop
  <1>0. /\ LengthsOK /\ StoryOK /\ step \in Nat /\ turns \in Seq(Turns)
        /\ outcome = "returned" => pc = "done"
    BY ConstantsOK
  <1>1. CASE Create
    BY <1>1 DEF Create
  <1>2. CASE Exhausted \/ DecideFails
    BY <1>2 DEF Exhausted, DecideFails
  <1>3. ASSUME NEW action \in {"tool", "finish"}, Decide(action)
        PROVE  StoryOK'
    BY <1>3 DEF Decide
  <1>4. CASE ExecuteTool
    <2>1. /\ turns' \in Seq(Turns) /\ Len(turns') = Len(turns) + 1
          /\ \A i \in 1 .. Len(turns) : turns'[i] = turns[i]
          /\ turns'[Len(turns')].observed
      BY <1>4, Executed
    <2>2. pc = "execute" /\ pc' = "loop" /\ interrupted' = interrupted /\ outcome' = outcome
      BY <1>4, Zenon DEF ExecuteTool
    <2>. HIDE DEF AInv, VarsOK
    <2>3. Observed(Len(turns)) /\ ~ interrupted /\ outcome # "returned"
      BY <1>0, <2>2
    <2>4. \A i \in 1 .. Len(turns') : turns'[i].observed
      <3>. SUFFICES ASSUME NEW i \in 1 .. Len(turns') PROVE turns'[i].observed
        OBVIOUS
      <3>1. CASE i = Len(turns')
        BY <2>1, <3>1, Zenon
      <3>2. CASE i \in 1 .. Len(turns)
        BY <2>1, <2>3, <3>2
      <3>. QED
        BY <1>0, <2>1, <3>1, <3>2
    <2>. QED
      BY <2>2, <2>3, <2>4, Zenon
  <1>5. CASE ExecuteFinish
    <2>1. /\ turns' \in Seq(Turns) /\ Len(turns') = Len(turns) + 1
          /\ \A i \in 1 .. Len(turns) : turns'[i] = turns[i]
          /\ turns'[Len(turns')].finish
      BY <1>5, Executed DEF ExecuteFinish
    <2>2. /\ pc = "execute" /\ pc' = "export" /\ step' = step /\ outcome' = outcome
          /\ termination' = "agent_finished"
      BY <1>5, Zenon DEF ExecuteFinish
    <2>. HIDE DEF AInv, VarsOK
    <2>. QED
      BY SMTT(30), <1>0, <2>1, <2>2
  <1>6. CASE ExecuteFails
    BY <1>6 DEF ExecuteFails
  <1>7. CASE ExportPatch
    BY <1>7 DEF ExportPatch
  <1>11. CASE Destroy
    <2>1. pc = "destroy" /\ UNCHANGED <<step, turns, termination, interrupted>>
      BY <1>11 DEF Destroy
    <2>2. outcome # "returned" /\ (interrupted \/ Story)
      BY <1>0, <2>1
    <2>3. \/ interrupted /\ pc' = "done" /\ outcome' = "interrupted"
          \/ ~ interrupted /\ pc' = "validate" /\ outcome' = outcome
      BY <1>11, Zenon DEF Destroy
    <2>4. CASE interrupted /\ pc' = "done" /\ outcome' = "interrupted"
      BY <2>4
    <2>5. CASE ~ interrupted /\ pc' = "validate" /\ outcome' = outcome
      BY <2>1, <2>2, <2>5
    <2>. QED
      BY <2>3, <2>4, <2>5
  <1>9. CASE Validate \/ CutShort \/ CutLate
    BY <1>9 DEF Validate, CutShort, CutLate
  <1>10. CASE Interrupt
    <2>1. pc' = "export" /\ interrupted' = TRUE /\ outcome' = outcome /\ pc # "done"
      BY <1>10, Zenon DEF Interrupt, Striking
    <2>. QED
      BY <2>1
  <1>8. CASE UNCHANGED vars
    BY <1>8 DEF vars
  <1>. QED
    BY <1>1, <1>2, <1>3, <1>4, <1>5, <1>6, <1>7, <1>8, <1>9, <1>10, <1>11 DEF Next, Run, Done

LEMMA AInvariance == Spec => []AInv
  <1>1. AInv /\ [Next]_vars => AInv'
    BY VarsStep, LengthsStep, CallsStep, StoryStep DEF AInv
  <1>. QED
    BY InitOK, <1>1, PTL DEF Spec

(* The local variables of run keep their types, and its lists the lengths   *)
(* that max_steps bounds.                                                   *)
THEOREM TypeCorrect == Spec => []TypeOK
  <1>1. AInv => TypeOK
    BY ConstantsOK DEF AInv, VarsOK, LengthsOK, TypeOK
  <1>. QED
    BY AInvariance, <1>1, PTL

(* By whatever exit run is left, at most one export_patch and then one      *)
(* destroy end its calls, and both have been made if there was an           *)
(* environment, unless an interrupt struck before the try block or inside   *)
(* the finally block.                                                       *)
THEOREM LifecycleIsClosed == Spec => []LifecycleClosed
  <1>1. AInv => LifecycleClosed
    <2>. SUFFICES ASSUME AInv PROVE LifecycleClosed
      OBVIOUS
    <2>1. calls \in Seq(CallNames) /\ Len(calls) \in Nat /\ DOMAIN calls = 1 .. Len(calls)
      BY DEF AInv, VarsOK
    <2>2. AllOpen(calls) \/ Exported(calls) \/ Closed(calls)
      BY DEF AInv, VarsOK, CallsOK
    <2>3. ASSUME NEW i \in DOMAIN calls
          PROVE  /\ calls[i] = "export" => \A j \in DOMAIN calls :
                      j > i => j = i + 1 /\ calls[j] = "destroy"
                 /\ calls[i] = "destroy" => i > 1 /\ calls[i - 1] = "export"
      <3>1. CASE AllOpen(calls)
        BY <2>1, <3>1 DEF AllOpen, Open
      <3>2. CASE Exported(calls)
        BY <2>1, <3>2 DEF AllOpen, Open, Exported
      <3>3. CASE Closed(calls)
        BY <2>1, <3>3 DEF AllOpen, Open, Closed
      <3>. QED
        BY <2>2, <3>1, <3>2, <3>3
    <2>4. ASSUME pc = "done", env # "none", outcome # "cut"
          PROVE  calls # << >> /\ Last(calls) = "destroy"
      <3>1. Closed(calls)
        BY <2>4 DEF AInv, CallsOK
      <3>. QED
        BY <2>1, <3>1 DEF Closed, Last
    <2>. QED
      BY <2>3, <2>4 DEF LifecycleClosed
  <1>. QED
    BY AInvariance, <1>1, PTL

(* The termination reason of a returned trajectory tells what its turns     *)
(* show: which steps were observed and whether the last was finish.         *)
THEOREM ReasonIsTrue == Spec => []ReasonTellsTheStory
  <1>1. AInv => ReasonTellsTheStory
    BY DEF AInv, VarsOK, StoryOK, Story, Observed, ReasonTellsTheStory, Last
  <1>. QED
    BY AInvariance, <1>1, PTL

-----------------------------------------------------------------------------
\* What the messages and the turns say of each other.
MessagesOK ==
    /\ Len(messages) > 1 /\ messages[1] = System /\ messages[2] = User
    /\ \A k \in 1 .. step :
         /\ 2 * k + 1 <= Len(messages) => \E fin \in BOOLEAN : messages[2 * k + 1] = Assistant(k, fin)
         /\ 2 * k + 2 <= Len(messages) => messages[2 * k + 2] = Tool(k)
TurnsMatch ==
    \A i \in 1 .. Len(turns) : turns[i].message.id = i /\ turns[i].message.fin = turns[i].finish

\* The last message is the assistant's of this step.
LastSaid(fin) ==
    step > 0 /\ Len(messages) = 2 * step + 1 /\ messages[2 * step + 1] = Assistant(step, fin)
Stopped ==
    /\ Rendering(turns) = Core(messages) /\ termination # "interrupted"
    /\ termination = "agent_finished" => LastSaid(TRUE)
    /\ termination = "environment_error" => LastSaid(chosen = "finish")
    /\ termination = "max_steps_exceeded" => Len(messages) = 2 * step + 2
    /\ termination = "agent_error" => step > 0 /\ Len(messages) = 2 * step
Completed == outcome \notin {"create_raised", "interrupted", "cut"}
SaidOK ==
    /\ pc \in {"create", "loop"} => Rendering(turns) = Core(messages)
    /\ pc = "execute" => /\ LastSaid(chosen = "finish")
                         /\ Append(Rendering(turns), messages[Len(messages)]) = Core(messages)
    /\ pc \in {"export", "destroy", "validate"} /\ ~ interrupted => Stopped
    /\ pc = "done" /\ Completed => Stopped

\* The validator has refused what run built.
OutcomeOK ==
    /\ outcome = "invalid" <=>
         pc = "done" /\ Completed /\ ~ Valid(messages, turns, termination)

SaidInv == AInv /\ MessagesOK /\ TurnsMatch /\ SaidOK /\ OutcomeOK

\* What a sequence is mapped to, element by element.
Maps(f, S, R) == f \in [S -> R]
Mapped(f, s) == [i \in DOMAIN s |-> f[s[i]]]
LEMMA MappedGrows ==
    ASSUME NEW S, NEW R, NEW f, Maps(f, S, R), NEW s \in Seq(S), NEW x \in S
    PROVE  Mapped(f, s) \in Seq(R) /\ Mapped(f, Append(s, x)) = Append(Mapped(f, s), f[x])
  <1>. DEFINE n == Len(s)
              t == Append(s, x)
  <1>1. /\ DOMAIN s = 1 .. n /\ n \in Nat /\ DOMAIN t = 1 .. n + 1 /\ t[n + 1] = x
        /\ \A i \in 1 .. n : s[i] \in S /\ t[i] = s[i]
    BY LenProperties, AppendProperties
  <1>0. f \in [S -> R]
    BY DEF Maps
  <1>. HIDE DEF n, t
  <1>2. Mapped(f, s) \in Seq(R) /\ Len(Mapped(f, s)) = n /\ \A i \in 1 .. n : Mapped(f, s)[i] = f[s[i]]
    BY <1>0, <1>1 DEF Mapped
  <1>3. Mapped(f, t) \in Seq(R) /\ Len(Mapped(f, t)) = n + 1
    BY <1>0, <1>1 DEF Mapped
  <1>4. \A i \in 1 .. n + 1 : Mapped(f, t)[i] = IF i <= n THEN f[s[i]] ELSE f[x]
    BY <1>0, <1>1 DEF Mapped
  <1>. DEFINE a == Append(Mapped(f, s), f[x])
  <1>5. a \in Seq(R) /\ Len(a) = n + 1 /\ \A i \in 1 .. n + 1 : a[i] = IF i <= n THEN f[s[i]] ELSE f[x]
    <2>. DEFINE g == Mapped(f, s)
    <2>. HIDE DEF g
    <2>1. g \in Seq(R) /\ Len(g) = n /\ n \in Nat /\ f[x] \in R /\ \A i \in 1 .. n : g[i] = f[s[i]]
      BY <1>0, <1>1, <1>2 DEF g
    <2>2. /\ Append(g, f[x]) \in Seq(R) /\ Len(Append(g, f[x])) = n + 1
          /\ Append(g, f[x])[n + 1] = f[x] /\ \A i \in 1 .. n : Append(g, f[x])[i] = g[i]
      BY <2>1
    <2>. QED
      BY <2>1, <2>2 DEF g
  <1>6. Mapped(f, t) = a
    <2>. DEFINE b == Mapped(f, t)
    <2>. HIDE DEF a, b
    <2>1. b = a
      BY <1>3, <1>4, <1>5, SeqEqual DEF b
    <2>. QED
      BY <2>1 DEF b
  <1>. QED
    BY <1>2, <1>6 DEF t

LEMMA MappedJoins ==
    ASSUME NEW S, NEW R, NEW f, Maps(f, S, Seq(R)), NEW s \in Seq(S), NEW x \in S
    PROVE  /\ FlattenSeq(Mapped(f, s)) \in Seq(R)
           /\ FlattenSeq(Mapped(f, Append(s, x))) = FlattenSeq(Mapped(f, s)) \o f[x]
  <1>1. Mapped(f, s) \in Seq(Seq(R)) /\ Mapped(f, Append(s, x)) = Append(Mapped(f, s), f[x])
    BY MappedGrows
  <1>2. f[x] \in Seq(R)
    BY DEF Maps
  <1>. QED
    BY <1>1, <1>2, FlattenAppend, FlattenType

LEMMA CoreGrows ==
    ASSUME NEW s \in Seq(Messages), NEW m \in Messages
    PROVE  /\ Core(s) \in Seq(Messages)
           /\ Core(Append(s, m)) = IF m.role \in {"assistant", "tool"} THEN Append(Core(s), m) ELSE Core(s)
  <1>. DEFINE kept == [x \in Messages |-> IF x.role \in {"assistant", "tool"} THEN <<x>> ELSE << >>]
  <1>1. Maps(kept, Messages, Seq(Messages))
    BY DEF Maps
  <1>2. \A t \in Seq(Messages) : Core(t) = FlattenSeq(Mapped(kept, t))
    <2>. SUFFICES ASSUME NEW t \in Seq(Messages) PROVE Core(t) = FlattenSeq(Mapped(kept, t))
      OBVIOUS
    <2>1. \A i \in DOMAIN t : t[i] \in Messages
      OBVIOUS
    <2>2. [i \in DOMAIN t |-> IF t[i].role \in {"assistant", "tool"} THEN <<t[i]>> ELSE << >>]
          = Mapped(kept, t)
      BY <2>1 DEF Mapped
    <2>. QED
      BY <2>2, Zenon DEF Core
  <1>3. Append(s, m) \in Seq(Messages)
    OBVIOUS
  <1>4. kept[m] = IF m.role \in {"assistant", "tool"} THEN <<m>> ELSE << >>
    OBVIOUS
  <1>. HIDE DEF kept
  <1>5. Core(s) \in Seq(Messages) /\ Core(Append(s, m)) = Core(s) \o kept[m]
    <2>1. /\ FlattenSeq(Mapped(kept, s)) \in Seq(Messages)
          /\ FlattenSeq(Mapped(kept, Append(s, m))) = FlattenSeq(Mapped(kept, s)) \o kept[m]
      BY <1>1, MappedJoins
    <2>. QED
      BY <1>2, <1>3, <2>1
  <1>. DEFINE f == Core(s)
  <1>. HIDE DEF f
  <1>6. f \o kept[m] = IF m.role \in {"assistant", "tool"} THEN Append(f, m) ELSE f
    <2>1. f \in Seq(Messages)
      BY <1>5 DEF f
    <2>. QED
      BY <1>4, <2>1
  <1>. QED
    BY <1>5, <1>6 DEF f

LEMMA RenderingGrows ==
    ASSUME NEW s \in Seq(Turns), NEW m \in Turns
    PROVE  /\ Rendering(s) \in Seq(Messages) /\ Rendered(m) \in Seq(Messages)
           /\ Rendering(Append(s, m)) = Rendering(s) \o Rendered(m)
  <1>. DEFINE shown == [x \in Turns |-> Rendered(x)]
  <1>1. \A x \in Turns : Rendered(x) \in Seq(Messages)
    <2>. SUFFICES ASSUME NEW x \in Turns PROVE Rendered(x) \in Seq(Messages)
      OBVIOUS
    <2>1. x.message \in Messages
      BY DEF Turns
    <2>2. Tool(x.message.id) \in Messages
      BY <2>1 DEF Tool, Message, Messages
    <2>. QED
      BY <2>1, <2>2 DEF Rendered
  <1>2. Maps(shown, Turns, Seq(Messages))
    BY <1>1 DEF Maps
  <1>5. shown[m] = Rendered(m)
    OBVIOUS
  <1>3. \A t \in Seq(Turns) : Rendering(t) = FlattenSeq(Mapped(shown, t))
    <2>. SUFFICES ASSUME NEW t \in Seq(Turns) PROVE Rendering(t) = FlattenSeq(Mapped(shown, t))
      OBVIOUS
    <2>1. \A i \in DOMAIN t : t[i] \in Turns
      OBVIOUS
    <2>2. [i \in DOMAIN t |-> Rendered(t[i])] = Mapped(shown, t)
      BY <2>1 DEF Mapped
    <2>. QED
      BY <2>2, Zenon DEF Rendering
  <1>4. Append(s, m) \in Seq(Turns)
    OBVIOUS
  <1>. HIDE DEF shown
  <1>. QED
    <2>1. /\ FlattenSeq(Mapped(shown, s)) \in Seq(Messages)
          /\ FlattenSeq(Mapped(shown, Append(s, m))) = FlattenSeq(Mapped(shown, s)) \o shown[m]
      BY <1>2, MappedJoins
    <2>. QED
      BY <1>1, <1>3, <1>4, <1>5, <2>1

\* A turn that is recorded for the assistant's message shows that message, and
\* the tool's when there is an observation.
Tells(turn, s, id, fin, seen) ==
    /\ turn \in Turns /\ turn.message.id = id /\ turn.message.fin = turn.finish
    /\ Rendering(Append(s, turn)) =
         IF seen THEN Append(Append(Rendering(s), Assistant(id, fin)), Tool(id))
         ELSE Append(Rendering(s), Assistant(id, fin))
LEMMA TurnShows ==
    ASSUME NEW s \in Seq(Turns), NEW id \in Nat \ {0}, NEW fin \in BOOLEAN, NEW seen \in BOOLEAN
    PROVE  Tells(Turn(Assistant(id, fin), fin, seen), s, id, fin, seen)
  <1>. DEFINE turn == Turn(Assistant(id, fin), fin, seen)
  <1>. DEFINE a == Assistant(id, fin)
              r == Rendering(s)
  <1>1. a \in Messages /\ Tool(id) \in Messages
    BY Spoken DEF Tool, Message, Messages
  <1>2. a.id = id /\ a.fin = fin
    BY DEF Assistant, Message
  <1>. HIDE DEF a, r
  <1>3. turn.message = a /\ turn.finish = fin /\ turn.observed = seen
    BY Zenon DEF Turn, a
  <1>4. turn \in Turns
    BY <1>1 DEF Turn, Turns, a
  <1>5. Rendered(turn) = IF seen THEN <<a, Tool(id)>> ELSE <<a>>
    BY <1>2, <1>3, ConstantsOK DEF Rendered
  <1>6. r \in Seq(Messages) /\ Rendering(Append(s, turn)) = r \o Rendered(turn)
    BY <1>4, RenderingGrows DEF r
  <1>7. r \o Rendered(turn) = IF seen THEN Append(Append(r, a), Tool(id)) ELSE Append(r, a)
    BY <1>1, <1>5, <1>6
  <1>. QED
    BY <1>2, <1>3, <1>4, <1>6, <1>7 DEF Tells, a, r

LEMMA SaidInit == Init => SaidInv
  <1>. SUFFICES ASSUME Init PROVE SaidInv
    OBVIOUS
  <1>1. AInv
    BY InitOK
  <1>2. MessagesOK /\ TurnsMatch
    BY DEF Init, MessagesOK, TurnsMatch
  <1>3. Rendering(turns) = << >>
    BY FlattenNone DEF Init, Rendering
  <1>4. Core(messages) = << >>
    <2>1. System \in Messages /\ User \in Messages
      BY DEF Messages, System, User, Message
    <2>2. System.role = "system" /\ User.role = "user"
      BY DEF System, User, Message
    <2>3. Core(<<System, User>>) = Core(<<System>>)
      <3>1. <<System>> \in Seq(Messages) /\ <<System, User>> = Append(<<System>>, User)
        BY <2>1
      <3>2. User.role \notin {"assistant", "tool"}
        BY <2>2
      <3>. QED
        BY <2>1, <3>1, <3>2, CoreGrows
    <2>4. Core(<<System>>) = Core(<< >>)
      <3>1. << >> \in Seq(Messages) /\ <<System>> = Append(<< >>, System)
        BY <2>1
      <3>2. System.role \notin {"assistant", "tool"}
        BY <2>2
      <3>. QED
        BY <2>1, <3>1, <3>2, CoreGrows
    <2>5. Core(<< >>) = << >>
      BY FlattenNone DEF Core
    <2>. QED
      BY <2>3, <2>4, <2>5 DEF Init
  <1>5. SaidOK /\ OutcomeOK
    BY <1>3, <1>4 DEF Init, SaidOK, OutcomeOK, Completed
  <1>. QED
    BY <1>1, <1>2, <1>5 DEF SaidInv

\* What is in hand when execute is called.
LEMMA InHand ==
    ASSUME SaidInv, pc = "execute"
    PROVE  /\ step \in Nat \ {0} /\ (chosen = "finish") \in BOOLEAN
           /\ messages \in Seq(Messages) /\ turns \in Seq(Turns) /\ Len(turns) = step - 1
           /\ Len(messages) = 2 * step + 1
           /\ Last(messages) = Assistant(step, chosen = "finish")
           /\ Append(Rendering(turns), Assistant(step, chosen = "finish")) = Core(messages)
  <1>1. LastSaid(chosen = "finish") /\ Append(Rendering(turns), messages[Len(messages)]) = Core(messages)
    BY DEF SaidInv, SaidOK
  <1>2. /\ step > 0 /\ Len(messages) = 2 * step + 1
        /\ messages[Len(messages)] = Assistant(step, chosen = "finish")
    BY <1>1 DEF LastSaid
  <1>3. VarsOK /\ Len(turns) = step - 1
    BY DEF SaidInv, AInv, LengthsOK
  <1>4. step \in Nat \ {0} /\ messages \in Seq(Messages) /\ turns \in Seq(Turns)
    BY <1>2, <1>3, ConstantsOK DEF VarsOK
  <1>. QED
    BY <1>1, <1>2, <1>3, <1>4 DEF Last

LEMMA Longer ==
    ASSUME NEW X, NEW s \in Seq(X), NEW x \in X, NEW n \in Nat, Len(s) = n
    PROVE  /\ Len(Append(s, x)) = n + 1 /\ Append(s, x)[n + 1] = x
           /\ \A i \in 1 .. n : Append(s, x)[i] = s[i]
  OBVIOUS

LEMMA ExecuteShows ==
    ASSUME SaidInv, ExecuteTool \/ ExecuteFinish \/ ExecuteFails
    PROVE  MessagesOK' /\ TurnsMatch' /\ Rendering(turns') = Core(messages')
  <1>. DEFINE fin == (chosen = "finish")
              a == Assistant(step, fin)
  <1>1. pc = "execute" /\ step' = step
    BY DEF ExecuteTool, ExecuteFinish, ExecuteFails
  <1>2. /\ step \in Nat \ {0} /\ fin \in BOOLEAN
        /\ messages \in Seq(Messages) /\ turns \in Seq(Turns) /\ Len(turns) = step - 1
        /\ Len(messages) = 2 * step + 1 /\ Last(messages) = a
        /\ Append(Rendering(turns), a) = Core(messages)
    BY <1>1, InHand
  <1>3. PICK seen \in BOOLEAN : Record(seen) /\ (seen <=> ExecuteTool)
    BY Zenon DEF ExecuteTool, ExecuteFinish, ExecuteFails
  <1>. DEFINE turn == Turn(a, fin, seen)
  <1>4. turns' = Append(turns, turn)
    BY <1>2, <1>3 DEF Record
  <1>5. /\ turn \in Turns /\ turn.message.id = step /\ turn.message.fin = turn.finish
        /\ Rendering(Append(turns, turn)) =
             IF seen THEN Append(Append(Rendering(turns), a), Tool(step)) ELSE Append(Rendering(turns), a)
    <2>1. Tells(turn, turns, step, fin, seen)
      BY <1>2, TurnShows, Zenon
    <2>. HIDE DEF turn, fin
    <2>. QED
      BY <2>1 DEF Tells
  <1>6. a.id = step /\ a \in Messages /\ Tool(step) \in Messages
    BY <1>2, Spoken DEF Assistant, Tool, Message, Messages
  <1>7. messages' = IF seen THEN Append(messages, Tool(step)) ELSE messages
    <2>1. CASE seen
      BY <1>2, <1>3, <1>6, <2>1 DEF ExecuteTool
    <2>2. CASE ~ seen
      BY <1>3, <2>2 DEF ExecuteFinish, ExecuteFails
    <2>. QED
      BY <2>1, <2>2
  <1>. HIDE DEF a, fin, turn
  <1>8. TurnsMatch'
    <2>. SUFFICES ASSUME NEW i \in 1 .. Len(turns')
                  PROVE  turns'[i].message.id = i /\ turns'[i].message.fin = turns'[i].finish
      BY DEF TurnsMatch
    <2>1. /\ Len(turns') = step /\ turns'[step] = turn
          /\ \A j \in 1 .. step - 1 : turns'[j] = turns[j]
      BY <1>2, <1>4, <1>5
    <2>2. CASE i = step
      BY <1>5, <2>1, <2>2
    <2>3. CASE i # step
      <3>1. i \in 1 .. Len(turns) /\ turns'[i] = turns[i]
        BY <1>2, <2>1, <2>3
      <3>. QED
        BY <3>1 DEF SaidInv, TurnsMatch
    <2>. QED
      BY <2>2, <2>3
  <1>9. Rendering(turns') = Core(messages')
    <2>1. Tool(step).role = "tool"
      BY DEF Tool, Message
    <2>2. Core(Append(messages, Tool(step))) = Append(Core(messages), Tool(step))
      BY <1>2, <1>6, <2>1, CoreGrows
    <2>. QED
      BY <1>2, <1>4, <1>5, <1>7, <2>2
  <1>10. MessagesOK'
    <2>1. CASE ~ seen
      BY <1>1, <1>7, <2>1 DEF SaidInv, MessagesOK
    <2>2. CASE seen
      <3>. DEFINE n == 2 * step + 1
      <3>1. /\ Len(messages') = n + 1 /\ messages'[n + 1] = Tool(step)
            /\ \A i \in 1 .. n : messages'[i] = messages[i]
        <4>1. n \in Nat /\ Len(messages) = n /\ messages' = Append(messages, Tool(step))
          BY <1>2, <1>7, <2>2
        <4>. HIDE DEF n
        <4>. QED
          BY <1>2, <1>6, <4>1, Longer
      <3>2. 1 \in 1 .. n /\ 2 \in 1 .. n
        BY <1>2
      <3>3. ASSUME NEW k \in 1 .. step
            PROVE  /\ 2 * k + 1 <= n + 1 => \E f \in BOOLEAN : messages'[2 * k + 1] = Assistant(k, f)
                   /\ 2 * k + 2 <= n + 1 => messages'[2 * k + 2] = Tool(k)
        <4>1. 2 * k + 1 \in 1 .. n /\ 2 * k + 1 <= Len(messages)
          BY <1>2
        <4>2. \E f \in BOOLEAN : messages[2 * k + 1] = Assistant(k, f)
          BY <4>1 DEF SaidInv, MessagesOK
        <4>3. CASE k = step
          BY <3>1, <4>1, <4>2, <4>3
        <4>4. CASE k # step
          <5>1. 2 * k + 2 \in 1 .. n /\ 2 * k + 2 <= Len(messages)
            BY <1>2, <4>4
          <5>2. messages[2 * k + 2] = Tool(k)
            BY <5>1 DEF SaidInv, MessagesOK
          <5>. QED
            BY <3>1, <4>1, <4>2, <5>1, <5>2
        <4>. QED
          BY <4>3, <4>4
      <3>. HIDE DEF n
      <3>4. n + 1 > 1 /\ n \in Nat
        BY <1>2 DEF n
      <3>5. messages'[1] = System /\ messages'[2] = User
        BY <3>1, <3>2 DEF SaidInv, MessagesOK
      <3>. QED
        BY <1>1, <3>1, <3>3, <3>4, <3>5 DEF MessagesOK
    <2>. QED
      BY <2>1, <2>2
  <1>. QED
    BY <1>8, <1>9, <1>10

LEMMA DecideSays ==
    ASSUME SaidInv, NEW action \in {"tool", "finish"}, Decide(action)
    PROVE  /\ MessagesOK' /\ TurnsMatch' /\ LastSaid(chosen = "finish")'
           /\ Append(Rendering(turns'), messages'[Len(messages')]) = Core(messages')
  <1>. DEFINE fin == (action = "finish")
              a == Assistant(step + 1, fin)
              n == Len(messages)
  <1>1. /\ pc = "loop" /\ step' = step + 1 /\ chosen' = action
        /\ messages' = Append(messages, a) /\ turns' = turns
    BY DEF Decide
  <1>2. /\ step \in Nat /\ messages \in Seq(Messages) /\ n = 2 * step + 2
        /\ Rendering(turns) = Core(messages) /\ MessagesOK
    BY <1>1, ConstantsOK DEF SaidInv, AInv, VarsOK, LengthsOK, SaidOK
  <1>3. a \in Messages /\ a.role = "assistant"
    <2>1. step + 1 \in Nat /\ fin \in BOOLEAN
      BY <1>2
    <2>2. a.role = "assistant"
      BY DEF Assistant, Message
    <2>. QED
      BY <2>1, <2>2, Spoken
  <1>. HIDE DEF a
  <1>4. /\ Len(messages') = n + 1 /\ messages'[n + 1] = a
        /\ \A i \in 1 .. n : messages'[i] = messages[i]
    BY <1>1, <1>2, <1>3
  <1>5. Core(messages') = Append(Core(messages), a)
    BY <1>1, <1>2, <1>3, CoreGrows
  <1>6. LastSaid(chosen = "finish")'
    BY <1>1, <1>2, <1>4 DEF LastSaid, a
  <1>7. TurnsMatch'
    BY <1>1 DEF SaidInv, TurnsMatch
  <1>8. MessagesOK'
    <2>1. ASSUME NEW k \in 1 .. step + 1
          PROVE  /\ 2 * k + 1 <= n + 1 => \E f \in BOOLEAN : messages'[2 * k + 1] = Assistant(k, f)
                 /\ 2 * k + 2 <= n + 1 => messages'[2 * k + 2] = Tool(k)
      <3>1. CASE k = step + 1
        <4>1. 2 * k + 1 = n + 1 /\ ~ (2 * k + 2 <= n + 1) /\ fin \in BOOLEAN
          BY <1>2, <3>1
        <4>. QED
          BY <1>4, <3>1, <4>1 DEF a
      <3>2. CASE k \in 1 .. step
        <4>1. 2 * k + 1 \in 1 .. n /\ 2 * k + 2 \in 1 .. n
          BY <1>2, <3>2
        <4>. HIDE DEF n
        <4>2. 2 * k + 1 <= n /\ 2 * k + 2 <= n
          BY <4>1
        <4>3. (\E f \in BOOLEAN : messages[2 * k + 1] = Assistant(k, f)) /\ messages[2 * k + 2] = Tool(k)
          BY <1>2, <3>2, <4>2 DEF MessagesOK, n
        <4>. QED
          BY <1>4, <4>1, <4>3
      <3>. QED
        BY <1>2, <3>1, <3>2
    <2>2. 1 \in 1 .. n /\ 2 \in 1 .. n /\ n + 1 > 1
      BY <1>2
    <2>3. messages'[1] = System /\ messages'[2] = User
      BY <1>2, <1>4, <2>2 DEF MessagesOK
    <2>. HIDE DEF n
    <2>. QED
      BY <1>1, <1>4, <2>1, <2>2, <2>3 DEF MessagesOK
  <1>9. Append(Rendering(turns'), messages'[Len(messages')]) = Core(messages')
    BY <1>1, <1>2, <1>4, <1>5
  <1>. QED
    BY <1>6, <1>7, <1>8, <1>9

LEMMA SaidStep ==
    ASSUME SaidInv, [Next]_vars
    PROVE  SaidInv'
  <1>0. AInv'
    BY VarsStep, LengthsStep, CallsStep, StoryStep DEF AInv, SaidInv
  <1>. DEFINE Same == UNCHANGED <<messages, turns, step>>
  <1>1. ASSUME Same PROVE MessagesOK' /\ TurnsMatch'
    BY <1>1 DEF SaidInv, MessagesOK, TurnsMatch
  <1>2. ASSUME Same, UNCHANGED <<termination, chosen>> PROVE Stopped => Stopped'
    BY <1>2 DEF Stopped, LastSaid
  <1>3. ASSUME pc # "done", pc' # "done", UNCHANGED outcome
        PROVE  OutcomeOK'
    BY <1>3 DEF SaidInv, OutcomeOK
  <1>. HIDE DEF Same
  <1>4. ASSUME pc' = "done", outcome' \in {"create_raised", "interrupted", "cut"}
        PROVE  SaidOK' /\ OutcomeOK'
    BY <1>4 DEF SaidOK, OutcomeOK, Completed
  <1>5. CASE Create
    <2>1. Same /\ env = "none" /\ pc = "create" /\ UNCHANGED <<termination, chosen>>
      BY <1>5 DEF Create, Same, SaidInv, AInv, LengthsOK
    <2>2. CASE env' = "live" /\ pc' = "loop" /\ UNCHANGED outcome
      <3>1. SaidOK'
        BY <2>1, <2>2 DEF SaidInv, SaidOK, Same
      <3>. QED
        BY <1>0, <1>1, <1>3, <2>1, <2>2, <3>1 DEF SaidInv
    <2>3. CASE outcome' = "create_raised" /\ pc' = "done" /\ UNCHANGED env
      BY <1>0, <1>1, <1>4, <2>1, <2>3 DEF SaidInv
    <2>. QED
      BY <1>5, <2>2, <2>3 DEF Create
  <1>6. CASE Exhausted
    <2>1. /\ Same /\ pc = "loop" /\ pc' = "export" /\ termination' = "max_steps_exceeded"
          /\ UNCHANGED <<outcome, env>>
      BY <1>6 DEF Exhausted, Stop, Same
    <2>2. Len(messages) = 2 * step + 2
      BY <2>1 DEF SaidInv, AInv, LengthsOK, VarsOK
    <2>3. Stopped'
      BY <2>1, <2>2 DEF SaidInv, SaidOK, Stopped, Same
    <2>. QED
      BY <1>0, <1>1, <1>3, <2>1, <2>3 DEF SaidInv, SaidOK
  <1>7. CASE DecideFails
    <2>1. /\ pc = "loop" /\ pc' = "export" /\ termination' = "agent_error" /\ step' = step + 1
          /\ UNCHANGED <<messages, turns, outcome, env>>
      BY <1>7 DEF DecideFails, Stop
    <2>2. step \in Nat /\ Len(messages) = 2 * step + 2
      BY <2>1, ConstantsOK DEF SaidInv, AInv, LengthsOK, VarsOK
    <2>3. MessagesOK' /\ TurnsMatch'
      <3>1. ASSUME NEW k \in 1 .. step + 1
            PROVE  /\ 2 * k + 1 <= Len(messages) => \E f \in BOOLEAN : messages[2 * k + 1] = Assistant(k, f)
                   /\ 2 * k + 2 <= Len(messages) => messages[2 * k + 2] = Tool(k)
        <4>1. k \in 1 .. step \/ ~ (2 * k + 1 <= Len(messages) \/ 2 * k + 2 <= Len(messages))
          BY <2>2
        <4>. QED
          BY <4>1 DEF SaidInv, MessagesOK
      <3>. QED
        BY <2>1, <3>1 DEF SaidInv, MessagesOK, TurnsMatch
    <2>4. Stopped'
      BY <2>1, <2>2 DEF SaidInv, SaidOK, Stopped
    <2>. QED
      BY <1>0, <1>3, <2>1, <2>3, <2>4 DEF SaidInv, SaidOK
  <1>8. ASSUME NEW action \in {"tool", "finish"}, Decide(action)
        PROVE  SaidInv'
    <2>1. /\ pc = "loop" /\ pc' = "execute" /\ UNCHANGED <<outcome, env>>
      BY <1>8 DEF Decide
    <2>2. /\ MessagesOK' /\ TurnsMatch' /\ LastSaid(chosen = "finish")'
          /\ Append(Rendering(turns'), messages'[Len(messages')]) = Core(messages')
      BY <1>8, DecideSays
    <2>. QED
      BY <1>0, <1>3, <2>1, <2>2 DEF SaidInv, SaidOK
  <1>9. CASE ExecuteTool \/ ExecuteFinish \/ ExecuteFails
    <2>1. /\ pc = "execute" /\ step' = step /\ UNCHANGED <<outcome, env, chosen>>
          /\ ExecuteTool => pc' = "loop"
          /\ ~ ExecuteTool => pc' = "export" /\ messages' = messages
          /\ ExecuteFinish => termination' = "agent_finished" /\ chosen = "finish"
          /\ ExecuteFails => termination' = "environment_error"
      BY <1>9 DEF ExecuteTool, ExecuteFinish, ExecuteFails, Stop
    <2>2. MessagesOK' /\ TurnsMatch' /\ Rendering(turns') = Core(messages')
      BY <1>9, ExecuteShows
    <2>3. LastSaid(chosen = "finish")
      BY <2>1 DEF SaidInv, SaidOK
    <2>4. pc' \in {"loop", "export"}
      BY <2>1
    <2>5. SaidOK'
      <3>1. CASE ExecuteTool
        BY <2>1, <2>2, <3>1 DEF SaidOK
      <3>2. CASE ~ ExecuteTool
        <4>1. LastSaid(chosen = "finish")'
          BY <2>1, <2>3, <3>2 DEF LastSaid
        <4>2. termination' = "agent_finished" => LastSaid(TRUE)'
          <5>1. ASSUME termination' = "agent_finished" PROVE chosen = "finish"
            BY <1>9, <2>1, <3>2, <5>1
          <5>. QED
            BY <2>1, <2>3, <3>2, <5>1 DEF LastSaid
        <4>3. termination' \in {"agent_finished", "environment_error"}
          BY <1>9, <2>1, <3>2
        <4>4. Stopped'
          BY <2>2, <4>1, <4>2, <4>3 DEF Stopped
        <4>. QED
          BY <2>1, <3>2, <4>4 DEF SaidOK
      <3>. QED
        BY <3>1, <3>2
    <2>. QED
      BY <1>0, <1>3, <2>1, <2>2, <2>4, <2>5 DEF SaidInv
  <1>10. CASE Interrupt
    <2>1. /\ Same /\ pc \in {"loop", "execute"} /\ pc' = "export" /\ interrupted'
          /\ UNCHANGED <<outcome, env>>
      BY <1>10, Zenon DEF Interrupt, Striking, Same
    <2>. QED
      BY <1>0, <1>1, <1>3, <2>1 DEF SaidInv, SaidOK
  <1>11. CASE ExportPatch
    <2>1. /\ Same /\ pc = "export" /\ pc' = "destroy"
          /\ UNCHANGED <<outcome, env, termination, chosen, interrupted>>
      BY <1>11 DEF ExportPatch, Same
    <2>. QED
      BY <1>0, <1>1, <1>2, <1>3, <2>1 DEF SaidInv, SaidOK
  <1>12. CASE Destroy
    <2>1. /\ Same /\ pc = "destroy" /\ UNCHANGED <<termination, chosen, interrupted>>
          /\ IF interrupted THEN pc' = "done" /\ outcome' = "interrupted"
             ELSE pc' = "validate" /\ UNCHANGED outcome
      BY <1>12 DEF Destroy, Same
    <2>2. CASE interrupted
      BY <1>0, <1>1, <1>4, <2>1, <2>2 DEF SaidInv
    <2>3. CASE ~ interrupted
      <3>1. Stopped'
        BY <1>2, <2>1, <2>3 DEF SaidInv, SaidOK
      <3>2. SaidOK'
        BY <2>1, <2>3, <3>1 DEF SaidOK
      <3>. QED
        BY <1>0, <1>1, <1>3, <2>1, <2>3, <3>2 DEF SaidInv
    <2>. QED
      BY <2>2, <2>3
  <1>13. CASE Validate
    <2>1. /\ Same /\ pc = "validate" /\ pc' = "done"
          /\ UNCHANGED <<termination, chosen, interrupted, env>>
          /\ outcome' = IF Valid(messages, turns, termination) THEN "returned" ELSE "invalid"
      BY <1>13 DEF Validate, Same
    <2>2. ~ interrupted
      BY <2>1 DEF SaidInv, AInv, StoryOK
    <2>3. OutcomeOK'
      <3>1. Valid(messages, turns, termination)' <=> Valid(messages, turns, termination)
        BY <2>1 DEF Same
      <3>. QED
        BY <2>1, <3>1 DEF OutcomeOK, Completed
    <2>4. SaidOK'
      BY <1>2, <2>1, <2>2 DEF SaidInv, SaidOK
    <2>. QED
      BY <1>0, <1>1, <2>1, <2>3, <2>4 DEF SaidInv
  <1>15. CASE CutShort \/ CutLate
    <2>1. Same /\ pc' = "done" /\ outcome' \in {"interrupted", "cut"}
      BY <1>15 DEF CutShort, CutLate, Same
    <2>. QED
      BY <1>0, <1>1, <1>4, <2>1 DEF SaidInv
  <1>14. CASE UNCHANGED vars
    <2>1. MessagesOK' /\ TurnsMatch' /\ SaidOK' /\ OutcomeOK'
      BY <1>14 DEF vars, SaidInv, MessagesOK, TurnsMatch, SaidOK, OutcomeOK, Completed, Stopped, LastSaid
    <2>. QED
      BY <1>0, <2>1 DEF SaidInv
  <1>. QED
    BY <1>5, <1>6, <1>7, <1>8, <1>9, <1>10, <1>11, <1>12, <1>13, <1>14, <1>15 DEF Next, Run, Done

\* A number is even or odd.
LEMMA Halves ==
    ASSUME NEW n \in Nat
    PROVE  \E k \in Nat : n = 2 * k \/ n = 2 * k + 1
  <1>. DEFINE T == {m \in Nat : \E k \in Nat : m = 2 * k \/ m = 2 * k + 1}
  <1>1. 0 \in T
    BY 0 = 2 * 0
  <1>2. ASSUME NEW m \in Nat, m \in T PROVE m + 1 \in T
    <2>1. PICK k \in Nat : m = 2 * k \/ m = 2 * k + 1
      BY <1>2
    <2>2. m + 1 = 2 * k + 1 \/ m + 1 = 2 * (k + 1)
      BY <2>1
    <2>. QED
      BY <2>2, k + 1 \in Nat, m + 1 \in Nat
  <1>. HIDE DEF T
  <1>3. Nat \subseteq T
    BY <1>1, <1>2, Induct
  <1>. QED
    BY <1>3 DEF T

\* Which message is where: system, user, then the assistant's and the tool's of
\* each step.
LEMMA Places ==
    ASSUME SaidInv, NEW i \in DOMAIN messages
    PROVE  \/ i = 1 /\ messages[i] = System
           \/ i = 2 /\ messages[i] = User
           \/ \E k \in 1 .. step : \E fin \in BOOLEAN :
                 i = 2 * k + 1 /\ messages[i] = Assistant(k, fin)
           \/ \E k \in 1 .. step : i = 2 * k + 2 /\ messages[i] = Tool(k)
  <1>1. /\ step \in Nat /\ i \in 1 .. Len(messages) /\ Len(messages) \in Nat
        /\ Len(messages) <= 2 * step + 2
    BY ConstantsOK DEF SaidInv, AInv, VarsOK, LengthsOK
  <1>2. i = 1 \/ i = 2 \/ \E k \in 1 .. step : i = 2 * k + 1 \/ i = 2 * k + 2
    <2>. SUFFICES ASSUME i > 2 PROVE \E k \in 1 .. step : i = 2 * k + 1 \/ i = 2 * k + 2
      BY <1>1
    <2>1. PICK k \in Nat : i - 1 = 2 * k \/ i - 1 = 2 * k + 1
      BY <1>1, i - 1 \in Nat, Halves
    <2>2. k \in 1 .. step /\ (i = 2 * k + 1 \/ i = 2 * k + 2)
      BY <1>1, <2>1
    <2>. QED
      BY <2>2
  <1>3. CASE i = 1 \/ i = 2
    BY <1>3 DEF SaidInv, MessagesOK
  <1>4. ASSUME NEW k \in 1 .. step, i = 2 * k + 1
        PROVE  \E fin \in BOOLEAN : messages[i] = Assistant(k, fin)
    <2>1. 2 * k + 1 <= Len(messages)
      BY <1>1, <1>4
    <2>. QED
      BY <1>4, <2>1 DEF SaidInv, MessagesOK
  <1>5. ASSUME NEW k \in 1 .. step, i = 2 * k + 2
        PROVE  messages[i] = Tool(k)
    <2>1. 2 * k + 2 <= Len(messages)
      BY <1>1, <1>5
    <2>. QED
      BY <1>5, <2>1 DEF SaidInv, MessagesOK
  <1>. QED
    BY <1>2, <1>3, <1>4, <1>5

LEMMA Roles ==
    /\ System.role = "system" /\ User.role = "user"
    /\ \A id, fin : /\ Assistant(id, fin).role = "assistant" /\ Assistant(id, fin).id = id
                    /\ Assistant(id, fin).fin = fin
                    /\ Tool(id).role = "tool" /\ Tool(id).id = id
  BY DEF System, User, Assistant, Tool, Message

LEMMA InOrder ==
    ASSUME SaidInv
    PROVE  OrderOK(messages)
  <1>1. /\ messages \in Seq(Messages) /\ step \in Nat /\ Len(messages) \in Nat /\ Len(messages) > 1
        /\ messages[1] = System /\ messages[2] = User
    BY ConstantsOK DEF SaidInv, AInv, VarsOK, MessagesOK
  <1>2. 1 \in DOMAIN messages /\ 2 \in DOMAIN messages /\ messages # << >>
    BY <1>1
  <1>3. ASSUME NEW i \in DOMAIN messages
        PROVE  /\ messages[i].role = "system" => i = 1
               /\ messages[i].role = "user" => i = 2
               /\ messages[i].role = "assistant" => i > 1 /\ messages[i - 1].role # "assistant"
               /\ messages[i].role = "tool" => i > 1 /\ messages[i - 1].role = "assistant"
    <2>1. CASE i = 1 \/ i = 2
      BY <1>1, <2>1, Roles
    <2>2. ASSUME NEW k \in 1 .. step, i = 2 * k + 1, messages[i].role = "assistant"
          PROVE  messages[i - 1].role # "assistant"
      <3>1. i > 2 /\ i - 1 \in DOMAIN messages /\ i - 1 > 1 /\ \A j \in 1 .. step : i - 1 # 2 * j + 1
        BY <1>1, <2>2
      <3>2. messages[i - 1] = User \/ \E j \in 1 .. step : messages[i - 1] = Tool(j)
        BY <3>1, Places
      <3>3. CASE messages[i - 1] = User
        BY <3>3, Roles
      <3>4. ASSUME NEW j, messages[i - 1] = Tool(j) PROVE messages[i - 1].role = "tool"
        BY <3>4, Roles
      <3>. QED
        BY <3>2, <3>3, <3>4
    <2>3. ASSUME NEW k \in 1 .. step, i = 2 * k + 2
          PROVE  messages[i - 1].role = "assistant"
      <3>1. i > 2 /\ i - 1 \in DOMAIN messages /\ i - 1 > 2 /\ \A j \in 1 .. step : i - 1 # 2 * j + 2
        BY <1>1, <2>3
      <3>2. \E j \in 1 .. step : \E fin \in BOOLEAN : messages[i - 1] = Assistant(j, fin)
        BY <3>1, Places
      <3>3. PICK j, fin : messages[i - 1] = Assistant(j, fin)
        BY <3>2
      <3>. QED
        BY <3>3, Roles
    <2>4. /\ messages[i].role = "system" => i = 1
          /\ messages[i].role = "user" => i = 2
          /\ messages[i].role = "assistant" => i = 1 \/ i = 2 \/ \E k \in 1 .. step : i = 2 * k + 1
          /\ messages[i].role = "tool" => i = 1 \/ i = 2 \/ \E k \in 1 .. step : i = 2 * k + 2
      BY Places, Roles
    <2>5. (\E k \in 1 .. step : i = 2 * k + 1 \/ i = 2 * k + 2) => i > 1
      BY <1>1
    <2>. QED
      BY <2>1, <2>2, <2>3, <2>4, <2>5
  <1>. QED
    BY <1>1, <1>2, <1>3, Roles DEF OrderOK

LEMMA Chained ==
    ASSUME SaidInv
    PROVE  ChainOK(messages)
  <1>1. step \in Nat /\ messages \in Seq(Messages) /\ messages[1] = System /\ messages[2] = User
    BY ConstantsOK DEF SaidInv, AInv, VarsOK, MessagesOK
  <1>. SUFFICES ASSUME NEW i \in DOMAIN messages, messages[i].role = "tool"
                PROVE  \E j \in 1 .. i - 1 :
                          /\ messages[j].role = "assistant" /\ messages[j].id = messages[i].id
                          /\ messages[j].id # NoCall
                          /\ \A k \in j + 1 .. i - 1 :
                               ~ (messages[k].role = "tool" /\ messages[k].id = messages[i].id)
    BY DEF ChainOK
  <1>2. PICK k \in 1 .. step : i = 2 * k + 2 /\ messages[i] = Tool(k)
    BY Places, Roles
  <1>3. /\ i - 1 \in DOMAIN messages /\ i - 1 \in 1 .. i - 1 /\ i - 1 = 2 * k + 1
        /\ \A j \in (i - 1) + 1 .. i - 1 : FALSE
    BY <1>1, <1>2
  <1>4. \E fin \in BOOLEAN : messages[i - 1] = Assistant(k, fin)
    BY <1>2, <1>3 DEF SaidInv, MessagesOK
  <1>5. /\ messages[i - 1].role = "assistant" /\ messages[i - 1].id = messages[i].id
        /\ messages[i - 1].id # NoCall
    BY <1>2, <1>4, Roles, ConstantsOK
  <1>. QED
    BY <1>3, <1>5

\* What the validator makes of a rollout that has stopped.
LEMMA Judged ==
    ASSUME SaidInv, Stopped
    PROVE  Valid(messages, turns, termination) <=>
               ~ (termination = "environment_error" /\ chosen = "finish")
  <1>1. /\ messages \in Seq(Messages) /\ turns \in Seq(Turns) /\ step \in Nat
        /\ Len(messages) \in Nat /\ Len(messages) > 1 /\ termination \in Reasons
        /\ Last(messages) = messages[Len(messages)] /\ Len(messages) \in DOMAIN messages
        /\ messages # << >>
    BY ConstantsOK DEF SaidInv, AInv, VarsOK, MessagesOK, Last
  <1>2. ASSUME NEW i \in DOMAIN turns
        PROVE  turns[i].message.id # NoCall /\ turns[i].message.fin = turns[i].finish
    <2>1. i \in 1 .. Len(turns) /\ i \in Nat \ {0}
      BY <1>1
    <2>2. turns[i].message.id = i /\ turns[i].message.fin = turns[i].finish
      BY <2>1 DEF SaidInv, TurnsMatch
    <2>. QED
      BY <2>1, <2>2, ConstantsOK
  <1>3. TurnsOK(messages, turns)
    BY <1>2 DEF TurnsOK, Stopped
  <1>4. ASSUME NEW fin \in BOOLEAN, LastSaid(fin) PROVE LastIsFinish(messages) <=> fin
    <2>1. Last(messages) = Assistant(step, fin)
      BY <1>1, <1>4 DEF LastSaid
    <2>2. Last(messages).role = "assistant" /\ Last(messages).fin = fin
      BY <2>1, Roles
    <2>. QED
      BY <1>1, <2>2, Zenon DEF LastIsFinish
  <1>5. ASSUME \/ Len(messages) = 2 * step + 2
               \/ step > 0 /\ Len(messages) = 2 * step
        PROVE  ~ LastIsFinish(messages)
    <2>1. \A k \in 1 .. step : Len(messages) # 2 * k + 1
      BY <1>1, <1>5
    <2>2. messages[Len(messages)].role # "assistant"
      BY <1>1, <2>1, Places, Roles
    <2>. QED
      BY <1>1, <2>2 DEF LastIsFinish
  <1>6. (chosen = "finish") \in BOOLEAN /\ TRUE \in BOOLEAN
    OBVIOUS
  <1>7. LastIsFinish(messages) <=>
            termination = "agent_finished" \/ (termination = "environment_error" /\ chosen = "finish")
    <2>1. CASE termination = "agent_finished"
      BY <1>4, <1>6, <2>1 DEF Stopped
    <2>2. CASE termination = "environment_error"
      BY <1>4, <1>6, <2>2 DEF Stopped
    <2>3. CASE termination \in {"max_steps_exceeded", "agent_error"}
      BY <1>5, <2>3 DEF Stopped
    <2>. QED
      BY <1>1, <2>1, <2>2, <2>3 DEF Stopped, Reasons
  <1>. QED
    BY <1>3, <1>7, InOrder, Chained DEF Valid, TerminationOK

LEMMA SaidInvariance == Spec => []SaidInv
  BY SaidInit, SaidStep, PTL DEF Spec

(* "fix the loop, not the validator" (loop.py:158), as far as it goes: the  *)
(* trajectory of every rollout passes validate_trajectory, for any policy   *)
(* and any failing calls, but for that of a finish whose execute raised.    *)
THEOREM OnlyAFailedFinishIsInvalid == Spec => []InvalidOnlyAfterFailedFinish
  <1>1. SaidInv => InvalidOnlyAfterFailedFinish
    <2>. SUFFICES ASSUME SaidInv PROVE InvalidOnlyAfterFailedFinish
      OBVIOUS
    <2>1. CASE pc = "done" /\ Completed
      <3>1. Stopped
        BY <2>1 DEF SaidInv, SaidOK
      <3>2. Valid(messages, turns, termination) <=>
                ~ (termination = "environment_error" /\ chosen = "finish")
        BY <3>1, Judged
      <3>. QED
        BY <2>1, <3>2 DEF SaidInv, OutcomeOK, Completed, InvalidOnlyAfterFailedFinish
    <2>2. CASE ~ (pc = "done" /\ Completed)
      BY <2>2 DEF SaidInv, OutcomeOK, Completed, InvalidOnlyAfterFailedFinish
    <2>. QED
      BY <2>1, <2>2
  <1>. QED
    BY SaidInvariance, <1>1, PTL

(* Where no execute raises (a tool that fails answers with an observation), *)
(* "fix the loop, not the validator" holds outright: whatever the policy,   *)
(* export_patch and destroy do, run never raises because of its own         *)
(* trajectory.                                                              *)
THEOREM NeverInvalidWithoutExecuteFaults ==
    ASSUME "execute" \notin Faults
    PROVE  Spec => []NeverInvalid
  <1>. DEFINE NoError == termination # "environment_error"
  <1>1. Init => NoError
    BY DEF Init
  <1>2. NoError /\ [Next]_vars => NoError'
    BY DEF vars, Next, Run, Done, Interrupt, CutShort, CutLate, Create, Exhausted, DecideFails, Decide, Stop,
           ExecuteTool, ExecuteFinish, ExecuteFails, ExportPatch, Destroy, Validate
  <1>3. NoError /\ InvalidOnlyAfterFailedFinish => NeverInvalid
    BY DEF InvalidOnlyAfterFailedFinish, NeverInvalid
  <1>. QED
    BY <1>1, <1>2, <1>3, OnlyAFailedFinishIsInvalid, PTL DEF Spec

-----------------------------------------------------------------------------
\* The token layer.

Pair == Nat \X Nat
Typed(parts, S) == \A i \in DOMAIN messages : parts[i] \in Seq(S)
Kept(parts, which) == [i \in DOMAIN messages |-> IF i \in which THEN parts[i] ELSE << >>]

LEMMA KeptType ==
    ASSUME messages \in Seq(Messages), NEW S, NEW p, Typed(p, S), NEW which
    PROVE  /\ Kept(p, which) \in Seq(Seq(S)) /\ Len(Kept(p, which)) = Len(messages)
           /\ DOMAIN messages = 1 .. Len(messages) /\ Len(messages) \in Nat
           /\ \A i \in 1 .. Len(messages) :
                Kept(p, which)[i] = IF i \in which THEN p[i] ELSE << >>
           /\ Joined(p, which) = FlattenSeq(Kept(p, which)) /\ Joined(p, which) \in Seq(S)
  <1>1. DOMAIN messages = 1 .. Len(messages) /\ Len(messages) \in Nat
    BY LenProperties
  <1>2. ASSUME NEW i \in 1 .. Len(messages)
        PROVE  (IF i \in which THEN p[i] ELSE << >>) \in Seq(S)
    BY <1>1 DEF Typed
  <1>3. /\ Kept(p, which) \in Seq(Seq(S)) /\ Len(Kept(p, which)) = Len(messages)
        /\ \A i \in 1 .. Len(messages) :
                Kept(p, which)[i] = IF i \in which THEN p[i] ELSE << >>
    BY <1>1, <1>2 DEF Kept
  <1>4. Joined(p, which) = FlattenSeq(Kept(p, which))
    BY DEF Joined, Kept
  <1>. QED
    BY <1>1, <1>3, <1>4, FlattenType

\* What is joined from two lists of equal lengths runs side by side.
Beside(p, q, which) ==
    /\ Len(Joined(p, which)) \in Nat /\ Len(Joined(p, which)) = Len(Joined(q, which))
    /\ \A k \in 1 .. Len(Joined(p, which)) :
         \E i \in DOMAIN messages : \E j \in 1 .. Len(p[i]) :
             i \in which /\ Joined(p, which)[k] = p[i][j] /\ Joined(q, which)[k] = q[i][j]

LEMMA JoinedTogether ==
    ASSUME messages \in Seq(Messages), NEW S, NEW R, NEW p, NEW q, Typed(p, S), Typed(q, R),
           NEW which, \A i \in DOMAIN messages : i \in which => Len(p[i]) = Len(q[i])
    PROVE  Beside(p, q, which)
  <1>. DEFINE s == Kept(p, which)
              t == Kept(q, which)
  <1>1. /\ s \in Seq(Seq(S)) /\ Len(s) = Len(messages) /\ Joined(p, which) = FlattenSeq(s)
        /\ DOMAIN messages = 1 .. Len(messages) /\ Len(messages) \in Nat
        /\ \A i \in 1 .. Len(messages) : s[i] = IF i \in which THEN p[i] ELSE << >>
        /\ Joined(p, which) \in Seq(S)
    BY KeptType
  <1>2. /\ t \in Seq(Seq(R)) /\ Len(t) = Len(messages) /\ Joined(q, which) = FlattenSeq(t)
        /\ \A i \in 1 .. Len(messages) : t[i] = IF i \in which THEN q[i] ELSE << >>
    BY KeptType
  <1>. HIDE DEF s, t
  <1>3. Alike(s, t)
    BY <1>1, <1>2 DEF Alike
  <1>4. Aligned(s, t)
    BY <1>1, <1>2, <1>3, FlattenTogether
  <1>5. ASSUME NEW i \in 1 .. Len(s), NEW j \in 1 .. Len(s[i])
        PROVE  i \in DOMAIN messages /\ i \in which /\ s[i] = p[i] /\ t[i] = q[i]
    <2>1. i \in 1 .. Len(messages) /\ i \in DOMAIN messages
      BY <1>1
    <2>2. i \in which
      <3>. SUFFICES ASSUME i \notin which PROVE FALSE
        OBVIOUS
      <3>1. s[i] = << >>
        BY <1>1, <2>1
      <3>. QED
        BY <3>1
    <2>. QED
      BY <1>1, <1>2, <2>1, <2>2
  <1>6. Len(Joined(p, which)) \in Nat /\ Len(Joined(p, which)) = Len(Joined(q, which))
    BY <1>1, <1>2, <1>4, LenProperties DEF Aligned
  <1>7. ASSUME NEW k \in 1 .. Len(Joined(p, which))
        PROVE  \E i \in DOMAIN messages : \E j \in 1 .. Len(p[i]) :
             i \in which /\ Joined(p, which)[k] = p[i][j] /\ Joined(q, which)[k] = q[i][j]
    <2>1. PICK i \in 1 .. Len(s) : \E j \in 1 .. Len(s[i]) :
             FlattenSeq(s)[k] = s[i][j] /\ FlattenSeq(t)[k] = t[i][j]
      BY <1>1, <1>4 DEF Aligned
    <2>2. PICK j \in 1 .. Len(s[i]) : FlattenSeq(s)[k] = s[i][j] /\ FlattenSeq(t)[k] = t[i][j]
      BY <2>1
    <2>3. i \in DOMAIN messages /\ i \in which /\ s[i] = p[i] /\ t[i] = q[i]
      BY <1>5
    <2>. QED
      BY <1>1, <1>2, <2>2, <2>3
  <1>. QED
    BY <1>6, <1>7 DEF Beside

\* The whole is as long as its two parts.
LEMMA JoinedApart ==
    ASSUME messages \in Seq(Messages), NEW S, NEW p, Typed(p, S)
    PROVE  /\ Len(Joined(p, DOMAIN messages))
                  = Len(Joined(p, Others)) + Len(Joined(p, Assistants))
           /\ Len(Joined(p, Others)) \in Nat /\ Len(Joined(p, Assistants)) \in Nat
  <1>. DEFINE w == DOMAIN messages
  <1>1. /\ Kept(p, w) \in Seq(Seq(S)) /\ Len(Kept(p, w)) = Len(messages)
        /\ Joined(p, w) = FlattenSeq(Kept(p, w))
        /\ \A i \in 1 .. Len(messages) : Kept(p, w)[i] = IF i \in w THEN p[i] ELSE << >>
    BY KeptType
  <1>2. /\ Kept(p, Others) \in Seq(Seq(S)) /\ Len(Kept(p, Others)) = Len(messages)
        /\ Joined(p, Others) = FlattenSeq(Kept(p, Others)) /\ Joined(p, Others) \in Seq(S)
        /\ \A i \in 1 .. Len(messages) :
              Kept(p, Others)[i] = IF i \in Others THEN p[i] ELSE << >>
    BY KeptType
  <1>3. /\ Kept(p, Assistants) \in Seq(Seq(S)) /\ Len(Kept(p, Assistants)) = Len(messages)
        /\ Joined(p, Assistants) = FlattenSeq(Kept(p, Assistants))
        /\ Joined(p, Assistants) \in Seq(S)
        /\ \A i \in 1 .. Len(messages) :
              Kept(p, Assistants)[i] = IF i \in Assistants THEN p[i] ELSE << >>
    BY KeptType
  <1>4. DOMAIN messages = 1 .. Len(messages) /\ Len(messages) \in Nat
    BY LenProperties
  <1>5. ASSUME NEW i \in 1 .. Len(messages)
        PROVE  Len(Kept(p, w)[i]) = Len(Kept(p, Others)[i]) + Len(Kept(p, Assistants)[i])
    <2>1. Len(p[i]) \in Nat /\ Len(<< >>) = 0
      BY <1>4, LenProperties DEF Typed
    <2>2. CASE i \in Assistants
      <3>1. Kept(p, w)[i] = p[i] /\ Kept(p, Others)[i] = << >> /\ Kept(p, Assistants)[i] = p[i]
        BY <1>1, <1>2, <1>3, <1>4, <2>2 DEF Others
      <3>. QED
        BY <2>1, <3>1
    <2>3. CASE i \notin Assistants
      <3>1. Kept(p, w)[i] = p[i] /\ Kept(p, Others)[i] = p[i] /\ Kept(p, Assistants)[i] = << >>
        BY <1>1, <1>2, <1>3, <1>4, <2>3 DEF Others
      <3>. QED
        BY <2>1, <3>1
    <2>. QED
      BY <2>2, <2>3
  <1>6. Adds(Kept(p, w), Kept(p, Others), Kept(p, Assistants))
    BY <1>1, <1>2, <1>3, <1>5 DEF Adds
  <1>. HIDE DEF w
  <1>7. Len(FlattenSeq(Kept(p, w)))
            = Len(FlattenSeq(Kept(p, Others))) + Len(FlattenSeq(Kept(p, Assistants)))
    BY <1>1, <1>2, <1>3, <1>6, FlattenApart
  <1>. QED
    BY <1>1, <1>2, <1>3, <1>7, LenProperties DEF w

\* Where the part of one message is.
Earlier(which, i) == {j \in which : j < i}

LEMMA JoinedPiece ==
    ASSUME messages \in Seq(Messages), NEW S, NEW p, Typed(p, S), NEW which,
           NEW i \in DOMAIN messages, i \in which,
           NEW b, b = Len(Joined(p, Earlier(which, i)))
    PROVE  /\ b \in Nat /\ b + Len(p[i]) <= Len(Joined(p, which))
           /\ \A j \in 1 .. Len(p[i]) : Joined(p, which)[b + j] = p[i][j]
  <1>. DEFINE s == Kept(p, which)
              e == Earlier(which, i)
  <1>1. /\ s \in Seq(Seq(S)) /\ Len(s) = Len(messages) /\ Joined(p, which) = FlattenSeq(s)
        /\ DOMAIN messages = 1 .. Len(messages) /\ Len(messages) \in Nat
        /\ \A j \in 1 .. Len(messages) : s[j] = IF j \in which THEN p[j] ELSE << >>
    BY KeptType
  <1>2. Joined(p, e) = FlattenSeq(Kept(p, e))
    BY DEF Joined, Kept
  <1>3. Kept(p, e) = Cut(s, i)
    BY <1>1 DEF Kept, Cut, Earlier
  <1>4. s[i] = p[i]
    BY <1>1
  <1>. HIDE DEF s, e
  <1>5. Found(s, i)
    BY <1>1, FlattenPiece
  <1>. QED
    BY <1>1, <1>2, <1>3, <1>4, <1>5 DEF Found, e

\* The tokens, the masks and the padding of one message.
LEMMA OfOneMessage ==
    ASSUME NEW i \in Nat, NEW n \in Nat, NEW prefix \in Nat
    PROVE  /\ Segment(i, n) \in Seq(Pair) /\ Len(Segment(i, n)) = n
           /\ \A j \in 1 .. n : Segment(i, n)[j] = <<i, j>>
           /\ MaskOf(n, prefix) \in Seq(Nat) /\ Len(MaskOf(n, prefix)) = n
           /\ \A j \in 1 .. n : MaskOf(n, prefix)[j] = 0 <=> j <= prefix
  <1>1. /\ Segment(i, n) \in Seq(Pair) /\ Len(Segment(i, n)) = n
        /\ \A j \in 1 .. n : Segment(i, n)[j] = <<i, j>>
    BY DEF Segment, Pair
  <1>. DEFINE m == Least(prefix, n)
              u == Repeat(0, m)
              v == Repeat(1, n - m)
  <1>2. m \in Nat /\ m <= n /\ n - m \in Nat /\ \A j \in 1 .. n : j <= m <=> j <= prefix
    BY DEF Least
  <1>. HIDE DEF m
  <1>3. /\ u \in Seq(Nat) /\ Len(u) = m /\ \A j \in 1 .. m : u[j] = 0
        /\ v \in Seq(Nat) /\ Len(v) = n - m /\ \A j \in 1 .. n - m : v[j] = 1
    BY <1>2 DEF Repeat
  <1>4. MaskOf(n, prefix) = u \o v
    BY DEF MaskOf, m
  <1>. HIDE DEF u, v
  <1>5. /\ u \o v \in Seq(Nat) /\ Len(u \o v) = n
        /\ \A j \in 1 .. n : (u \o v)[j] = IF j <= m THEN u[j] ELSE v[j - m]
    <2>1. /\ u \o v \in Seq(Nat) /\ Len(u \o v) = Len(u) + Len(v)
          /\ \A j \in 1 .. Len(u) + Len(v) :
                (u \o v)[j] = IF j <= Len(u) THEN u[j] ELSE v[j - Len(u)]
      BY <1>3, ConcatProperties
    <2>2. Len(u) = m /\ Len(v) = n - m /\ Len(u) + Len(v) = n
      BY <1>2, <1>3
    <2>. QED
      BY ONLY <2>1, <2>2
  <1>6. ASSUME NEW j \in 1 .. n PROVE (u \o v)[j] = 0 <=> j <= prefix
    <2>0. j <= m <=> j <= prefix
      BY <1>2
    <2>1. CASE j <= m
      <3>1. (u \o v)[j] = 0
        BY <1>3, <1>5, <2>1
      <3>. QED
        BY <2>0, <2>1, <3>1
    <2>2. CASE ~ (j <= m)
      <3>1. j - m \in 1 .. n - m
        BY <1>2, <2>2
      <3>2. (u \o v)[j] = 1
        BY <1>3, <1>5, <2>2, <3>1
      <3>. QED
        BY <2>0, <2>2, <3>2
    <2>. QED
      BY <2>1, <2>2
  <1>. QED
    BY <1>1, <1>4, <1>5, <1>6

Segments(counts) == [i \in DOMAIN messages |-> Segment(i, counts[i])]
Masks(counts, prefix) == [i \in DOMAIN messages |-> MaskOf(counts[i], prefix)]
Zeros(counts) == [i \in DOMAIN messages |-> Repeat(0, counts[i])]
Counts == [DOMAIN messages -> Nat]

LEMMA OfAll ==
    ASSUME messages \in Seq(Messages), NEW counts \in Counts, NEW prefix \in Nat
    PROVE  /\ Typed(Segments(counts), Pair) /\ Typed(Masks(counts, prefix), Nat)
           /\ Typed(Zeros(counts), Nat)
           /\ \A i \in DOMAIN messages :
                /\ counts[i] \in Nat /\ Len(Segments(counts)[i]) = counts[i]
                /\ Len(Masks(counts, prefix)[i]) = counts[i] /\ Len(Zeros(counts)[i]) = counts[i]
                /\ \A j \in 1 .. counts[i] : Segments(counts)[i][j] = <<i, j>>
                /\ \A j \in 1 .. counts[i] : Masks(counts, prefix)[i][j] = 0 <=> j <= prefix
  <1>. SUFFICES ASSUME NEW i \in DOMAIN messages
                PROVE  /\ Segments(counts)[i] \in Seq(Pair) /\ Masks(counts, prefix)[i] \in Seq(Nat)
                       /\ Zeros(counts)[i] \in Seq(Nat)
                       /\ counts[i] \in Nat /\ Len(Segments(counts)[i]) = counts[i]
                       /\ Len(Masks(counts, prefix)[i]) = counts[i]
                       /\ Len(Zeros(counts)[i]) = counts[i]
                       /\ \A j \in 1 .. counts[i] : Segments(counts)[i][j] = <<i, j>>
                       /\ \A j \in 1 .. counts[i] : Masks(counts, prefix)[i][j] = 0 <=> j <= prefix
    BY DEF Typed
  <1>1. i \in Nat /\ counts[i] \in Nat
    BY DEF Counts
  <1>2. /\ Segments(counts)[i] = Segment(i, counts[i])
        /\ Masks(counts, prefix)[i] = MaskOf(counts[i], prefix)
        /\ Zeros(counts)[i] = Repeat(0, counts[i])
    BY DEF Segments, Masks, Zeros
  <1>3. Repeat(0, counts[i]) \in Seq(Nat) /\ Len(Repeat(0, counts[i])) = counts[i]
    BY <1>1 DEF Repeat
  <1>4. /\ Segment(i, counts[i]) \in Seq(Pair) /\ Len(Segment(i, counts[i])) = counts[i]
        /\ \A j \in 1 .. counts[i] : Segment(i, counts[i])[j] = <<i, j>>
        /\ MaskOf(counts[i], prefix) \in Seq(Nat) /\ Len(MaskOf(counts[i], prefix)) = counts[i]
        /\ \A j \in 1 .. counts[i] : MaskOf(counts[i], prefix)[j] = 0 <=> j <= prefix
    BY <1>1, OfOneMessage
  <1>. QED
    BY <1>1, <1>2, <1>3, <1>4, Zenon

\* The counts of any of the messages add up to their tokens.
LEMMA TotalIsLength ==
    ASSUME messages \in Seq(Messages), NEW counts \in Counts, NEW which
    PROVE  /\ Total(counts, which) = Len(Joined(Segments(counts), which))
           /\ Total(counts, which) \in Nat
  <1>1. /\ Typed(Segments(counts), Pair) /\ Typed(Zeros(counts), Nat)
        /\ \A i \in DOMAIN messages : Len(Segments(counts)[i]) = Len(Zeros(counts)[i])
    BY OfAll, 0 \in Nat
  <1>2. Beside(Segments(counts), Zeros(counts), which)
    BY <1>1, JoinedTogether
  <1>3. Total(counts, which) = Len(Joined(Zeros(counts), which))
    BY DEF Total, Zeros
  <1>. QED
    BY <1>2, <1>3 DEF Beside

LEMMA ArraysFields ==
    ASSUME NEW counts, NEW prefix, NEW a, a = Arrays(counts, prefix)
    PROVE  /\ a.counts = counts /\ a.prefix = prefix
           /\ a.prompt = Joined(Segments(counts), Others)
           /\ a.response = Joined(Segments(counts), Assistants)
           /\ a.mask = Joined(Masks(counts, prefix), Assistants)
  BY DEF Arrays, Segments, Masks

\* The mask beside the response.
LEMMA MaskBeside ==
    ASSUME messages \in Seq(Messages), NEW counts \in Counts, NEW prefix \in Nat,
           NEW a, a = Arrays(counts, prefix)
    PROVE  /\ Len(a.response) \in Nat /\ Len(a.mask) = Len(a.response)
           /\ DOMAIN a.response = 1 .. Len(a.response)
           /\ \A k \in 1 .. Len(a.response) : a.mask[k] = 0 <=> a.response[k][2] <= a.prefix
  <1>. DEFINE p == Segments(counts)
              q == Masks(counts, prefix)
  <1>1. /\ a.prefix = prefix /\ a.response = Joined(p, Assistants) /\ a.mask = Joined(q, Assistants)
    BY ArraysFields
  <1>2. /\ Typed(p, Pair) /\ Typed(q, Nat)
        /\ \A i \in DOMAIN messages :
             /\ Len(p[i]) = counts[i] /\ Len(q[i]) = counts[i]
             /\ \A j \in 1 .. counts[i] : p[i][j] = <<i, j>>
             /\ \A j \in 1 .. counts[i] : q[i][j] = 0 <=> j <= prefix
    BY OfAll
  <1>. HIDE DEF p, q
  <1>3. Beside(p, q, Assistants)
    BY <1>2, JoinedTogether
  <1>4. Joined(p, Assistants) \in Seq(Pair)
    BY <1>2, KeptType
  <1>5. ASSUME NEW k \in 1 .. Len(a.response)
        PROVE  a.mask[k] = 0 <=> a.response[k][2] <= a.prefix
    <2>1. PICK i \in DOMAIN messages : \E j \in 1 .. Len(p[i]) :
             a.response[k] = p[i][j] /\ a.mask[k] = q[i][j]
      BY <1>1, <1>3 DEF Beside
    <2>2. PICK j \in 1 .. Len(p[i]) : a.response[k] = p[i][j] /\ a.mask[k] = q[i][j]
      BY <2>1
    <2>3. p[i][j] = <<i, j>> /\ (q[i][j] = 0 <=> j <= prefix)
      BY <1>2
    <2>4. a.response[k][2] = j
      BY <2>2, <2>3
    <2>. QED
      BY <1>1, <2>2, <2>3, <2>4
  <1>. QED
    BY <1>1, <1>3, <1>4, <1>5, LenProperties DEF Beside

\* The arrays pass both checks.
LEMMA ArraysPass ==
    ASSUME messages \in Seq(Messages), NEW counts \in Counts, NEW prefix \in Nat,
           NEW a, a = Arrays(counts, prefix)
    PROVE  ShapesOK(a) /\ Section4(a)
  <1>1. /\ a.counts = counts /\ a.prompt = Joined(Segments(counts), Others)
        /\ a.response = Joined(Segments(counts), Assistants)
    BY ArraysFields
  <1>2. Len(a.mask) = Len(a.response)
    BY MaskBeside
  <1>3. Len(counts) = Len(messages)
    <2>1. DOMAIN counts = 1 .. Len(messages) /\ Len(messages) \in Nat
      BY LenProperties DEF Counts
    <2>. QED
      BY <2>1
  <1>4. /\ Total(counts, Others) = Len(a.prompt) /\ Total(counts, Assistants) = Len(a.response)
        /\ Total(counts, DOMAIN messages) = Len(Joined(Segments(counts), DOMAIN messages))
    BY <1>1, TotalIsLength
  <1>5. Typed(Segments(counts), Pair)
    BY OfAll, 0 \in Nat
  <1>6. Len(Joined(Segments(counts), DOMAIN messages)) = Len(a.prompt) + Len(a.response)
    BY <1>1, <1>5, JoinedApart
  <1>. QED
    BY <1>1, <1>2, <1>3, <1>4, <1>6 DEF ShapesOK, Section4

\* What labels_for_sft makes of each message: its own tokens, cut out of the
\* response, or as many times ignore_index.
Marked == Pair \cup {Ignore}
Labels(a) ==
    [i \in DOMAIN messages |->
        IF i \in Assistants
          THEN SubSeq(a.response, Before(a, i) + 1, Before(a, i) + a.counts[i])
          ELSE Repeat(Ignore, a.counts[i])]

Slice(s, b, n) == SubSeq(s, b + 1, b + n)

LEMMA CutOut ==
    ASSUME NEW S, NEW s \in Seq(S), NEW b \in Nat, NEW n \in Nat, b + n <= Len(s)
    PROVE  /\ Slice(s, b, n) \in Seq(S) /\ Len(Slice(s, b, n)) = n
           /\ \A j \in 1 .. n : Slice(s, b, n)[j] = s[b + j]
  <1>1. Len(s) \in Nat /\ \A j \in 1 .. n : b + j \in 1 .. Len(s) /\ s[b + j] \in S
    BY LenProperties
  <1>2. Slice(s, b, n) = [j \in 1 .. n |-> s[b + j]]
    BY <1>1 DEF Slice
  <1>. QED
    BY <1>1, <1>2

LEMMA LabelsOfOne ==
    ASSUME messages \in Seq(Messages), NEW counts \in Counts, NEW prefix \in Nat,
           NEW a, a = Arrays(counts, prefix), NEW i \in DOMAIN messages
    PROVE  /\ Labels(a)[i] \in Seq(Marked) /\ Len(Labels(a)[i]) = counts[i]
           /\ \A j \in 1 .. counts[i] :
                Labels(a)[i][j] = IF i \in Assistants THEN <<i, j>> ELSE Ignore
  <1>1. a.counts = counts /\ a.response = Joined(Segments(counts), Assistants)
    BY ArraysFields
  <1>2. /\ Typed(Segments(counts), Pair) /\ counts[i] \in Nat
        /\ Len(Segments(counts)[i]) = counts[i]
        /\ \A j \in 1 .. counts[i] : Segments(counts)[i][j] = <<i, j>>
    BY OfAll
  <1>3. a.response \in Seq(Pair)
    BY <1>1, <1>2, KeptType
  <1>4. CASE i \in Assistants
    <2>. DEFINE b == Before(a, i)
                p == Segments(counts)
                n == counts[i]
                r == a.response
    <2>1. b = Len(Joined(p, Earlier(Assistants, i)))
      BY <1>1, TotalIsLength DEF Before, Earlier
    <2>0. Typed(p, Pair) /\ r = Joined(p, Assistants)
      BY <1>1, <1>2
    <2>. HIDE DEF b, p
    <2>6. /\ b \in Nat /\ b + Len(p[i]) <= Len(Joined(p, Assistants))
          /\ \A j \in 1 .. Len(p[i]) : Joined(p, Assistants)[b + j] = p[i][j]
      BY <1>4, <2>0, <2>1, JoinedPiece, SMTT(30)
    <2>2. /\ b \in Nat /\ b + n <= Len(r)
          /\ \A j \in 1 .. n : r[b + j] = <<i, j>>
      BY <1>2, <2>0, <2>6 DEF p
    <2>7. r \in Seq(Pair) /\ n \in Nat
      BY <1>2, <1>3
    <2>. HIDE DEF n, r
    <2>3. /\ Slice(r, b, n) \in Seq(Pair) /\ Len(Slice(r, b, n)) = n
          /\ \A j \in 1 .. n : Slice(r, b, n)[j] = r[b + j]
      <3>1. b \in Nat /\ b + n <= Len(r)
        BY <2>2
      <3>. QED
        BY ONLY <2>7, <3>1, CutOut
    <2>4. Labels(a)[i] = Slice(r, b, n)
      BY <1>1, <1>4 DEF Labels, Slice, b, n, r
    <2>5. Seq(Pair) \subseteq Seq(Marked)
      BY DEF Marked
    <2>. QED
      BY <1>4, <2>2, <2>3, <2>4, <2>5, <2>7 DEF n
  <1>5. CASE i \notin Assistants
    <2>1. Labels(a)[i] = Repeat(Ignore, counts[i])
      BY <1>1, <1>5 DEF Labels
    <2>2. /\ Repeat(Ignore, counts[i]) \in Seq(Marked) /\ Len(Repeat(Ignore, counts[i])) = counts[i]
          /\ \A j \in 1 .. counts[i] : Repeat(Ignore, counts[i])[j] = Ignore
      BY <1>2 DEF Repeat, Marked
    <2>. QED
      BY <1>5, <2>1, <2>2
  <1>. QED
    BY <1>4, <1>5

\* The labels beside the whole sequence.
LEMMA LabelsBeside ==
    ASSUME messages \in Seq(Messages), NEW counts \in Counts, NEW prefix \in Nat,
           NEW a, a = Arrays(counts, prefix),
           NEW all, all = Joined(Segments(counts), DOMAIN messages)
    PROVE  /\ Len(LabelsForSft(a)) = Len(all) /\ DOMAIN all = 1 .. Len(all)
           /\ \A k \in 1 .. Len(all) :
                LabelsForSft(a)[k] = IF all[k][1] \in Assistants THEN all[k] ELSE Ignore
  <1>. DEFINE p == Segments(counts)
              q == Labels(a)
              w == DOMAIN messages
  <1>1. LabelsForSft(a) = Joined(q, w)
    BY DEF LabelsForSft, Labels
  <1>2. /\ Typed(p, Pair)
        /\ \A i \in w : Len(p[i]) = counts[i] /\ \A j \in 1 .. counts[i] : p[i][j] = <<i, j>>
    BY OfAll
  <1>3. /\ Typed(q, Marked)
        /\ \A i \in w :
             /\ Len(q[i]) = counts[i]
             /\ \A j \in 1 .. counts[i] : q[i][j] = IF i \in Assistants THEN <<i, j>> ELSE Ignore
    BY LabelsOfOne DEF Typed
  <1>7. all = Joined(p, w)
    OBVIOUS
  <1>. HIDE DEF p, q
  <1>4. Beside(p, q, w)
    BY <1>2, <1>3, JoinedTogether
  <1>5. all \in Seq(Pair)
    BY <1>2, <1>7, KeptType
  <1>6. ASSUME NEW k \in 1 .. Len(all)
        PROVE  LabelsForSft(a)[k] = IF all[k][1] \in Assistants THEN all[k] ELSE Ignore
    <2>0. k \in 1 .. Len(Joined(p, w)) /\ all[k] = Joined(p, w)[k]
          /\ LabelsForSft(a)[k] = Joined(q, w)[k]
      BY <1>1, <1>7
    <2>1. PICK i \in w : \E j \in 1 .. Len(p[i]) :
             all[k] = p[i][j] /\ LabelsForSft(a)[k] = q[i][j]
      BY ONLY <1>4, <2>0 DEF Beside
    <2>2. PICK j \in 1 .. Len(p[i]) : all[k] = p[i][j] /\ LabelsForSft(a)[k] = q[i][j]
      BY <2>1
    <2>3. /\ p[i][j] = <<i, j>>
          /\ q[i][j] = IF i \in Assistants THEN <<i, j>> ELSE Ignore
      BY <1>2, <1>3
    <2>4. all[k][1] = i
      BY <2>2, <2>3
    <2>. QED
      BY <2>2, <2>3, <2>4
  <1>. QED
    BY <1>1, <1>4, <1>5, <1>6, <1>7, LenProperties DEF Beside

\* The arrays that were attached are those of the messages, which stay.
TokInv ==
    /\ AInv
    /\ stage # "none" =>
         /\ stage = "accepted" /\ pc = "done"
         /\ \E counts \in Counts, prefix \in Nat : tokens = Arrays(counts, prefix)

LEMMA TokenStep == TokInv /\ [TokenNext]_<<vars, tokenVars>> => TokInv'
  <1>. SUFFICES ASSUME TokInv, [TokenNext]_<<vars, tokenVars>> PROVE TokInv'
    OBVIOUS
  <1>1. [Next]_vars
    BY DEF TokenNext, Attach
  <1>2. AInv'
    BY <1>1, VarsStep, LengthsStep, CallsStep, StoryStep DEF AInv, TokInv
  <1>3. CASE Attach
    <2>1. PICK counts \in [DOMAIN messages -> SegmentLengths], prefix \in PrefixMasks :
             /\ tokens' = Arrays(counts, prefix)
             /\ stage' = IF ShapesOK(tokens') THEN "accepted" ELSE "refused"
      BY <1>3 DEF Attach
    <2>2. counts \in Counts /\ prefix \in Nat
      BY TokenConstants DEF Counts
    <2>3. messages \in Seq(Messages) /\ pc = "done"
      BY <1>3 DEF Attach, TokInv, AInv, VarsOK, StoryOK
    <2>4. ShapesOK(tokens')
      BY <2>1, <2>2, <2>3, ArraysPass
    <2>5. messages' = messages /\ pc' = pc
      BY <1>3 DEF Attach, vars
    <2>6. Counts' = Counts /\ Arrays(counts, prefix)' = Arrays(counts, prefix)
      BY <2>5 DEF Counts, Arrays, Joined, Others, Assistants
    <2>. QED
      BY <1>2, <2>1, <2>2, <2>3, <2>4, <2>5, <2>6 DEF TokInv
  <1>4. CASE [Next]_vars /\ UNCHANGED tokenVars
    <2>1. stage' = stage /\ tokens' = tokens
      BY <1>4 DEF tokenVars
    <2>2. CASE stage = "none"
      BY <1>2, <2>1, <2>2 DEF TokInv
    <2>3. CASE stage # "none"
      <3>1. pc = "done" /\ stage = "accepted"
        BY <2>3 DEF TokInv
      <3>2. messages' = messages /\ pc' = pc
        BY <1>1, <3>1 DEF vars, Next, Run, Done, Interrupt, Striking, CutShort, CutLate, Create,
                          Exhausted, DecideFails, Decide,
                          ExecuteTool, ExecuteFinish, ExecuteFails, ExportPatch, Destroy, Validate
      <3>3. PICK counts \in Counts, prefix \in Nat : tokens = Arrays(counts, prefix)
        BY <2>3 DEF TokInv
      <3>4. Counts' = Counts /\ Arrays(counts, prefix)' = Arrays(counts, prefix)
        BY <3>2 DEF Counts, Arrays, Joined, Others, Assistants
      <3>. QED
        BY <1>2, <2>1, <3>1, <3>2, <3>3, <3>4 DEF TokInv
    <2>. QED
      BY <2>2, <2>3
  <1>. QED
    BY <1>1, <1>3, <1>4 DEF TokenNext

(* Whatever the rollout was and however many tokens each of its messages    *)
(* has: the arrays of build_token_arrays pass the shape checks and section  *)
(* 4 of validate_trajectory, the labels of labels_for_sft run along the     *)
(* whole sequence and carry a token exactly where an assistant wrote it,    *)
(* and mask 0 stands on the first tokens of each assistant message only.    *)
THEOREM TokensStayAligned == TokenSpec => []TokensAlign
  <1>1. TokenInit => TokInv
    BY InitOK DEF TokenInit, TokInv
  <1>2. TokInv => TokensAlign
    <2>1. CASE stage = "none"
      BY <2>1 DEF TokensAlign
    <2>2. ASSUME TokInv, stage # "none" PROVE TokensAlign
      <3>1. messages \in Seq(Messages) /\ stage = "accepted"
        BY <2>2 DEF TokInv, AInv, VarsOK
      <3>2. PICK counts \in Counts, prefix \in Nat : tokens = Arrays(counts, prefix)
        BY <2>2 DEF TokInv
      <3>. DEFINE all == Joined([i \in DOMAIN messages |-> Segment(i, tokens.counts[i])],
                                DOMAIN messages)
      <3>3. all = Joined(Segments(counts), DOMAIN messages)
        BY <3>2, ArraysFields DEF Segments
      <3>. HIDE DEF all
      <3>4. Section4(tokens)
        BY <3>1, <3>2, ArraysPass
      <3>5. /\ Len(LabelsForSft(tokens)) = Len(all) /\ DOMAIN all = 1 .. Len(all)
            /\ \A k \in DOMAIN all : LabelsForSft(tokens)[k]
                   = IF all[k][1] \in Assistants THEN all[k] ELSE Ignore
        BY <3>1, <3>2, <3>3, LabelsBeside
      <3>6. \A k \in DOMAIN tokens.response :
              tokens.mask[k] = 0 <=> tokens.response[k][2] <= tokens.prefix
        BY <3>1, <3>2, MaskBeside
      <3>. QED
        BY <3>1, <3>4, <3>5, <3>6 DEF TokensAlign, all
    <2>. QED
      BY <2>1, <2>2
  <1>. QED
    BY <1>1, <1>2, TokenStep, PTL DEF TokenSpec
=============================================================================
