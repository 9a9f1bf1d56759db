------------------------------ MODULE LoopLemmas ------------------------------
(***************************************************************************)
(* Loops that count up from 0, written as recursive functions: a function  *)
(* that is defined step by step exists, and what every step preserves      *)
(* holds at the end.  Both follow from the least element of a set of       *)
(* natural numbers.  At the end, what a sequence is without one element.   *)
(***************************************************************************)
EXTENDS Integers, Sequences, FiniteSetTheorems, TLAPS

\* A set of natural numbers has a least element.
LEMMA Least ==
    ASSUME NEW T \in SUBSET Nat, T # {}
    PROVE  \E m \in T : \A k \in T : m <= k
<1> DEFINE F == {1 .. n : n \in T}
<1>1. \E x \in F : \A y \in F : ~(<<y, x>> \in StrictSubsetOrdering(Nat))
  <2>1. F \subseteq FiniteSubsetsOf(Nat)
    BY FS_Interval DEF FiniteSubsetsOf
  <2>2. F # {}
    OBVIOUS
  <2> HIDE DEF F
  <2>3. QED
    BY <2>1, <2>2, FS_StrictSubsetOrderingWellFounded, WFMin
<1>2. PICK m \in T : \A y \in F : ~(<<y, 1 .. m>> \in StrictSubsetOrdering(Nat))
  BY <1>1
<1>3. ASSUME NEW k \in T, k < m
      PROVE  FALSE
  <2>1. ~(<<1 .. k, 1 .. m>> \in StrictSubsetOrdering(Nat))
    BY <1>2
  <2>2. /\ 1 .. k \subseteq 1 .. m /\ m \in 1 .. m /\ m \notin 1 .. k
        /\ (1 .. k) \in SUBSET Nat /\ (1 .. m) \in SUBSET Nat
    BY <1>3
  <2>3. QED
    BY <2>1, <2>2 DEF StrictSubsetOrdering
<1>4. QED
  BY <1>3

\* Induction, for a set.
LEMMA Induction ==
    ASSUME NEW S, 0 \in S, \A n \in Nat : n \in S => n + 1 \in S
    PROVE  Nat \subseteq S
<1> SUFFICES ASSUME Nat \ S # {} PROVE FALSE
  OBVIOUS
<1>1. PICK m \in Nat \ S : \A k \in Nat \ S : m <= k
  BY Least
<1>2. m # 0 /\ m - 1 \in Nat
  OBVIOUS
<1>3. m - 1 \in S
  BY <1>1, <1>2
<1>4. QED
  BY <1>1, <1>2, <1>3

\* What is in I[0] at first, and goes from I[k] to I[k + 1] in step k, is in I[k]
\* after k steps.
LEMMA Stays ==
    ASSUME NEW n \in Nat, NEW I, NEW done, done[0] \in I[0],
           \A k \in 0 .. n - 1 : done[k] \in I[k] => done[k + 1] \in I[k + 1]
    PROVE  \A k \in 0 .. n : done[k] \in I[k]
<1> DEFINE S == {k \in Nat : k <= n => done[k] \in I[k]}
<1>1. 0 \in S
  OBVIOUS
<1>2. ASSUME NEW k \in Nat, k \in S
      PROVE  k + 1 \in S
  BY <1>2
<1> HIDE DEF S
<1>3. Nat \subseteq S
  BY <1>1, <1>2, Induction
<1>4. QED
  BY <1>3 DEF S

\* done[k] is what the loop with the steps g has made of start in k steps.
IsLoop(done, n, start, g) ==
    done = [k \in 0 .. n |-> IF k = 0 THEN start ELSE g[k - 1][done[k - 1]]]

\* A loop that starts in I[0] and whose step k, the function g[k], leads from I[k]
\* to I[k + 1], is a function of the number of steps.
LEMMA LoopExists ==
    ASSUME NEW n \in Nat, NEW I, NEW start \in I[0], NEW g,
           \A k \in 0 .. n - 1 : \A x \in I[k] : g[k][x] \in I[k + 1]
    PROVE  \E done : IsLoop(done, n, start, g) /\ \A k \in 0 .. n : done[k] \in I[k]
<1> USE DEF IsLoop
<1> DEFINE Loop(m, d) == IsLoop(d, m, start, g) /\ (\A k \in 0 .. m : d[k] \in I[k])
           S == {m \in Nat : m <= n => \E d : Loop(m, d)}
<1>1. 0 \in S
  <2>1. Loop(0, [k \in 0 .. 0 |-> start])
    OBVIOUS
  <2>2. QED
    BY <2>1
<1>2. ASSUME NEW m \in Nat, m \in S, m + 1 <= n
      PROVE  \E d : Loop(m + 1, d)
  <2>1. PICK d : Loop(m, d)
    BY <1>2
  <2> DEFINE e == [k \in 0 .. m + 1 |-> IF k = 0 THEN start ELSE g[k - 1][d[k - 1]]]
  <2>2. \A k \in 0 .. m : e[k] = d[k]
    BY <2>1
  <2>3. e = [k \in 0 .. m + 1 |-> IF k = 0 THEN start ELSE g[k - 1][e[k - 1]]]
    <3> DEFINE At(f, k) == IF k = 0 THEN start ELSE g[k - 1][f[k - 1]]
    <3>1. ASSUME NEW k \in 0 .. m + 1
          PROVE  At(e, k) = At(d, k)
      <4>1. k # 0 => k - 1 \in 0 .. m
        OBVIOUS
      <4> HIDE DEF e
      <4>2. QED
        BY <2>2, <4>1
    <3>2. e = [k \in 0 .. m + 1 |-> At(d, k)]
      OBVIOUS
    <3> HIDE DEF At, e
    <3>3. e = [k \in 0 .. m + 1 |-> At(e, k)]
      BY <3>1, <3>2
    <3>4. QED
      BY <3>3 DEF At
  <2>4. \A k \in 0 .. m + 1 : e[k] \in I[k]
    <3>1. e[m + 1] = g[m][d[m]] /\ m \in 0 .. n - 1 /\ d[m] \in I[m]
      BY <1>2, <2>1
    <3>2. \A k \in 0 .. m + 1 : k = m + 1 \/ k \in 0 .. m
      OBVIOUS
    <3>3. e[m + 1] \in I[m + 1]
      BY <3>1
    <3>4. QED
      BY <2>1, <2>2, <3>2, <3>3
  <2>5. QED
    BY <2>3, <2>4
<1> HIDE DEF Loop
<1>3. \A m \in Nat : m \in S => m + 1 \in S
  BY <1>2
<1> HIDE DEF S
<1>4. n \in S
  BY <1>1, <1>3, Induction
<1>5. QED
  BY <1>4 DEF S, Loop

\* Both, for a loop that does not leave the set X.
LEMMA LoopInside ==
    ASSUME NEW n \in Nat, NEW X, NEW start \in X, NEW g,
           \A k \in 0 .. n - 1 : \A x \in X : g[k][x] \in X
    PROVE  \E done : IsLoop(done, n, start, g) /\ \A k \in 0 .. n : done[k] \in X
<1> DEFINE I == [k \in 0 .. n |-> X]
<1>1. start \in I[0] /\ \A k \in 0 .. n : I[k] = X
  OBVIOUS
<1>2. \A k \in 0 .. n - 1 : \A x \in I[k] : g[k][x] \in I[k + 1]
  OBVIOUS
<1> HIDE DEF I
<1>3. \E done : IsLoop(done, n, start, g) /\ \A k \in 0 .. n : done[k] \in I[k]
  BY <1>1, <1>2, LoopExists
<1>4. QED
  BY <1>1, <1>3

LEMMA StaysInside ==
    ASSUME NEW n \in Nat, NEW X, NEW done, done[0] \in X,
           \A k \in 0 .. n - 1 : done[k] \in X => done[k + 1] \in X
    PROVE  done[n] \in X
<1> DEFINE I == [k \in 0 .. n |-> X]
<1>1. done[0] \in I[0] /\ \A k \in 0 .. n : I[k] = X
  OBVIOUS
<1>2. \A k \in 0 .. n - 1 : done[k] \in I[k] => done[k + 1] \in I[k + 1]
  OBVIOUS
<1> HIDE DEF I
<1>3. \A k \in 0 .. n : done[k] \in I[k]
  BY <1>1, <1>2, Stays
<1>4. QED
  BY <1>1, <1>3

-----------------------------------------------------------------------------
(* Loops over a finite set or a sequence, written as folds.                 *)

\* A set of subsets that has the empty one, and each one that it has without the element
\* picked, has all of them.
BuildsUp(S, F, pick) ==
    \A s \in SUBSET S : s # {} => pick[s] \in s /\ (s \ {pick[s]} \in F => s \in F)
LEMMA Building ==
    ASSUME NEW S, IsFiniteSet(S), NEW F, {} \in F, NEW pick, BuildsUp(S, F, pick)
    PROVE  SUBSET S \subseteq F
<1> USE DEF BuildsUp
<1> DEFINE Bad == {s \in SUBSET S : s \notin F}
<1> SUFFICES ASSUME Bad # {} PROVE FALSE
  OBVIOUS
<1>1. \E x \in Bad : \A y \in Bad : ~(<<y, x>> \in StrictSubsetOrdering(S))
  <2>1. Bad \subseteq FiniteSubsetsOf(S)
    BY FS_Subset DEF FiniteSubsetsOf
  <2> HIDE DEF Bad
  <2>2. QED
    BY <2>1, FS_StrictSubsetOrderingWellFounded, WFMin
<1>2. PICK s \in Bad : \A y \in Bad : ~(<<y, s>> \in StrictSubsetOrdering(S))
  BY <1>1
<1>3. s # {} /\ s \in SUBSET S
  OBVIOUS
<1>4. pick[s] \in s
  BY <1>3
<1>5. s \ {pick[s]} \notin Bad
  <2>1. /\ s \ {pick[s]} \subseteq s /\ pick[s] \in s /\ pick[s] \notin s \ {pick[s]}
        /\ s \ {pick[s]} \in SUBSET S
    BY <1>3, <1>4
  <2>2. <<s \ {pick[s]}, s>> \in StrictSubsetOrdering(S)
    BY <1>3, <2>1 DEF StrictSubsetOrdering
  <2>3. QED
    BY <1>2, <2>2
<1>6. QED
  BY <1>3, <1>5

\* it[s] is what the steps g have made of start for the elements of s, one after the
\* other; pick says which one is the last.
IsFold(it, D, start, pick, g) ==
    it = [s \in D |-> IF s = {} THEN start ELSE g[pick[s]][it[s \ {pick[s]}]]]

\* Such a loop, that leads from I[s without the last one] to I[s], is a function.
LEMMA FoldExists ==
    ASSUME NEW S, IsFiniteSet(S), NEW I, NEW start \in I[{}], NEW pick, NEW g,
           \A s \in SUBSET S : s # {} =>
               pick[s] \in s /\ \A x \in I[s \ {pick[s]}] : g[pick[s]][x] \in I[s]
    PROVE  \E it : IsFold(it, SUBSET S, start, pick, g) /\ \A s \in SUBSET S : it[s] \in I[s]
<1> DEFINE D == [n \in Nat |-> {s \in SUBSET S : Cardinality(s) <= n}]
           Fold(n, d) == IsFold(d, D[n], start, pick, g) /\ (\A s \in D[n] : d[s] \in I[s])
           T == {n \in Nat : \E d : Fold(n, d)}
<1>1. \A s \in SUBSET S :
          /\ Cardinality(s) \in Nat /\ (Cardinality(s) = 0 <=> s = {})
          /\ s # {} => /\ s \ {pick[s]} \in SUBSET S
                       /\ Cardinality(s \ {pick[s]}) = Cardinality(s) - 1
  <2>1. SUFFICES ASSUME NEW s \in SUBSET S
                 PROVE  /\ Cardinality(s) \in Nat /\ (Cardinality(s) = 0 <=> s = {})
                        /\ s # {} => /\ s \ {pick[s]} \in SUBSET S
                                     /\ Cardinality(s \ {pick[s]}) = Cardinality(s) - 1
    OBVIOUS
  <2>2. IsFiniteSet(s)
    BY FS_Subset
  <2>3. QED
    BY <2>2, FS_CardinalityType, FS_EmptySet, FS_RemoveElement
<1>2. \A n \in Nat : \A s \in D[n + 1] : s # {} => s \ {pick[s]} \in D[n]
  BY <1>1
<1>3. \A n \in Nat : D[n] \subseteq D[n + 1] /\ D[n] \subseteq SUBSET S
  <2>1. SUFFICES ASSUME NEW n \in Nat, NEW s \in D[n] PROVE s \in D[n + 1]
    OBVIOUS
  <2>2. s \in SUBSET S /\ Cardinality(s) <= n /\ Cardinality(s) \in Nat
    BY <1>1
  <2>3. QED
    BY <2>2
<1>4. D[0] = {{}} /\ D[Cardinality(S)] = SUBSET S
  <2>1. D[0] = {{}}
    <3>1. ASSUME NEW s \in D[0] PROVE s = {}
      <4>1. s \in SUBSET S /\ Cardinality(s) <= 0 /\ Cardinality(s) \in Nat
        BY <1>1
      <4>2. Cardinality(s) = 0
        BY <4>1
      <4> HIDE DEF D
      <4>3. QED
        BY <1>1, <4>1, <4>2
    <3>2. {} \in D[0]
      <4>1. {} \in SUBSET S /\ Cardinality({}) = 0
        BY <1>1
      <4>2. QED
        BY <4>1
    <3> HIDE DEF D
    <3>3. QED
      BY <3>1, <3>2
  <2>2. \A s \in SUBSET S : Cardinality(s) <= Cardinality(S)
    BY FS_Subset
  <2>3. Cardinality(S) \in Nat
    BY FS_CardinalityType
  <2>4. QED
    BY <2>1, <2>2, <2>3
<1>5. \A n \in Nat : \A s \in D[n] : s # {} => s \ {pick[s]} \in D[n]
  BY <1>1
<1> HIDE DEF D
<1>6. 0 \in T
  <2>1. Fold(0, [s \in D[0] |-> start])
    BY <1>4 DEF IsFold
  <2>2. QED
    BY <2>1
<1>7. ASSUME NEW n \in Nat, n \in T
      PROVE  \E d : Fold(n + 1, d)
  <2>1. PICK d : Fold(n, d)
    BY <1>7
  <2> DEFINE At(f, s) == IF s = {} THEN start ELSE g[pick[s]][f[s \ {pick[s]}]]
             e == [s \in D[n + 1] |-> At(d, s)]
  <2>2. d = [s \in D[n] |-> At(d, s)]
    BY <2>1 DEF IsFold
  <2> HIDE DEF At
  <2>3. \A s \in D[n] : e[s] = d[s]
    BY <1>3, <2>2
  <2>4. \A s \in D[n + 1] : At(e, s) = At(d, s)
    <3> HIDE DEF e
    <3>1. QED
      BY <1>2, <2>3 DEF At
  <2>5. e = [s \in D[n + 1] |-> At(e, s)]
    <3>1. e = [s \in D[n + 1] |-> At(d, s)]
      OBVIOUS
    <3> HIDE DEF e
    <3>2. QED
      BY <2>4, <3>1
  <2>6. \A s \in D[n + 1] : e[s] \in I[s]
    <3>1. SUFFICES ASSUME NEW s \in D[n + 1] PROVE At(d, s) \in I[s]
      OBVIOUS
    <3>2. s \in SUBSET S
      BY <1>3
    <3>3. s # {} => d[s \ {pick[s]}] \in I[s \ {pick[s]}]
      BY <1>2, <2>1
    <3>4. QED
      BY <3>2, <3>3 DEF At
  <2>7. QED
    BY <2>5, <2>6 DEF At, IsFold
<1> HIDE DEF Fold
<1>8. \A n \in Nat : n \in T => n + 1 \in T
  BY <1>7
<1>9. Cardinality(S) \in T
  <2>1. Nat \subseteq T
    <3> HIDE DEF T
    <3>1. QED
      BY <1>6, <1>8, Induction
  <2>2. QED
    BY <2>1, FS_CardinalityType
<1>10. PICK d : Fold(Cardinality(S), d)
  BY <1>9
<1>11. QED
  BY <1>4, <1>10 DEF Fold

\* What each step of a fold keeps, holds at the end.
LEMMA FoldStays ==
    ASSUME NEW S, IsFiniteSet(S), NEW I, NEW pick, NEW it, it[{}] \in I[{}],
           \A s \in SUBSET S : s # {} =>
               pick[s] \in s /\ (it[s \ {pick[s]}] \in I[s \ {pick[s]}] => it[s] \in I[s])
    PROVE  it[S] \in I[S]
<1> DEFINE F == {s \in SUBSET S : it[s] \in I[s]}
<1>1. {} \in F
  OBVIOUS
<1>2. BuildsUp(S, F, pick)
  BY DEF BuildsUp
<1> HIDE DEF F
<1>3. SUBSET S \subseteq F
  BY <1>1, <1>2, Building
<1>4. QED
  BY <1>3 DEF F

\* What is left of a sequence without its i-th element.
IsRest(r, q, i) == r = SubSeq(q, 1, i - 1) \o SubSeq(q, i + 1, Len(q))

\* It has the elements before i where they were, and those after i one place further down.
LEMMA WithoutOne ==
    ASSUME NEW S, NEW q \in Seq(S), NEW i \in DOMAIN q,
           NEW r, IsRest(r, q, i)
    PROVE  /\ r \in Seq(S) /\ DOMAIN r = 1 .. Len(q) - 1
           /\ \A k \in 1 .. Len(q) - 1 : r[k] = q[IF k < i THEN k ELSE k + 1]
<1>1. i \in 1 .. Len(q) /\ Len(q) \in Nat
  OBVIOUS
<1> DEFINE u == SubSeq(q, 1, i - 1)
           v == SubSeq(q, i + 1, Len(q))
<1>2. u \in Seq(S) /\ Len(u) = i - 1 /\ \A k \in 1 .. i - 1 : u[k] = q[k]
  BY <1>1
<1>3. v \in Seq(S) /\ Len(v) = Len(q) - i /\ \A k \in 1 .. Len(q) - i : v[k] = q[i + k]
  BY <1>1
<1>4. r = u \o v
  BY DEF IsRest
<1> HIDE DEF u, v
<1>5. /\ u \o v \in Seq(S) /\ DOMAIN (u \o v) = 1 .. Len(q) - 1
      /\ \A k \in 1 .. i - 1 : (u \o v)[k] = u[k]
      /\ \A k \in i .. Len(q) - 1 : (u \o v)[k] = v[k - (i - 1)]
  <2>1. u \o v \in Seq(S) /\ Len(u \o v) = Len(q) - 1
    BY <1>1, <1>2, <1>3
  <2>2. DOMAIN (u \o v) = 1 .. Len(q) - 1
    BY <2>1
  <2>3. ASSUME NEW k \in 1 .. i - 1
        PROVE  (u \o v)[k] = u[k]
    BY <1>1, <1>2, <1>3
  <2>4. ASSUME NEW k \in i .. Len(q) - 1
        PROVE  (u \o v)[k] = v[k - (i - 1)]
    BY <1>1, <1>2, <1>3
  <2>5. QED
    BY <2>1, <2>2, <2>3, <2>4
<1>6. \A k \in i .. Len(q) - 1 : v[k - (i - 1)] = q[k + 1]
  <2>1. ASSUME NEW k \in i .. Len(q) - 1
        PROVE  v[k - (i - 1)] = q[k + 1]
    <3>1. k - (i - 1) \in 1 .. Len(q) - i /\ i + (k - (i - 1)) = k + 1
      BY <1>1
    <3>2. QED
      BY <1>3, <3>1
  <2>2. QED
    BY <2>1
<1>7. ASSUME NEW k \in 1 .. Len(q) - 1
      PROVE  (u \o v)[k] = q[IF k < i THEN k ELSE k + 1]
  <2>1. CASE k < i
    <3>1. k \in 1 .. i - 1
      BY <2>1
    <3>2. QED
      BY <1>2, <1>5, <2>1, <3>1
  <2>2. CASE ~(k < i)
    <3>1. k \in i .. Len(q) - 1
      BY <1>1, <2>2
    <3>2. QED
      BY <1>5, <1>6, <2>2, <3>1
  <2>3. QED
    BY <2>1, <2>2
<1>8. QED
  BY <1>4, <1>5, <1>7
=============================================================================
