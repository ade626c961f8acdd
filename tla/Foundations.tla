----------------------------- MODULE Foundations -----------------------------
(***************************************************************************)
(* What the proofs of several components rest on.  First, induction over   *)
(* the naturals; functions that recur towards a root, of which there is    *)
(* one; sums; and the functions behind folds.  Then, what calculating with *)
(* fractions in lowest terms yields: again such a fraction, of the right   *)
(* value.                                                                  *)
(***************************************************************************)
EXTENDS Rationals, FiniteSetTheorems, WellFoundedInduction, TLAPS

\* Induction over the naturals: a set that holds zero and every successor holds them all.
LEMMA NaturalsAreInductive ==
    ASSUME NEW S, 0 \in S, \A k \in Nat : k \in S => k + 1 \in S
    PROVE  \A k \in Nat : k \in S
  <1> SUFFICES ASSUME Nat \ S # {} PROVE FALSE
    OBVIOUS
  <1> DEFINE R == OpToRel(<, Nat)
  <1>a. IsWellFoundedOn(R, Nat)
    BY NatLessThanWellFounded
  <1>b. \A x, y \in Nat : x < y => <<x, y>> \in R
    BY DEF OpToRel
  <1> HIDE DEF R
  <1>1. PICK x \in Nat \ S : \A y \in Nat \ S : <<y, x>> \notin R
    BY <1>a, WFMin
  <1>2. x \in Nat /\ x # 0 /\ x - 1 \in Nat /\ x - 1 < x /\ (x - 1) + 1 = x
    BY <1>1
  <1>3. <<x - 1, x>> \in R
    BY <1>2, <1>b
  <1>4. x - 1 \in S
    BY <1>1, <1>2, <1>3
  <1> QED
    BY <1>1, <1>2, <1>4

\* A set of indices has a last one.
LEMMA LastExists ==
    ASSUME NEW n \in Nat, NEW S \in SUBSET (1 .. n), S # {}
    PROVE  \E k \in S : \A j \in S : j <= k
  <1> DEFINE Bounded(m) == \E k \in S : \A j \in S : j - m <= k
             N == {m \in Nat : Bounded(m) => Bounded(0)}
  <1>1. 0 \in N
    OBVIOUS
  <1>2. ASSUME NEW m \in Nat, m \in N PROVE m + 1 \in N
    <2> SUFFICES ASSUME NEW k \in S, \A j \in S : j - (m + 1) <= k PROVE Bounded(0)
      OBVIOUS
    <2>1. CASE \A j \in S : j - m <= k
      BY <2>1, <1>2
    <2>2. CASE \E j \in S : j - m > k
      <3>1. PICK j \in S : j - m > k
        BY <2>2
      <3>2. \A i \in S : i <= j
        BY <3>1
      <3> QED BY <3>2
    <2> QED BY <2>1, <2>2
  <1>3. n \in N
    <2> HIDE DEF N
    <2> QED BY <1>1, <1>2, NaturalsAreInductive
  <1>4. Bounded(n)
    <2>1. PICK k \in S : TRUE
      OBVIOUS
    <2>2. \A j \in S : j - n <= k
      BY <2>1
    <2> QED BY <2>1, <2>2
  <1> QED
    BY <1>3, <1>4

\* What f has at u when it is computed from what it has at u's parent, but for the roots.
FromParent(f, u, roots, base, parent, step) ==
    IF u \in roots THEN base ELSE step[<<u, f[parent[u]]>>]

Recurs(f, D, roots, base, parent, step) ==
    \A u \in D : f[u] = FromParent(f, u, roots, base, parent, step)

\* Parents have a lower height.
LeadsToRoots(D, roots, parent, height) ==
    /\ height \in [D -> Nat]
    /\ \A u \in D \ roots : parent[u] \in D /\ height[parent[u]] < height[u]

\* Two functions that recur in the same way are the same.
LEMMA RecursionUnique ==
    ASSUME NEW D, NEW roots, NEW base, NEW parent, NEW step, NEW height,
           LeadsToRoots(D, roots, parent, height),
           NEW f, NEW g,
           Recurs(f, D, roots, base, parent, step), Recurs(g, D, roots, base, parent, step)
    PROVE  \A u \in D : f[u] = g[u]
  <1> DEFINE N == {k \in Nat : \A u \in D : height[u] <= k => f[u] = g[u]}
  <1>h. \A u \in D : height[u] \in Nat
    BY DEF LeadsToRoots
  <1>1. 0 \in N
    <2> SUFFICES ASSUME NEW u \in D, height[u] <= 0 PROVE f[u] = g[u]
      OBVIOUS
    <2>1. u \in roots
      <3> SUFFICES ASSUME u \notin roots PROVE FALSE
        OBVIOUS
      <3>1. parent[u] \in D /\ height[parent[u]] < height[u]
        BY DEF LeadsToRoots
      <3> QED BY <3>1, <1>h
    <2> QED BY <2>1 DEF Recurs, FromParent
  <1>2. ASSUME NEW k \in Nat, k \in N PROVE k + 1 \in N
    <2> SUFFICES ASSUME NEW u \in D, height[u] <= k + 1 PROVE f[u] = g[u]
      OBVIOUS
    <2>1. CASE u \in roots
      BY <2>1 DEF Recurs, FromParent
    <2>2. CASE u \notin roots
      <3>1. parent[u] \in D /\ height[parent[u]] < height[u]
        BY <2>2 DEF LeadsToRoots
      <3>2. height[parent[u]] <= k
        BY <3>1, <1>h
      <3>3. f[parent[u]] = g[parent[u]]
        BY <1>2, <3>1, <3>2
      <3> QED BY <2>2, <3>3 DEF Recurs, FromParent
    <2> QED BY <2>1, <2>2
  <1>3. \A k \in Nat : k \in N
    <2> HIDE DEF N
    <2> QED BY <1>1, <1>2, NaturalsAreInductive
  <1> QED
    BY <1>3, <1>h

\* There is a function that recurs.
LEMMA RecursionExists ==
    ASSUME NEW D, NEW roots, NEW T, NEW base \in T, NEW parent, NEW step \in [D \X T -> T],
           NEW height, LeadsToRoots(D, roots, parent, height)
    PROVE  \E f \in [D -> T] : Recurs(f, D, roots, base, parent, step)
  <1> DEFINE low(k) == {u \in D : height[u] <= k}
             upTo(k) == {f \in [D -> T] : Recurs(f, low(k), roots, base, parent, step)}
             N == {k \in Nat : upTo(k) # {}}
  <1>h. \A u \in D : height[u] \in Nat
    BY DEF LeadsToRoots
  <1>l. ASSUME NEW k \in Nat, NEW u \in low(k), u \notin roots
        PROVE  /\ parent[u] \in D /\ height[parent[u]] < height[u]
               /\ parent[u] \in low(k)
    <2>1. parent[u] \in D /\ height[parent[u]] < height[u]
      BY <1>l DEF LeadsToRoots
    <2>2. height[parent[u]] <= k
      BY <2>1, <1>h
    <2> QED BY <2>1, <2>2
  <1>r. \A k \in Nat : LeadsToRoots(low(k), roots, parent, [u \in low(k) |-> height[u]])
    <2> SUFFICES ASSUME NEW k \in Nat
                 PROVE  LeadsToRoots(low(k), roots, parent, [u \in low(k) |-> height[u]])
      OBVIOUS
    <2> DEFINE hh == [u \in low(k) |-> height[u]]
    <2>1. hh \in [low(k) -> Nat]
      BY <1>h
    <2>2. ASSUME NEW u \in low(k) \ roots
          PROVE  parent[u] \in low(k) /\ hh[parent[u]] < hh[u]
      BY <1>l
    <2> HIDE DEF hh
    <2>3. LeadsToRoots(low(k), roots, parent, hh)
      BY <2>1, <2>2 DEF LeadsToRoots
    <2> QED BY <2>3 DEF hh
  <1>1. 0 \in N
    <2> DEFINE f == [u \in D |-> base]
    <2>1. f \in [D -> T]
      OBVIOUS
    <2>2. ASSUME NEW u \in low(0) PROVE f[u] = FromParent(f, u, roots, base, parent, step)
      <3>1. u \in roots
        <4> SUFFICES ASSUME u \notin roots PROVE FALSE
          OBVIOUS
        <4>1. parent[u] \in D /\ height[parent[u]] < height[u] /\ height[u] <= 0
          BY <1>l
        <4> QED BY <4>1, <1>h
      <3> QED BY <3>1 DEF FromParent
    <2> HIDE DEF f
    <2> QED BY <2>1, <2>2 DEF Recurs
  <1>2. ASSUME NEW k \in Nat, k \in N PROVE k + 1 \in N
    <2>1. PICK f \in [D -> T] : Recurs(f, low(k), roots, base, parent, step)
      BY <1>2
    <2> DEFINE g == [u \in D |-> IF u \in roots \/ parent[u] \notin D THEN base
                                 ELSE step[<<u, f[parent[u]]>>]]
    <2>2. g \in [D -> T]
      OBVIOUS
    <2>3. \A u \in low(k) : g[u] = f[u]
      BY <2>1, <1>l DEF Recurs, FromParent
    <2>4. ASSUME NEW u \in low(k + 1) PROVE g[u] = FromParent(g, u, roots, base, parent, step)
      <3>1. CASE u \in roots
        BY <3>1 DEF FromParent
      <3>2. CASE u \notin roots
        <4>1. parent[u] \in D /\ height[parent[u]] < height[u] /\ height[u] <= k + 1
          BY <3>2, <1>l
        <4>2. height[parent[u]] <= k
          BY <4>1, <1>h
        <4>3. g[parent[u]] = f[parent[u]]
          BY <4>1, <4>2, <2>3
        <4>4. g[u] = step[<<u, f[parent[u]]>>]
          BY <3>2, <4>1
        <4> QED BY <3>2, <4>3, <4>4 DEF FromParent
      <3> QED BY <3>1, <3>2
    <2> HIDE DEF g
    <2>5. g \in upTo(k + 1)
      BY <2>2, <2>4 DEF Recurs
    <2> HIDE DEF upTo
    <2>6. upTo(k + 1) # {} /\ k + 1 \in Nat
      BY <2>5
    <2> QED BY <2>6
  <1>3. \A k \in Nat : upTo(k) # {}
    <2>1. \A k \in Nat : k \in N
      <3> HIDE DEF N
      <3> QED BY <1>1, <1>2, NaturalsAreInductive
    <2> QED BY <2>1
  <1> DEFINE F == [k \in Nat |-> CHOOSE f \in upTo(k) : TRUE]
             f == [u \in D |-> F[height[u]][u]]
  <1>4. \A k \in Nat : F[k] \in [D -> T] /\ Recurs(F[k], low(k), roots, base, parent, step)
    BY <1>3
  <1>5. f \in [D -> T]
    <2> SUFFICES ASSUME NEW u \in D PROVE F[height[u]][u] \in T
      OBVIOUS
    <2> HIDE DEF F
    <2> QED BY <1>4, <1>h
  <1> HIDE DEF F
  <1>6. ASSUME NEW k \in Nat, NEW l \in Nat, l <= k, NEW u \in D, height[u] <= l
        PROVE  F[k][u] = F[l][u]
    <2>1. \A v \in low(l) : v \in low(k)
      BY <1>6, <1>h
    <2>2. Recurs(F[k], low(l), roots, base, parent, step)
      BY <1>4, <2>1 DEF Recurs
    <2>3. Recurs(F[l], low(l), roots, base, parent, step) /\ u \in low(l)
      BY <1>4, <1>6
    <2>4. LeadsToRoots(low(l), roots, parent, [v \in low(l) |-> height[v]])
      BY <1>r
    <2> DEFINE hh == [v \in low(l) |-> height[v]]
               below == low(l)
               fk == F[k]
               fl == F[l]
    <2>5. LeadsToRoots(below, roots, parent, hh) /\ u \in below
      BY <2>3, <2>4
    <2>6. Recurs(fk, below, roots, base, parent, step)
      BY <2>2
    <2>7. Recurs(fl, below, roots, base, parent, step)
      BY <2>3
    <2> HIDE DEF below, hh, fk, fl, N, upTo, f
    <2>8. \A v \in below : fk[v] = fl[v]
      BY <2>5, <2>6, <2>7, RecursionUnique
    <2> QED BY <2>5, <2>8 DEF fk, fl
  <1>7. ASSUME NEW u \in D PROVE f[u] = FromParent(f, u, roots, base, parent, step)
    <2> DEFINE k == height[u]
    <2>1. k \in Nat /\ u \in low(k)
      BY <1>h
    <2>2. F[k][u] = FromParent(F[k], u, roots, base, parent, step)
      BY <2>1, <1>4 DEF Recurs
    <2>3. CASE u \in roots
      BY <2>2, <2>3 DEF FromParent
    <2>4. CASE u \notin roots
      <3> DEFINE v == parent[u]
      <3>1. v \in D /\ height[v] < k
        BY <2>1, <2>4, <1>l
      <3>2. height[v] \in Nat /\ height[v] <= k /\ height[v] <= height[v]
        BY <3>1, <1>h
      <3>3. F[k][v] = F[height[v]][v]
        BY <3>1, <3>2, <2>1, <1>6
      <3>4. f[v] = F[k][v]
        BY <3>1, <3>3
      <3> QED BY <2>2, <2>4, <3>4 DEF FromParent
    <2> QED BY <2>3, <2>4
  <1> QED
    <2> HIDE DEF f
    <2> QED BY <1>5, <1>7 DEF Recurs

\* In particular over the first naturals, each value from the one before.
Iterates(f, n, base, step) ==
    /\ f[0] = base
    /\ \A i \in 1 .. n : f[i] = step[<<i, f[i - 1]>>]

LEMMA IterationExists ==
    ASSUME NEW n \in Nat, NEW T, NEW base \in T, NEW step \in [(0 .. n) \X T -> T]
    PROVE  \E f \in [0 .. n -> T] : Iterates(f, n, base, step)
  <1> DEFINE D == 0 .. n
             parent == [i \in D |-> i - 1]
             height == [i \in D |-> i]
  <1>1. LeadsToRoots(D, {0}, parent, height)
    BY DEF LeadsToRoots
  <1>2. \A i \in 1 .. n : i \in D /\ i # 0 /\ parent[i] = i - 1
    OBVIOUS
  <1>3. 0 \in D /\ step \in [D \X T -> T]
    OBVIOUS
  <1> HIDE DEF D, parent, height
  <1>4. PICK f \in [D -> T] : Recurs(f, D, {0}, base, parent, step)
    BY <1>1, <1>3, RecursionExists
  <1>5. f[0] = base
    BY <1>3, <1>4 DEF Recurs, FromParent
  <1>6. ASSUME NEW i \in 1 .. n PROVE f[i] = step[<<i, f[i - 1]>>]
    <2>1. i \in D /\ i \notin {0} /\ parent[i] = i - 1
      BY <1>2
    <2>2. f[i] = FromParent(f, i, {0}, base, parent, step)
      BY <1>4, <2>1 DEF Recurs
    <2> QED BY <2>1, <2>2 DEF FromParent
  <1> QED
    BY <1>4, <1>5, <1>6 DEF Iterates, D

-----------------------------------------------------------------------------
(* Sums *)

\* sum holds the sums of the first members of w.
IsSum(sum, w, n) == \A i \in 0 .. n : sum[i] = IF i = 0 THEN 0 ELSE sum[i - 1] + w[i]

\* A sum of integers exists, and there is one.
LEMMA SumExists ==
    ASSUME NEW n \in Nat, NEW w, \A i \in 1 .. n : w[i] \in Int
    PROVE  \E sum \in [0 .. n -> Int] : IsSum(sum, w, n)
  <1> DEFINE T == Int
             step == [p \in (0 .. n) \X T |-> IF p[1] = 0 THEN 0 ELSE p[2] + w[p[1]]]
  <1>1. step \in [(0 .. n) \X T -> T]
    <2> SUFFICES ASSUME NEW i \in 0 .. n, NEW x \in Int
                 PROVE  (IF i = 0 THEN 0 ELSE x + w[i]) \in Int
      OBVIOUS
    <2>1. i # 0 => i \in 1 .. n
      OBVIOUS
    <2> QED BY <2>1
  <1>2. \A i \in 1 .. n, x \in Int : step[<<i, x>>] = x + w[i]
    OBVIOUS
  <1>3. 0 \in T
    OBVIOUS
  <1> HIDE DEF T, step
  <1>4. PICK sum \in [0 .. n -> T] : Iterates(sum, n, 0, step)
    BY <1>1, <1>3, IterationExists
  <1>5. ASSUME NEW i \in 1 .. n PROVE sum[i] = sum[i - 1] + w[i]
    <2>1. i - 1 \in 0 .. n
      OBVIOUS
    <2>2. sum[i - 1] \in Int
      BY <1>4, <2>1 DEF T
    <2> QED BY <1>2, <1>4, <2>2 DEF Iterates
  <1>6. IsSum(sum, w, n)
    <2> SUFFICES ASSUME NEW i \in 0 .. n PROVE sum[i] = IF i = 0 THEN 0 ELSE sum[i - 1] + w[i]
      BY DEF IsSum
    <2>1. i = 0 \/ i \in 1 .. n
      OBVIOUS
    <2> QED BY <2>1, <1>4, <1>5 DEF Iterates
  <1>7. sum \in [0 .. n -> Int]
    BY <1>4 DEF T
  <1> QED
    BY <1>6, <1>7

LEMMA SumUnique ==
    ASSUME NEW n \in Nat, NEW w, NEW sum, NEW other, IsSum(sum, w, n), IsSum(other, w, n)
    PROVE  \A i \in 0 .. n : sum[i] = other[i]
  <1> DEFINE N == {k \in Nat : k <= n => sum[k] = other[k]}
  <1>1. 0 \in N
    BY DEF IsSum
  <1>2. ASSUME NEW k \in Nat, k \in N PROVE k + 1 \in N
    <2> SUFFICES ASSUME k + 1 <= n PROVE sum[k + 1] = other[k + 1]
      OBVIOUS
    <2>1. k + 1 \in 0 .. n /\ k + 1 # 0 /\ (k + 1) - 1 = k /\ sum[k] = other[k]
      BY <1>2
    <2>2. sum[k + 1] = sum[k] + w[k + 1] /\ other[k + 1] = other[k] + w[k + 1]
      BY <2>1 DEF IsSum
    <2> QED BY <2>1, <2>2
  <1>3. \A k \in Nat : k \in N
    <2> HIDE DEF N
    <2> QED BY <1>1, <1>2, NaturalsAreInductive
  <1> QED
    BY <1>3

-----------------------------------------------------------------------------
(* Folds *)

\* The function behind a fold over a set D with values in T, where pick says which member comes
\* next.
IsFold(f, D, T, base, step, pick) ==
    /\ f \in [SUBSET D -> T]
    /\ \A s \in SUBSET D :
           f[s] = IF s = {} THEN base ELSE step[<<pick[s], f[s \ {pick[s]}]>>]

\* If D is finite, it exists.
LEMMA FoldExists ==
    ASSUME NEW D, IsFiniteSet(D), NEW T, NEW base \in T, NEW step \in [D \X T -> T],
           NEW pick, \A s \in SUBSET D : s # {} => pick[s] \in s
    PROVE  \E f : IsFold(f, D, T, base, step, pick)
  <1> DEFINE Value(f, s) == IF s = {} THEN base ELSE step[<<pick[s], f[s \ {pick[s]}]>>]
             UpTo(k) == \E f \in [SUBSET D -> T] : \A s \in SUBSET D :
                            Cardinality(s) <= k => f[s] = Value(f, s)
             N == {k \in Nat : UpTo(k)}
  <1>1. \A s \in SUBSET D : IsFiniteSet(s) /\ Cardinality(s) \in Nat
    BY FS_Subset, FS_CardinalityType
  <1>2. 0 \in N
    <2> DEFINE f == [s \in SUBSET D |-> base]
    <2>1. f \in [SUBSET D -> T]
      OBVIOUS
    <2>2. ASSUME NEW s \in SUBSET D, Cardinality(s) <= 0 PROVE f[s] = Value(f, s)
      BY <2>2, <1>1, FS_EmptySet
    <2> QED
      BY <2>1, <2>2
  <1>3. ASSUME NEW k \in Nat, k \in N PROVE k + 1 \in N
    <2>1. PICK f \in [SUBSET D -> T] : \A s \in SUBSET D :
                            Cardinality(s) <= k => f[s] = Value(f, s)
      BY <1>3
    <2> DEFINE g == [s \in SUBSET D |-> Value(f, s)]
    <2>2. \A s \in SUBSET D : Value(f, s) \in T
      OBVIOUS
    <2>3. g \in [SUBSET D -> T]
      BY <2>2
    <2>4. ASSUME NEW s \in SUBSET D, Cardinality(s) <= k + 1 PROVE g[s] = Value(g, s)
      <3>1. CASE s = {}
        BY <3>1
      <3>2. CASE s # {}
        <4> DEFINE rest == s \ {pick[s]}
        <4>1. pick[s] \in s /\ rest \in SUBSET D
          BY <3>2
        <4>2. Cardinality(rest) = Cardinality(s) - 1
          BY <4>1, <1>1, FS_RemoveElement
        <4>3. Cardinality(rest) <= k
          <5> HIDE DEF rest
          <5> QED BY <4>2, <2>4, <1>1
        <4>4. f[rest] = Value(f, rest)
          BY <4>1, <4>3, <2>1
        <4>5. g[rest] = Value(f, rest)
          BY <4>1
        <4>6. g[s] = step[<<pick[s], f[rest]>>] /\ Value(g, s) = step[<<pick[s], g[rest]>>]
          BY <3>2
        <4> HIDE DEF g, rest, Value
        <4> QED
          BY <4>4, <4>5, <4>6
      <3> QED
        BY <3>1, <3>2
    <2>5. UpTo(k + 1)
      <3> HIDE DEF g, Value
      <3> QED BY <2>3, <2>4
    <2> HIDE DEF UpTo
    <2> QED
      BY <2>5
  <1>4. \A k \in Nat : k \in N
    <2> HIDE DEF N
    <2> QED BY <1>2, <1>3, NaturalsAreInductive
  <1>5. UpTo(Cardinality(D))
    BY <1>1, <1>4
  <1>6. \A s \in SUBSET D : Cardinality(s) <= Cardinality(D)
    BY FS_Subset
  <1> QED
    BY <1>5, <1>6 DEF IsFold

\* The highest of some positions, which is the one that a fold over a sequence takes off.
LEMMA MaxFacts ==
    ASSUME NEW n \in Nat
    PROVE  /\ \A s \in SUBSET (1 .. n) : s # {} => Max(s) \in s
           /\ \A k \in 1 .. n : /\ Max(1 .. k) = k
                               /\ 1 .. k # {} /\ 1 .. k \in SUBSET (1 .. n)
                               /\ (1 .. k) \ {k} = 1 .. k - 1
  <1>1. ASSUME NEW s \in SUBSET (1 .. n), s # {} PROVE Max(s) \in s
    <2>1. PICK k \in s : \A j \in s : j <= k
      BY <1>1, LastExists
    <2>2. \A j \in s : k >= j
      BY <2>1
    <2> QED BY <2>1, <2>2 DEF Max
  <1>2. ASSUME NEW k \in 1 .. n PROVE Max(1 .. k) = k
    <2>1. k \in 1 .. k /\ \A y \in 1 .. k : k >= y
      OBVIOUS
    <2>2. \A x \in 1 .. k : (\A y \in 1 .. k : x >= y) => x = k
      OBVIOUS
    <2> QED
      BY <2>1, <2>2 DEF Max
  <1>3. \A k \in 1 .. n : /\ 1 .. k # {} /\ 1 .. k \in SUBSET (1 .. n)
                         /\ (1 .. k) \ {k} = 1 .. k - 1
    OBVIOUS
  <1> QED
    BY <1>1, <1>2, <1>3

\* The function behind a fold over a sequence of length n exists.
IsSequenceFold(f, n, T, base, step) ==
    /\ f \in [SUBSET (1 .. n) -> T]
    /\ \A s \in SUBSET (1 .. n) :
           f[s] = IF s = {} THEN base ELSE step[<<Max(s), f[s \ {Max(s)}]>>]

\* The function behind a fold over the positions of a sequence exists.
LEMMA SequenceFoldExists ==
    ASSUME NEW n \in Nat, NEW T, NEW base \in T, NEW step \in [(1 .. n) \X T -> T]
    PROVE  \E f : IsSequenceFold(f, n, T, base, step)
  <1> DEFINE D == 1 .. n
             pick == [s \in SUBSET D |-> Max(s)]
  <1>1. IsFiniteSet(D)
    BY FS_Interval
  <1>2. \A s \in SUBSET D : s # {} => pick[s] \in s
    BY MaxFacts
  <1>3. step \in [D \X T -> T] /\ \A s \in SUBSET D : pick[s] = Max(s)
    OBVIOUS
  <1> HIDE DEF pick, D
  <1>4. PICK f : IsFold(f, D, T, base, step, pick)
    BY <1>1, <1>2, <1>3, FoldExists
  <1> QED
    BY <1>3, <1>4 DEF IsFold, IsSequenceFold, D

-----------------------------------------------------------------------------
(* The greatest common divisor *)

\* Quotient and remainder
LEMMA DivisionFacts ==
    ASSUME NEW a \in Int, NEW b \in Nat, b > 0
    PROVE  /\ a \div b \in Int /\ a % b \in Nat /\ a % b < b
           /\ a = b * (a \div b) + (a % b)
  <1> DEFINE q == a \div b
             r == a % b
  <1>1. q \in Int /\ r \in Int /\ 0 <= r /\ r < b
    OBVIOUS
  <1>2. a = b * q + r
    OBVIOUS
  <1> HIDE DEF q, r
  <1>3. r \in Nat
    BY <1>1
  <1> QED
    BY <1>1, <1>2, <1>3 DEF q, r

\* Induction over the second number.
LEMMA StrongInduction ==
    ASSUME NEW S, \A k \in Nat : (\A j \in Nat : j < k => j \in S) => k \in S
    PROVE  \A k \in Nat : k \in S
  <1> DEFINE N == {k \in Nat : \A j \in Nat : j < k => j \in S}
  <1>1. 0 \in N
    OBVIOUS
  <1>2. ASSUME NEW k \in Nat, k \in N PROVE k + 1 \in N
    <2>1. k \in S
      BY <1>2
    <2>2. \A j \in Nat : j < k + 1 => j < k \/ j = k
      OBVIOUS
    <2> QED BY <1>2, <2>1, <2>2
  <1>3. \A k \in Nat : k \in N
    <2> HIDE DEF N
    <2> QED BY <1>1, <1>2, NaturalsAreInductive
  <1> QED
    BY <1>3

\* The recursive function gcd exists and is Euclid's.
LEMMA GcdComputes ==
    /\ gcd \in [Nat \X Nat -> Nat]
    /\ \A a \in Nat : gcd[<<a, 0>>] = a
    /\ \A a, b \in Nat : b > 0 => a % b \in Nat /\ gcd[<<a, b>>] = gcd[<<b, a % b>>]
  <1> DEFINE D == Nat \X Nat
             roots == {<<0, 0>>}
             parent == [p \in D |-> IF p[2] = 0 THEN <<0, 0>> ELSE <<p[2], p[1] % p[2]>>]
             step == [q \in D \X Nat |-> IF q[1][2] = 0 THEN q[1][1] ELSE q[2]]
             height == [p \in D |-> IF p[2] = 0 THEN (IF p[1] = 0 THEN 0 ELSE 1) ELSE p[2] + 1]
             Computes(f) == f = [p \in D |-> IF p[2] = 0 THEN p[1]
                                             ELSE f[<<p[2], p[1] % p[2]>>]]
  <1>1. height \in [D -> Nat]
    OBVIOUS
  <1>2. ASSUME NEW p \in D \ roots PROVE parent[p] \in D /\ height[parent[p]] < height[p]
    <2>1. CASE p[2] = 0
      <3>1. p = <<p[1], p[2]>> /\ p[1] # 0
        BY <2>1
      <3> QED BY <2>1, <3>1
    <2>2. CASE p[2] # 0
      <3>1. p[1] \in Nat /\ p[2] \in Nat /\ p[2] > 0
        BY <2>2
      <3>2. p[1] % p[2] \in Nat /\ p[1] % p[2] < p[2]
        BY <3>1, DivisionFacts
      <3>3. parent[p] = <<p[2], p[1] % p[2]>> /\ height[p] = p[2] + 1
        BY <2>2
      <3>4. height[<<p[2], p[1] % p[2]>>] <= (p[1] % p[2]) + 1
        BY <3>1, <3>2
      <3>5. height[<<p[2], p[1] % p[2]>>] \in Nat
        BY <1>1, <3>1, <3>2
      <3> QED BY <3>1, <3>2, <3>3, <3>4, <3>5
    <2> QED BY <2>1, <2>2
  <1>3. LeadsToRoots(D, roots, parent, height)
    BY <1>1, <1>2 DEF LeadsToRoots
  <1>4. step \in [D \X Nat -> Nat]
    OBVIOUS
  <1> HIDE DEF step, height, parent
  <1>5. PICK f \in [D -> Nat] : Recurs(f, D, roots, 0, parent, step)
    BY <1>3, <1>4, RecursionExists
  <1>6. \A p \in D : f[p] = IF p[2] = 0 THEN p[1] ELSE f[<<p[2], p[1] % p[2]>>]
    <2> SUFFICES ASSUME NEW p \in D
                 PROVE  f[p] = IF p[2] = 0 THEN p[1] ELSE f[<<p[2], p[1] % p[2]>>]
      OBVIOUS
    <2>1. CASE p = <<0, 0>>
      BY <1>5, <2>1 DEF Recurs, FromParent
    <2>2. CASE p # <<0, 0>>
      <3>1. f[p] = step[<<p, f[parent[p]]>>] /\ parent[p] \in D
        BY <1>2, <1>5, <2>2 DEF Recurs, FromParent
      <3>2. f[parent[p]] \in Nat
        BY <3>1
      <3>3. step[<<p, f[parent[p]]>>] = IF p[2] = 0 THEN p[1] ELSE f[parent[p]]
        BY <3>2 DEF step
      <3> QED BY <3>1, <3>3 DEF parent
    <2> QED BY <2>1, <2>2
  <1>7. Computes(f)
    BY <1>6
  <1>8. gcd = CHOOSE g : Computes(g)
    BY DEF gcd
  <1>9. Computes(gcd)
    <2> HIDE DEF Computes
    <2> QED BY <1>7, <1>8
  <1>10. \A p \in D : gcd[p] = f[p]
    <2> DEFINE S == {b \in Nat : \A a \in Nat : gcd[<<a, b>>] = f[<<a, b>>]}
    <2>1. ASSUME NEW b \in Nat, \A j \in Nat : j < b => j \in S PROVE b \in S
      <3> SUFFICES ASSUME NEW a \in Nat PROVE gcd[<<a, b>>] = f[<<a, b>>]
        OBVIOUS
      <3>1. CASE b = 0
        BY <1>6, <1>9, <3>1
      <3>2. CASE b > 0
        <4>1. a % b \in S
          BY <2>1, <3>2, DivisionFacts
        <4>2. gcd[<<b, a % b>>] = f[<<b, a % b>>]
          BY <4>1
        <4>3. gcd[<<a, b>>] = gcd[<<b, a % b>>] /\ f[<<a, b>>] = f[<<b, a % b>>]
          BY <1>6, <1>9, <3>2
        <4> QED BY <4>2, <4>3
      <3> QED BY <3>1, <3>2
    <2>2. \A b \in Nat : b \in S
      <3> HIDE DEF S
      <3> QED BY <2>1, StrongInduction
    <2> QED BY <2>2
  <1>11. gcd \in [D -> Nat]
    <2> DEFINE e(p) == IF p[2] = 0 THEN p[1] ELSE gcd[<<p[2], p[1] % p[2]>>]
    <2>1. gcd = [p \in D |-> e(p)]
      BY <1>9
    <2>2. \A p \in D : e(p) \in Nat
      <3>1. \A p \in D : e(p) = gcd[p]
        BY <2>1
      <3> HIDE DEF e
      <3> QED BY <1>5, <1>10, <3>1
    <2> HIDE DEF e
    <2> QED BY <2>1, <2>2
  <1>12. \A a \in Nat : gcd[<<a, 0>>] = a
    BY <1>9
  <1>13. \A a, b \in Nat : b > 0 => a % b \in Nat /\ gcd[<<a, b>>] = gcd[<<b, a % b>>]
    BY <1>9, DivisionFacts
  <1> QED
    BY <1>11, <1>12, <1>13

\* It divides both numbers, and is a sum of multiples of them.
LEMMA GcdDivides ==
    ASSUME NEW a \in Nat, NEW b \in Nat, a > 0 \/ b > 0
    PROVE  /\ gcd[<<a, b>>] \in Nat /\ gcd[<<a, b>>] > 0
           /\ \E s \in Nat : a = gcd[<<a, b>>] * s
           /\ \E s \in Nat : b = gcd[<<a, b>>] * s
           /\ \E s, t \in Int : s * a + t * b = gcd[<<a, b>>]
  <1> DEFINE Divides(n, m, g) ==
                 /\ g > 0
                 /\ \E s \in Nat : n = g * s
                 /\ \E s \in Nat : m = g * s
                 /\ \E s, t \in Int : s * n + t * m = g
             S == {m \in Nat : \A n \in Nat : n > 0 \/ m > 0 => Divides(n, m, gcd[<<n, m>>])}
  <1>1. ASSUME NEW m \in Nat, \A j \in Nat : j < m => j \in S PROVE m \in S
    <2> SUFFICES ASSUME NEW n \in Nat, n > 0 \/ m > 0 PROVE Divides(n, m, gcd[<<n, m>>])
      OBVIOUS
    <2>1. CASE m = 0
      <3>1. gcd[<<n, m>>] = n /\ n > 0
        BY <2>1, GcdComputes
      <3>2. n = n * 1 /\ m = n * 0 /\ 1 * n + 0 * m = n
        BY <2>1
      <3> QED BY <3>1, <3>2
    <2>2. CASE m > 0
      <3> DEFINE q == n \div m
                 r == n % m
                 g == gcd[<<m, r>>]
      <3>1. q \in Int /\ r \in Nat /\ r < m /\ n = m * q + r
        BY <2>2, DivisionFacts
      <3>2. q \in Nat
        <4> HIDE DEF q, r
        <4> SUFFICES ASSUME q <= -1 PROVE FALSE
          BY <3>1
        <4>1. m * q <= m * (-1)
          BY <2>2, <3>1
        <4>2. m * (-1) = -m /\ m * q \in Int
          BY <3>1
        <4> QED BY <3>1, <4>1, <4>2
      <3>3. gcd[<<n, m>>] = g
        BY <2>2, GcdComputes
      <3>4. r \in S
        BY <1>1, <3>1
      <3>5. Divides(m, r, g)
        BY <2>2, <3>4
      <3>6. g \in Nat
        BY <3>1, GcdComputes
      <3> HIDE DEF q, r, g
      <3>7. PICK s \in Nat : m = g * s
        BY <3>5
      <3>8. PICK t \in Nat : r = g * t
        BY <3>5
      <3>9. n = g * (s * q + t) /\ s * q + t \in Nat
        <4>1. s * q \in Nat
          BY <3>2
        <4>2. (g * s) * q = g * (s * q)
          BY <3>2, <3>6
        <4>3. g * (s * q + t) = g * (s * q) + g * t
          BY <3>6, <4>1
        <4> QED BY <3>1, <3>7, <3>8, <4>1, <4>2, <4>3
      <3>10. PICK u \in Int, v \in Int : u * m + v * r = g
        BY <3>5
      <3>11. v * n + (u - v * q) * m = g /\ u - v * q \in Int
        <4>1. v * q \in Int /\ v * n = v * (m * q + r)
          BY <3>1, <3>2
        <4>2. v * (m * q + r) = (v * q) * m + v * r
          BY <3>1, <3>2
        <4>3. (u - v * q) * m = u * m - (v * q) * m
          BY <4>1
        <4>4. (v * q) * m \in Int /\ v * r \in Int /\ u * m \in Int
          BY <3>1, <4>1
        <4> QED BY <3>10, <4>1, <4>2, <4>3, <4>4
      <3>12. Divides(n, m, g)
        BY <3>5, <3>7, <3>9, <3>11
      <3> QED BY <3>3, <3>12
    <2> HIDE DEF Divides
    <2> QED BY <2>1, <2>2
  <1>2. \A m \in Nat : m \in S
    <2> HIDE DEF S
    <2> QED BY <1>1, StrongInduction
  <1>3. Divides(a, b, gcd[<<a, b>>])
    BY <1>2
  <1> QED
    BY <1>3, GcdComputes

\* Two numbers have no common divisor exactly if multiples of them differ by one.
LEMMA CoprimeFacts ==
    ASSUME NEW a \in Int, NEW b \in Nat, b > 0
    PROVE  gcd[<<Magnitude(a), b>>] = 1 <=> \E s, t \in Int : s * a + t * b = 1
  <1> DEFINE m == Magnitude(a)
             g == gcd[<<m, b>>]
  <1>1. m \in Nat /\ (m = a \/ m = -a)
    BY DEF Magnitude
  <1>2. /\ g \in Nat /\ g > 0
        /\ \E s \in Nat : m = g * s
        /\ \E s \in Nat : b = g * s
        /\ \E s, t \in Int : s * m + t * b = g
    <2> HIDE DEF m
    <2> QED BY <1>1, GcdDivides
  <1> HIDE DEF m, g
  <1>3. ASSUME g = 1 PROVE \E s, t \in Int : s * a + t * b = 1
    <2>1. PICK s \in Int, t \in Int : s * m + t * b = 1
      BY <1>2, <1>3
    <2>2. CASE m = a
      BY <2>1, <2>2
    <2>3. CASE m = -a
      <3>1. -s \in Int /\ a = -m
        BY <1>1, <2>3
      <3>2. (-s) * (-m) = s * m
        BY <1>1
      <3>3. (-s) * a + t * b = 1
        BY <2>1, <3>1, <3>2
      <3> QED BY <3>1, <3>3
    <2> QED BY <1>1, <2>2, <2>3
  <1>4. ASSUME NEW s \in Int, NEW t \in Int, s * a + t * b = 1 PROVE g = 1
    <2>1. PICK u \in Int : a = g * u
      <3>1. PICK w \in Nat : m = g * w
        BY <1>2
      <3>2. CASE m = a
        BY <3>1, <3>2
      <3>3. CASE m = -a
        <4>1. -w \in Int /\ a = -m
          BY <1>1, <3>3
        <4>2. g * (-w) = -(g * w)
          BY <1>2
        <4> QED BY <3>1, <4>1, <4>2
      <3> QED BY <1>1, <3>2, <3>3
    <2>2. PICK v \in Nat : b = g * v
      BY <1>2
    <2>3. g * (s * u + t * v) = 1 /\ s * u + t * v \in Int
      <3>1. s * u \in Int /\ t * v \in Int
        OBVIOUS
      <3>2. g * (s * u + t * v) = g * (s * u) + g * (t * v)
        BY <1>2, <3>1
      <3>3. g * (s * u) = s * (g * u) /\ g * (t * v) = t * (g * v)
        BY <1>2
      <3> QED BY <1>4, <2>1, <2>2, <3>1, <3>2, <3>3
    <2> DEFINE w == s * u + t * v
    <2>4. w \in Int /\ g * w = 1
      BY <2>3
    <2> HIDE DEF w
    <2>5. w >= 1
      <3> SUFFICES ASSUME w <= 0 PROVE FALSE
        BY <2>4
      <3>1. g * w <= 0
        BY <1>2, <2>4
      <3> QED BY <2>4, <3>1
    <2>6. g * w >= g
      BY <1>2, <2>4, <2>5
    <2> QED BY <1>2, <2>4, <2>6
  <1> QED
    BY <1>3, <1>4 DEF g, m

-----------------------------------------------------------------------------
(* Fractions in lowest terms *)

\* Common positive factors cancel.
LEMMA Cancelled ==
    ASSUME NEW k \in Int, k > 0, NEW a \in Int, NEW b \in Int
    PROVE  (k * a < k * b <=> a < b) /\ (k * a = k * b <=> a = b)
  <1>1. ASSUME NEW c \in Int, NEW d \in Int, c < d PROVE k * c < k * d
    <2>1. d - c \in Int /\ d - c > 0
      BY <1>1
    <2>2. k * (d - c) > 0
      <3> DEFINE e == d - c
      <3>1. e \in Int /\ e > 0
        BY <2>1
      <3> HIDE DEF e
      <3>2. k * e > 0
        BY <3>1
      <3> QED BY <3>2 DEF e
    <2>3. k * (d - c) = k * d - k * c /\ k * d \in Int /\ k * c \in Int
      OBVIOUS
    <2> QED BY <2>2, <2>3
  <1>2. a < b => k * a < k * b
    BY <1>1
  <1>3. b < a => k * b < k * a
    BY <1>1
  <1>4. k * a \in Int /\ k * b \in Int
    OBVIOUS
  <1> QED
    BY <1>2, <1>3, <1>4

Coprime(a, b) == \E s, t \in Int : s * a + t * b = 1

LEMMA CoprimeProduct ==
    ASSUME NEW a \in Int, NEW b \in Int, NEW c \in Int, Coprime(a, c), Coprime(b, c)
    PROVE  Coprime(a * b, c)
  <1>1. PICK s \in Int, t \in Int : s * a + t * c = 1
    BY DEF Coprime
  <1>2. PICK u \in Int, v \in Int : u * b + v * c = 1
    BY DEF Coprime
  <1> DEFINE e == s * a
             f == t * u
  <1>3. e \in Int /\ f \in Int /\ e * v \in Int /\ f * b \in Int /\ t * v \in Int
        /\ u * b \in Int /\ v * c \in Int /\ t * c \in Int /\ s * u \in Int /\ a * b \in Int
    OBVIOUS
  <1>4. (e + t * c) * (u * b + v * c) = 1
    BY <1>1, <1>2
  <1>5. (e + t * c) * (u * b + v * c)
           = (e * (u * b) + e * (v * c)) + ((t * c) * (u * b) + (t * c) * (v * c))
    <2> DEFINE h == t * c
               i == u * b
               j == v * c
    <2>1. h \in Int /\ i \in Int /\ j \in Int
      OBVIOUS
    <2> HIDE DEF e, h, i, j
    <2>2. (e + h) * (i + j) = (e * i + e * j) + (h * i + h * j)
      BY <1>3, <2>1
    <2> QED BY <2>2 DEF h, i, j
  <1>6. e * (u * b) = (s * u) * (a * b)
    OBVIOUS
  <1>7. e * (v * c) = (e * v) * c /\ (t * c) * (u * b) = (f * b) * c
        /\ (t * c) * (v * c) = ((t * v) * c) * c
    <2> HIDE DEF e
    <2>1. e * (v * c) = (e * v) * c
      BY <1>3
    <2>2. (t * c) * (u * b) = (f * b) * c
      OBVIOUS
    <2>3. (t * c) * (v * c) = ((t * v) * c) * c
      OBVIOUS
    <2> QED BY <2>1, <2>2, <2>3
  <1> DEFINE k == e * v
             l == f * b
             m == (t * v) * c
  <1>8. k \in Int /\ l \in Int /\ m \in Int
    BY <1>3
  <1>9. (s * u) * (a * b) + (k + l + m) * c = 1
    <2>1. (k + l + m) * c = k * c + l * c + m * c
      <3> HIDE DEF k, l, m
      <3> QED BY <1>8
    <2>2. k * c \in Int /\ l * c \in Int /\ m * c \in Int /\ (s * u) * (a * b) \in Int
      BY <1>3, <1>8
    <2>3. (s * u) * (a * b) + k * c + (l * c + m * c) = 1
      BY <1>4, <1>5, <1>6, <1>7
    <2> HIDE DEF k, l, m
    <2> QED BY <2>1, <2>2, <2>3
  <1>10. k + l + m \in Int
    BY <1>8
  <1> HIDE DEF k, l, m
  <1> QED
    BY <1>3, <1>9, <1>10 DEF Coprime

LEMMA CoprimeDivisor ==
    ASSUME NEW a \in Int, NEW k \in Int, NEW c \in Int, Coprime(k * a, c)
    PROVE  Coprime(a, c)
  <1>1. PICK s \in Int, t \in Int : s * (k * a) + t * c = 1
    BY DEF Coprime
  <1>2. (s * k) * a = s * (k * a) /\ s * k \in Int
    OBVIOUS
  <1> QED
    BY <1>1, <1>2 DEF Coprime

LEMMA CoprimeSymmetric ==
    ASSUME NEW a \in Int, NEW b \in Int, Coprime(a, b)
    PROVE  Coprime(b, a)
  <1>1. PICK s \in Int, t \in Int : s * a + t * b = 1
    BY DEF Coprime
  <1>2. t * b + s * a = 1
    <2>1. s * a \in Int /\ t * b \in Int
      OBVIOUS
    <2> QED BY <1>1, <2>1
  <1> QED
    BY <1>2 DEF Coprime

LEMMA RationalIsCoprime ==
    ASSUME NEW a \in Int, NEW b \in Nat, b > 0
    PROVE  IsRational(<<a, b>>) <=> Coprime(a, b)
  <1>1. IsRational(<<a, b>>) <=> gcd[<<Magnitude(a), b>>] = 1
    BY DEF IsRational
  <1> QED
    BY <1>1, CoprimeFacts DEF Coprime

LEMMA RationalHasParts ==
    ASSUME NEW x, IsRational(x)
    PROVE  /\ x = <<x[1], x[2]>> /\ x[1] \in Int /\ x[2] \in Nat /\ x[2] > 0
           /\ Coprime(x[1], x[2])
  <1>1. x = <<x[1], x[2]>> /\ x[1] \in Int /\ x[2] \in Nat /\ x[2] > 0
    BY DEF IsRational
  <1> QED
    BY <1>1, RationalIsCoprime

LEMMA DivisionExact ==
    ASSUME NEW g \in Nat, g > 0, NEW u \in Int
    PROVE  (g * u) \div g = u
  <1> DEFINE a == g * u
             q == a \div g
             r == a % g
  <1>1. a \in Int
    OBVIOUS
  <1> HIDE DEF a
  <1>2. q \in Int /\ r \in Nat /\ r < g /\ a = g * q + r
    BY <1>1, DivisionFacts
  <1> HIDE DEF q, r
  <1>3. g * (u - q) = r
    <2>1. g * (u - q) = g * u - g * q /\ g * u \in Int /\ g * q \in Int
      BY <1>2
    <2> QED BY <1>2, <2>1 DEF a
  <1> DEFINE e == u - q
  <1>4. e \in Int /\ g * e = r
    BY <1>2, <1>3
  <1> HIDE DEF e
  <1>5. e < 1
    <2>1. g * e < g * 1
      BY <1>2, <1>4
    <2> QED BY <1>4, <2>1, Cancelled
  <1>6. e > -1
    <2>1. g * (-1) < g * e
      BY <1>2, <1>4
    <2> QED BY <1>4, <2>1, Cancelled
  <1>7. u = q
    <2>1. e = 0
      BY <1>4, <1>5, <1>6
    <2> QED BY <1>2, <2>1 DEF e
  <1> QED
    BY <1>7 DEF q, a

\* A ratio is n / d cancelled.
LEMMA RatioFacts ==
    ASSUME NEW n \in Int, NEW d \in Int, d # 0
    PROVE  /\ IsRational(Ratio(n, d))
           /\ \E g \in Nat \ {0} : /\ (IF d < 0 THEN -n ELSE n) = g * Ratio(n, d)[1]
                                   /\ Magnitude(d) = g * Ratio(n, d)[2]
  <1> DEFINE sign == IF d < 0 THEN -1 ELSE 1
             m == Magnitude(n)
             b == Magnitude(d)
             g == gcd[<<m, b>>]
             a == sign * n
  <1>1. m \in Nat /\ b \in Nat /\ b > 0 /\ a \in Int /\ (m = a \/ m = -a)
    BY DEF Magnitude
  <1>2. Ratio(n, d) = <<a \div g, b \div g>>
    BY DEF Ratio
  <1>3. a = IF d < 0 THEN -n ELSE n
    OBVIOUS
  <1>4. /\ g \in Nat /\ g > 0
        /\ \E s \in Nat : m = g * s
        /\ \E s \in Nat : b = g * s
        /\ \E s, t \in Int : s * m + t * b = g
    <2> HIDE DEF m, b
    <2> QED BY <1>1, GcdDivides
  <1> HIDE DEF a, m, b, g
  <1>a. g \in Nat /\ g > 0
    BY <1>4
  <1>5. PICK q \in Nat : b = g * q
    BY <1>4
  <1>6. PICK p \in Nat : m = g * p
    BY <1>4
  <1>7. q > 0
    <2>1. CASE q = 0
      BY <1>1, <1>4, <1>5, <2>1
    <2> QED BY <2>1
  <1>8. Coprime(p, q)
    <2>1. PICK s \in Int, t \in Int : s * m + t * b = g
      BY <1>4
    <2>2. g * (s * p) = s * m /\ g * (t * q) = t * b
      <3>1. g * (s * p) = s * (g * p)
        BY <1>a
      <3>2. g * (t * q) = t * (g * q)
        BY <1>a
      <3> QED BY <1>5, <1>6, <3>1, <3>2
    <2>3. s * p \in Int /\ t * q \in Int
      OBVIOUS
    <2>4. g * (s * p + t * q) = g * 1
      <3>1. g * (s * p + t * q) = g * (s * p) + g * (t * q)
        BY <1>a, <2>3
      <3>2. g * 1 = g
        BY <1>a
      <3> QED BY <2>1, <2>2, <3>1, <3>2
    <2>5. s * p + t * q = 1
      <3> DEFINE e == s * p + t * q
      <3>1. e \in Int /\ g * e = g * 1
        BY <2>3, <2>4
      <3> HIDE DEF e
      <3>2. e = 1
        BY <1>4, <3>1, Cancelled
      <3> QED BY <3>2 DEF e
    <2> QED BY <2>5 DEF Coprime
  <1>9. PICK u \in Int : a = g * u /\ (u = p \/ u = -p)
    <2>1. CASE m = a
      BY <1>6, <2>1
    <2>2. CASE m = -a
      <3>1. a = -m
        BY <1>1, <2>2
      <3>2. g * (-p) = -(g * p) /\ -p \in Int
        BY <1>4
      <3> QED BY <1>6, <3>1, <3>2
    <2> QED BY <1>1, <2>1, <2>2
  <1>10. Coprime(u, q)
    <2>1. CASE u = p
      BY <1>8, <2>1
    <2>2. CASE u = -p
      <3>1. PICK s \in Int, t \in Int : s * p + t * q = 1
        BY <1>8 DEF Coprime
      <3>2. (-s) * (-p) = s * p /\ -s \in Int
        OBVIOUS
      <3>3. (-s) * u + t * q = 1
        BY <2>2, <3>1, <3>2
      <3> QED BY <3>2, <3>3 DEF Coprime
    <2> QED BY <1>9, <2>1, <2>2
  <1>11. a \div g = u /\ b \div g = q
    <2>1. (g * u) \div g = u
      BY <1>a, DivisionExact
    <2>2. (g * q) \div g = q
      BY <1>a, DivisionExact
    <2> QED BY <1>5, <1>9, <2>1, <2>2
  <1>12. IsRational(<<u, q>>)
    BY <1>7, <1>10, RationalIsCoprime
  <1>13. b = Magnitude(d)
    BY DEF b
  <1>14. Ratio(n, d) = <<u, q>>
    BY <1>2, <1>11
  <1>15. g \in Nat \ {0} /\ a = g * Ratio(n, d)[1] /\ b = g * Ratio(n, d)[2]
    BY <1>a, <1>5, <1>9, <1>14
  <1> QED
    BY <1>3, <1>12, <1>13, <1>14, <1>15

-----------------------------------------------------------------------------
(* What the operators on fractions calculate *)

\* Each operation has the value of the fractions that it combines.
LEMMA RatioValue ==
    ASSUME NEW n \in Int, NEW d \in Nat, d > 0
    PROVE  /\ IsRational(Ratio(n, d))
           /\ Ratio(n, d)[1] * d = n * Ratio(n, d)[2]
           /\ \E g \in Nat \ {0} : n = g * Ratio(n, d)[1] /\ d = g * Ratio(n, d)[2]
  <1> DEFINE r == Ratio(n, d)
  <1>1. /\ IsRational(r)
        /\ \E g \in Nat \ {0} : /\ (IF d < 0 THEN -n ELSE n) = g * r[1]
                                /\ Magnitude(d) = g * r[2]
    BY RatioFacts
  <1> HIDE DEF r
  <1>2. PICK g \in Nat \ {0} : n = g * r[1] /\ d = g * r[2]
    BY <1>1 DEF Magnitude
  <1>3. r[1] \in Int /\ r[2] \in Nat
    BY <1>1, RationalHasParts
  <1>4. r[1] * (g * r[2]) = (g * r[1]) * r[2]
    BY <1>2, <1>3
  <1>5. r[1] * d = n * r[2]
    BY <1>2, <1>4
  <1> QED
    BY <1>1, <1>2, <1>5 DEF r

LEMMA PlusValue ==
    ASSUME NEW x, NEW y, IsRational(x), IsRational(y)
    PROVE  /\ IsRational(Plus(x, y))
           /\ Plus(x, y)[1] * (x[2] * y[2]) = (x[1] * y[2] + y[1] * x[2]) * Plus(x, y)[2]
  <1> DEFINE a == x[1]  b == x[2]  c == y[1]  d == y[2]
             g == gcd[<<b, d>>]
             p == b \div g
             q == d \div g
             r == Plus(x, y)
  <1>1. a \in Int /\ b \in Nat /\ b > 0 /\ c \in Int /\ d \in Nat /\ d > 0
    BY RationalHasParts
  <1>2. r = Ratio(a * q + c * p, p * d)
    BY DEF Plus
  <1> HIDE DEF a, b, c, d, r
  <1>3. g \in Nat /\ g > 0 /\ (\E s \in Nat : b = g * s) /\ (\E s \in Nat : d = g * s)
    BY <1>1, GcdDivides
  <1> HIDE DEF g
  <1>4. p \in Nat /\ p > 0 /\ b = g * p
    <2>1. PICK s \in Nat : b = g * s
      BY <1>3
    <2>2. (g * s) \div g = s
      BY <1>3, DivisionExact
    <2>3. s > 0
      <3>1. CASE s = 0
        BY <1>1, <1>3, <2>1, <3>1
      <3> QED BY <3>1
    <2> QED BY <2>1, <2>2, <2>3
  <1>5. q \in Nat /\ d = g * q
    <2>1. PICK s \in Nat : d = g * s
      BY <1>3
    <2>2. (g * s) \div g = s
      BY <1>3, DivisionExact
    <2> QED BY <2>1, <2>2
  <1> HIDE DEF p, q
  <1>6. a * q + c * p \in Int
    <2>1. a * q \in Int /\ c * p \in Int
      BY <1>1, <1>4, <1>5
    <2> QED BY <2>1
  <1>7. p * d \in Nat /\ p * d > 0
    BY <1>1, <1>4
  <1> DEFINE n == a * q + c * p
             m == p * d
  <1>8. IsRational(r) /\ r[1] * m = n * r[2]
    <2>1. n \in Int /\ m \in Nat /\ m > 0 /\ r = Ratio(n, m)
      BY <1>2, <1>6, <1>7
    <2> HIDE DEF n, m
    <2> QED BY <2>1, RatioValue
  <1>9. r[1] \in Int /\ r[2] \in Nat
    BY <1>8, RationalHasParts
  <1>10. g * (r[1] * m) = g * (n * r[2])
    BY <1>8
  <1>11. g * m = b * d
    <2>1. g * (p * d) = (g * p) * d
      BY <1>1, <1>3, <1>4
    <2> QED BY <1>4, <2>1
  <1>12. g * n = a * d + c * b
    <2>1. a * q \in Int /\ c * p \in Int
      BY <1>1, <1>4, <1>5
    <2>2. g * (a * q + c * p) = g * (a * q) + g * (c * p)
      BY <1>3, <2>1
    <2>3. g * (a * q) = a * (g * q)
      BY <1>1, <1>3, <1>5
    <2>4. g * (c * p) = c * (g * p)
      BY <1>1, <1>3, <1>4
    <2> QED BY <1>4, <1>5, <2>2, <2>3, <2>4
  <1>13. n \in Int /\ m \in Int
    BY <1>6, <1>7
  <1> HIDE DEF n, m
  <1>14. g * (r[1] * m) = r[1] * (g * m)
    BY <1>3, <1>9, <1>13
  <1>15. g * (n * r[2]) = (g * n) * r[2]
    BY <1>3, <1>9, <1>13
  <1>16. r[1] * (b * d) = (a * d + c * b) * r[2]
    BY <1>10, <1>11, <1>12, <1>14, <1>15
  <1> QED
    BY <1>8, <1>16 DEF r, a, b, c, d

LEMMA TimesValue ==
    ASSUME NEW x, NEW y, IsRational(x), IsRational(y)
    PROVE  /\ IsRational(Times(x, y))
           /\ Times(x, y)[1] * (x[2] * y[2]) = (x[1] * y[1]) * Times(x, y)[2]
           /\ x[1] >= 0 /\ y[1] >= 0 => Times(x, y)[1] >= 0
  <1> DEFINE v == Ratio(x[1], y[2])
             w == Ratio(y[1], x[2])
             a == v[1]  b == v[2]  c == w[1]  d == w[2]
  <1>1. /\ x[1] \in Int /\ x[2] \in Nat /\ x[2] > 0 /\ Coprime(x[1], x[2])
        /\ y[1] \in Int /\ y[2] \in Nat /\ y[2] > 0 /\ Coprime(y[1], y[2])
    BY RationalHasParts
  <1>2. IsRational(v) /\ IsRational(w)
    BY <1>1, RatioValue
  <1>3. PICK g \in Nat \ {0} : x[1] = g * a /\ y[2] = g * b
    BY <1>1, RatioValue
  <1>4. PICK h \in Nat \ {0} : y[1] = h * c /\ x[2] = h * d
    BY <1>1, RatioValue
  <1>5. Times(x, y) = <<a * c, b * d>>
    BY DEF Times
  <1>6. /\ a \in Int /\ b \in Nat /\ b > 0 /\ Coprime(a, b)
        /\ c \in Int /\ d \in Nat /\ d > 0 /\ Coprime(c, d)
    <2> HIDE DEF v, w
    <2> QED BY <1>2, RationalHasParts
  <1> HIDE DEF a, b, c, d
  <1>z. g \in Int /\ h \in Int /\ h * d \in Int /\ g * b \in Int /\ d \in Int /\ b \in Int
    BY <1>3, <1>4, <1>6
  <1>7. Coprime(a, d)
    <2>1. Coprime(g * a, h * d)
      BY <1>1, <1>3, <1>4
    <2>2. Coprime(a, h * d)
      BY <1>6, <1>z, <2>1, CoprimeDivisor
    <2>3. Coprime(h * d, a)
      BY <1>6, <1>z, <2>2, CoprimeSymmetric
    <2>4. Coprime(d, a)
      BY <1>6, <1>z, <2>3, CoprimeDivisor
    <2> QED BY <1>6, <1>z, <2>4, CoprimeSymmetric
  <1>8. Coprime(c, b)
    <2>1. Coprime(h * c, g * b)
      BY <1>1, <1>3, <1>4
    <2>2. Coprime(c, g * b)
      BY <1>6, <1>z, <2>1, CoprimeDivisor
    <2>3. Coprime(g * b, c)
      BY <1>6, <1>z, <2>2, CoprimeSymmetric
    <2>4. Coprime(b, c)
      BY <1>6, <1>z, <2>3, CoprimeDivisor
    <2> QED BY <1>6, <1>z, <2>4, CoprimeSymmetric
  <1>9. Coprime(a * c, b * d)
    <2>1. a * c \in Int /\ b * d \in Int
      BY <1>6
    <2>2. Coprime(a * c, b)
      BY <1>6, <1>8, CoprimeProduct
    <2>3. Coprime(a * c, d)
      BY <1>6, <1>7, CoprimeProduct
    <2>4. Coprime(b, a * c) /\ Coprime(d, a * c)
      BY <1>6, <2>1, <2>2, <2>3, CoprimeSymmetric
    <2>5. Coprime(b * d, a * c)
      BY <1>6, <2>1, <2>4, CoprimeProduct
    <2> QED BY <2>1, <2>5, CoprimeSymmetric
  <1>10. a * c \in Int /\ b * d \in Nat /\ b * d > 0
    BY <1>6
  <1>11. IsRational(<<a * c, b * d>>)
    <2> DEFINE n == a * c
               m == b * d
    <2>1. n \in Int /\ m \in Nat /\ m > 0 /\ Coprime(n, m)
      BY <1>9, <1>10
    <2> HIDE DEF n, m
    <2>2. IsRational(<<n, m>>)
      BY <2>1, RationalIsCoprime
    <2> QED BY <2>2 DEF n, m
  <1>12. (a * c) * (x[2] * y[2]) = (x[1] * y[1]) * (b * d)
    <2>1. (a * c) * ((h * d) * (g * b)) = ((g * a) * (h * c)) * (b * d)
      <3> DEFINE i == g * a
                 j == h * c
      <3>1. (a * c) * ((h * d) * (g * b)) = (a * c) * ((h * g) * (b * d))
        <4>1. (h * d) * (g * b) = (h * g) * (b * d)
          BY <1>3, <1>4, <1>6
        <4> QED BY <4>1
      <3>2. (a * c) * ((h * g) * (b * d)) = ((a * c) * (h * g)) * (b * d)
        <4> DEFINE k == a * c
                   l == h * g
                   m == b * d
        <4>1. k \in Int /\ l \in Int /\ m \in Int
          BY <1>3, <1>4, <1>6
        <4> HIDE DEF k, l, m
        <4>2. k * (l * m) = (k * l) * m
          BY <4>1
        <4> QED BY <4>2 DEF k, l, m
      <3>3. (a * c) * (h * g) = (g * a) * (h * c)
        BY <1>3, <1>4, <1>6
      <3> QED BY <3>1, <3>2, <3>3
    <2> QED BY <1>3, <1>4, <2>1
  <1>13. ASSUME x[1] >= 0, y[1] >= 0 PROVE a * c >= 0
    <2>1. a >= 0
      <3> SUFFICES ASSUME a < 0 PROVE FALSE
        BY <1>6
      <3>1. \A k \in Int : k > 0 => k * a < k * 0
        BY <1>6, Cancelled
      <3>2. g > 0 /\ g * 0 = 0
        BY <1>3
      <3>3. g * a < 0
        BY <1>z, <3>1, <3>2
      <3>4. g * a >= 0
        BY <1>3, <1>13
      <3>5. g * a \in Int
        BY <1>6, <1>z
      <3> QED BY <3>3, <3>4, <3>5
    <2>2. c >= 0
      <3> SUFFICES ASSUME c < 0 PROVE FALSE
        BY <1>6
      <3>1. \A k \in Int : k > 0 => k * c < k * 0
        BY <1>6, Cancelled
      <3>2. h > 0 /\ h * 0 = 0
        BY <1>4
      <3>3. h * c < 0
        BY <1>z, <3>1, <3>2
      <3>4. h * c >= 0
        BY <1>4, <1>13
      <3>5. h * c \in Int
        BY <1>6, <1>z
      <3> QED BY <3>3, <3>4, <3>5
    <2> QED BY <1>6, <2>1, <2>2
  <1> QED
    BY <1>5, <1>11, <1>12, <1>13

LEMMA WholeIsRational ==
    ASSUME NEW n \in Int
    PROVE  IsRational(<<n, 1>>)
  <1>1. 0 * n + 1 * 1 = 1
    OBVIOUS
  <1>2. Coprime(n, 1)
    BY <1>1 DEF Coprime
  <1> QED
    BY <1>2, RationalIsCoprime

LEMMA OppositeIsRational ==
    ASSUME NEW y, IsRational(y)
    PROVE  IsRational(<<-y[1], y[2]>>)
  <1> DEFINE a == y[1]
             b == y[2]
  <1>1. a \in Int /\ b \in Nat /\ b > 0 /\ Coprime(a, b)
    BY RationalHasParts
  <1> HIDE DEF a, b
  <1>2. PICK s \in Int, t \in Int : s * a + t * b = 1
    BY <1>1 DEF Coprime
  <1>3. (-s) * (-a) = s * a
    BY <1>1
  <1>4. -s \in Int /\ -a \in Int /\ (-s) * (-a) + t * b = 1
    BY <1>1, <1>2, <1>3
  <1>5. Coprime(-a, b)
    BY <1>4 DEF Coprime
  <1>6. IsRational(<<-a, b>>)
    BY <1>1, <1>4, <1>5, RationalIsCoprime
  <1> QED
    BY <1>6 DEF a, b

\* A difference of fractions is one.
LEMMA MinusIsRational ==
    ASSUME NEW x, NEW y, IsRational(x), IsRational(y)
    PROVE  IsRational(Minus(x, y))
  <1>1. IsRational(<<-y[1], y[2]>>)
    BY OppositeIsRational
  <1> QED
    BY <1>1, PlusValue DEF Minus

\* A quotient is below zero only if one of both is.
LEMMA OverIsRational ==
    ASSUME NEW x, NEW y, IsRational(x), IsRational(y), y[1] # 0
    PROVE  /\ IsRational(Over(x, y))
           /\ x[1] >= 0 /\ y[1] > 0 => Over(x, y)[1] >= 0
  <1> DEFINE r == Ratio(y[2], y[1])
  <1>1. y[1] \in Int /\ y[2] \in Nat /\ y[2] > 0
    BY RationalHasParts
  <1>2. IsRational(r)
    BY <1>1, RatioFacts
  <1>3. ASSUME y[1] > 0 PROVE r[1] >= 0
    <2>1. PICK g \in Nat \ {0} : y[2] = g * r[1]
      BY <1>1, <1>3, RatioValue
    <2>2. r[1] \in Int
      BY <1>2, RationalHasParts
    <2> HIDE DEF r
    <2> SUFFICES ASSUME r[1] < 0 PROVE FALSE
      BY <2>2
    <2>3. g * r[1] < g * 0
      BY <2>1, <2>2, Cancelled
    <2> QED BY <1>1, <2>1, <2>3
  <1>4. Over(x, y) = Times(x, r)
    BY DEF Over
  <1> HIDE DEF r
  <1>5. IsRational(Times(x, r)) /\ (x[1] >= 0 /\ r[1] >= 0 => Times(x, r)[1] >= 0)
    BY <1>2, TimesValue
  <1> QED
    BY <1>3, <1>4, <1>5

-----------------------------------------------------------------------------
(* Calculating with numerators of a common denominator *)

\* x = v / D
Is(x, D, v) == IsRational(x) /\ x[1] * D = v * x[2]

\* Over a common denominator, fractions are compared, added and rounded by their numerators.
LEMMA IsLess ==
    ASSUME NEW x, NEW y, NEW D \in Nat, D > 0, NEW v \in Int, NEW w \in Int,
           Is(x, D, v), Is(y, D, w)
    PROVE  (Less(x, y) <=> v < w) /\ (Leq(x, y) <=> v <= w)
  <1> DEFINE a == x[1]  b == x[2]  c == y[1]  d == y[2]
  <1>1. /\ a \in Int /\ b \in Nat /\ b > 0 /\ c \in Int /\ d \in Nat /\ d > 0
        /\ a * D = v * b /\ c * D = w * d
    BY RationalHasParts DEF Is
  <1>2. (Less(x, y) <=> a * d < c * b) /\ (Leq(x, y) <=> a * d <= c * b)
    BY DEF Less, Leq
  <1> HIDE DEF a, b, c, d
  <1> DEFINE k == b * d
  <1>3. k \in Int /\ k > 0
    BY <1>1
  <1>4. D * (a * d) = k * v
    <2>1. D * (a * d) = (a * D) * d
      BY <1>1
    <2>2. (v * b) * d = (b * d) * v
      BY <1>1
    <2> QED BY <1>1, <2>1, <2>2
  <1>5. D * (c * b) = k * w
    <2>1. D * (c * b) = (c * D) * b
      BY <1>1
    <2>2. (w * d) * b = (b * d) * w
      BY <1>1
    <2> QED BY <1>1, <2>1, <2>2
  <1> DEFINE m == a * d
             n == c * b
  <1>6. m \in Int /\ n \in Int
    BY <1>1
  <1> HIDE DEF k, m, n
  <1>7. m < n <=> v < w
    <2>1. (D * m < D * n <=> m < n) /\ (k * v < k * w <=> v < w)
      BY <1>3, <1>6, Cancelled
    <2> QED BY <1>4, <1>5, <2>1 DEF m, n
  <1>8. n < m <=> w < v
    <2>1. (D * n < D * m <=> n < m) /\ (k * w < k * v <=> w < v)
      BY <1>3, <1>6, Cancelled
    <2> QED BY <1>4, <1>5, <2>1 DEF m, n
  <1>9. m <= n <=> v <= w
    BY <1>6, <1>8
  <1> QED
    BY <1>2, <1>7, <1>9 DEF m, n

LEMMA IsPlus ==
    ASSUME NEW x, NEW y, NEW D \in Nat, D > 0, NEW v \in Int, NEW w \in Int,
           Is(x, D, v), Is(y, D, w)
    PROVE  Is(Plus(x, y), D, v + w)
  <1> DEFINE a == x[1]  b == x[2]  c == y[1]  d == y[2]
             r == Plus(x, y)
             k == b * d
  <1>1. /\ a \in Int /\ b \in Nat /\ b > 0 /\ c \in Int /\ d \in Nat /\ d > 0
        /\ a * D = v * b /\ c * D = w * d
    BY RationalHasParts DEF Is
  <1>2. IsRational(r) /\ r[1] * k = (a * d + c * b) * r[2]
    BY PlusValue DEF Is
  <1>3. r[1] \in Int /\ r[2] \in Nat
    <2> HIDE DEF r
    <2> QED BY <1>2, RationalHasParts
  <1> HIDE DEF a, b, c, d, r
  <1>4. k \in Int /\ k > 0
    BY <1>1
  <1>5. (a * d + c * b) * D = k * (v + w)
    <2>1. (a * D) * d = (a * d) * D /\ (c * D) * b = (c * b) * D
      BY <1>1
    <2>2. (v * b) * d = k * v /\ (w * d) * b = k * w
      BY <1>1
    <2>3. (a * d) * D + (c * b) * D = k * v + k * w
      BY <1>1, <2>1, <2>2
    <2>4. a * d \in Int /\ c * b \in Int
      BY <1>1
    <2>5. (a * d + c * b) * D = (a * d) * D + (c * b) * D
      BY <2>4
    <2> HIDE DEF k
    <2>6. k * (v + w) = k * v + k * w
      BY <1>4
    <2> QED BY <2>3, <2>5, <2>6
  <1> DEFINE n == a * d + c * b
             s == v + w
  <1>6. n \in Int /\ s \in Int
    <2>1. a * d \in Int /\ c * b \in Int
      BY <1>1
    <2> QED BY <2>1
  <1> HIDE DEF k
  <1>7. k * (r[1] * D) = k * (s * r[2])
    <2>1. n * D = k * s /\ r[1] * k = n * r[2]
      BY <1>2, <1>5
    <2> HIDE DEF n, s
    <2>2. k * (r[1] * D) = (r[1] * k) * D
      BY <1>3, <1>4
    <2>3. (n * r[2]) * D = (n * D) * r[2]
      BY <1>3, <1>6
    <2>4. (k * s) * r[2] = k * (s * r[2])
      BY <1>3, <1>4, <1>6
    <2> QED BY <2>1, <2>2, <2>3, <2>4
  <1>8. r[1] * D \in Int /\ s * r[2] \in Int
    BY <1>3, <1>6
  <1>9. r[1] * D = s * r[2]
    <2> DEFINE p == r[1] * D
               q == s * r[2]
    <2>1. p \in Int /\ q \in Int /\ k * p = k * q
      BY <1>7, <1>8
    <2> HIDE DEF p, q
    <2>2. p = q
      BY <1>4, <2>1, Cancelled
    <2> QED BY <2>2 DEF p, q
  <1> QED
    BY <1>2, <1>9 DEF Is, r

LEMMA IsOpposite ==
    ASSUME NEW y, NEW D \in Nat, D > 0, NEW w \in Int, Is(y, D, w)
    PROVE  Is(<<-y[1], y[2]>>, D, -w)
  <1>1. y[1] \in Int /\ y[2] \in Nat /\ y[1] * D = w * y[2]
    BY RationalHasParts DEF Is
  <1>2. (-y[1]) * D = -(y[1] * D) /\ (-w) * y[2] = -(w * y[2])
    BY <1>1
  <1>3. IsRational(<<-y[1], y[2]>>)
    BY OppositeIsRational DEF Is
  <1> QED
    BY <1>1, <1>2, <1>3 DEF Is

LEMMA IsDifference ==
    ASSUME NEW x, NEW y, NEW D \in Nat, D > 0, NEW v \in Int, NEW w \in Int,
           Is(x, D, v), Is(y, D, w)
    PROVE  Is(Minus(x, y), D, v - w)
  <1> DEFINE z == <<-y[1], y[2]>>
  <1>1. Is(z, D, -w)
    BY IsOpposite
  <1>2. -w \in Int /\ v + (-w) = v - w
    OBVIOUS
  <1>3. Minus(x, y) = Plus(x, z)
    BY DEF Minus
  <1> HIDE DEF z
  <1>4. Is(Plus(x, z), D, v + (-w))
    BY <1>1, <1>2, IsPlus
  <1> QED
    BY <1>2, <1>3, <1>4

LEMMA IsAbs ==
    ASSUME NEW y, NEW D \in Nat, D > 0, NEW w \in Int, Is(y, D, w)
    PROVE  Is(AbsOf(y), D, Magnitude(w))
  <1>1. y = <<y[1], y[2]>> /\ y[1] \in Int /\ y[2] \in Nat /\ y[2] > 0 /\ y[1] * D = w * y[2]
    BY RationalHasParts DEF Is
  <1>2. ASSUME y[1] < 0 PROVE w <= 0 /\ AbsOf(y) = <<-y[1], y[2]>>
    <2>1. D * y[1] < D * 0 /\ (y[2] * 0 < y[2] * w <=> 0 < w)
      BY <1>1, <1>2, Cancelled
    <2>2. D * y[1] = y[1] * D /\ y[2] * w = w * y[2] /\ D * 0 = 0 /\ y[2] * 0 = 0
      BY <1>1
    <2>3. y[1] * D \in Int
      BY <1>1
    <2> QED BY <1>1, <1>2, <2>1, <2>2, <2>3 DEF AbsOf, Magnitude
  <1>3. ASSUME y[1] >= 0 PROVE w >= 0 /\ AbsOf(y) = y
    <2>1. y[2] * w < y[2] * 0 <=> w < 0
      BY <1>1, Cancelled
    <2>2. y[1] * D >= 0
      BY <1>1, <1>3
    <2>3. y[2] * w = w * y[2] /\ y[2] * 0 = 0
      BY <1>1
    <2>4. w >= 0
      BY <1>1, <2>1, <2>2, <2>3
    <2> QED BY <1>1, <1>3, <2>4 DEF AbsOf, Magnitude
  <1>4. CASE y[1] < 0
    <2>1. Is(<<-y[1], y[2]>>, D, -w)
      BY IsOpposite
    <2>2. Magnitude(w) = -w
      BY <1>2, <1>4 DEF Magnitude
    <2> QED BY <1>2, <1>4, <2>1, <2>2
  <1>5. CASE y[1] >= 0
    <2>1. Magnitude(w) = w
      BY <1>3, <1>5 DEF Magnitude
    <2> QED BY <1>3, <1>5, <2>1
  <1> QED
    BY <1>1, <1>4, <1>5

\* k / m of something
LEMMA IsMultiple ==
    ASSUME NEW k \in Int, NEW m \in Nat, m > 0, IsRational(<<k, m>>),
           NEW y, NEW D \in Nat, D > 0, NEW w \in Int, Is(y, D, m * w)
    PROVE  Is(Times(<<k, m>>, y), D, k * w)
  <1> DEFINE c == y[1]  d == y[2]
             r == Times(<<k, m>>, y)
  <1>1. c \in Int /\ d \in Nat /\ d > 0 /\ c * D = (m * w) * d
    BY RationalHasParts DEF Is
  <1>2. IsRational(r) /\ r[1] * (m * d) = (k * c) * r[2]
    BY TimesValue DEF Is
  <1>3. r[1] \in Int /\ r[2] \in Nat
    <2> HIDE DEF r
    <2> QED BY <1>2, RationalHasParts
  <1> HIDE DEF c, d, r
  <1> DEFINE e == m * d
             p == r[1] * D
             s == k * w
             q == s * r[2]
  <1>4. e \in Int /\ e > 0 /\ p \in Int /\ s \in Int /\ q \in Int
    BY <1>1, <1>3
  <1>5. e * p = e * q
    <2>1. e * p = (r[1] * (m * d)) * D
      <3>1. e * (r[1] * D) = (r[1] * e) * D
        <4> HIDE DEF e
        <4> QED BY <1>3, <1>4
      <3> QED BY <3>1
    <2>2. ((k * c) * r[2]) * D = (k * r[2]) * (c * D)
      BY <1>1, <1>3
    <2>3. (k * r[2]) * ((m * w) * d) = (m * d) * ((k * w) * r[2])
      <3> DEFINE i == r[2]
      <3>1. i \in Int
        BY <1>3
      <3> HIDE DEF i
      <3>2. (k * i) * ((m * w) * d) = (m * d) * ((k * w) * i)
        BY <1>1, <3>1
      <3> QED BY <3>2 DEF i
    <2> QED BY <1>1, <1>2, <2>1, <2>2, <2>3
  <1> HIDE DEF e, p, s, q
  <1>6. p = q
    BY <1>4, <1>5, Cancelled
  <1> QED
    BY <1>2, <1>6 DEF Is, r, p, q, s

\* Three fractions have a common denominator, with an even numerator for the third.
LEMMA CommonDenominator ==
    ASSUME NEW x, NEW y, NEW z, IsRational(x), IsRational(y), IsRational(z)
    PROVE  \E D \in Nat \ {0} : \E u, v, w \in Int :
               Is(x, D, u) /\ Is(y, D, v) /\ Is(z, D, 2 * w)
  <1> DEFINE a == x[1]  b == x[2]  c == y[1]  d == y[2]  e == z[1]  f == z[2]
             D == 2 * (b * (d * f))
             u == 2 * (a * (d * f))
             v == 2 * (c * (b * f))
             w == e * (b * d)
  <1>1. /\ a \in Int /\ b \in Nat /\ b > 0
        /\ c \in Int /\ d \in Nat /\ d > 0
        /\ e \in Int /\ f \in Nat /\ f > 0
    BY RationalHasParts
  <1> HIDE DEF a, b, c, d, e, f
  <1>2. u \in Int /\ v \in Int /\ w \in Int
    BY <1>1
  <1>3. D \in Nat \ {0}
    <2>1. d * f \in Nat /\ d * f > 0
      BY <1>1
    <2> DEFINE g == d * f
    <2> HIDE DEF g
    <2>2. b * g \in Nat /\ b * g > 0
      BY <1>1, <2>1 DEF g
    <2> QED BY <2>2 DEF g
  <1>4. a * D = u * b
    BY <1>1
  <1>5. c * D = v * d
    BY <1>1
  <1>6. e * D = (2 * w) * f
    BY <1>1
  <1>7. Is(x, D, u) /\ Is(y, D, v) /\ Is(z, D, 2 * w)
    BY <1>4, <1>5, <1>6 DEF Is, a, b, c, d, e, f
  <1> HIDE DEF D, u, v, w
  <1> QED
    BY <1>2, <1>3, <1>7

LEMMA ThreeHalvesIsRational ==
    IsRational(<<3, 2>>) /\ IsRational(<<2, 1>>) /\ IsRational(Zero) /\ IsRational(One)
  <1>1. 1 * 3 + (-1) * 2 = 1
    OBVIOUS
  <1>2. Coprime(3, 2)
    BY <1>1 DEF Coprime
  <1> QED
    BY <1>2, RationalIsCoprime, WholeIsRational DEF Zero, One

\* Rounded differences aren't above the accuracy if they are below one and a half.
LEMMA IsClose ==
    ASSUME NEW x, NEW y, NEW z, NEW D \in Nat, D > 0, NEW u \in Int, NEW v \in Int, NEW w \in Int,
           Is(x, D, u), Is(y, D, v), Is(z, D, 2 * w)
    PROVE  /\ AreClose(x, y, z) <=> Magnitude(u - v) < 3 * w
           /\ AreClose(x, y, Times(<<2, 1>>, z)) <=> Magnitude(u - v) < 6 * w
  <1> DEFINE r == AbsOf(Minus(x, y))
             s == Times(<<3, 2>>, z)
             t == Times(<<2, 1>>, z)
             i == Magnitude(u - v)
  <1>1. u - v \in Int /\ i \in Int
    BY DEF Magnitude
  <1>2. Is(r, D, i)
    <2>1. Is(Minus(x, y), D, u - v)
      BY IsDifference
    <2> HIDE DEF i
    <2> QED BY <1>1, <2>1, IsAbs DEF i
  <1>3. Is(s, D, 3 * w)
    BY ThreeHalvesIsRational, IsMultiple
  <1>4. Is(t, D, 2 * (2 * w))
    <2>1. 2 * w \in Int /\ 1 * (2 * w) = 2 * w
      OBVIOUS
    <2>2. Is(z, D, 1 * (2 * w))
      BY <2>1
    <2> QED BY <2>1, <2>2, ThreeHalvesIsRational, IsMultiple
  <1>5. (AreClose(x, y, z) <=> Less(r, s)) /\ (AreClose(x, y, t) <=> Less(r, Times(<<3, 2>>, t)))
    BY DEF AreClose
  <1> HIDE DEF r, s, t, i
  <1>6. Is(Times(<<3, 2>>, t), D, 3 * (2 * w))
    BY <1>4, ThreeHalvesIsRational, IsMultiple
  <1>7. 3 * (2 * w) = 6 * w /\ 3 * w \in Int /\ 6 * w \in Int
    OBVIOUS
  <1>8. Is(Times(<<3, 2>>, t), D, 6 * w)
    BY <1>6, <1>7
  <1>9. Less(r, s) <=> i < 3 * w
    BY <1>1, <1>2, <1>3, <1>7, IsLess
  <1>10. Less(r, Times(<<3, 2>>, t)) <=> i < 6 * w
    BY <1>1, <1>2, <1>7, <1>8, IsLess
  <1> QED
    BY <1>5, <1>9, <1>10 DEF i, t

-----------------------------------------------------------------------------
(* Sums and means are fractions *)

\* The sums of the first fractions, of which the last one is the whole sum.
LEMMA SumIterates ==
    ASSUME NEW n \in Nat, NEW xs, DOMAIN xs = 1 .. n, \A k \in 1 .. n : IsRational(xs[k])
    PROVE  \E sum : /\ sum[0] = Zero
                    /\ \A k \in 1 .. n : sum[k] = Plus(sum[k - 1], xs[k])
                    /\ SumOf(xs) = sum[n]
  <1> DEFINE T == {x \in Int \X (Nat \ {0}) : IsRational(x)}
             step == [p \in (1 .. n) \X T |-> Plus(p[2], xs[p[1]])]
             IsIter(f) == f = [s \in SUBSET (1 .. n) |->
                                  IF s = {} THEN Zero ELSE Plus(f[s \ {Max(s)}], xs[Max(s)])]
             iter == CHOOSE f : IsIter(f)
             sum == [k \in 0 .. n |-> iter[1 .. k]]
  <1>1. \A x : IsRational(x) <=> x \in T
    BY DEF IsRational
  <1>2. SumOf(xs) = iter[1 .. n]
    BY DEF SumOf, FoldLeft, MapThenFoldSet
  <1>3. step \in [(1 .. n) \X T -> T]
    <2>1. \A p \in (1 .. n) \X T : Plus(p[2], xs[p[1]]) \in T
      BY <1>1, PlusValue
    <2> HIDE DEF T
    <2> QED BY <2>1
  <1>4. \A i \in 1 .. n, x \in T : step[<<i, x>>] = Plus(x, xs[i])
    OBVIOUS
  <1>5. Zero \in T
    BY <1>1, ThreeHalvesIsRational
  <1> HIDE DEF T, step
  <1>6. PICK f : IsSequenceFold(f, n, T, Zero, step)
    BY <1>3, <1>5, SequenceFoldExists
  <1>7. /\ f \in [SUBSET (1 .. n) -> T]
        /\ \A s \in SUBSET (1 .. n) :
              f[s] = IF s = {} THEN Zero ELSE step[<<Max(s), f[s \ {Max(s)}]>>]
    BY <1>6 DEF IsSequenceFold
  <1>8. ASSUME NEW s \in SUBSET (1 .. n)
        PROVE  f[s] = IF s = {} THEN Zero ELSE Plus(f[s \ {Max(s)}], xs[Max(s)])
    <2>1. CASE s = {}
      BY <1>7, <2>1
    <2>2. CASE s # {}
      <3>1. Max(s) \in 1 .. n
        BY <2>2, MaxFacts
      <3>2. f[s \ {Max(s)}] \in T
        BY <1>7
      <3> QED BY <1>4, <1>7, <2>2, <3>1, <3>2
    <2> QED BY <2>1, <2>2
  <1>9. IsIter(f)
    BY <1>7, <1>8
  <1>10. IsIter(iter)
    <2> HIDE DEF IsIter
    <2> QED BY <1>9
  <1> HIDE DEF iter
  <1>11. \A s \in SUBSET (1 .. n) : s # {} =>
            /\ iter[s] = Plus(iter[s \ {Max(s)}], xs[Max(s)])
            /\ Max(s) \in s
    BY <1>10, MaxFacts
  <1>12. iter[{}] = Zero
    BY <1>10
  <1> HIDE DEF IsIter
  <1>13. sum[0] = Zero
    <2>1. 1 .. 0 = {} /\ 0 \in 0 .. n
      OBVIOUS
    <2> QED BY <1>12, <2>1
  <1>14. ASSUME NEW m \in 1 .. n PROVE sum[m] = Plus(sum[m - 1], xs[m])
    <2>1. /\ Max(1 .. m) = m
          /\ 1 .. m # {} /\ 1 .. m \in SUBSET (1 .. n)
          /\ (1 .. m) \ {m} = 1 .. m - 1
      BY MaxFacts
    <2>2. iter[1 .. m] = Plus(iter[1 .. m - 1], xs[m])
      BY <1>11, <2>1
    <2>3. m \in 0 .. n /\ m - 1 \in 0 .. n
      OBVIOUS
    <2> QED BY <2>2, <2>3
  <1>15. SumOf(xs) = sum[n]
    BY <1>2
  <1> QED
    BY <1>13, <1>14, <1>15

LEMMA SumIsRational ==
    ASSUME NEW n \in Nat, NEW xs, DOMAIN xs = 1 .. n, \A k \in 1 .. n : IsRational(xs[k])
    PROVE  IsRational(SumOf(xs))
  <1>1. PICK sum : /\ sum[0] = Zero
                   /\ \A k \in 1 .. n : sum[k] = Plus(sum[k - 1], xs[k])
                   /\ SumOf(xs) = sum[n]
    BY SumIterates
  <1> DEFINE N == {k \in Nat : k <= n => IsRational(sum[k])}
  <1>2. 0 \in N
    BY <1>1, ThreeHalvesIsRational
  <1>3. ASSUME NEW k \in Nat, k \in N PROVE k + 1 \in N
    <2> SUFFICES ASSUME k + 1 <= n PROVE IsRational(sum[k + 1])
      OBVIOUS
    <2>1. k + 1 \in 1 .. n /\ (k + 1) - 1 = k /\ IsRational(sum[k])
      BY <1>3
    <2>2. sum[k + 1] = Plus(sum[k], xs[k + 1]) /\ IsRational(xs[k + 1])
      BY <1>1, <2>1
    <2> QED BY <2>1, <2>2, PlusValue
  <1>4. n \in N
    <2> HIDE DEF N
    <2> QED BY <1>2, <1>3, NaturalsAreInductive
  <1> QED
    BY <1>1, <1>4

\* A mean of fractions is one.
LEMMA MeanIsRational ==
    ASSUME NEW n \in Nat, n > 0, NEW xs \in Seq({x \in Int \X (Nat \ {0}) : IsRational(x)}),
           Len(xs) = n
    PROVE  IsRational(MeanOf(xs))
  <1>1. DOMAIN xs = 1 .. n /\ \A k \in 1 .. n : IsRational(xs[k])
    OBVIOUS
  <1>2. IsRational(SumOf(xs)) /\ IsRational(<<n, 1>>) /\ <<n, 1>>[1] # 0
    BY <1>1, SumIsRational, WholeIsRational
  <1> QED
    BY <1>2, OverIsRational DEF MeanOf

-----------------------------------------------------------------------------
(* Fractions of the same value are the same *)

Divides(b, d) == \E k \in Int : d = b * k

\* Fractions in lowest terms are equal if their values are.
LEMMA CoprimeDivides ==
    ASSUME NEW a \in Int, NEW b \in Int, NEW c \in Int, NEW d \in Int, Coprime(a, b), a * d = c * b
    PROVE  Divides(b, d)
  <1>1. PICK s \in Int, t \in Int : s * a + t * b = 1
    BY DEF Coprime
  <1>2. /\ s * a \in Int /\ t * b \in Int /\ s * c \in Int /\ t * d \in Int
        /\ s * c + t * d \in Int
    OBVIOUS
  <1>3. d = d * (s * a + t * b)
    BY <1>1
  <1>4. d * (s * a + t * b) = s * (a * d) + b * (t * d)
    OBVIOUS
  <1>5. s * (c * b) + b * (t * d) = b * (s * c + t * d)
    OBVIOUS
  <1>6. d = b * (s * c + t * d)
    BY <1>3, <1>4, <1>5
  <1> QED
    BY <1>2, <1>6 DEF Divides

LEMMA UnitDivisors ==
    ASSUME NEW b \in Nat, b > 0, NEW d \in Nat, d > 0, NEW k \in Int, NEW l \in Int,
           d = b * k, b = d * l
    PROVE  b = d
  <1>1. k > 0
    <2> SUFFICES ASSUME k <= 0 PROVE FALSE
      OBVIOUS
    <2>1. b * k <= 0
      OBVIOUS
    <2> QED BY <2>1
  <1>2. l > 0
    <2> SUFFICES ASSUME l <= 0 PROVE FALSE
      OBVIOUS
    <2>1. d * l <= 0
      OBVIOUS
    <2> QED BY <2>1
  <1>3. b <= b * k
    BY <1>1
  <1>4. d <= d * l
    BY <1>2
  <1> QED
    BY <1>3, <1>4

LEMMA RationalUnique ==
    ASSUME NEW x, NEW y, IsRational(x), IsRational(y), x[1] * y[2] = y[1] * x[2]
    PROVE  x = y
  <1> DEFINE a == x[1]
             b == x[2]
             c == y[1]
             d == y[2]
  <1>1. /\ a \in Int /\ b \in Nat /\ b > 0 /\ Coprime(a, b) /\ x = <<a, b>>
        /\ c \in Int /\ d \in Nat /\ d > 0 /\ Coprime(c, d) /\ y = <<c, d>>
        /\ a * d = c * b
    BY RationalHasParts
  <1> HIDE DEF a, b, c, d
  <1>2. PICK k \in Int : d = b * k
    <2>1. a \in Int /\ b \in Int /\ c \in Int /\ d \in Int /\ Coprime(a, b) /\ a * d = c * b
      BY <1>1
    <2>2. Divides(b, d)
      BY ONLY <2>1, CoprimeDivides
    <2> QED BY <2>2 DEF Divides
  <1>3. PICK l \in Int : b = d * l
    <2>1. a \in Int /\ b \in Int /\ c \in Int /\ d \in Int /\ Coprime(c, d) /\ c * b = a * d
      BY <1>1
    <2>2. Divides(d, b)
      BY ONLY <2>1, CoprimeDivides
    <2> QED BY <2>2 DEF Divides
  <1>4. b = d
    BY <1>1, <1>2, <1>3, UnitDivisors
  <1>5. b * a = b * c
    BY <1>1, <1>4
  <1>6. a = c
    BY <1>1, <1>5, Cancelled
  <1> QED
    BY <1>1, <1>4, <1>6

LEMMA IsUnique ==
    ASSUME NEW x, NEW y, NEW D \in Nat, D > 0, NEW v \in Int, Is(x, D, v), Is(y, D, v)
    PROVE  x = y
  <1> DEFINE a == x[1]
             b == x[2]
             c == y[1]
             d == y[2]
  <1>0. a \in Int /\ b \in Int /\ c \in Int /\ d \in Int
    BY RationalHasParts DEF Is
  <1>1. a * D = v * b /\ c * D = v * d
    BY DEF Is
  <1> HIDE DEF a, b, c, d
  <1>2. D * (a * d) = (a * D) * d /\ D * (c * b) = (c * D) * b
    BY <1>0
  <1>3. (v * b) * d = (v * d) * b
    BY <1>0
  <1>4. D * (a * d) = D * (c * b)
    BY <1>1, <1>2, <1>3
  <1>5. a * d = c * b
    <2>1. a * d \in Int /\ c * b \in Int
      BY <1>0
    <2> QED BY <1>4, <2>1, Cancelled
  <1> QED
    BY <1>5, RationalUnique DEF Is, a, b, c, d

\* What fractions are over other denominators
LEMMA IsItself ==
    ASSUME NEW x, IsRational(x)
    PROVE  Is(x, x[2], x[1]) /\ x[1] \in Int /\ x[2] \in Nat /\ x[2] > 0
  <1>1. x[1] \in Int /\ x[2] \in Nat /\ x[2] > 0
    BY RationalHasParts
  <1> QED
    BY <1>1 DEF Is

LEMMA IsScaled ==
    ASSUME NEW x, NEW D \in Nat, D > 0, NEW v \in Int, Is(x, D, v), NEW k \in Nat, k > 0
    PROVE  Is(x, D * k, v * k) /\ D * k \in Nat /\ D * k > 0
  <1> DEFINE a == x[1]
             b == x[2]
  <1>1. a \in Int /\ b \in Int /\ a * D = v * b
    BY RationalHasParts DEF Is
  <1> HIDE DEF a, b
  <1>2. a * (D * k) = (a * D) * k /\ (v * k) * b = (v * b) * k
    BY <1>1
  <1>3. a * (D * k) = (v * k) * b
    BY <1>1, <1>2
  <1> QED
    BY <1>3 DEF Is, a, b

LEMMA IsRatio ==
    ASSUME NEW n \in Int, NEW d \in Nat, d > 0
    PROVE  Is(Ratio(n, d), d, n)
  BY RatioValue DEF Is

LEMMA IsProduct ==
    ASSUME NEW x, NEW y, NEW D \in Nat, D > 0, NEW E \in Nat, E > 0, NEW v \in Int, NEW w \in Int,
           Is(x, D, v), Is(y, E, w)
    PROVE  /\ Is(Times(x, y), D * E, v * w)
           /\ D * E \in Nat /\ D * E > 0 /\ v * w \in Int
  <1> DEFINE a == x[1]
             b == x[2]
             c == y[1]
             d == y[2]
             p == Times(x, y)[1]
             q == Times(x, y)[2]
  <1>1. /\ a \in Int /\ b \in Nat /\ b > 0 /\ c \in Int /\ d \in Nat /\ d > 0
        /\ a * D = v * b /\ c * E = w * d
    BY RationalHasParts DEF Is
  <1>2. IsRational(Times(x, y)) /\ p * (b * d) = (a * c) * q
    BY TimesValue DEF Is
  <1>3. p \in Int /\ q \in Int
    BY <1>2, RationalHasParts
  <1> HIDE DEF a, b, c, d, p, q
  <1>4. b * d \in Nat /\ b * d > 0 /\ D * E \in Nat /\ D * E > 0 /\ v * w \in Int
        /\ p * (D * E) \in Int /\ (v * w) * q \in Int
    BY <1>1, <1>3
  <1>5. (b * d) * (p * (D * E)) = (p * (b * d)) * (D * E)
    BY <1>1, <1>3
  <1>6. ((a * c) * q) * (D * E) = ((a * D) * (c * E)) * q
    BY <1>1, <1>3
  <1>7. ((v * b) * (w * d)) * q = (b * d) * ((v * w) * q)
    BY <1>1, <1>3
  <1>8. (b * d) * (p * (D * E)) = (b * d) * ((v * w) * q)
    BY <1>1, <1>2, <1>5, <1>6, <1>7
  <1>9. p * (D * E) = (v * w) * q
    BY <1>4, <1>8, Cancelled
  <1> QED
    BY <1>2, <1>4, <1>9 DEF Is, p, q

\* s is the sign of the divisor.
LEMMA IsQuotient ==
    ASSUME NEW x, NEW y, NEW D \in Nat, D > 0, NEW E \in Nat, E > 0, NEW v \in Int, NEW w \in Int,
           Is(x, D, v), Is(y, E, w), NEW s \in {-1, 1}, s * w > 0
    PROVE  /\ Is(Over(x, y), D * (s * w), v * (s * E))
           /\ D * (s * w) \in Nat /\ D * (s * w) > 0 /\ v * (s * E) \in Int
  <1> DEFINE c == y[1]
             d == y[2]
             r == Ratio(d, c)
             p == r[1]
             q == r[2]
             m == s * w
  <1>1. c \in Int /\ d \in Nat /\ d > 0 /\ c * E = w * d /\ m \in Nat /\ m > 0 /\ s * E \in Int
    BY RationalHasParts DEF Is
  <1>2. c # 0
    <2> HIDE DEF c, d, m
    <2> SUFFICES ASSUME c = 0 PROVE FALSE
      OBVIOUS
    <2>1. w * d = 0
      BY <1>1
    <2>2. w = 0
      BY <1>1, <2>1
    <2> QED BY <2>2
  <1>3. IsRational(r) /\ \E g \in Nat \ {0} : (IF c < 0 THEN -d ELSE d) = g * p
                                               /\ Magnitude(c) = g * q
    <2>1. c \in Int /\ d \in Int /\ c # 0
      BY <1>1, <1>2
    <2> HIDE DEF c, d
    <2> QED BY ONLY <2>1, RatioFacts
  <1>4. p \in Int /\ q \in Nat /\ q > 0
    <2> HIDE DEF r
    <2> QED BY <1>3, RationalHasParts
  <1> HIDE DEF c, d, r, p, q
  <1>5. p * c = d * q
    <2>1. PICK g \in Nat \ {0} : (IF c < 0 THEN -d ELSE d) = g * p /\ Magnitude(c) = g * q
      BY <1>3
    <2>2. CASE c < 0
      <3>1. -d = g * p /\ -c = g * q
        BY <1>1, <2>1, <2>2 DEF Magnitude
      <3>2. d = -(g * p) /\ c = -(g * q)
        BY <1>1, <3>1
      <3>3. p * (-(g * q)) = (-(g * p)) * q
        BY <1>4
      <3> QED BY <3>2, <3>3
    <2>3. CASE ~(c < 0)
      <3>1. d = g * p /\ c = g * q
        BY <1>1, <2>1, <2>3 DEF Magnitude
      <3>2. p * (g * q) = (g * p) * q
        BY <1>4
      <3> QED BY <3>1, <3>2
    <2> QED BY <2>2, <2>3
  <1>6. p * w = E * q
    <2>1. d * (p * w) = p * (w * d) /\ p * (c * E) = (p * c) * E /\ (d * q) * E = d * (E * q)
      BY <1>1, <1>4
    <2>2. d * (p * w) = d * (E * q) /\ p * w \in Int /\ E * q \in Int
      BY <1>1, <1>4, <1>5, <2>1
    <2> QED BY <1>1, <2>2, Cancelled
  <1>7. p * m = (s * E) * q
    <2>1. p * (s * w) = s * (p * w) /\ s * (E * q) = (s * E) * q
      BY <1>4
    <2> QED BY <1>6, <2>1 DEF m
  <1>8. Is(r, m, s * E)
    BY <1>3, <1>7 DEF Is, p, q
  <1>9. Over(x, y) = Times(x, r)
    BY DEF Over, r, c, d
  <1> HIDE DEF m
  <1>10. /\ Is(Times(x, r), D * m, v * (s * E))
         /\ D * m \in Nat /\ D * m > 0 /\ v * (s * E) \in Int
    BY <1>1, <1>8, IsProduct
  <1> QED
    BY <1>9, <1>10 DEF m

\* The sign of a fraction is that of its numerator, over any denominator.
LEMMA SignIs ==
    ASSUME NEW x, NEW D \in Nat, D > 0, NEW v \in Int, Is(x, D, v)
    PROVE  (x[1] > 0 <=> v > 0) /\ (x[1] = 0 <=> v = 0) /\ x[1] \in Int
  <1> DEFINE a == x[1]
             b == x[2]
  <1>1. a \in Int /\ b \in Nat /\ b > 0
    BY RationalHasParts DEF Is
  <1>2. a * D = v * b
    BY DEF Is
  <1> HIDE DEF a, b
  <1>3. D * a = b * v
    BY <1>1, <1>2
  <1>4. (D * 0 < D * a <=> 0 < a) /\ (D * 0 = D * a <=> 0 = a)
    BY <1>1, Cancelled
  <1>5. (b * 0 < b * v <=> 0 < v) /\ (b * 0 = b * v <=> 0 = v)
    BY <1>1, Cancelled
  <1>6. D * 0 = 0 /\ b * 0 = 0
    BY <1>1
  <1>7. (a > 0 <=> v > 0) /\ (a = 0 <=> v = 0)
    BY <1>1, <1>3, <1>4, <1>5, <1>6
  <1> QED
    BY <1>1, <1>7 DEF a

LEMMA IsPositiveQuotient ==
    ASSUME NEW x, NEW y, NEW D \in Nat, D > 0, NEW E \in Nat, E > 0, NEW v \in Int, NEW w \in Int,
           Is(x, D, v), Is(y, E, w), w > 0
    PROVE  Is(Over(x, y), D * w, v * E) /\ D * w \in Nat /\ D * w > 0 /\ v * E \in Int
  <1>1. 1 \in {-1, 1} /\ 1 * w > 0 /\ 1 * w = w /\ 1 * E = E
    OBVIOUS
  <1>2. /\ Is(Over(x, y), D * (1 * w), v * (1 * E))
        /\ D * (1 * w) \in Nat /\ D * (1 * w) > 0 /\ v * (1 * E) \in Int
    BY <1>1, IsQuotient
  <1> QED
    BY <1>1, <1>2

\* Conversions compose.
LEMMA Rescaled ==
    ASSUME NEW x, IsRational(x), NEW c \in Nat, c > 0, NEW f \in Nat, f > 0, NEW g \in Nat, g > 0
    PROVE  Times(Times(x, Ratio(c, f)), Ratio(f, g)) = Times(x, Ratio(c, g))
  <1> DEFINE a == x[1]
             b == x[2]
             lhs == Times(Times(x, Ratio(c, f)), Ratio(f, g))
             rhs == Times(x, Ratio(c, g))
  <1>1. Is(x, b, a) /\ a \in Int /\ b \in Nat /\ b > 0
    BY IsItself
  <1> HIDE DEF a, b
  <1>2. Is(Ratio(c, f), f, c) /\ Is(Ratio(f, g), g, f) /\ Is(Ratio(c, g), g, c)
    BY IsRatio
  <1>3. /\ Is(Times(x, Ratio(c, f)), b * f, a * c)
        /\ b * f \in Nat /\ b * f > 0 /\ a * c \in Int
    BY <1>1, <1>2, IsProduct
  <1>4. Is(lhs, (b * f) * g, (a * c) * f)
    BY <1>2, <1>3, IsProduct
  <1>5. Is(rhs, b * g, a * c) /\ b * g \in Nat /\ b * g > 0
    BY <1>1, <1>2, IsProduct
  <1> HIDE DEF lhs, rhs
  <1>6. Is(rhs, (b * g) * f, (a * c) * f) /\ (b * g) * f \in Nat /\ (b * g) * f > 0
    BY <1>3, <1>5, IsScaled
  <1>7. (b * f) * g = (b * g) * f /\ (a * c) * f \in Int
    BY <1>1
  <1>8. lhs = rhs
    BY <1>4, <1>6, <1>7, IsUnique
  <1> QED
    BY <1>8 DEF lhs, rhs

\* A factor c / c leaves a fraction alone.
LEMMA Unscaled ==
    ASSUME NEW x, IsRational(x), NEW c \in Nat, c > 0
    PROVE  Times(x, Ratio(c, c)) = x
  <1> DEFINE a == x[1]
             b == x[2]
             lhs == Times(x, Ratio(c, c))
  <1>1. Is(x, b, a) /\ a \in Int /\ b \in Nat /\ b > 0
    BY IsItself
  <1> HIDE DEF a, b
  <1>2. Is(Ratio(c, c), c, c)
    BY IsRatio
  <1>3. Is(lhs, b * c, a * c) /\ b * c \in Nat /\ b * c > 0 /\ a * c \in Int
    BY <1>1, <1>2, IsProduct
  <1>4. Is(x, b * c, a * c)
    BY <1>1, IsScaled
  <1> HIDE DEF lhs
  <1>5. lhs = x
    BY <1>3, <1>4, IsUnique
  <1> QED
    BY <1>5 DEF lhs

\* Dividing by a quotient yields the divisor.
LEMMA OverQuotient ==
    ASSUME NEW x, NEW y, IsRational(x), IsRational(y), x[1] > 0, y[1] > 0
    PROVE  Over(x, Over(x, y)) = y
  <1> DEFINE a == x[1]
             b == x[2]
             c == y[1]
             d == y[2]
             q == Over(x, y)
             lhs == Over(x, q)
  <1>1. /\ Is(x, b, a) /\ a \in Int /\ b \in Nat /\ b > 0 /\ a > 0
        /\ Is(y, d, c) /\ c \in Int /\ d \in Nat /\ d > 0 /\ c > 0
    BY IsItself
  <1> HIDE DEF a, b, c, d
  <1>2. Is(q, b * c, a * d) /\ b * c \in Nat /\ b * c > 0 /\ a * d \in Int
    BY <1>1, IsPositiveQuotient
  <1>3. a * d > 0 /\ a * b \in Nat /\ a * b > 0
    BY <1>1
  <1> HIDE DEF q
  <1>4. /\ Is(lhs, b * (a * d), a * (b * c))
        /\ b * (a * d) \in Nat /\ b * (a * d) > 0 /\ a * (b * c) \in Int
    BY <1>1, <1>2, <1>3, IsPositiveQuotient
  <1>5. Is(y, d * (a * b), c * (a * b))
    BY <1>1, <1>3, IsScaled
  <1>6. b * (a * d) = d * (a * b) /\ a * (b * c) = c * (a * b)
    BY <1>1
  <1> HIDE DEF lhs
  <1>7. lhs = y
    BY <1>4, <1>5, <1>6, IsUnique
  <1> QED
    BY <1>7 DEF lhs, q

LEMMA SignExists ==
    ASSUME NEW w \in Int, w # 0
    PROVE  \E s \in {-1, 1} : s * w > 0
  <1>1. CASE w > 0
    <2>1. 1 * w > 0
      BY <1>1
    <2> QED BY <2>1
  <1>2. CASE w < 0
    <2>1. (-1) * w > 0
      BY <1>2
    <2> QED BY <2>1
  <1> QED
    BY <1>1, <1>2

\* Multiplying with the divisor yields what was divided.
LEMMA OverTimes ==
    ASSUME NEW x, NEW y, IsRational(x), IsRational(y), y[1] # 0
    PROVE  Times(Over(x, y), y) = x
  <1> DEFINE a == x[1]
             b == x[2]
             c == y[1]
             d == y[2]
             q == Over(x, y)
             lhs == Times(q, y)
  <1>1. /\ Is(x, b, a) /\ a \in Int /\ b \in Nat /\ b > 0
        /\ Is(y, d, c) /\ c \in Int /\ d \in Nat /\ d > 0 /\ c # 0
    BY IsItself
  <1> HIDE DEF a, b, c, d
  <1>2. PICK s \in {-1, 1} : s * c > 0
    BY <1>1, SignExists
  <1>3. /\ Is(q, b * (s * c), a * (s * d))
        /\ b * (s * c) \in Nat /\ b * (s * c) > 0 /\ a * (s * d) \in Int
    BY <1>1, <1>2, IsQuotient
  <1> HIDE DEF q
  <1>4. /\ Is(lhs, (b * (s * c)) * d, (a * (s * d)) * c)
        /\ (b * (s * c)) * d \in Nat /\ (b * (s * c)) * d > 0 /\ (a * (s * d)) * c \in Int
    BY <1>1, <1>3, IsProduct
  <1> DEFINE m == s * c
             k == m * d
  <1>5. m \in Nat /\ m > 0
    BY <1>1, <1>2
  <1>6. k \in Nat /\ k > 0
    <2> HIDE DEF m
    <2> QED BY <1>1, <1>5
  <1>7. Is(x, b * k, a * k)
    <2> HIDE DEF k
    <2> QED BY <1>1, <1>6, IsScaled
  <1>8. (b * (s * c)) * d = b * ((s * c) * d) /\ (a * (s * d)) * c = a * ((s * c) * d)
    BY <1>1
  <1> HIDE DEF lhs
  <1>9. lhs = x
    BY <1>4, <1>7, <1>8, IsUnique
  <1> QED
    BY <1>9 DEF lhs, q

-----------------------------------------------------------------------------
(* Sums and means have the value of the numerators' sums *)

LEMMA IsSumOf ==
    ASSUME NEW n \in Nat, NEW xs, DOMAIN xs = 1 .. n, NEW D \in Nat, D > 0, NEW v,
           \A k \in 1 .. n : v[k] \in Int /\ Is(xs[k], D, v[k]),
           NEW t \in [0 .. n -> Int], IsSum(t, v, n)
    PROVE  Is(SumOf(xs), D, t[n])
  <1>1. \A k \in 1 .. n : IsRational(xs[k])
    BY DEF Is
  <1>2. PICK sum : /\ sum[0] = Zero
                   /\ \A k \in 1 .. n : sum[k] = Plus(sum[k - 1], xs[k])
                   /\ SumOf(xs) = sum[n]
    BY <1>1, SumIterates
  <1> DEFINE N == {k \in Nat : k <= n => Is(sum[k], D, t[k])}
  <1>3. 0 \in N
    <2>1. t[0] = 0 /\ Zero = <<0, 1>>
      BY DEF IsSum, Zero
    <2>2. Is(Zero, D, 0)
      BY <2>1, ThreeHalvesIsRational DEF Is
    <2> QED BY <1>2, <2>1, <2>2
  <1>4. ASSUME NEW k \in Nat, k \in N PROVE k + 1 \in N
    <2> SUFFICES ASSUME k + 1 <= n PROVE Is(sum[k + 1], D, t[k + 1])
      OBVIOUS
    <2>1. /\ k + 1 \in 1 .. n /\ k \in 0 .. n /\ k + 1 \in 0 .. n /\ k + 1 # 0
          /\ (k + 1) - 1 = k /\ Is(sum[k], D, t[k])
      BY <1>4
    <2> DEFINE m == k + 1
    <2>2. m \in 1 .. n /\ m \in 0 .. n /\ m # 0 /\ m - 1 = k
      BY <2>1
    <2> HIDE DEF m
    <2>3. t[m] = t[k] + v[m] /\ t[k] \in Int
      BY <2>1, <2>2 DEF IsSum
    <2>4. sum[m] = Plus(sum[k], xs[m]) /\ v[m] \in Int /\ Is(xs[m], D, v[m])
      BY <1>2, <2>2
    <2>5. Is(Plus(sum[k], xs[m]), D, t[k] + v[m])
      BY <2>1, <2>3, <2>4, IsPlus
    <2> QED BY <2>3, <2>4, <2>5 DEF m
  <1>5. n \in N
    <2> HIDE DEF N
    <2> QED BY <1>3, <1>4, NaturalsAreInductive
  <1> QED
    BY <1>2, <1>5

\* The fractions of a sequence have a common denominator.
LEMMA SequenceDenominator ==
    ASSUME NEW n \in Nat, NEW xs, \A k \in 1 .. n : IsRational(xs[k])
    PROVE  \E D \in Nat \ {0} : \E v \in [1 .. n -> Int] : \A k \in 1 .. n : Is(xs[k], D, v[k])
  <1> DEFINE HasOne(m) == \E D \in Nat \ {0} : \E v \in [1 .. m -> Int] :
                              \A k \in 1 .. m : Is(xs[k], D, v[k])
             N == {m \in Nat : m <= n => HasOne(m)}
  <1>1. 0 \in N
    <2>1. [k \in 1 .. 0 |-> 0] \in [1 .. 0 -> Int] /\ 1 .. 0 = {} /\ 1 \in Nat \ {0}
      OBVIOUS
    <2> QED BY <2>1
  <1>2. ASSUME NEW m \in Nat, m \in N PROVE m + 1 \in N
    <2> SUFFICES ASSUME m + 1 <= n PROVE HasOne(m + 1)
      OBVIOUS
    <2>1. PICK D \in Nat \ {0}, v \in [1 .. m -> Int] : \A k \in 1 .. m : Is(xs[k], D, v[k])
      BY <1>2
    <2> DEFINE l == m + 1
               c == xs[l][1]
               d == xs[l][2]
               w == [k \in 1 .. l |-> IF k = l THEN c * D ELSE v[k] * d]
    <2>2. l \in 1 .. n /\ l \in Nat /\ \A k \in 1 .. l : k = l \/ (k # l /\ k \in 1 .. m)
      OBVIOUS
    <2> HIDE DEF l
    <2>3. Is(xs[l], d, c) /\ c \in Int /\ d \in Nat /\ d > 0
      BY <2>2, IsItself
    <2> HIDE DEF c, d
    <2>4. D * d \in Nat \ {0} /\ d * D = D * d /\ c * D \in Int
      BY <2>1, <2>3
    <2>a. w = [k \in 1 .. l |-> w[k]] /\ \A k \in 1 .. l : w[k] = IF k = l THEN c * D ELSE v[k] * d
      OBVIOUS
    <2> HIDE DEF w
    <2>5. ASSUME NEW k \in 1 .. l PROVE w[k] \in Int /\ Is(xs[k], D * d, w[k])
      <3>1. CASE k = l
        <4>1. Is(xs[l], d * D, c * D)
          <5>1. D \in Nat /\ D > 0
            OBVIOUS
          <5> QED BY ONLY <2>3, <5>1, IsScaled
        <4>2. w[k] = c * D
          BY <2>a, <3>1
        <4> QED BY <2>4, <3>1, <4>1, <4>2
      <3>2. CASE k # l
        <4>1. k \in 1 .. m /\ v[k] \in Int /\ Is(xs[k], D, v[k])
          BY <2>1, <2>2, <3>2
        <4>2. Is(xs[k], D * d, v[k] * d)
          <5>1. D \in Nat /\ D > 0
            OBVIOUS
          <5> QED BY ONLY <2>3, <4>1, <5>1, IsScaled
        <4>3. v[k] * d \in Int
          BY <2>3, <4>1
        <4>4. w[k] = v[k] * d
          BY <2>a, <3>2
        <4> QED BY <4>2, <4>3, <4>4
      <3> QED BY <3>1, <3>2
    <2>6. w \in [1 .. l -> Int]
      BY <2>a, <2>5
    <2>7. HasOne(l)
      BY <2>4, <2>5, <2>6
    <2> QED BY <2>7 DEF l
  <1>3. n \in N
    <2> HIDE DEF N
    <2> QED BY <1>1, <1>2, NaturalsAreInductive
  <1> QED
    BY <1>3
=============================================================================
