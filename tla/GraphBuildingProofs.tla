------------------------ MODULE GraphBuildingProofs -------------------------
(***************************************************************************)
(* Theorems about GraphBuilding, for every set of map-files: the type      *)
(* invariant and all that its runs check of a finished graph.              *)
(*                                                                         *)
(* Everything follows from one inductive invariant, BuildingInv.  Its      *)
(* parts follow the edges of the file through the blocks of finalize: as   *)
(* they are read, sorted with their duplicates, kept, and finally as the   *)
(* vectors of the graph.  Before it, there are lemmas about what the       *)
(* helpers of GraphBuilding compute: the order of keys, sorting, and the   *)
(* two loops that are written as folds.                                    *)
(***************************************************************************)
EXTENDS GraphBuilding, Foundations, SequenceTheorems

-----------------------------------------------------------------------------
(* Sorting *)

\* R orders the members of S one after the other.
IsStrictOrder(S, R) ==
    /\ \A x \in S : <<x, x>> \notin R
    /\ \A x, y, z \in S : <<x, y>> \in R /\ <<y, z>> \in R => <<x, z>> \in R
    /\ \A x, y \in S : x # y => <<x, y>> \in R \/ <<y, x>> \in R

\* In a finite, strictly ordered set there is exactly one member at each rank, and who has the
\* lower rank is before.
LEMMA RankFacts ==
    ASSUME NEW S, IsFiniteSet(S), NEW R, IsStrictOrder(S, R)
    PROVE  /\ Cardinality(S) \in Nat
           /\ \A k \in 1 .. Cardinality(S) : AtRank(k - 1, S, R) \in S
           /\ \A k, l \in 1 .. Cardinality(S) :
                  k < l => <<AtRank(k - 1, S, R), AtRank(l - 1, S, R)>> \in R
           /\ \A x \in S : \E k \in 1 .. Cardinality(S) : AtRank(k - 1, S, R) = x
  <1> DEFINE n == Cardinality(S)
             below(x) == {y \in S : <<y, x>> \in R}
             rank == [x \in S |-> Cardinality(below(x))]
  <1>n. n \in Nat
    BY FS_CardinalityType
  <1>f. \A x \in S : IsFiniteSet(below(x)) /\ Cardinality(below(x)) \in Nat
    BY FS_Subset, FS_CardinalityType
  <1>1. rank \in [S -> 0 .. n - 1]
    <2> SUFFICES ASSUME NEW x \in S PROVE rank[x] \in 0 .. n - 1
      OBVIOUS
    <2>1. below(x) \in SUBSET (S \ {x})
      BY DEF IsStrictOrder
    <2>2. IsFiniteSet(S \ {x}) /\ Cardinality(S \ {x}) = n - 1
      BY FS_RemoveElement
    <2>3. Cardinality(below(x)) <= n - 1
      <3> HIDE DEF n, below
      <3>1. Cardinality(below(x)) <= Cardinality(S \ {x})
        BY <2>1, <2>2, FS_Subset
      <3> QED BY <2>2, <3>1
    <2>4. rank[x] = Cardinality(below(x)) /\ Cardinality(below(x)) \in Nat
      BY <1>f
    <2> HIDE DEF n, below, rank
    <2> QED
      BY <2>3, <2>4, <1>n
  <1>2. ASSUME NEW x \in S, NEW y \in S, <<x, y>> \in R
        PROVE  rank[x] < rank[y]
    <2>1. below(x) \cup {x} \in SUBSET below(y)
      BY <1>2 DEF IsStrictOrder
    <2>2. x \notin below(x)
      BY DEF IsStrictOrder
    <2>3. Cardinality(below(x) \cup {x}) = Cardinality(below(x)) + 1
      BY <2>2, <1>f, FS_AddElement
    <2>4. Cardinality(below(x) \cup {x}) <= Cardinality(below(y))
      BY <2>1, <1>f, FS_Subset
    <2> HIDE DEF below
    <2> QED
      BY <2>3, <2>4, <1>f
  <1>3. \A x, y \in S : rank[x] = rank[y] => x = y
    <2> SUFFICES ASSUME NEW x \in S, NEW y \in S, rank[x] = rank[y], x # y PROVE FALSE
      OBVIOUS
    <2>1. rank[x] \in Int /\ rank[y] \in Int
      BY <1>1
    <2>2. <<x, y>> \in R \/ <<y, x>> \in R
      BY DEF IsStrictOrder
    <2> HIDE DEF rank
    <2> QED
      BY <2>1, <2>2, <1>2
  <1>4. rank \in Surjection(S, 0 .. n - 1)
    <2>1. rank \in Injection(S, 0 .. n - 1)
      BY <1>1, <1>3 DEF Injection, IsInjective
    <2>2. IsFiniteSet(0 .. n - 1) /\ Cardinality(0 .. n - 1) = n
      BY <1>n, FS_Interval
    <2> HIDE DEF rank
    <2> QED
      BY <2>1, <2>2, FS_Injection
  <1>5. \A k \in 1 .. n : \E x \in S : rank[x] = k - 1
    <2> HIDE DEF rank, n
    <2> SUFFICES ASSUME NEW k \in 1 .. n PROVE \E x \in S : rank[x] = k - 1
      OBVIOUS
    <2>1. k - 1 \in 0 .. n - 1
      BY <1>n
    <2> QED
      BY <1>4, <2>1 DEF Surjection
  <1>6. \A k \in 1 .. n : AtRank(k - 1, S, R) \in S /\ rank[AtRank(k - 1, S, R)] = k - 1
    BY <1>5 DEF AtRank
  <1>7. ASSUME NEW k \in 1 .. n, NEW l \in 1 .. n, k < l
        PROVE  <<AtRank(k - 1, S, R), AtRank(l - 1, S, R)>> \in R
    <2> DEFINE x == AtRank(k - 1, S, R)
               y == AtRank(l - 1, S, R)
    <2>1. x \in S /\ y \in S /\ rank[x] = k - 1 /\ rank[y] = l - 1
      BY <1>6
    <2> HIDE DEF rank, x, y, n
    <2>2. x # y /\ ~(rank[y] < rank[x])
      BY <2>1, <1>7, <1>n
    <2>3. <<x, y>> \in R \/ <<y, x>> \in R
      BY <2>1, <2>2 DEF IsStrictOrder
    <2>4. <<x, y>> \in R
      BY <2>1, <2>2, <2>3, <1>2
    <2> QED
      BY <2>4 DEF x, y
  <1>8. ASSUME NEW x \in S
        PROVE  \E k \in 1 .. n : AtRank(k - 1, S, R) = x
    <2>1. rank[x] \in 0 .. n - 1 /\ rank[x] + 1 \in 1 .. n /\ rank[x] + 1 - 1 = rank[x]
      BY <1>1, <1>n
    <2>2. rank[AtRank(rank[x] + 1 - 1, S, R)] = rank[x] /\ AtRank(rank[x] + 1 - 1, S, R) \in S
      BY <2>1, <1>6
    <2> HIDE DEF rank
    <2>3. AtRank(rank[x] + 1 - 1, S, R) = x
      BY <2>2, <1>3
    <2> QED
      BY <2>1, <2>3
  <1> QED
    BY <1>n, <1>6, <1>7, <1>8

\* Sorting a finite set of integers.
LEMMA SortedSetFacts ==
    ASSUME NEW S, IsFiniteSet(S), S \subseteq Int
    PROVE  /\ SortedSet(S) \in Seq(S)
           /\ \A x \in S : \E k \in DOMAIN SortedSet(S) : SortedSet(S)[k] = x
           /\ \A k, l \in DOMAIN SortedSet(S) : k < l => SortedSet(S)[k] < SortedSet(S)[l]
  <1> DEFINE R == {p \in S \X S : p[1] < p[2]}
  <1>1. \A x, y \in S : <<x, y>> \in R <=> x < y
    OBVIOUS
  <1>2. IsStrictOrder(S, R)
    <2> HIDE DEF R
    <2> QED BY <1>1 DEF IsStrictOrder
  <1>3. SortedSet(S) = [k \in 1 .. Cardinality(S) |-> AtRank(k - 1, S, R)]
    BY DEF SortedSet
  <1> HIDE DEF R
  <1> DEFINE n == Cardinality(S)
             at == [k \in 1 .. n |-> AtRank(k - 1, S, R)]
  <1>4. /\ n \in Nat
        /\ \A k \in 1 .. n : at[k] \in S
        /\ \A k, l \in 1 .. n : k < l => <<at[k], at[l]>> \in R
        /\ \A x \in S : \E k \in 1 .. n : at[k] = x
    BY <1>2, RankFacts
  <1>5. SortedSet(S) = at /\ at \in [1 .. n -> S] /\ DOMAIN at = 1 .. n
    BY <1>3, <1>4
  <1> HIDE DEF at, n
  <1>6. at \in Seq(S)
    BY <1>4, <1>5
  <1> QED
    BY <1>1, <1>4, <1>5, <1>6

\* The order of keys is strict: for the four of an edge, and for an id and an index.
QuadKeys == Int \X Int \X Int \X Int
PairKeys == Int \X Int

IsLessStrict(K) ==
    /\ \A a \in K : ~KeyLess(a, a)
    /\ \A a, b, c \in K : KeyLess(a, b) /\ KeyLess(b, c) => KeyLess(a, c)
    /\ \A a, b \in K : a # b => KeyLess(a, b) \/ KeyLess(b, a)

LEMMA QuadLess ==
    ASSUME NEW a \in QuadKeys, NEW b \in QuadKeys
    PROVE  KeyLess(a, b) <=> \/ a[1] < b[1]
                             \/ a[1] = b[1] /\ a[2] < b[2]
                             \/ a[1] = b[1] /\ a[2] = b[2] /\ a[3] < b[3]
                             \/ a[1] = b[1] /\ a[2] = b[2] /\ a[3] = b[3] /\ a[4] < b[4]
  <1>1. DOMAIN a = {1, 2, 3, 4}
    BY DEF QuadKeys
  <1>2. /\ 1 .. 1 - 1 = {} /\ 1 .. 2 - 1 = {1} /\ 1 .. 3 - 1 = {1, 2}
        /\ 1 .. 4 - 1 = {1, 2, 3}
    OBVIOUS
  <1>3. KeyLess(a, b) <=> \E k \in {1, 2, 3, 4} : a[k] < b[k] /\ \A l \in 1 .. k - 1 : a[l] = b[l]
    BY <1>1 DEF KeyLess
  <1> QED
    BY <1>2, <1>3

LEMMA QuadLessStrict == IsLessStrict(QuadKeys)
  <1>1. \A a \in QuadKeys : a[1] \in Int /\ a[2] \in Int /\ a[3] \in Int /\ a[4] \in Int
    BY DEF QuadKeys
  <1>2. \A a, b \in QuadKeys :
           a # b => a[1] # b[1] \/ a[2] # b[2] \/ a[3] # b[3] \/ a[4] # b[4]
    BY DEF QuadKeys
  <1>3. \A a \in QuadKeys : ~KeyLess(a, a)
    BY <1>1, QuadLess
  <1>4. ASSUME NEW a \in QuadKeys, NEW b \in QuadKeys, NEW c \in QuadKeys,
               KeyLess(a, b), KeyLess(b, c)
        PROVE  KeyLess(a, c)
    BY <1>1, <1>4, QuadLess
  <1>5. ASSUME NEW a \in QuadKeys, NEW b \in QuadKeys, a # b
        PROVE  KeyLess(a, b) \/ KeyLess(b, a)
    BY <1>1, <1>2, <1>5, QuadLess
  <1> QED
    BY <1>3, <1>4, <1>5 DEF IsLessStrict

LEMMA PairLess ==
    ASSUME NEW a \in PairKeys, NEW b \in PairKeys
    PROVE  KeyLess(a, b) <=> \/ a[1] < b[1]
                             \/ a[1] = b[1] /\ a[2] < b[2]
  <1>1. DOMAIN a = {1, 2}
    BY DEF PairKeys
  <1>2. 1 .. 1 - 1 = {} /\ 1 .. 2 - 1 = {1}
    OBVIOUS
  <1>3. KeyLess(a, b) <=> \E k \in {1, 2} : a[k] < b[k] /\ \A l \in 1 .. k - 1 : a[l] = b[l]
    BY <1>1 DEF KeyLess
  <1> QED
    BY <1>2, <1>3

LEMMA PairLessStrict == IsLessStrict(PairKeys)
  <1>1. \A a \in PairKeys : a[1] \in Int /\ a[2] \in Int
    BY DEF PairKeys
  <1>2. \A a, b \in PairKeys : a # b => a[1] # b[1] \/ a[2] # b[2]
    BY DEF PairKeys
  <1>3. \A a \in PairKeys : ~KeyLess(a, a)
    BY <1>1, PairLess
  <1>4. ASSUME NEW a \in PairKeys, NEW b \in PairKeys, NEW c \in PairKeys,
               KeyLess(a, b), KeyLess(b, c)
        PROVE  KeyLess(a, c)
    BY <1>1, <1>4, PairLess
  <1>5. ASSUME NEW a \in PairKeys, NEW b \in PairKeys, a # b
        PROVE  KeyLess(a, b) \/ KeyLess(b, a)
    BY <1>1, <1>2, <1>5, PairLess
  <1> QED
    BY <1>3, <1>4, <1>5 DEF IsLessStrict

\* A permutation of the first n positions.
IsPermutation(p, n) ==
    /\ p \in [1 .. n -> 1 .. n]
    /\ \A k, l \in 1 .. n : p[k] = p[l] => k = l
    /\ \A i \in 1 .. n : \E k \in 1 .. n : p[k] = i

\* The elements of s in the order of their keys, where p tells which is at a position.
Sorts(p, sorted, s, keys, n) ==
    /\ IsPermutation(p, n)
    /\ \A k \in 1 .. n : sorted[k] = s[p[k]]
    /\ \A k, l \in 1 .. n : k < l => \/ KeyLess(keys[p[k]], keys[p[l]])
                                     \/ keys[p[k]] = keys[p[l]] /\ p[k] < p[l]

\* Sorting permutes a vector such that the keys ascend, and equal keys keep their order.
LEMMA SortedByFacts ==
    ASSUME NEW s, NEW n \in Nat, DOMAIN s = 1 .. n, NEW keys,
           NEW K, \A i \in 1 .. n : keys[i] \in K, IsLessStrict(K)
    PROVE  /\ DOMAIN SortedBy(s, keys) = 1 .. n
           /\ SortedBy(s, keys) = [k \in 1 .. n |-> SortedBy(s, keys)[k]]
           /\ \E p : Sorts(p, SortedBy(s, keys), s, keys, n)
  <1> DEFINE S == 1 .. n
             R == {p \in S \X S : \/ KeyLess(keys[p[1]], keys[p[2]])
                                  \/ keys[p[1]] = keys[p[2]] /\ p[1] < p[2]}
             perm == [k \in S |-> AtRank(k - 1, S, R)]
  <1>1. \A x, y \in S : <<x, y>> \in R <=> \/ KeyLess(keys[x], keys[y])
                                           \/ keys[x] = keys[y] /\ x < y
    OBVIOUS
  <1>2. IsFiniteSet(S) /\ Cardinality(S) = n
    BY FS_Interval
  <1>3. SortedBy(s, keys) = [k \in 1 .. n |-> s[perm[k]]]
    BY DEF SortedBy
  <1> HIDE DEF R
  <1>4. IsStrictOrder(S, R)
    <2>1. \A x \in S : <<x, x>> \notin R
      BY <1>1 DEF IsLessStrict
    <2>2. ASSUME NEW x \in S, NEW y \in S, NEW z \in S, <<x, y>> \in R, <<y, z>> \in R
          PROVE  <<x, z>> \in R
      <3>1. keys[x] \in K /\ keys[y] \in K /\ keys[z] \in K
        OBVIOUS
      <3>2. KeyLess(keys[x], keys[y]) \/ (keys[x] = keys[y] /\ x < y)
        BY <2>2, <1>1
      <3>3. KeyLess(keys[y], keys[z]) \/ (keys[y] = keys[z] /\ y < z)
        BY <2>2, <1>1
      <3>4. KeyLess(keys[x], keys[y]) /\ KeyLess(keys[y], keys[z]) => KeyLess(keys[x], keys[z])
        BY <3>1 DEF IsLessStrict
      <3>5. KeyLess(keys[x], keys[z]) \/ (keys[x] = keys[z] /\ x < z)
        BY <3>2, <3>3, <3>4
      <3> QED
        BY <3>5, <1>1
    <2>3. ASSUME NEW x \in S, NEW y \in S, x # y
          PROVE  <<x, y>> \in R \/ <<y, x>> \in R
      <3>1. keys[x] \in K /\ keys[y] \in K
        OBVIOUS
      <3>2. keys[x] # keys[y] => KeyLess(keys[x], keys[y]) \/ KeyLess(keys[y], keys[x])
        BY <3>1 DEF IsLessStrict
      <3>3. x < y \/ y < x
        BY <2>3
      <3> QED
        BY <3>2, <3>3, <1>1
    <2> QED
      BY <2>1, <2>2, <2>3 DEF IsStrictOrder
  <1>5. /\ \A k \in S : AtRank(k - 1, S, R) \in S
        /\ \A k, l \in S : k < l => <<AtRank(k - 1, S, R), AtRank(l - 1, S, R)>> \in R
        /\ \A x \in S : \E k \in S : AtRank(k - 1, S, R) = x
    BY <1>2, <1>4, RankFacts
  <1>6. \A k, l \in S : k < l => \/ KeyLess(keys[perm[k]], keys[perm[l]])
                                 \/ keys[perm[k]] = keys[perm[l]] /\ perm[k] < perm[l]
    BY <1>1, <1>5
  <1>7. IsPermutation(perm, n)
    <2>1. perm \in [1 .. n -> 1 .. n]
      BY <1>5
    <2>2. ASSUME NEW k \in S, NEW l \in S, k < l PROVE perm[k] # perm[l]
      <3>1. <<perm[k], perm[l]>> \in R /\ perm[k] \in S
        BY <1>5, <2>2
      <3> QED
        BY <3>1, <1>4 DEF IsStrictOrder
    <2>3. \A k, l \in S : perm[k] = perm[l] => k = l
      <3> HIDE DEF perm
      <3> QED BY <2>2
    <2> QED
      BY <1>5, <2>1, <2>3 DEF IsPermutation
  <1> HIDE DEF perm
  <1>8. DOMAIN SortedBy(s, keys) = 1 .. n /\ \A k \in 1 .. n : SortedBy(s, keys)[k] = s[perm[k]]
    BY <1>3
  <1>9. Sorts(perm, SortedBy(s, keys), s, keys, n)
    BY <1>6, <1>7, <1>8 DEF Sorts
  <1> QED
    BY <1>3, <1>8, <1>9

-----------------------------------------------------------------------------
(* Removed indices *)

\* The number of removed indices up to an index.
GoneUpTo(idx) == Cardinality({k \in DOMAIN removed : removed[k] <= idx})

\* When the removed indices ascend, correcting an index takes away those up to it.
LEMMA CorrectedFacts ==
    ASSUME removed \in Seq(Nat),
           \A k, l \in DOMAIN removed : k < l => removed[k] < removed[l],
           NEW half \in Nat
    PROVE  Corrected(half) = half - GoneUpTo(half)
  <1> DEFINE n == Len(removed)
             rev == Reverse(removed)
             step == [p \in (1 .. n) \X Int |->
                         IF p[2] >= rev[p[1]] THEN p[2] - 1 ELSE p[2]]
             IsIter(f) == f = [s \in SUBSET (1 .. n) |->
                                  IF s = {}
                                  THEN half
                                  ELSE IF f[s \ {Max(s)}] >= rev[Max(s)]
                                       THEN f[s \ {Max(s)}] - 1
                                       ELSE f[s \ {Max(s)}]]
             iter == CHOOSE f : IsIter(f)
  <1>1. /\ n \in Nat
        /\ DOMAIN removed = 1 .. n
        /\ DOMAIN rev = 1 .. n
        /\ \A k \in 1 .. n : removed[k] \in Nat
        /\ \A k \in 1 .. n : rev[k] = removed[n - k + 1] /\ rev[k] \in Nat
    <2>1. n \in Nat /\ DOMAIN removed = 1 .. n /\ \A k \in 1 .. n : removed[k] \in Nat
      OBVIOUS
    <2>2. rev = [i \in 1 .. n |-> removed[(n - i) + 1]]
      BY DEF Reverse
    <2> HIDE DEF n, rev
    <2>3. \A k \in 1 .. n : n - k + 1 \in 1 .. n
      BY <2>1
    <2> QED
      BY <2>1, <2>2, <2>3
  <1>2. step \in [(1 .. n) \X Int -> Int]
    BY <1>1
  <1>3. IsIter(iter)
    <2> HIDE DEF n, rev
    <2>1. PICK f : IsSequenceFold(f, n, Int, half, step)
      <3> HIDE DEF step
      <3>1. half \in Int
        OBVIOUS
      <3> QED BY <1>1, <1>2, <3>1, SequenceFoldExists
    <2>2. /\ f \in [SUBSET (1 .. n) -> Int]
          /\ \A s \in SUBSET (1 .. n) :
                f[s] = IF s = {} THEN half ELSE step[<<Max(s), f[s \ {Max(s)}]>>]
      BY <2>1 DEF IsSequenceFold
    <2>3. ASSUME NEW s \in SUBSET (1 .. n)
          PROVE  f[s] = IF s = {}
                        THEN half
                        ELSE IF f[s \ {Max(s)}] >= rev[Max(s)]
                             THEN f[s \ {Max(s)}] - 1
                             ELSE f[s \ {Max(s)}]
      <3>1. CASE s = {}
        BY <2>2, <3>1
      <3>2. CASE s # {}
        <4>1. Max(s) \in 1 .. n
          BY <3>2, <1>1, MaxFacts
        <4>2. f[s \ {Max(s)}] \in Int
          BY <2>2
        <4>3. f[s] = step[<<Max(s), f[s \ {Max(s)}]>>]
          BY <2>2, <3>2
        <4> QED
          BY <3>2, <4>1, <4>2, <4>3
      <3> QED
        BY <3>1, <3>2
    <2>4. IsIter(f)
      BY <2>2, <2>3
    <2> HIDE DEF IsIter
    <2> QED
      BY <2>4
  <1>4. Corrected(half) = iter[1 .. n]
    <2>1. DOMAIN rev = 1 .. n
      BY <1>1
    <2> QED
      BY <2>1 DEF Corrected, FoldLeft, MapThenFoldSet
  <1>5. /\ iter[1 .. 0] = half
        /\ \A k \in 1 .. n : iter[1 .. k] = IF iter[1 .. k - 1] >= rev[k]
                                            THEN iter[1 .. k - 1] - 1
                                            ELSE iter[1 .. k - 1]
    <2> HIDE DEF iter, n, rev
    <2>1. 1 .. 0 = {}
      OBVIOUS
    <2>2. iter[1 .. 0] = half
      BY <2>1, <1>3
    <2>3. ASSUME NEW k \in 1 .. n
          PROVE iter[1 .. k] = IF iter[1 .. k - 1] >= rev[k]
                               THEN iter[1 .. k - 1] - 1
                               ELSE iter[1 .. k - 1]
      <3>1. /\ Max(1 .. k) = k
            /\ 1 .. k # {} /\ 1 .. k \in SUBSET (1 .. n) /\ (1 .. k) \ {k} = 1 .. k - 1
        BY <1>1, MaxFacts
      <3> QED
        BY <3>1, <1>3
    <2> QED
      BY <2>2, <2>3
  <1> DEFINE gone(k) == {j \in n - k + 1 .. n : removed[j] <= half}
             N == {k \in Nat : k <= n => iter[1 .. k] = half - Cardinality(gone(k))}
  <1> HIDE DEF iter, rev, n
  <1>6. \A k \in Nat : k <= n => IsFiniteSet(gone(k)) /\ Cardinality(gone(k)) \in Nat
    <2> SUFFICES ASSUME NEW k \in Nat, k <= n
                 PROVE  IsFiniteSet(gone(k)) /\ Cardinality(gone(k)) \in Nat
      OBVIOUS
    <2>1. IsFiniteSet(n - k + 1 .. n)
      BY <1>1, FS_Interval
    <2>2. gone(k) \in SUBSET (n - k + 1 .. n)
      OBVIOUS
    <2> HIDE DEF gone
    <2> QED
      BY <2>1, <2>2, FS_Subset, FS_CardinalityType
  <1>7. 0 \in N
    <2>1. gone(0) = {}
      BY <1>1
    <2>2. Cardinality(gone(0)) = 0
      BY <2>1, FS_EmptySet
    <2> HIDE DEF gone
    <2> QED
      BY <2>2, <1>5
  <1>8. ASSUME NEW k \in Nat, k \in N PROVE k + 1 \in N
    <2> DEFINE m == k + 1
               top == n - k
    <2> SUFFICES ASSUME m <= n PROVE iter[1 .. m] = half - Cardinality(gone(m))
      <3> HIDE DEF gone
      <3> QED OBVIOUS
    <2>1. m \in 1 .. n /\ m - 1 = k /\ n - m + 1 = top /\ top \in 1 .. n /\ k <= n
      BY <1>1
    <2>2. iter[1 .. k] = half - Cardinality(gone(k))
      <3> HIDE DEF gone
      <3> QED BY <1>8, <2>1
    <2>5. /\ gone(k) = {j \in top + 1 .. n : removed[j] <= half}
          /\ gone(m) = {j \in top .. n : removed[j] <= half}
      BY <2>1
    <2>8. m \in Nat /\ IsFiniteSet(gone(k)) /\ Cardinality(gone(k)) \in Nat
      <3> HIDE DEF gone
      <3> QED BY <2>1, <1>6
    <2>9. rev[m] = removed[top] /\ removed[top] \in Nat
      BY <1>1, <2>1
    <2> HIDE DEF gone, m, top
    <2>3. iter[1 .. m] = IF iter[1 .. k] >= removed[top] THEN iter[1 .. k] - 1 ELSE iter[1 .. k]
      BY <2>1, <2>9, <1>5
    <2>4. \A j \in top + 1 .. n : j \in 1 .. n /\ removed[top] < removed[j] /\ removed[j] \in Nat
      <3> SUFFICES ASSUME NEW j \in top + 1 .. n
                   PROVE  j \in 1 .. n /\ removed[top] < removed[j] /\ removed[j] \in Nat
        OBVIOUS
      <3>1. j \in 1 .. n /\ top < j
        BY <1>1, <2>1
      <3> QED
        BY <3>1, <1>1, <2>1
    <2>6. CASE removed[top] <= half
      <3>1. gone(m) = gone(k) \cup {top} /\ top \notin gone(k)
        BY <1>1, <2>1, <2>5, <2>6
      <3>2. Cardinality(gone(m)) = Cardinality(gone(k)) + 1
        BY <3>1, <2>8, FS_AddElement
      <3>3. Cardinality(gone(k)) <= half - removed[top]
        <4> DEFINE f == [j \in gone(k) |-> removed[j]]
                   I == removed[top] + 1 .. half
        <4>1. f \in Injection(gone(k), I)
          <5>1. \A j \in gone(k) : j \in 1 .. n /\ removed[j] \in I
            <6> SUFFICES ASSUME NEW j \in gone(k) PROVE j \in 1 .. n /\ removed[j] \in I
              OBVIOUS
            <6>1. j \in top + 1 .. n /\ removed[j] <= half
              BY <2>5
            <6>2. j \in 1 .. n /\ removed[top] < removed[j] /\ removed[j] \in Nat
              BY <2>4, <6>1
            <6> QED
              BY <6>1, <6>2, <2>9
          <5>2. \A i, j \in gone(k) : removed[i] = removed[j] => i = j
            <6> SUFFICES ASSUME NEW i \in gone(k), NEW j \in gone(k), i < j
                         PROVE  removed[i] # removed[j]
              BY <5>1, <1>1
            <6>1. i \in 1 .. n /\ j \in 1 .. n /\ removed[i] \in Nat /\ removed[j] \in Nat
              BY <5>1, <1>1
            <6>2. removed[i] < removed[j]
              BY <1>1, <6>1
            <6> QED
              BY <6>1, <6>2
          <5> HIDE DEF I
          <5> QED
            BY <5>1, <5>2 DEF Injection, IsInjective
        <4>2. IsFiniteSet(I) /\ Cardinality(I) = half - removed[top]
          <5>1. removed[top] + 1 \in Int /\ half \in Int
            BY <2>9
          <5>2. IsFiniteSet(I) /\ Cardinality(I) = IF removed[top] + 1 > half
                                                  THEN 0
                                                  ELSE half - (removed[top] + 1) + 1
            BY <5>1, FS_Interval
          <5> DEFINE a == removed[top]
          <5>3. a \in Nat /\ a <= half
            BY <2>9, <2>6
          <5>4. IsFiniteSet(I) /\ Cardinality(I) = IF a + 1 > half THEN 0 ELSE half - (a + 1) + 1
            BY <5>2
          <5> HIDE DEF I, a
          <5>5. Cardinality(I) = half - a
            BY <5>3, <5>4
          <5> QED
            BY <5>4, <5>5 DEF a
        <4> HIDE DEF f, I
        <4> QED
          BY <4>1, <4>2, FS_Injection
      <3> QED
        BY <3>2, <3>3, <2>2, <2>3, <2>8, <2>9
    <2>7. CASE ~(removed[top] <= half)
      <3>1. gone(m) = {} /\ gone(k) = {}
        <4>1. \A j \in top .. n : ~(removed[j] <= half)
          <5> SUFFICES ASSUME NEW j \in top .. n PROVE ~(removed[j] <= half)
            OBVIOUS
          <5>1. j = top \/ j \in top + 1 .. n
            BY <1>1, <2>1
          <5> QED
            BY <5>1, <2>4, <2>7, <2>9
        <4>2. \A j \in top + 1 .. n : j \in top .. n
          BY <1>1, <2>1
        <4> QED
          BY <4>1, <4>2, <2>5
      <3>2. Cardinality(gone(m)) = 0 /\ Cardinality(gone(k)) = 0
        BY <3>1, FS_EmptySet
      <3> QED
        BY <3>2, <2>2, <2>3, <2>7, <2>9
    <2> QED
      BY <2>6, <2>7
  <1>9. \A k \in Nat : k \in N
    <2> HIDE DEF N
    <2> QED BY <1>7, <1>8, NaturalsAreInductive
  <1>10. gone(n) = {k \in DOMAIN removed : removed[k] <= half}
    BY <1>1
  <1> QED
    BY <1>1, <1>4, <1>9, <1>10 DEF GoneUpTo

-----------------------------------------------------------------------------
(* The offsets of shortcuts *)

ShortcutState == [offset : Nat, offsets : Seq(Nat), shortcuts : Seq(Nat \X Nat)]
NoShortcuts == [offset |-> 0, offsets |-> <<>>, shortcuts |-> <<>>]

\* acc describes the first k edges: for each of them there is an offset, whose successor is the
\* same if the edge is no shortcut, and the next one otherwise, with its halves in between.
NextOffset(acc, j) == IF j < Len(acc.offsets) THEN acc.offsets[j + 1] ELSE acc.offset
Describes(acc, k) ==
    /\ acc \in ShortcutState
    /\ Len(acc.offsets) = k
    /\ Len(acc.shortcuts) = acc.offset
    /\ \A j \in 1 .. k :
          IF edges[j].halves = <<>>
          THEN NextOffset(acc, j) = acc.offsets[j]
          ELSE /\ NextOffset(acc, j) = acc.offsets[j] + 1
               /\ acc.offsets[j] < acc.offset
               /\ acc.shortcuts[acc.offsets[j] + 1] = edges[j].halves

LEMMA WithShortcutType ==
    ASSUME NEW acc \in ShortcutState, NEW e \in ProtoEdges
    PROVE  WithShortcut(acc, e) \in ShortcutState
  <1>1. acc.offset \in Nat /\ acc.offsets \in Seq(Nat) /\ acc.shortcuts \in Seq(Nat \X Nat)
    BY DEF ShortcutState
  <1>2. CASE e.halves = <<>>
    <2>1. Append(acc.offsets, acc.offset) \in Seq(Nat)
      BY <1>1
    <2> QED
      BY <1>2, <2>1 DEF WithShortcut, ShortcutState
  <1>3. CASE e.halves # <<>>
    <2>1. e.halves \in Nat \X Nat
      BY <1>3 DEF ProtoEdges, Halves
    <2>2. /\ Append(acc.offsets, acc.offset) \in Seq(Nat)
          /\ Append(acc.shortcuts, e.halves) \in Seq(Nat \X Nat)
          /\ acc.offset + 1 \in Nat
      BY <1>1, <2>1
    <2> QED
      BY <1>3, <2>2 DEF WithShortcut, ShortcutState
  <1> QED
    BY <1>2, <1>3

LEMMA WithShortcutDescribes ==
    ASSUME edges \in Seq(ProtoEdges), NEW k \in Nat, k + 1 <= Len(edges),
           NEW acc, Describes(acc, k)
    PROVE  Describes(WithShortcut(acc, edges[k + 1]), k + 1)
  <1> DEFINE e == edges[k + 1]
             next == WithShortcut(acc, e)
  <1>1. e \in ProtoEdges
    OBVIOUS
  <1>2. /\ acc.offset \in Nat /\ acc.offsets \in Seq(Nat) /\ acc.shortcuts \in Seq(Nat \X Nat)
        /\ acc \in ShortcutState
        /\ Len(acc.offsets) = k
        /\ Len(acc.shortcuts) = acc.offset
        /\ \A j \in 1 .. k : acc.offsets[j] \in Nat
    BY DEF Describes, ShortcutState
  <1>3. next \in ShortcutState
    BY <1>1, <1>2, WithShortcutType
  <1>4. /\ next.offsets = Append(acc.offsets, acc.offset)
        /\ next.offset = IF e.halves = <<>> THEN acc.offset ELSE acc.offset + 1
        /\ next.shortcuts = IF e.halves = <<>> THEN acc.shortcuts
                                               ELSE Append(acc.shortcuts, e.halves)
    BY <1>2 DEF WithShortcut, ShortcutState
  <1>5. e.halves # <<>> => e.halves \in Nat \X Nat
    BY <1>1 DEF ProtoEdges, Halves
  <1> HIDE DEF next, e
  <1>6. /\ Len(next.offsets) = k + 1
        /\ \A j \in 1 .. k : next.offsets[j] = acc.offsets[j]
        /\ next.offsets[k + 1] = acc.offset
    BY <1>2, <1>4
  <1>7. /\ Len(next.shortcuts) = next.offset
        /\ \A j \in 1 .. acc.offset : next.shortcuts[j] = acc.shortcuts[j]
        /\ e.halves # <<>> => next.shortcuts[acc.offset + 1] = e.halves
    <2>1. CASE e.halves = <<>>
      BY <2>1, <1>2, <1>4
    <2>2. CASE e.halves # <<>>
      BY <2>2, <1>2, <1>4, <1>5
    <2> QED
      BY <2>1, <2>2
  <1>8. next.offset \in Nat /\ acc.offset <= next.offset
    BY <1>2, <1>4
  <1>9. ASSUME NEW j \in 1 .. k
        PROVE  NextOffset(next, j) = NextOffset(acc, j)
    <2>1. CASE j < k
      <3>1. j + 1 \in 1 .. k
        BY <2>1
      <3> QED
        BY <2>1, <3>1, <1>2, <1>6 DEF NextOffset
    <2>2. CASE j = k
      BY <2>2, <1>2, <1>6 DEF NextOffset
    <2> QED
      BY <2>1, <2>2
  <1>10. ASSUME NEW j \in 1 .. k + 1
         PROVE  IF edges[j].halves = <<>>
                THEN NextOffset(next, j) = next.offsets[j]
                ELSE /\ NextOffset(next, j) = next.offsets[j] + 1
                     /\ next.offsets[j] < next.offset
                     /\ next.shortcuts[next.offsets[j] + 1] = edges[j].halves
    <2>1. CASE j \in 1 .. k
      <3>1. IF edges[j].halves = <<>>
            THEN NextOffset(acc, j) = acc.offsets[j]
            ELSE /\ NextOffset(acc, j) = acc.offsets[j] + 1
                 /\ acc.offsets[j] < acc.offset
                 /\ acc.shortcuts[acc.offsets[j] + 1] = edges[j].halves
        BY <2>1 DEF Describes
      <3>2. next.offsets[j] = acc.offsets[j] /\ acc.offsets[j] \in Nat
        BY <2>1, <1>2, <1>6
      <3>3. acc.offsets[j] < acc.offset => acc.offsets[j] + 1 \in 1 .. acc.offset
        <4>1. acc.offsets[j] \in Nat /\ acc.offset \in Nat
          BY <3>2, <1>2
        <4> QED
          BY ONLY <4>1
      <3>4. acc.offsets[j] < acc.offset => acc.offsets[j] < next.offset
        BY <3>2, <1>2, <1>8
      <3> QED
        BY <3>1, <3>2, <3>3, <3>4, <1>7, <1>9, <2>1
    <2>2. CASE j = k + 1
      <3>1. NextOffset(next, j) = next.offset
        BY <2>2, <1>6 DEF NextOffset
      <3>2. next.offsets[j] = acc.offset /\ edges[j] = e
        BY <2>2, <1>6 DEF e
      <3> QED
        BY <3>1, <3>2, <1>2, <1>4, <1>7
    <2> QED
      BY <2>1, <2>2
  <1> QED
    BY <1>3, <1>6, <1>7, <1>10 DEF Describes, next, e

\* What the loop over all edges computes.
LEMMA ShortcutsFacts ==
    ASSUME edges \in Seq(ProtoEdges)
    PROVE  Describes(FoldLeft(WithShortcut, NoShortcuts, edges), Len(edges))
  <1> DEFINE n == Len(edges)
             T == ShortcutState
             step == [p \in (1 .. n) \X T |-> WithShortcut(p[2], edges[p[1]])]
             IsIter(f) == f = [s \in SUBSET (1 .. n) |->
                                  IF s = {}
                                  THEN NoShortcuts
                                  ELSE WithShortcut(f[s \ {Max(s)}], edges[Max(s)])]
             iter == CHOOSE f : IsIter(f)
  <1>1. n \in Nat /\ DOMAIN edges = 1 .. n /\ \A k \in 1 .. n : edges[k] \in ProtoEdges
    OBVIOUS
  <1>2. NoShortcuts \in T
    BY DEF NoShortcuts, ShortcutState
  <1>3. step \in [(1 .. n) \X T -> T]
    <2> SUFFICES ASSUME NEW p \in (1 .. n) \X T
                 PROVE  WithShortcut(p[2], edges[p[1]]) \in T
      OBVIOUS
    <2>1. p[2] \in T /\ edges[p[1]] \in ProtoEdges
      BY <1>1
    <2> QED
      BY <2>1, WithShortcutType
  <1>4. IsIter(iter)
    <2> HIDE DEF n
    <2>1. PICK f : IsSequenceFold(f, n, T, NoShortcuts, step)
      <3> HIDE DEF step, T
      <3> QED BY <1>1, <1>2, <1>3, SequenceFoldExists
    <2>2. /\ f \in [SUBSET (1 .. n) -> T]
          /\ \A s \in SUBSET (1 .. n) :
                f[s] = IF s = {} THEN NoShortcuts ELSE step[<<Max(s), f[s \ {Max(s)}]>>]
      BY <2>1 DEF IsSequenceFold
    <2>3. ASSUME NEW s \in SUBSET (1 .. n)
          PROVE  f[s] = IF s = {}
                        THEN NoShortcuts
                        ELSE WithShortcut(f[s \ {Max(s)}], edges[Max(s)])
      <3>1. CASE s = {}
        BY <2>2, <3>1
      <3>2. CASE s # {}
        <4>1. Max(s) \in 1 .. n
          BY <3>2, <1>1, MaxFacts
        <4>2. f[s \ {Max(s)}] \in T
          BY <2>2
        <4>3. f[s] = step[<<Max(s), f[s \ {Max(s)}]>>]
          BY <2>2, <3>2
        <4> HIDE DEF T
        <4> QED
          BY <3>2, <4>1, <4>2, <4>3
      <3> QED
        BY <3>1, <3>2
    <2>4. IsIter(f)
      BY <2>2, <2>3
    <2> HIDE DEF IsIter
    <2> QED
      BY <2>4
  <1>5. FoldLeft(WithShortcut, NoShortcuts, edges) = iter[1 .. n]
    <2>1. DOMAIN edges = 1 .. n
      BY <1>1
    <2> QED
      BY <2>1 DEF FoldLeft, MapThenFoldSet
  <1> DEFINE N == {k \in Nat : k <= n => Describes(iter[1 .. k], k)}
  <1> HIDE DEF iter, n
  <1>6. 0 \in N
    <2>1. 1 .. 0 = {}
      OBVIOUS
    <2>2. iter[1 .. 0] = NoShortcuts
      BY <2>1, <1>4
    <2>3. Describes(NoShortcuts, 0)
      BY <1>2 DEF Describes, NoShortcuts
    <2> QED
      BY <2>2, <2>3
  <1>7. ASSUME NEW k \in Nat, k \in N PROVE k + 1 \in N
    <2> DEFINE m == k + 1
    <2> SUFFICES ASSUME m <= n PROVE Describes(iter[1 .. m], m)
      OBVIOUS
    <2>1. Describes(iter[1 .. k], k) /\ m \in 1 .. n /\ m - 1 = k
      BY <1>1, <1>7
    <2>2. Describes(WithShortcut(iter[1 .. k], edges[m]), m)
      BY <2>1, WithShortcutDescribes DEF n
    <2> HIDE DEF m
    <2>3. /\ Max(1 .. m) = m
          /\ 1 .. m # {} /\ 1 .. m \in SUBSET (1 .. n) /\ (1 .. m) \ {m} = 1 .. m - 1
      BY <1>1, <2>1, MaxFacts
    <2>4. iter[1 .. m] = WithShortcut(iter[1 .. k], edges[m])
      BY <2>1, <2>3, <1>4
    <2> QED
      BY <2>2, <2>4
  <1>8. \A k \in Nat : k \in N
    <2> HIDE DEF N
    <2> QED BY <1>6, <1>7, NaturalsAreInductive
  <1>9. Describes(iter[1 .. n], n)
    BY <1>1, <1>8
  <1> QED
    BY <1>5, <1>9 DEF n

-----------------------------------------------------------------------------
(* The inductive invariant *)

\* What a later block uses first is as Init left it.
Fresh ==
    /\ pc = "edges" => read = 0 /\ located = {} /\ level = <<>>
    /\ pc \in {"edges", "nodes", "sort"} => w = 1 /\ r = 1 /\ removed = <<>>
    /\ pc \in {"edges", "nodes", "sort", "dedupe", "store"} =>
          /\ metrics = <<>> /\ scOffsets = <<>> /\ scEdges = <<>>
          /\ srcIdx = 0 /\ edgeIdx = 0
          /\ offsets = [dir \in Dirs |-> <<0>>]
          /\ toFwd = [dir \in Dirs |-> <<>>]
          /\ dsts = [dir \in Dirs |-> <<>>]
          /\ idToIdx = <<>>
    /\ pc = "FWD" => offsets["BWD"] = <<0>> /\ toFwd["BWD"] = <<>>

\* The k-th edge as it is inserted, with its ends' ids among the node-ids.
Inserted(k) ==
    [idx |-> k - 1, id |-> file.edges[k].id, src |-> file.edges[k].src, dst |-> file.edges[k].dst,
     metric |-> file.edges[k].metric, halves |-> file.edges[k].halves]

ReadInv ==
    /\ pc = "edges" => Len(edges) <= Len(file.edges)
    /\ pc \in {"nodes", "sort"} => Len(edges) = Len(file.edges)
    /\ pc \in {"edges", "nodes", "sort"} =>
          \A k \in DOMAIN edges : /\ edges[k] = Inserted(k)
                                  /\ edges[k].src \in ToSet(nodeIds)
                                  /\ edges[k].dst \in ToSet(nodeIds)

\* Node-ids ascend, each node has a level, and nodes of the lines read so far are located.
NodesInv ==
    pc # "edges" =>
        /\ \A k, l \in DOMAIN nodeIds : k < l => nodeIds[k] < nodeIds[l]
        /\ Len(level) = Len(nodeIds)

LocatedInv ==
    pc = "nodes" =>
        \A i \in Nodes : \A k \in 1 .. read :
            file.nodes[k].id = At(nodeIds, i) => i \in located

\* A proto-edge with node-indices is an edge of the file, or stands for a duplicate of it.
HasEnds(e, f) == e.id = f.id /\ At(nodeIds, e.src) = f.src /\ At(nodeIds, e.dst) = f.dst
IsOf(e, f) == HasEnds(e, f) /\ e.metric = f.metric
Represents(e, f) == HasEnds(e, f) /\ Close(e.metric, f.metric)

\* Of the positions in ps, a higher one has no lower forward-key.
InOrder(ps) ==
    \A k, l \in ps : k < l => ~KeyLess(ForwardKey(edges[l]), ForwardKey(edges[k]))

NoNeighbours(last) == \A k \in 1 .. last - 1 : ~IsDuplicate(edges[k], edges[k + 1])

\* The halves of e are positions after sorting, where p tells which edge of the file is at them.
HalvesFollow(e, f, p) ==
    /\ Len(e.halves) = Len(f.halves)
    /\ \A j \in DOMAIN f.halves : /\ e.halves[j] \in Indices(file.edges)
                                  /\ p[e.halves[j]] = f.halves[j]

\* p tells which edge of the file was at an index after sorting.  From r on, it is there still;
\* before, the edge at the corrected index represents it.
Tracks(p) ==
    /\ p \in [Indices(file.edges) -> Indices(file.edges)]
    /\ \A i \in Indices(file.edges) : \E h \in Indices(file.edges) : p[h] = i
    /\ \A h \in Indices(file.edges) : h >= r => At(edges, h).idx = p[h]
    /\ \A h \in Indices(file.edges) : h < r =>
          /\ h - GoneUpTo(h) \in 0 .. w - 1
          /\ Represents(At(edges, h - GoneUpTo(h)), At(file.edges, p[h]))
    /\ \A k \in DOMAIN edges :
          HalvesFollow(edges[k], At(file.edges, edges[k].idx), p)

DedupeInv ==
    pc = "dedupe" =>
        /\ Len(edges) = Len(file.edges)
        /\ r = w + Len(removed)
        /\ r <= Len(edges) \/ (r = 1 /\ edges = <<>>)
        /\ \A k \in DOMAIN removed : removed[k] \in 1 .. r - 1
        /\ \A k, l \in DOMAIN removed : k < l => removed[k] < removed[l]
        /\ \A k \in DOMAIN edges : /\ edges[k].idx \in Indices(file.edges)
                                   /\ edges[k].src \in Nodes
                                   /\ edges[k].dst \in Nodes
                                   /\ IsOf(edges[k], At(file.edges, edges[k].idx))
        /\ InOrder((DOMAIN edges) \ (w + 1 .. r))
        /\ NoNeighbours(w)
        /\ \E p : Tracks(p)

\* An edge of the file, whose halves are indices of edges that represent their halves.
IsOrigin(f, e) ==
    /\ IsOf(e, f)
    /\ Len(e.halves) = Len(f.halves)
    /\ \A j \in DOMAIN f.halves :
          /\ e.halves[j] \in Indices(edges)
          /\ f.halves[j] \in Indices(file.edges)
          /\ Represents(At(edges, e.halves[j]), At(file.edges, f.halves[j]))

KeptInv ==
    pc \in {"store", "FWD"} =>
        /\ \A k \in DOMAIN edges : edges[k].src \in Nodes /\ edges[k].dst \in Nodes
        /\ InOrder(DOMAIN edges)
        /\ NoNeighbours(Len(edges))
        /\ \A k \in DOMAIN edges : \E i \in DOMAIN file.edges : IsOrigin(file.edges[i], edges[k])
        /\ \A i \in DOMAIN file.edges : \E k \in DOMAIN edges : Represents(edges[k], file.edges[i])

\* While edges are in their forward-order, what has been written of them.
ForwardInv ==
    pc = "FWD" =>
        /\ Len(metrics) = Len(edges)
        /\ \A k \in DOMAIN edges : metrics[k] = Stored(edges[k].metric)
        /\ \A k \in DOMAIN edges : ScEdges(k - 1) = edges[k].halves
        /\ Len(dsts["FWD"]) = edgeIdx /\ Len(dsts["BWD"]) = edgeIdx /\ Len(toFwd["FWD"]) = edgeIdx
        /\ \A k \in 1 .. edgeIdx : /\ edges[k].idx = k - 1
                                   /\ dsts["FWD"][k] = edges[k].dst
                                   /\ dsts["BWD"][k] = edges[k].src
                                   /\ toFwd["FWD"][k] = k - 1
        /\ \A a \in DOMAIN idToIdx : /\ idToIdx[a][2] \in 0 .. edgeIdx - 1
                                     /\ idToIdx[a][1] = At(edges, idToIdx[a][2]).id
        /\ \A a, b \in DOMAIN idToIdx : a < b => idToIdx[a][2] < idToIdx[b][2]
        /\ \A k \in 1 .. edgeIdx : edges[k].id # None =>
              \E a \in DOMAIN idToIdx : idToIdx[a][2] = k - 1

\* The backward-order is a permutation of the edges of the graph.
BackwardInv ==
    pc = "BWD" =>
        /\ Len(edges) = Len(metrics)
        /\ Len(dsts["FWD"]) = Len(metrics) /\ Len(dsts["BWD"]) = Len(metrics)
        /\ \A k \in DOMAIN edges : /\ edges[k].idx \in FinalEdges
                                   /\ Target("FWD", edges[k].idx) = edges[k].dst
                                   /\ Target("BWD", edges[k].idx) = edges[k].src
        /\ \A k, l \in DOMAIN edges : edges[k].idx = edges[l].idx => k = l
        /\ \A e \in FinalEdges : \E k \in DOMAIN edges : edges[k].idx = e
        /\ \A k, l \in DOMAIN edges :
              k < l => ~KeyLess(BackwardKey(edges[l]), BackwardKey(edges[k]))
        /\ Len(toFwd["BWD"]) = edgeIdx
        /\ \A k \in 1 .. edgeIdx : toFwd["BWD"][k] = edges[k].idx

\* The edges up to edgeIdx are distributed over the nodes up to srcIdx.
OffsetInv ==
    pc \in Dirs =>
        LET o == offsets[pc]
            src(k) == Source(pc, edges[k])
        IN  /\ Len(o) = srcIdx + 1
            /\ \A v \in DOMAIN o : o[v] <= edgeIdx
            /\ \A u, v \in DOMAIN o : u < v => o[u] <= o[v]
            /\ o[1] = 0
            /\ \A k \in 1 .. edgeIdx :
                  /\ src(k) \in 0 .. srcIdx
                  /\ At(o, src(k)) < k
                  /\ src(k) < srcIdx => k <= At(o, src(k) + 1)
            /\ \A k \in edgeIdx + 1 .. Len(edges) : src(k) >= srcIdx

\* What the accessors show of a node, in one direction.
ShowsOwnEdges(dir, v) ==
    LET own == {e \in FinalEdges : Target(Opp(dir), e) = v}
    IN  IF Covers(dir, v)
        THEN /\ ToSet(OffsetIndices(dir, v)) = own
             /\ Len(OffsetIndices(dir, v)) = Cardinality(own)
        ELSE own = {}

ShowsDescending(dir, v) ==
    Covers(dir, v) =>
        LET leaving == OffsetIndices(dir, v)
        IN  \A i \in 2 .. Len(leaving) :
                At(level, Target(dir, leaving[i - 1])) >= At(level, Target(dir, leaving[i]))

NodesShow(dir) == \A v \in Nodes : ShowsOwnEdges(dir, v) /\ ShowsDescending(dir, v)

\* What the accessors show of an edge.
ShowsEdge(e, f) ==
    /\ StandsFor(e, f)
    /\ Len(ScEdges(e)) = Len(f.halves)
    /\ \A h \in DOMAIN f.halves : /\ ScEdges(e)[h] \in FinalEdges
                                  /\ StandsFor(ScEdges(e)[h], At(file.edges, f.halves[h]))

EdgesShow ==
    /\ \A e \in FinalEdges : \E i \in DOMAIN file.edges : ShowsEdge(e, file.edges[i])
    /\ \A i \in DOMAIN file.edges : \E e \in FinalEdges : StandsFor(e, file.edges[i])
    /\ \A i \in 2 .. Len(idToIdx) : idToIdx[i - 1][1] < idToIdx[i][1]
    /\ \A i \in DOMAIN file.edges : file.edges[i].id # None =>
          \E k \in DOMAIN idToIdx : /\ idToIdx[k][1] = file.edges[i].id
                                    /\ StandsFor(idToIdx[k][2], file.edges[i])

GraphInv ==
    /\ pc \in {"BWD", "done"} => EdgesShow /\ NodesShow("FWD")
    /\ pc = "done" => NodesShow("BWD")

BuildingInv ==
    /\ TypeOK
    /\ Fresh
    /\ ReadInv
    /\ NodesInv
    /\ LocatedInv
    /\ DedupeInv
    /\ KeptInv
    /\ ForwardInv
    /\ BackwardInv
    /\ OffsetInv
    /\ GraphInv
    /\ FailsForAReason

-----------------------------------------------------------------------------
(* Reading the file *)

\* The blocks after an insertion are not yet concerned.
LaterInv ==
    /\ DedupeInv /\ KeptInv /\ ForwardInv /\ BackwardInv /\ OffsetInv /\ GraphInv
    /\ FailsForAReason

LEMMA LaterBlocks ==
    ASSUME pc \in {"edges", "nodes", "sort"}
    PROVE  LaterInv
  BY DEF LaterInv, DedupeInv, KeptInv, ForwardInv, BackwardInv, OffsetInv, GraphInv,
         FailsForAReason, Dirs

LEMMA FileFacts ==
    ASSUME TypeOK
    PROVE  /\ file.edges \in Seq([id : Nat \cup {None}, src : Int, dst : Int, metric : Int,
                                  halves : Halves])
           /\ file.nodes \in Seq([id : Int, level : Nat \cup {None}])
           /\ Len(file.edges) \in Nat /\ DOMAIN file.edges = 1 .. Len(file.edges)
           /\ Indices(file.edges) = 0 .. Len(file.edges) - 1
  BY DEF TypeOK, IsFile, Indices

LEMMA InitBuilding == Init => BuildingInv
  <1> SUFFICES ASSUME Init PROVE BuildingInv
    OBVIOUS
  <1> USE DEF Init
  <1>1. IsFile(file)
    BY BuildingAssumption
  <1>2. TypeOK
    <2>1. Len(file.edges) \in Nat /\ Len(file.nodes) \in Nat
      BY <1>1 DEF IsFile
    <2>2. Nodes = {} /\ Indices(metrics) = {}
      BY DEF Nodes, Indices
    <2>3. /\ offsets \in [Dirs -> Seq(0 .. Len(edges))]
          /\ toFwd \in [Dirs -> Seq(FinalEdges)]
          /\ dsts \in [Dirs -> Seq(Nodes)]
      BY DEF Dirs
    <2> QED
      BY <1>1, <2>1, <2>2, <2>3 DEF TypeOK
  <1>3. Fresh
    BY DEF Fresh
  <1>4. ReadInv /\ NodesInv /\ LocatedInv
    <2>1. Len(file.edges) \in Nat
      BY <1>1 DEF IsFile
    <2> QED
      BY <2>1 DEF ReadInv, NodesInv, LocatedInv
  <1>5. LaterInv
    BY LaterBlocks
  <1> QED
    BY <1>2, <1>3, <1>4, <1>5 DEF BuildingInv, LaterInv

\* An insertion keeps all node-ids and adds those of the edge that are missing.
LEMMA WithNodesFacts ==
    ASSUME NEW ids \in Seq(Int), NEW e, e.src \in Int, e.dst \in Int
    PROVE  /\ WithNodes(ids, e) \in Seq(Int)
           /\ ToSet(ids) \subseteq ToSet(WithNodes(ids, e))
           /\ e.src \in ToSet(WithNodes(ids, e))
           /\ e.dst \in ToSet(WithNodes(ids, e))
  <1> DEFINE n == Len(ids)
             new(id) == IF n < 2 \/ id \notin {ids[n - 1], ids[n]} THEN <<id>> ELSE <<>>
             all == (ids \o new(e.src)) \o new(e.dst)
  <1>1. WithNodes(ids, e) = all
    BY DEF WithNodes
  <1>2. ASSUME NEW s \in Seq(Int), NEW t \in Seq(Int)
        PROVE  /\ s \o t \in Seq(Int)
               /\ ToSet(s) \subseteq ToSet(s \o t)
               /\ ToSet(t) \subseteq ToSet(s \o t)
    <2>1. /\ s \o t \in Seq(Int)
          /\ DOMAIN (s \o t) = 1 .. Len(s) + Len(t)
          /\ DOMAIN s = 1 .. Len(s) /\ DOMAIN t = 1 .. Len(t)
          /\ Len(s) \in Nat /\ Len(t) \in Nat
      OBVIOUS
    <2>2. \A i \in DOMAIN s : i \in DOMAIN (s \o t) /\ (s \o t)[i] = s[i]
      BY <2>1
    <2>3. \A i \in DOMAIN t : i + Len(s) \in DOMAIN (s \o t) /\ (s \o t)[i + Len(s)] = t[i]
      BY <2>1
    <2> QED
      BY <2>1, <2>2, <2>3 DEF ToSet
  <1>3. ASSUME NEW id \in Int
        PROVE  new(id) \in Seq(Int) /\ (id \in ToSet(ids) \/ id \in ToSet(new(id)))
    <2>1. CASE n < 2 \/ id \notin {ids[n - 1], ids[n]}
      <3>1. new(id) = <<id>>
        BY <2>1
      <3>2. id \in ToSet(<<id>>)
        BY DEF ToSet
      <3> QED
        BY <3>1, <3>2
    <2>2. CASE ~(n < 2 \/ id \notin {ids[n - 1], ids[n]})
      <3>1. n - 1 \in DOMAIN ids /\ n \in DOMAIN ids /\ (id = ids[n - 1] \/ id = ids[n])
        BY <2>2
      <3>2. new(id) = <<>>
        BY <2>2
      <3> QED
        BY <3>1, <3>2 DEF ToSet
    <2> QED
      BY <2>1, <2>2
  <1> HIDE DEF new
  <1>4. new(e.src) \in Seq(Int) /\ new(e.dst) \in Seq(Int)
    BY <1>3
  <1>5. /\ ids \o new(e.src) \in Seq(Int)
        /\ ToSet(ids) \subseteq ToSet(ids \o new(e.src))
        /\ ToSet(new(e.src)) \subseteq ToSet(ids \o new(e.src))
    BY <1>2, <1>4
  <1>6. /\ all \in Seq(Int)
        /\ ToSet(ids \o new(e.src)) \subseteq ToSet(all)
        /\ ToSet(new(e.dst)) \subseteq ToSet(all)
    BY <1>2, <1>4, <1>5
  <1> HIDE DEF all
  <1> QED
    BY <1>1, <1>3, <1>5, <1>6

LEMMA InsertEdgeBuilding ==
    ASSUME BuildingInv, InsertEdge
    PROVE  BuildingInv'
  <1> DEFINE n == Len(edges)
             f == file.edges[n + 1]
             e == [idx |-> n, id |-> f.id, src |-> f.src, dst |-> f.dst, metric |-> f.metric,
                   halves |-> f.halves]
  <1>1. /\ pc = "edges" /\ pc' = "edges"
        /\ nodeIds' = WithNodes(nodeIds, f)
        /\ edges' = Append(edges, e)
        /\ n < Len(file.edges)
        /\ UNCHANGED <<file, read, located, level, w, r, removed, metrics, scOffsets, scEdges,
                       srcIdx, edgeIdx, offsets, toFwd, dsts, idToIdx>>
    BY DEF InsertEdge, At, dedupeVars, storeVars, offsetVars
  <1>2. TypeOK /\ Fresh /\ ReadInv
    BY DEF BuildingInv
  <1>3. /\ n \in Nat /\ n + 1 \in DOMAIN file.edges
        /\ f \in [id : Nat \cup {None}, src : Int, dst : Int, metric : Int, halves : Halves]
    <2>1. n \in Nat
      BY <1>2 DEF TypeOK
    <2>2. n + 1 \in 1 .. Len(file.edges)
      BY <1>1, <1>2, <2>1, FileFacts
    <2>3. /\ file.edges \in Seq([id : Nat \cup {None}, src : Int, dst : Int, metric : Int,
                                halves : Halves])
          /\ DOMAIN file.edges = 1 .. Len(file.edges)
      BY <1>2, FileFacts
    <2>4. f \in [id : Nat \cup {None}, src : Int, dst : Int, metric : Int, halves : Halves]
      BY <2>2, <2>3, ElementOfSeq
    <2> QED
      BY <2>1, <2>2, <2>3, <2>4
  <1>4. e \in ProtoEdges
    BY <1>3 DEF ProtoEdges
  <1> HIDE DEF e
  <1>5. /\ edges' \in Seq(ProtoEdges) /\ Len(edges') = n + 1
        /\ \A k \in 1 .. n : edges'[k] = edges[k]
        /\ edges'[n + 1] = e
        /\ DOMAIN edges' = 1 .. n + 1 /\ DOMAIN edges = 1 .. n
    BY <1>1, <1>2, <1>3, <1>4 DEF TypeOK
  <1>6. /\ nodeIds' \in Seq(Int)
        /\ ToSet(nodeIds) \subseteq ToSet(nodeIds')
        /\ f.src \in ToSet(nodeIds') /\ f.dst \in ToSet(nodeIds')
    BY <1>1, <1>2, <1>3, WithNodesFacts DEF TypeOK
  <1>7. /\ w = 1 /\ r = 1 /\ removed = <<>> /\ read = 0 /\ located = {} /\ level = <<>>
        /\ metrics = <<>> /\ scOffsets = <<>> /\ scEdges = <<>>
        /\ srcIdx = 0 /\ edgeIdx = 0
        /\ offsets = [dir \in Dirs |-> <<0>>]
        /\ toFwd = [dir \in Dirs |-> <<>>]
        /\ dsts = [dir \in Dirs |-> <<>>]
        /\ idToIdx = <<>>
    BY <1>1, <1>2 DEF Fresh
  <1>8. TypeOK'
    <2>1. Len(nodeIds') \in Nat /\ Len(file.edges) \in Nat /\ Len(file.nodes) \in Nat
      BY <1>2, <1>6, FileFacts
    <2>2. /\ offsets' \in [Dirs -> Seq(0 .. Len(edges'))]
          /\ toFwd' \in [Dirs -> Seq(FinalEdges')]
          /\ dsts' \in [Dirs -> Seq(Nodes')]
      BY <1>1, <1>3, <1>5, <1>7 DEF Dirs
    <2>3. file' = file /\ IsFile(file)'
      BY <1>1, <1>2 DEF TypeOK
    <2>4. w' \in 1 .. Len(edges') + 1 /\ r' \in w' .. Len(file'.edges) + 1
      BY <1>1, <1>3, <1>5, <1>7, <2>1
    <2> QED
      BY <1>1, <1>5, <1>6, <1>7, <2>1, <2>2, <2>3, <2>4 DEF TypeOK
  <1>9. Fresh'
    BY <1>1, <1>7 DEF Fresh
  <1>10. ReadInv'
    <2>1. ASSUME NEW k \in DOMAIN edges'
          PROVE  /\ edges'[k] = Inserted(k)'
                 /\ edges'[k].src \in ToSet(nodeIds)'
                 /\ edges'[k].dst \in ToSet(nodeIds)'
      <3>1. CASE k \in 1 .. n
        BY <3>1, <1>1, <1>2, <1>5, <1>6 DEF ReadInv, Inserted
      <3>2. CASE k = n + 1
        <4>1. edges'[k] = e /\ e.src = f.src /\ e.dst = f.dst
          BY <3>2, <1>5 DEF e
        <4>2. e = Inserted(k)'
          BY <3>2, <1>1, <1>3 DEF Inserted, e
        <4> QED
          BY <4>1, <4>2, <1>6
      <3> QED
        BY <3>1, <3>2, <1>3, <1>5
    <2>2. Len(edges') <= Len(file'.edges)
      BY <1>1, <1>2, <1>3, <1>5, FileFacts
    <2> QED
      BY <1>1, <2>1, <2>2 DEF ReadInv
  <1>11. NodesInv' /\ LocatedInv'
    BY <1>1 DEF NodesInv, LocatedInv
  <1>12. LaterInv'
    BY <1>1, LaterBlocks DEF LaterInv, DedupeInv, KeptInv, ForwardInv, BackwardInv, OffsetInv,
                             GraphInv, FailsForAReason, Dirs
  <1> QED
    BY <1>8, <1>9, <1>10, <1>11, <1>12 DEF BuildingInv, LaterInv

LEMMA EndEdgesBuilding ==
    ASSUME BuildingInv, EndEdges
    PROVE  BuildingInv'
  <1>1. /\ pc = "edges" /\ pc' = "nodes"
        /\ nodeIds' = SortedSet(ToSet(nodeIds))
        /\ level' = [i \in 1 .. Len(nodeIds') |-> 0]
        /\ Len(edges) = Len(file.edges)
        /\ UNCHANGED <<file, read, located, edges, w, r, removed, metrics, scOffsets, scEdges,
                       srcIdx, edgeIdx, offsets, toFwd, dsts, idToIdx>>
    BY DEF EndEdges, dedupeVars, storeVars, offsetVars
  <1>2. TypeOK /\ Fresh /\ ReadInv
    BY DEF BuildingInv
  <1>3. nodeIds \in Seq(Int) /\ edges \in Seq(ProtoEdges)
    BY <1>2 DEF TypeOK
  <1>4. /\ nodeIds' \in Seq(ToSet(nodeIds))
        /\ \A x \in ToSet(nodeIds) : \E k \in DOMAIN nodeIds' : nodeIds'[k] = x
        /\ \A k, l \in DOMAIN nodeIds' : k < l => nodeIds'[k] < nodeIds'[l]
    <2>1. ToSet(nodeIds) \subseteq Int
      BY <1>3 DEF ToSet
    <2>2. IsFiniteSet(ToSet(nodeIds))
      <3>1. IsFiniteSet(DOMAIN nodeIds)
        BY <1>3, FS_Interval
      <3>2. nodeIds \in Surjection(DOMAIN nodeIds, ToSet(nodeIds))
        BY <1>3 DEF Surjection, ToSet
      <3> QED
        BY <3>1, <3>2, FS_Surjection
    <2> QED
      BY <1>1, <2>1, <2>2, SortedSetFacts
  <1>5. /\ nodeIds' \in Seq(Int) /\ Len(nodeIds') \in Nat
        /\ ToSet(nodeIds) \subseteq ToSet(nodeIds')
    <2>1. ToSet(nodeIds) \subseteq Int
      BY <1>3 DEF ToSet
    <2>2. ToSet(nodeIds) \subseteq ToSet(nodeIds')
      BY <1>4 DEF ToSet
    <2>3. nodeIds' \in Seq(Int)
      BY <1>4, <2>1, SeqMonotonic
    <2> QED
      BY <2>2, <2>3
  <1>6. level' \in Seq(Nat) /\ Len(level') = Len(nodeIds')
    BY <1>1, <1>5
  <1>7. /\ w = 1 /\ r = 1 /\ removed = <<>> /\ read = 0 /\ located = {} /\ level = <<>>
        /\ metrics = <<>> /\ scOffsets = <<>> /\ scEdges = <<>>
        /\ srcIdx = 0 /\ edgeIdx = 0
        /\ offsets = [dir \in Dirs |-> <<0>>]
        /\ toFwd = [dir \in Dirs |-> <<>>]
        /\ dsts = [dir \in Dirs |-> <<>>]
        /\ idToIdx = <<>>
    BY <1>1, <1>2 DEF Fresh
  <1>8. TypeOK'
    <2>1. dsts' \in [Dirs -> Seq(Nodes')] /\ located' \subseteq Nodes'
      BY <1>1, <1>7
    <2>2. /\ srcIdx' \in 0 .. Len(nodeIds') /\ read' \in 0 .. Len(file'.nodes)
          /\ edgeIdx' \in 0 .. Len(edges')
          /\ offsets' \in [Dirs -> Seq(0 .. Len(edges'))]
          /\ toFwd' \in [Dirs -> Seq(FinalEdges')]
      BY <1>1, <1>2, <1>5, <1>7 DEF TypeOK, FinalEdges, Indices
    <2> QED
      BY <1>1, <1>2, <1>5, <1>6, <1>7, <2>1, <2>2 DEF TypeOK, FinalEdges, Indices
  <1>9. Fresh'
    BY <1>1, <1>7 DEF Fresh
  <1>10. ReadInv'
    BY <1>1, <1>2, <1>5 DEF ReadInv, Inserted
  <1>11. NodesInv'
    BY <1>4, <1>6 DEF NodesInv
  <1>12. LocatedInv'
    BY <1>1, <1>7 DEF LocatedInv
  <1>13. LaterInv'
    BY <1>1, LaterBlocks DEF LaterInv, DedupeInv, KeptInv, ForwardInv, BackwardInv, OffsetInv,
                             GraphInv, FailsForAReason, Dirs
  <1> QED
    BY <1>8, <1>9, <1>10, <1>11, <1>12, <1>13 DEF BuildingInv, LaterInv

\* A node-id has exactly one index.
LEMMA IdxFacts ==
    ASSUME nodeIds \in Seq(Int), \A k, l \in DOMAIN nodeIds : k < l => nodeIds[k] < nodeIds[l]
    PROVE  /\ Nodes = 0 .. Len(nodeIds) - 1
           /\ \A id : IsNode(id) => IdxOf(id) \in Nodes /\ At(nodeIds, IdxOf(id)) = id
           /\ \A id : IsNode(id) <=> id \in ToSet(nodeIds)
           /\ \A i \in Nodes : IsNode(At(nodeIds, i)) /\ IdxOf(At(nodeIds, i)) = i
           /\ \A i, j \in Nodes : At(nodeIds, i) = At(nodeIds, j) => i = j
  <1>1. Nodes = 0 .. Len(nodeIds) - 1 /\ Len(nodeIds) \in Nat /\ DOMAIN nodeIds = 1 .. Len(nodeIds)
    BY DEF Nodes, Indices
  <1>2. \A id : IsNode(id) => IdxOf(id) \in Nodes /\ At(nodeIds, IdxOf(id)) = id
    BY DEF IsNode, IdxOf, Nodes
  <1>3. \A id : IsNode(id) <=> id \in ToSet(nodeIds)
    <2>1. ASSUME NEW id, IsNode(id) PROVE id \in ToSet(nodeIds)
      <3>1. PICK i \in Nodes : nodeIds[i + 1] = id
        BY <2>1 DEF IsNode, Nodes, At
      <3>2. i + 1 \in DOMAIN nodeIds
        BY <1>1
      <3> QED
        BY <3>1, <3>2 DEF ToSet
    <2>2. ASSUME NEW id, id \in ToSet(nodeIds) PROVE IsNode(id)
      <3>1. PICK k \in DOMAIN nodeIds : nodeIds[k] = id
        BY <2>2 DEF ToSet
      <3>2. k - 1 \in Nodes /\ k - 1 + 1 = k
        BY <1>1
      <3> QED
        BY <3>1, <3>2 DEF IsNode, Nodes, At
    <2> QED
      BY <2>1, <2>2
  <1>4. \A i, j \in Nodes : At(nodeIds, i) = At(nodeIds, j) => i = j
    <2> SUFFICES ASSUME NEW i \in Nodes, NEW j \in Nodes, i < j
                 PROVE  nodeIds[i + 1] # nodeIds[j + 1]
      BY <1>1 DEF At
    <2>1. i + 1 \in DOMAIN nodeIds /\ j + 1 \in DOMAIN nodeIds /\ i + 1 < j + 1
      BY <1>1
    <2>2. nodeIds[i + 1] < nodeIds[j + 1] /\ nodeIds[i + 1] \in Int
      BY <2>1
    <2> QED
      BY <2>2
  <1>5. \A i \in Nodes : IsNode(At(nodeIds, i)) /\ IdxOf(At(nodeIds, i)) = i
    <2>1. \A i \in Nodes : IsNode(At(nodeIds, i))
      BY DEF IsNode, Nodes
    <2> QED
      BY <1>2, <1>4, <2>1
  <1> QED
    BY <1>1, <1>2, <1>3, <1>4, <1>5

LEMMA InsertNodeBuilding ==
    ASSUME BuildingInv, InsertNode
    PROVE  BuildingInv'
  <1> DEFINE node == file.nodes[read + 1]
  <1>1. /\ pc = "nodes" /\ pc' = "nodes"
        /\ read < Len(file.nodes) /\ read' = read + 1
        /\ located' = IF IsNode(node.id) THEN located \cup {IdxOf(node.id)} ELSE located
        /\ level' = IF IsNode(node.id) /\ node.level # None
                      THEN [level EXCEPT ![IdxOf(node.id) + 1] = node.level]
                      ELSE level
        /\ UNCHANGED <<file, nodeIds, edges, w, r, removed, metrics, scOffsets, scEdges,
                       srcIdx, edgeIdx, offsets, toFwd, dsts, idToIdx>>
    BY DEF InsertNode, At, dedupeVars, storeVars, offsetVars
  <1>2. TypeOK /\ Fresh /\ ReadInv /\ NodesInv /\ LocatedInv
    BY DEF BuildingInv
  <1>3. read \in Nat /\ Len(file.nodes) \in Nat /\ read + 1 \in 1 .. Len(file.nodes)
    <2>1. file.nodes \in Seq([id : Int, level : Nat \cup {None}])
      BY <1>2, FileFacts
    <2>2. read \in 0 .. Len(file.nodes)
      BY <1>2 DEF TypeOK
    <2> QED
      BY <1>1, <2>1, <2>2
  <1>4. node \in [id : Int, level : Nat \cup {None}]
    <2>1. file.nodes \in Seq([id : Int, level : Nat \cup {None}])
      BY <1>2, FileFacts
    <2> QED
      BY <1>3, <2>1, ElementOfSeq
  <1> HIDE DEF node
  <1>5. /\ Nodes = 0 .. Len(nodeIds) - 1
        /\ \A id : IsNode(id) => IdxOf(id) \in Nodes /\ At(nodeIds, IdxOf(id)) = id
        /\ \A i \in Nodes : IsNode(At(nodeIds, i)) /\ IdxOf(At(nodeIds, i)) = i
        /\ nodeIds \in Seq(Int)
    BY <1>1, <1>2, IdxFacts DEF NodesInv, TypeOK
  <1>6. located' \subseteq Nodes
    BY <1>1, <1>2, <1>5 DEF TypeOK
  <1>7. level' \in Seq(Nat) /\ Len(level') = Len(nodeIds)
    <2>1. level \in Seq(Nat) /\ Len(level) = Len(nodeIds) /\ Len(nodeIds) \in Nat
      BY <1>1, <1>2, <1>5 DEF TypeOK, NodesInv
    <2>2. CASE IsNode(node.id) /\ node.level # None
      <3>1. IdxOf(node.id) + 1 \in 1 .. Len(level) /\ node.level \in Nat
        BY <2>1, <2>2, <1>4, <1>5
      <3> QED
        BY <2>1, <2>2, <3>1, <1>1
    <2>3. CASE ~(IsNode(node.id) /\ node.level # None)
      BY <2>1, <2>3, <1>1
    <2> QED
      BY <2>2, <2>3
  <1>8. TypeOK'
    <2>1. read' \in 0 .. Len(file'.nodes)
      BY <1>1, <1>3
    <2> QED
      BY <1>1, <1>2, <1>6, <1>7, <2>1 DEF TypeOK, FinalEdges, Nodes
  <1>9. Fresh'
    BY <1>1, <1>2 DEF Fresh
  <1>10. ReadInv' /\ NodesInv'
    BY <1>1, <1>2, <1>7 DEF ReadInv, NodesInv, Inserted
  <1>11. LocatedInv'
    <2>1. ASSUME NEW i \in Nodes, NEW k \in 1 .. read + 1, file.nodes[k].id = At(nodeIds, i)
          PROVE  i \in located'
      <3>1. CASE k \in 1 .. read
        BY <2>1, <3>1, <1>1, <1>2 DEF LocatedInv
      <3>2. CASE k = read + 1
        <4>1. node.id = At(nodeIds, i)
          BY <2>1, <3>2 DEF node
        <4> QED
          BY <4>1, <1>1, <1>5
      <3> QED
        BY <3>1, <3>2, <1>3
    <2> QED
      BY <1>1, <2>1 DEF LocatedInv, Nodes
  <1>12. LaterInv'
    BY <1>1 DEF LaterInv, DedupeInv, KeptInv, ForwardInv, BackwardInv, OffsetInv,
                GraphInv, FailsForAReason, Dirs
  <1> QED
    BY <1>8, <1>9, <1>10, <1>11, <1>12 DEF BuildingInv, LaterInv

LEMMA CheckCoordinatesBuilding ==
    ASSUME BuildingInv, CheckCoordinates
    PROVE  BuildingInv'
  <1>1. /\ pc = "nodes" /\ pc' = (IF located = Nodes THEN "sort" ELSE "err")
        /\ read = Len(file.nodes)
        /\ UNCHANGED <<file, read, nodeIds, located, level, edges, w, r, removed, metrics,
                       scOffsets, scEdges, srcIdx, edgeIdx, offsets, toFwd, dsts, idToIdx>>
    BY DEF CheckCoordinates, Nodes, builderVars, dedupeVars, storeVars, offsetVars
  <1>2. TypeOK /\ Fresh /\ ReadInv /\ NodesInv /\ LocatedInv
    BY DEF BuildingInv
  <1>3. TypeOK'
    BY <1>1, <1>2 DEF TypeOK, Ended, FinalEdges, Nodes
  <1>4. Fresh' /\ ReadInv' /\ NodesInv' /\ LocatedInv'
    BY <1>1, <1>2 DEF Fresh, ReadInv, NodesInv, LocatedInv, Inserted
  <1>5. DedupeInv' /\ KeptInv' /\ ForwardInv' /\ BackwardInv' /\ OffsetInv' /\ GraphInv'
    BY <1>1 DEF DedupeInv, KeptInv, ForwardInv, BackwardInv, OffsetInv, GraphInv, Dirs
  <1>6. FailsForAReason'
    <2> SUFFICES ASSUME pc' = "err"
                 PROVE  \E i \in Nodes : \A k \in DOMAIN file.nodes :
                            file.nodes[k].id # At(nodeIds, i)
      BY <1>1 DEF FailsForAReason, Nodes
    <2>1. located # Nodes /\ located \subseteq Nodes
      BY <1>1, <1>2 DEF TypeOK
    <2>2. PICK i \in Nodes : i \notin located
      BY <2>1
    <2>3. DOMAIN file.nodes = 1 .. read
      BY <1>1, <1>2, FileFacts
    <2> QED
      BY <1>1, <1>2, <2>2, <2>3 DEF LocatedInv
  <1> QED
    BY <1>2, <1>3, <1>4, <1>5, <1>6 DEF BuildingInv

-----------------------------------------------------------------------------
(* Sorting the edges *)

LEMMA KeysAreQuads ==
    ASSUME nodeIds \in Seq(Int), level \in Seq(Nat), Len(level) = Len(nodeIds),
           NEW e, e.src \in Nodes, e.dst \in Nodes, e.id \in Int
    PROVE  ForwardKey(e) \in QuadKeys /\ BackwardKey(e) \in QuadKeys
  <1>1. e.src + 1 \in DOMAIN level /\ e.dst + 1 \in DOMAIN level
    BY DEF Nodes, Indices
  <1>2. -level[e.src + 1] \in Int /\ -level[e.dst + 1] \in Int /\ e.src \in Int /\ e.dst \in Int
    BY <1>1 DEF Nodes, Indices
  <1> QED
    BY <1>2 DEF ForwardKey, BackwardKey, QuadKeys, At

\* KeyLess is strict on keys of edges.
LEMMA QuadNotBoth ==
    ASSUME NEW a \in QuadKeys, NEW b \in QuadKeys, KeyLess(a, b) \/ a = b
    PROVE  ~KeyLess(b, a)
  BY QuadLessStrict DEF IsLessStrict

\* e is the k-th edge of the file, with node-indices.
ComesFrom(e, k) ==
    /\ e \in ProtoEdges
    /\ e.idx = k - 1
    /\ e.src \in Nodes
    /\ e.dst \in Nodes
    /\ IsOf(e, file.edges[k])
    /\ e.halves = file.edges[k].halves

LEMMA RenumberedFacts ==
    ASSUME TypeOK, ReadInv, NodesInv, pc = "sort"
    PROVE  /\ Len(edges) \in Nat
           /\ DOMAIN Renumbered = 1 .. Len(edges)
           /\ \A k \in 1 .. Len(edges) : ComesFrom(Renumbered[k], k)
  <1>1. edges \in Seq(ProtoEdges) /\ DOMAIN edges = 1 .. Len(edges) /\ Len(edges) \in Nat
    BY DEF TypeOK
  <1>2. \A id : IsNode(id) => IdxOf(id) \in Nodes /\ At(nodeIds, IdxOf(id)) = id
    BY IdxFacts DEF NodesInv, TypeOK
  <1>3. \A id : IsNode(id) <=> id \in ToSet(nodeIds)
    BY IdxFacts DEF NodesInv, TypeOK
  <1>4. Nodes \subseteq Int
    BY DEF Nodes, Indices, TypeOK
  <1>5. DOMAIN Renumbered = 1 .. Len(edges)
    BY <1>1 DEF Renumbered
  <1>6. ASSUME NEW k \in 1 .. Len(edges) PROVE ComesFrom(Renumbered[k], k)
    <2> DEFINE e == edges[k]
               n == Renumbered[k]
    <2>1. e \in ProtoEdges
      BY <1>1, ElementOfSeq
    <2>2. e = Inserted(k) /\ e.src \in ToSet(nodeIds) /\ e.dst \in ToSet(nodeIds)
      BY <1>1 DEF ReadInv
    <2>3. n = [e EXCEPT !.src = IdxOf(e.src), !.dst = IdxOf(e.dst)]
      BY <1>1 DEF Renumbered
    <2>4. IdxOf(e.src) \in Nodes /\ IdxOf(e.dst) \in Nodes
      BY <1>2, <1>3, <2>2
    <2> HIDE DEF n
    <2>5. n \in ProtoEdges
      BY <2>1, <2>3, <2>4, <1>4 DEF ProtoEdges
    <2>6. /\ n.idx = e.idx /\ n.id = e.id /\ n.metric = e.metric /\ n.halves = e.halves
          /\ n.src = IdxOf(e.src) /\ n.dst = IdxOf(e.dst)
      BY <2>1, <2>3 DEF ProtoEdges
    <2>7. /\ e.idx = k - 1 /\ e.id = file.edges[k].id /\ e.src = file.edges[k].src
          /\ e.dst = file.edges[k].dst /\ e.metric = file.edges[k].metric
          /\ e.halves = file.edges[k].halves
      BY <2>2 DEF Inserted
    <2>8. At(nodeIds, n.src) = e.src /\ At(nodeIds, n.dst) = e.dst
      BY <1>2, <1>3, <2>2, <2>6
    <2> HIDE DEF e
    <2> QED
      BY <2>4, <2>5, <2>6, <2>7, <2>8 DEF ComesFrom, IsOf, HasEnds, n
  <1> QED
    BY <1>1, <1>5, <1>6

LEMMA ForwardSortedFacts ==
    ASSUME TypeOK, ReadInv, NodesInv, pc = "sort"
    PROVE  /\ DOMAIN ForwardSorted = 1 .. Len(edges)
           /\ \A k, l \in 1 .. Len(edges) :
                  k < l => ~KeyLess(ForwardKey(ForwardSorted[l]), ForwardKey(ForwardSorted[k]))
           /\ \E q : /\ IsPermutation(q, Len(edges))
                     /\ \A k \in 1 .. Len(edges) : ComesFrom(ForwardSorted[k], q[k])
  <1> DEFINE n == Len(edges)
             keys == [i \in DOMAIN edges |-> ForwardKey(Renumbered[i])]
             sorted == SortedBy(Renumbered, keys)
  <1>1. /\ n \in Nat /\ DOMAIN edges = 1 .. n
        /\ DOMAIN Renumbered = 1 .. n
        /\ \A k \in 1 .. n : ComesFrom(Renumbered[k], k)
    BY RenumberedFacts DEF TypeOK
  <1>2. \A i \in 1 .. n : keys[i] = ForwardKey(Renumbered[i]) /\ keys[i] \in QuadKeys
    <2> SUFFICES ASSUME NEW i \in 1 .. n PROVE ForwardKey(Renumbered[i]) \in QuadKeys
      BY <1>1
    <2>1. ComesFrom(Renumbered[i], i)
      BY <1>1
    <2>2. Renumbered[i].id \in Int
      BY <2>1 DEF ComesFrom, ProtoEdges, None
    <2> QED
      BY <2>1, <2>2, KeysAreQuads DEF ComesFrom, TypeOK, NodesInv
  <1>3. sorted = ForwardSorted
    BY DEF ForwardSorted
  <1> HIDE DEF n, keys, sorted
  <1>4. /\ DOMAIN sorted = 1 .. n
        /\ \E p : Sorts(p, sorted, Renumbered, keys, n)
    BY <1>1, <1>2, QuadLessStrict, SortedByFacts DEF sorted
  <1>5. PICK q : /\ IsPermutation(q, n)
                 /\ \A k \in 1 .. n : sorted[k] = Renumbered[q[k]]
                 /\ \A k, l \in 1 .. n : k < l =>
                        \/ KeyLess(keys[q[k]], keys[q[l]])
                        \/ keys[q[k]] = keys[q[l]] /\ q[k] < q[l]
    BY <1>4 DEF Sorts
  <1>6. \A k \in 1 .. n : q[k] \in 1 .. n
    BY <1>5 DEF IsPermutation
  <1>7. \A k \in 1 .. n : ComesFrom(sorted[k], q[k])
    BY <1>1, <1>5, <1>6
  <1>8. \A k, l \in 1 .. n : k < l => ~KeyLess(ForwardKey(sorted[l]), ForwardKey(sorted[k]))
    <2> SUFFICES ASSUME NEW k \in 1 .. n, NEW l \in 1 .. n, k < l
                 PROVE  ~KeyLess(keys[q[l]], keys[q[k]])
      BY <1>2, <1>5, <1>6
    <2>1. keys[q[k]] \in QuadKeys /\ keys[q[l]] \in QuadKeys
      BY <1>2, <1>6
    <2>2. KeyLess(keys[q[k]], keys[q[l]]) \/ keys[q[k]] = keys[q[l]]
      BY <1>5
    <2> QED
      BY <2>1, <2>2, QuadNotBoth
  <1> QED
    BY <1>3, <1>4, <1>5, <1>7, <1>8 DEF n

\* Mapping the halves of an edge.
LEMMA HalvesFacts ==
    ASSUME NEW halves \in Halves, NEW mapped, mapped = [h \in DOMAIN halves |-> mapped[h]],
           \A h \in DOMAIN halves : mapped[h] \in Nat
    PROVE  /\ mapped \in Halves
           /\ Len(mapped) = Len(halves)
           /\ \A h \in DOMAIN halves : halves[h] \in Nat
  <1>1. CASE halves = <<>>
    <2>1. mapped = <<>>
      BY <1>1
    <2> QED
      BY <1>1, <2>1 DEF Halves
  <1>2. CASE halves \in Nat \X Nat
    <2>1. DOMAIN halves = 1 .. 2 /\ halves[1] \in Nat /\ halves[2] \in Nat /\ Len(halves) = 2
      BY <1>2
    <2>2. mapped = <<mapped[1], mapped[2]>>
      BY <2>1
    <2>3. mapped[1] \in Nat /\ mapped[2] \in Nat
      BY <2>1
    <2>4. <<mapped[1], mapped[2]>> \in Nat \X Nat /\ Len(<<mapped[1], mapped[2]>>) = 2
      BY <2>3
    <2>5. \A h \in DOMAIN halves : halves[h] \in Nat
      BY <2>1
    <2> QED
      BY <2>1, <2>2, <2>4, <2>5 DEF Halves
  <1> QED
    BY <1>1, <1>2 DEF Halves

\* Remapping leaves all but the halves as they are.
LEMMA RemappedFacts ==
    ASSUME TypeOK, NEW s, NEW n \in Nat, DOMAIN s = 1 .. n, n = Len(file.edges),
           NEW q, IsPermutation(q, n), \A k \in 1 .. n : ComesFrom(s[k], q[k]),
           \A k \in 1 .. n : ToSet(file.edges[k].halves) \subseteq Indices(file.edges),
           NEW p, p = [h \in Indices(file.edges) |-> q[h + 1] - 1]
    PROVE  /\ Remapped(s) \in Seq(ProtoEdges)
           /\ Len(Remapped(s)) = n
           /\ \A k \in 1 .. n :
                 LET e == Remapped(s)[k]
                 IN  /\ e.idx = s[k].idx /\ e.id = s[k].id /\ e.src = s[k].src
                     /\ e.dst = s[k].dst /\ e.metric = s[k].metric
                     /\ HalvesFollow(e, file.edges[q[k]], p)
  <1> DEFINE newIdx(old) == CHOOSE i \in Indices(s) : At(s, i).idx = old
             new(k) == [s[k] EXCEPT !.halves = [h \in DOMAIN s[k].halves |-> newIdx(s[k].halves[h])]]
  <1>1. Len(s) = n /\ Indices(s) = 0 .. n - 1 /\ Indices(file.edges) = 0 .. n - 1
    BY DEF Indices
  <1>2. \A k \in 1 .. n : q[k] \in 1 .. n /\ s[k].idx = q[k] - 1
    BY DEF IsPermutation, ComesFrom
  <1>3. ASSUME NEW old \in 0 .. n - 1
        PROVE  newIdx(old) \in 0 .. n - 1 /\ p[newIdx(old)] = old
    <2>0. old + 1 \in 1 .. n
      OBVIOUS
    <2>1. PICK k \in 1 .. n : q[k] = old + 1
      BY <2>0 DEF IsPermutation
    <2>2. k - 1 \in Indices(s) /\ At(s, k - 1).idx = old
      <3>1. k - 1 \in Indices(s) /\ k - 1 + 1 = k
        BY <1>1
      <3>2. s[k].idx = old
        BY <1>2, <2>1
      <3> QED
        BY <3>1, <3>2 DEF At
    <2>3. newIdx(old) \in Indices(s) /\ At(s, newIdx(old)).idx = old
      BY <2>2
    <2> HIDE DEF newIdx
    <2>4. newIdx(old) + 1 \in 1 .. n /\ s[newIdx(old) + 1].idx = old
      BY <1>1, <2>3 DEF At
    <2> QED
      BY <1>1, <1>2, <2>3, <2>4
  <1>4. Remapped(s) = [k \in 1 .. n |-> new(k)]
    BY DEF Remapped
  <1> HIDE DEF newIdx
  <1>5. ASSUME NEW k \in 1 .. n
        PROVE  /\ new(k) \in ProtoEdges
               /\ new(k).idx = s[k].idx /\ new(k).id = s[k].id /\ new(k).src = s[k].src
               /\ new(k).dst = s[k].dst /\ new(k).metric = s[k].metric
               /\ HalvesFollow(new(k), file.edges[q[k]], p)
    <2> DEFINE halves == s[k].halves
               mapped == [h \in DOMAIN halves |-> newIdx(halves[h])]
    <2>1. s[k] \in ProtoEdges /\ halves \in Halves /\ halves = file.edges[q[k]].halves
      BY DEF ComesFrom, ProtoEdges
    <2>2. \A h \in DOMAIN halves : halves[h] \in 0 .. n - 1
      BY <1>1, <1>2, <2>1 DEF ToSet
    <2>3. \A h \in DOMAIN halves : mapped[h] \in 0 .. n - 1 /\ p[mapped[h]] = halves[h]
      BY <1>3, <2>2
    <2>4. mapped = [h \in DOMAIN halves |-> mapped[h]]
      OBVIOUS
    <2>5. new(k) = [s[k] EXCEPT !.halves = mapped]
      OBVIOUS
    <2> HIDE DEF mapped, halves, new
    <2>6. mapped \in Halves /\ Len(mapped) = Len(halves)
      <3>1. \A h \in DOMAIN halves : mapped[h] \in Nat
        BY <2>3
      <3> QED
        BY <2>1, <2>4, <3>1, HalvesFacts
    <2>7. /\ new(k) \in ProtoEdges /\ new(k).halves = mapped
          /\ new(k).idx = s[k].idx /\ new(k).id = s[k].id /\ new(k).src = s[k].src
          /\ new(k).dst = s[k].dst /\ new(k).metric = s[k].metric
      BY <2>1, <2>5, <2>6 DEF ProtoEdges
    <2> QED
      BY <1>1, <2>1, <2>3, <2>6, <2>7 DEF HalvesFollow
  <1> HIDE DEF new
  <1>6. Remapped(s) \in [1 .. n -> ProtoEdges] /\ \A k \in 1 .. n : Remapped(s)[k] = new(k)
    BY <1>4, <1>5
  <1>7. Remapped(s) \in Seq(ProtoEdges) /\ Len(Remapped(s)) = n
    BY <1>6
  <1> QED
    BY <1>5, <1>6, <1>7

LEMMA SortForwardBuilding ==
    ASSUME BuildingInv, SortForward
    PROVE  BuildingInv'
  <1> DEFINE n == Len(edges)
             s == ForwardSorted
             valid == \A i \in DOMAIN edges : ToSet(edges[i].halves) \subseteq Indices(edges)
  <1>1. /\ pc = "sort"
        /\ IF valid THEN edges' = Remapped(s) /\ pc' = "dedupe"
                    ELSE pc' = "panicked" /\ edges' = edges
        /\ UNCHANGED <<file, read, nodeIds, located, level, w, r, removed, metrics, scOffsets,
                       scEdges, srcIdx, edgeIdx, offsets, toFwd, dsts, idToIdx>>
    BY DEF SortForward, builderVars, dedupeVars, storeVars, offsetVars
  <1>2. TypeOK /\ Fresh /\ ReadInv /\ NodesInv
    BY DEF BuildingInv
  <1>3. /\ n \in Nat /\ n = Len(file.edges) /\ DOMAIN edges = 1 .. n
        /\ w = 1 /\ r = 1 /\ removed = <<>>
    BY <1>1, <1>2 DEF TypeOK, ReadInv, Fresh
  <1>4. NodesInv' /\ LocatedInv'
    BY <1>1, <1>2 DEF NodesInv, LocatedInv
  <1>5. KeptInv' /\ ForwardInv' /\ BackwardInv' /\ OffsetInv' /\ GraphInv' /\ FailsForAReason'
    BY <1>1 DEF KeptInv, ForwardInv, BackwardInv, OffsetInv, GraphInv, FailsForAReason, Dirs
  <1>6. Fresh' /\ ReadInv'
    BY <1>1, <1>2 DEF Fresh, ReadInv
  <1>7. CASE ~valid
    <2>1. TypeOK'
      BY <1>1, <1>2, <1>7 DEF TypeOK, Ended, FinalEdges, Nodes
    <2>2. DedupeInv'
      BY <1>1, <1>7 DEF DedupeInv
    <2> QED
      BY <1>4, <1>5, <1>6, <2>1, <2>2, <1>2 DEF BuildingInv
  <1>8. CASE valid
    <2> HIDE DEF n, s
    <2>1. PICK q : /\ IsPermutation(q, n)
                   /\ \A k \in 1 .. n : ComesFrom(s[k], q[k])
      BY <1>1, <1>2, ForwardSortedFacts DEF n, s
    <2>2. /\ DOMAIN s = 1 .. n
          /\ \A k, l \in 1 .. n : k < l => ~KeyLess(ForwardKey(s[l]), ForwardKey(s[k]))
      BY <1>1, <1>2, ForwardSortedFacts DEF n, s
    <2>p. PICK p : p = [h \in Indices(file.edges) |-> q[h + 1] - 1]
      OBVIOUS
    <2>3. \A k \in 1 .. n : ToSet(file.edges[k].halves) \subseteq Indices(file.edges)
      <3>1. \A k \in 1 .. n : edges[k].halves = file.edges[k].halves
        <4> SUFFICES ASSUME NEW k \in 1 .. n PROVE edges[k].halves = file.edges[k].halves
          OBVIOUS
        <4>1. edges[k] = Inserted(k)
          BY <1>1, <1>2, <1>3 DEF ReadInv
        <4> QED
          BY <4>1 DEF Inserted
      <3>2. Indices(edges) = Indices(file.edges)
        BY <1>3 DEF Indices, n
      <3> QED
        BY <1>3, <1>8, <3>1, <3>2
    <2> HIDE DEF valid
    <2>4. /\ edges' \in Seq(ProtoEdges)
          /\ Len(edges') = n /\ DOMAIN edges' = 1 .. n
          /\ \A k \in 1 .. n :
                /\ edges'[k].idx = s[k].idx /\ edges'[k].id = s[k].id /\ edges'[k].src = s[k].src
                /\ edges'[k].dst = s[k].dst /\ edges'[k].metric = s[k].metric
                /\ HalvesFollow(edges'[k], file.edges[q[k]], p)
      <3>1. edges' = Remapped(s)
        BY <1>1, <1>8
      <3>2. /\ Remapped(s) \in Seq(ProtoEdges)
            /\ Len(Remapped(s)) = n
            /\ \A k \in 1 .. n :
                  /\ Remapped(s)[k].idx = s[k].idx /\ Remapped(s)[k].id = s[k].id
                  /\ Remapped(s)[k].src = s[k].src /\ Remapped(s)[k].dst = s[k].dst
                  /\ Remapped(s)[k].metric = s[k].metric
                  /\ HalvesFollow(Remapped(s)[k], file.edges[q[k]], p)
        BY <1>2, <1>3, <2>1, <2>2, <2>3, <2>p, RemappedFacts
      <3> QED
        BY <3>1, <3>2
    <2>5. /\ Indices(file.edges) = 0 .. n - 1 /\ Nodes' = Nodes
          /\ \A k \in 1 .. n : /\ q[k] \in 1 .. n /\ edges'[k].idx = q[k] - 1
                               /\ edges'[k].idx \in 0 .. n - 1
                               /\ At(file.edges, edges'[k].idx) = file.edges[q[k]]
      <3>1. Indices(file.edges) = 0 .. n - 1 /\ Nodes' = Nodes
        BY <1>1, <1>3 DEF Indices, Nodes
      <3>2. \A k \in 1 .. n : q[k] \in 1 .. n /\ s[k].idx = q[k] - 1
        BY <2>1 DEF IsPermutation, ComesFrom
      <3> QED
        BY <1>3, <2>4, <3>1, <3>2 DEF At
    <2>6. \A k \in 1 .. n : /\ edges'[k].src \in Nodes /\ edges'[k].dst \in Nodes
                            /\ IsOf(edges'[k], file.edges[q[k]])
      BY <2>1, <2>4 DEF ComesFrom, IsOf, HasEnds
    <2>7. TypeOK'
      <3>1. /\ file' = file /\ nodeIds' = nodeIds /\ Nodes' = Nodes /\ FinalEdges' = FinalEdges
            /\ pc' = "dedupe"
        BY <1>1, <1>8, <2>5 DEF FinalEdges, valid
      <3>2. /\ w' \in 1 .. Len(edges') + 1 /\ r' \in w' .. Len(file'.edges) + 1
            /\ edgeIdx' \in 0 .. Len(edges') /\ offsets' \in [Dirs -> Seq(0 .. Len(edges'))]
        BY <1>1, <1>2, <1>3, <2>4 DEF TypeOK, n
      <3> QED
        BY <1>1, <1>2, <2>4, <3>1, <3>2 DEF TypeOK
    <2>8. Tracks(p)'
      <3>1. \A h \in 0 .. n - 1 : h + 1 \in 1 .. n /\ p[h] = q[h + 1] - 1
        BY <1>3, <2>5, <2>p
      <3>2. p \in [Indices(file.edges) -> Indices(file.edges)]
        BY <1>3, <2>5, <2>p, <3>1
      <3>3. \A i \in Indices(file.edges) : \E h \in Indices(file.edges) : p[h] = i
        <4> SUFFICES ASSUME NEW i \in 0 .. n - 1 PROVE \E h \in 0 .. n - 1 : p[h] = i
          BY <2>5
        <4>1. i + 1 \in 1 .. n
          BY <1>3
        <4>2. PICK k \in 1 .. n : q[k] = i + 1
          BY <2>1, <4>1 DEF IsPermutation
        <4>3. k - 1 \in 0 .. n - 1 /\ p[k - 1] = i
          BY <1>3, <3>1, <4>2
        <4> QED
          BY <4>3
      <3>4. ASSUME NEW h \in 0 .. n - 1
            PROVE  /\ edges'[h + 1].idx = p[h]
                   /\ h < 1 => /\ h - GoneUpTo(h)' \in 0 .. 1 - 1
                               /\ Represents(edges'[h - GoneUpTo(h)' + 1], file.edges[p[h] + 1])
        <4>1. h + 1 \in 1 .. n /\ edges'[h + 1].idx = p[h]
          BY <2>5, <3>1
        <4>2. CASE h = 0
          <5>1. GoneUpTo(h)' = 0
            <6>1. {k \in DOMAIN removed' : removed'[k] <= h} = {}
              BY <1>1, <1>3
            <6> QED
              BY <6>1, FS_EmptySet DEF GoneUpTo
          <5>2. IsOf(edges'[1], file.edges[q[1]]) /\ p[0] + 1 = q[1] /\ 1 \in 1 .. n
            BY <1>3, <2>5, <2>6, <3>1, <4>1, <4>2
          <5>3. edges'[1].metric - edges'[1].metric \in -Accuracy .. Accuracy
            <6>1. edges'[1] \in ProtoEdges
              BY <2>4, <5>2, ElementOfSeq
            <6>2. edges'[1].metric \in Int
              BY <6>1 DEF ProtoEdges
            <6> QED
              BY <6>2 DEF Accuracy
          <5>4. Represents(edges'[1], file.edges[q[1]])
            BY <5>2, <5>3 DEF IsOf, HasEnds, Represents, Close, At
          <5>5. h - GoneUpTo(h)' = 0
            BY <4>2, <5>1
          <5> QED
            BY <4>1, <4>2, <5>2, <5>4, <5>5
        <4> QED
          BY <4>1, <4>2
      <3>5. \A k \in 1 .. n : HalvesFollow(edges'[k], At(file.edges, edges'[k].idx), p)
        BY <2>4, <2>5
      <3>6. r' = 1 /\ w' = 1 /\ file' = file /\ Indices(file.edges)' = 0 .. n - 1
        BY <1>1, <1>3, <2>5
      <3>7. (\A h \in Indices(file.edges) :
                h >= r => At(edges, h).idx = p[h])'
        BY <1>1, <3>4, <3>6 DEF At
      <3>9. (\A h \in Indices(file.edges) : h < r =>
                /\ h - GoneUpTo(h) \in 0 .. w - 1
                /\ Represents(At(edges, h - GoneUpTo(h)), At(file.edges, p[h])))'
        BY <1>1, <3>4, <3>6 DEF At, Represents, HasEnds
      <3>8. (\A k \in DOMAIN edges :
                HalvesFollow(edges[k], At(file.edges, edges[k].idx), p))'
        BY <2>4, <2>5, <3>5, <3>6 DEF At, HalvesFollow
      <3> QED
        BY <2>5, <3>2, <3>3, <3>6, <3>7, <3>8, <3>9 DEF Tracks
    <2>9. InOrder((DOMAIN edges) \ (w + 1 .. r))'
      <3>1. ASSUME NEW k \in 1 .. n, NEW l \in 1 .. n, k < l
            PROVE  ~KeyLess(ForwardKey(edges[l])', ForwardKey(edges[k])')
        BY <1>1, <2>2, <2>4, <3>1 DEF ForwardKey
      <3> QED
        BY <2>4, <3>1 DEF InOrder
    <2>10. NoNeighbours(w)'
      <3>1. 1 .. w' - 1 = {}
        BY <1>1, <1>3
      <3> QED
        BY <3>1 DEF NoNeighbours
    <2>11. DedupeInv'
      <3>1. r' = 1 /\ w' = 1 /\ removed' = <<>> /\ file' = file /\ nodeIds' = nodeIds
        BY <1>1, <1>3
      <3>2. n = 0 => edges' = <<>>
        BY <2>4
      <3>3. \A k \in DOMAIN edges' : IsOf(edges'[k], At(file.edges, edges'[k].idx))
        BY <2>4, <2>5, <2>6, <3>1 DEF IsOf, HasEnds, At
      <3> QED
        BY <1>3, <2>4, <2>5, <2>6, <2>8, <2>9, <2>10, <3>1, <3>2, <3>3 DEF DedupeInv, IsOf, HasEnds
    <2> QED
      BY <1>4, <1>5, <1>6, <1>2, <2>7, <2>11 DEF BuildingInv
  <1> QED
    BY <1>7, <1>8

-----------------------------------------------------------------------------
(* Removing duplicates *)

LEMMA GoneUpToAll ==
    ASSUME NEW n \in Nat, DOMAIN removed = 1 .. n, NEW h,
           \A k \in DOMAIN removed : removed[k] <= h
    PROVE  GoneUpTo(h) = n
  <1>1. {k \in DOMAIN removed : removed[k] <= h} = 1 .. n
    OBVIOUS
  <1>2. Cardinality(1 .. n) = n
    <2>1. 1 \in Int /\ n \in Int /\ (1 > n <=> n = 0) /\ n - 1 + 1 = n
      OBVIOUS
    <2> QED
      BY <2>1, FS_Interval
  <1> QED
    BY <1>1, <1>2 DEF GoneUpTo

\* What the loop knows of its variables.
LEMMA DedupeTypes ==
    ASSUME TypeOK, DedupeInv, pc = "dedupe"
    PROVE  /\ edges \in Seq(ProtoEdges) /\ Len(edges) \in Nat /\ Len(file.edges) = Len(edges)
           /\ DOMAIN edges = 1 .. Len(edges) /\ DOMAIN file.edges = 1 .. Len(edges)
           /\ Indices(file.edges) = 0 .. Len(edges) - 1
           /\ removed \in Seq(Nat) /\ Len(removed) \in Nat
           /\ DOMAIN removed = 1 .. Len(removed)
           /\ \A k \in 1 .. Len(removed) : removed[k] \in 1 .. r - 1
           /\ w \in Nat /\ w >= 1 /\ r \in Nat /\ r = w + Len(removed)
  <1>1. /\ edges \in Seq(ProtoEdges) /\ Len(edges) \in Nat /\ DOMAIN edges = 1 .. Len(edges)
        /\ removed \in Seq(Nat) /\ Len(removed) \in Nat /\ DOMAIN removed = 1 .. Len(removed)
    BY DEF TypeOK
  <1>2. w \in Nat /\ w >= 1 /\ r \in Nat
    BY <1>1, FileFacts DEF TypeOK
  <1>3. /\ Len(file.edges) = Len(edges) /\ r = w + Len(removed)
        /\ \A k \in DOMAIN removed : removed[k] \in 1 .. r - 1
    BY DEF DedupeInv
  <1>4. DOMAIN file.edges = 1 .. Len(edges) /\ Indices(file.edges) = 0 .. Len(edges) - 1
    BY <1>3, FileFacts
  <1> QED
    BY <1>1, <1>2, <1>3, <1>4

LEMMA RemoveDuplicateBuilding ==
    ASSUME BuildingInv, RemoveDuplicate
    PROVE  BuildingInv'
  <1> DEFINE n == Len(edges)
             m == Len(removed)
  <1>1. /\ pc = "dedupe" /\ pc' = "dedupe"
        /\ r < n
        /\ IsDuplicate(edges[w], edges[r + 1])
        /\ removed' = Append(removed, r)
        /\ r' = r + 1
        /\ UNCHANGED <<file, read, nodeIds, located, level, edges, w, metrics, scOffsets,
                       scEdges, srcIdx, edgeIdx, offsets, toFwd, dsts, idToIdx>>
    <2>1. At(edges, w - 1) = edges[w]
      BY DEF At, BuildingInv, TypeOK
    <2> QED
      BY <2>1 DEF RemoveDuplicate, At, builderVars, storeVars, offsetVars
  <1>2. TypeOK /\ Fresh /\ ReadInv /\ NodesInv /\ DedupeInv
    BY DEF BuildingInv
  <1>3. /\ n \in Nat /\ DOMAIN edges = 1 .. n /\ DOMAIN file.edges = 1 .. n
        /\ Len(file.edges) = n /\ Indices(file.edges) = 0 .. n - 1
        /\ DOMAIN removed = 1 .. m /\ removed \in Seq(Nat)
        /\ \A k \in 1 .. m : removed[k] \in 1 .. r - 1
    BY <1>1, <1>2, DedupeTypes
  <1>n. /\ n \in Nat /\ m \in Nat /\ w \in Nat /\ w >= 1 /\ r \in Nat /\ r = w + m
        /\ r < n
    BY <1>1, <1>2, DedupeTypes
  <1> HIDE DEF n, m
  <1>4. /\ removed' \in Seq(Nat) /\ Len(removed') = m + 1 /\ DOMAIN removed' = 1 .. m + 1
        /\ \A k \in 1 .. m : removed'[k] = removed[k]
        /\ removed'[m + 1] = r
    BY <1>1, <1>3, <1>n DEF m
  <1>5. TypeOK'
    <2>1. r' \in w' .. Len(file'.edges) + 1
      BY <1>1, <1>3, <1>n
    <2> QED
      BY <1>1, <1>2, <1>4, <2>1 DEF TypeOK, FinalEdges, Nodes
  <1>6. Fresh' /\ ReadInv' /\ NodesInv' /\ LocatedInv'
    BY <1>1, <1>2 DEF Fresh, ReadInv, NodesInv, LocatedInv
  <1>7. KeptInv' /\ ForwardInv' /\ BackwardInv' /\ OffsetInv' /\ GraphInv' /\ FailsForAReason'
    BY <1>1 DEF KeptInv, ForwardInv, BackwardInv, OffsetInv, GraphInv, FailsForAReason, Dirs
  <1>8. ASSUME NEW h \in 0 .. n - 1, h < r
        PROVE  GoneUpTo(h)' = GoneUpTo(h)
    <2>1. {k \in DOMAIN removed' : removed'[k] <= h} = {k \in DOMAIN removed : removed[k] <= h}
      BY <1>3, <1>4, <1>8, <1>n
    <2> QED
      BY <2>1 DEF GoneUpTo
  <1>9. ASSUME NEW h \in 0 .. n - 1, h = r
        PROVE  GoneUpTo(h)' = m + 1
    <2>1. \A k \in DOMAIN removed' : removed'[k] <= h
      BY <1>3, <1>4, <1>9, <1>n
    <2>2. {k \in DOMAIN removed' : removed'[k] <= h} = 1 .. m + 1
      BY <1>4, <2>1
    <2>3. Cardinality(1 .. m + 1) = m + 1
      <3>1. 1 \in Int /\ m + 1 \in Int /\ ~(1 > m + 1) /\ m + 1 - 1 + 1 = m + 1
        BY <1>n
      <3> QED
        BY <3>1, FS_Interval
    <2> QED
      BY <2>2, <2>3 DEF GoneUpTo
  <1>10. PICK p : Tracks(p)
    BY <1>1, <1>2 DEF DedupeInv
  <1>11. Tracks(p)'
    <2>1. ASSUME NEW h \in 0 .. n - 1, h < r + 1
          PROVE  /\ h - GoneUpTo(h)' \in 0 .. w - 1
                 /\ Represents(At(edges, h - GoneUpTo(h)'), At(file.edges, p[h]))
      <3>2. CASE h < r
        <4>1. GoneUpTo(h)' = GoneUpTo(h)
          BY <3>2, <1>8
        <4>2. /\ h - GoneUpTo(h) \in 0 .. w - 1
              /\ Represents(At(edges, h - GoneUpTo(h)), At(file.edges, p[h]))
          BY <3>2, <1>3, <1>10 DEF Tracks
        <4> QED
          BY <4>1, <4>2
      <3>3. CASE h = r
        <4>1. h - GoneUpTo(h)' = w - 1
          BY <3>3, <1>n, <1>9
        <4>2. At(edges, w - 1) = edges[w] /\ edges[r + 1].idx = p[r]
          <5>1. w - 1 + 1 = w /\ ~(h < r) /\ h >= r
            BY <3>3, <1>n
          <5> QED
            BY <3>3, <1>3, <1>10, <5>1 DEF Tracks, At
        <4>3. IsOf(edges[r + 1], At(file.edges, p[r]))
          <5>1. r + 1 \in DOMAIN edges
            BY <1>3, <1>n
          <5> QED
            BY <1>1, <1>2, <4>2, <5>1 DEF DedupeInv
        <4>4. Represents(edges[w], At(file.edges, p[r]))
          BY <1>1, <4>3 DEF IsDuplicate, IsOf, Represents, HasEnds
        <4> QED
          BY <3>3, <1>n, <4>1, <4>2, <4>4
      <3> QED
        BY <2>1, <3>2, <3>3, <1>n
    <2>2. (\A h \in Indices(file.edges) : h < r =>
              /\ h - GoneUpTo(h) \in 0 .. w - 1
              /\ Represents(At(edges, h - GoneUpTo(h)), At(file.edges, p[h])))'
      BY <1>1, <1>3, <2>1 DEF Represents, HasEnds
    <2>3. (\A h \in Indices(file.edges) : h >= r => At(edges, h).idx = p[h])'
      BY <1>1, <1>3, <1>10, <1>n DEF Tracks
    <2> QED
      BY <1>1, <1>3, <1>10, <2>2, <2>3 DEF Tracks, HalvesFollow
  <1>12. InOrder((DOMAIN edges) \ (w + 1 .. r))'
    <2>1. InOrder((DOMAIN edges) \ (w + 1 .. r))
      BY <1>1, <1>2 DEF DedupeInv
    <2>2. ((DOMAIN edges) \ (w + 1 .. r))' \subseteq (DOMAIN edges) \ (w + 1 .. r)
      BY <1>1, <1>3, <1>n
    <2> QED
      BY <1>1, <2>1, <2>2 DEF InOrder, ForwardKey
  <1>13. DedupeInv'
    <2>1. /\ r' = w' + Len(removed') /\ r' <= Len(edges')
          /\ \A k \in DOMAIN removed' : removed'[k] \in 1 .. r' - 1
      <3>1. r' = w' + Len(removed') /\ r' <= Len(edges')
        BY <1>1, <1>4, <1>n DEF n
      <3>2. ASSUME NEW k \in 1 .. m + 1 PROVE removed'[k] \in 1 .. r
        <4>1. CASE k = m + 1
          BY <4>1, <1>4, <1>n
        <4>2. CASE k \in 1 .. m
          BY <4>2, <1>3, <1>4, <1>n
        <4> QED
          BY <4>1, <4>2, <1>n
      <3> QED
        BY <1>1, <1>4, <1>n, <3>1, <3>2
    <2>2. \A k, l \in DOMAIN removed' : k < l => removed'[k] < removed'[l]
      <3> SUFFICES ASSUME NEW k \in 1 .. m + 1, NEW l \in 1 .. m + 1, k < l
                   PROVE  removed'[k] < removed'[l]
        BY <1>4
      <3>1. CASE l \in 1 .. m
        <4>1. k \in 1 .. m
          BY <3>1, <1>n
        <4> QED
          BY <3>1, <4>1, <1>1, <1>2, <1>3, <1>4 DEF DedupeInv
      <3>2. CASE l = m + 1
        <4>1. k \in 1 .. m /\ removed[k] \in 1 .. r - 1
          BY <3>2, <1>3, <1>n
        <4>2. removed'[k] = removed[k] /\ removed'[l] = r
          BY <3>2, <4>1, <1>4
        <4> QED
          BY <4>1, <4>2, <1>n
      <3> QED
        BY <3>1, <3>2, <1>n
    <2> QED
      BY <1>1, <1>2, <1>11, <1>12, <2>1, <2>2 DEF DedupeInv, NoNeighbours, IsOf, HasEnds, Nodes
  <1> QED
    BY <1>5, <1>6, <1>7, <1>13 DEF BuildingInv

LEMMA KeepEdgeBuilding ==
    ASSUME BuildingInv, KeepEdge
    PROVE  BuildingInv'
  <1> DEFINE n == Len(edges)
             m == Len(removed)
  <1>1. /\ pc = "dedupe" /\ pc' = "dedupe"
        /\ r < n
        /\ ~IsDuplicate(edges[w], edges[r + 1])
        /\ edges' = [edges EXCEPT ![w + 1] = edges[r + 1], ![r + 1] = edges[w + 1]]
        /\ w' = w + 1 /\ r' = r + 1
        /\ UNCHANGED <<file, read, nodeIds, located, level, removed, metrics, scOffsets,
                       scEdges, srcIdx, edgeIdx, offsets, toFwd, dsts, idToIdx>>
    <2>1. At(edges, w - 1) = edges[w]
      BY DEF At, BuildingInv, TypeOK
    <2> QED
      BY <2>1 DEF KeepEdge, At, builderVars, storeVars, offsetVars
  <1>2. TypeOK /\ Fresh /\ ReadInv /\ NodesInv /\ DedupeInv
    BY DEF BuildingInv
  <1>3. /\ edges \in Seq(ProtoEdges) /\ DOMAIN edges = 1 .. n /\ DOMAIN file.edges = 1 .. n
        /\ Len(file.edges) = n /\ Indices(file.edges) = 0 .. n - 1
        /\ DOMAIN removed = 1 .. m
        /\ \A k \in 1 .. m : removed[k] \in 1 .. r - 1
    BY <1>1, <1>2, DedupeTypes
  <1>n. /\ n \in Nat /\ m \in Nat /\ w \in Nat /\ w >= 1 /\ r \in Nat /\ r = w + m
        /\ r < n
    BY <1>1, <1>2, DedupeTypes
  <1>4. /\ w + 1 \in 1 .. n /\ r + 1 \in 1 .. n /\ w \in 1 .. n
    BY <1>n
  <1>5. /\ edges' \in Seq(ProtoEdges) /\ Len(edges') = n /\ DOMAIN edges' = 1 .. n
        /\ edges'[w + 1] = edges[r + 1]
        /\ \A k \in 1 .. n : k # w + 1 /\ k # r + 1 => edges'[k] = edges[k]
        /\ \A k \in 1 .. n : \E l \in 1 .. n : edges'[k] = edges[l]
    <2> HIDE DEF n
    <2>1. edges \in [1 .. n -> ProtoEdges]
      BY <1>3, <1>n
    <2>2. edges' \in [1 .. n -> ProtoEdges] /\ DOMAIN edges' = 1 .. n
      BY <1>1, <1>4, <2>1
    <2>3. edges'[r + 1] = edges[w + 1]
      BY <1>1, <1>4, <2>1
    <2>4. edges'[w + 1] = edges[r + 1]
      BY <1>1, <1>4, <1>n, <2>1
    <2>5. \A k \in 1 .. n : k # w + 1 /\ k # r + 1 => edges'[k] = edges[k]
      BY <1>1, <2>1
    <2>6. edges' \in Seq(ProtoEdges) /\ Len(edges') = n
      BY <2>2, <1>n
    <2> QED
      BY <1>4, <2>2, <2>3, <2>4, <2>5, <2>6
  <1> HIDE DEF n, m
  <1>a. /\ file' = file /\ nodeIds' = nodeIds /\ level' = level /\ removed' = removed
        /\ pc' = "dedupe" /\ w' = w + 1 /\ r' = r + 1
        /\ Len(edges') = n /\ DOMAIN edges' = 1 .. n /\ DOMAIN edges = 1 .. n
        /\ Len(file.edges) = n /\ Indices(file.edges) = 0 .. n - 1
    BY <1>1, <1>3, <1>5
  <1>b. /\ edges'[w + 1] = edges[r + 1]
        /\ \A k \in 1 .. n : k # w + 1 /\ k # r + 1 => edges'[k] = edges[k]
    BY <1>5
  <1>6. TypeOK'
    <2>1. w' \in 1 .. Len(edges') + 1 /\ r' \in w' .. Len(file'.edges) + 1
      BY <1>a, <1>n
    <2>2. /\ FinalEdges' = FinalEdges /\ Nodes' = Nodes /\ Len(edges') = Len(edges)
      BY <1>1, <1>5 DEF FinalEdges, Nodes, n
    <2> QED
      BY <1>1, <1>2, <1>5, <2>1, <2>2 DEF TypeOK
  <1>7. Fresh' /\ ReadInv' /\ NodesInv' /\ LocatedInv'
    BY <1>1, <1>2 DEF Fresh, ReadInv, NodesInv, LocatedInv
  <1>8. KeptInv' /\ ForwardInv' /\ BackwardInv' /\ OffsetInv' /\ GraphInv' /\ FailsForAReason'
    BY <1>1 DEF KeptInv, ForwardInv, BackwardInv, OffsetInv, GraphInv, FailsForAReason, Dirs
  <1>10. PICK p : Tracks(p)
    BY <1>1, <1>2 DEF DedupeInv
  <1>11. \A k \in 1 .. n : /\ edges'[k].idx \in Indices(file.edges)
                           /\ edges'[k].src \in Nodes
                           /\ edges'[k].dst \in Nodes
                           /\ IsOf(edges'[k], At(file.edges, edges'[k].idx))
                           /\ HalvesFollow(edges'[k], At(file.edges, edges'[k].idx), p)
    <2>1. \A l \in 1 .. n : /\ edges[l].idx \in Indices(file.edges)
                            /\ edges[l].src \in Nodes
                            /\ edges[l].dst \in Nodes
                            /\ IsOf(edges[l], At(file.edges, edges[l].idx))
      BY <1>1, <1>2, <1>3 DEF DedupeInv
    <2>2. \A l \in 1 .. n : HalvesFollow(edges[l], At(file.edges, edges[l].idx), p)
      BY <1>3, <1>10 DEF Tracks
    <2> QED
      BY <1>5, <2>1, <2>2
  <1>12. Tracks(p)'
    <2>1. ASSUME NEW h \in 0 .. n - 1, h >= r + 1
          PROVE  edges'[h + 1].idx = p[h]
      <3>1. h + 1 \in 1 .. n /\ h + 1 # w + 1 /\ h + 1 # r + 1 /\ h >= r
        BY <2>1, <1>n
      <3> QED
        <4>1. edges[h + 1].idx = p[h]
          BY <3>1, <1>a, <1>10 DEF Tracks, At
        <4> QED
          BY <3>1, <4>1, <1>b
    <2>2. ASSUME NEW h \in 0 .. n - 1, h < r'
          PROVE  /\ h - GoneUpTo(h)' \in 0 .. w' - 1
                 /\ Represents(At(edges', h - GoneUpTo(h)'), At(file.edges, p[h]))
      <3>w. w' - 1 = w
        BY <1>a, <1>n
      <3>0. GoneUpTo(h)' = GoneUpTo(h)
        BY <1>a DEF GoneUpTo
      <3>1. CASE h < r
        <4>1. /\ h - GoneUpTo(h) \in 0 .. w - 1
              /\ Represents(edges[h - GoneUpTo(h) + 1], At(file.edges, p[h]))
          BY <3>1, <1>3, <1>10 DEF Tracks, At
        <4> DEFINE g == GoneUpTo(h)
        <4> HIDE DEF g
        <4>2. /\ h - g + 1 \in 1 .. n /\ h - g + 1 # w + 1 /\ h - g + 1 # r + 1
              /\ h - g \in 0 .. w
          BY <4>1, <1>n DEF g
        <4> QED
          BY <3>0, <3>w, <4>1, <4>2, <1>b DEF g, At
      <3>2. CASE h = r
        <4>1. GoneUpTo(h) = m
          BY <3>2, <1>3, <1>n, GoneUpToAll
        <4>2. h - GoneUpTo(h) = w /\ h >= r
          BY <3>2, <4>1, <1>n
        <4>3. edges[r + 1].idx = p[h]
          BY <3>2, <4>2, <1>3, <1>10 DEF Tracks, At
        <4>4. IsOf(edges[r + 1], At(file.edges, p[h]))
          BY <1>1, <1>2, <1>3, <1>4, <4>3 DEF DedupeInv
        <4>5. edges[r + 1].metric \in Int
          <5>1. edges[r + 1] \in ProtoEdges
            BY <1>3, <1>4, ElementOfSeq
          <5> QED
            BY <5>1 DEF ProtoEdges
        <4>6. Represents(edges[r + 1], At(file.edges, p[h]))
          BY <4>4, <4>5 DEF IsOf, Represents, Close, Accuracy
        <4>7. w \in 0 .. w
          BY <1>n
        <4> QED
          BY <3>0, <3>w, <4>2, <4>6, <4>7, <1>b DEF At
      <3> QED
        BY <2>2, <3>1, <3>2, <1>a, <1>n
    <2>3. (\A h \in Indices(file.edges) : h < r =>
              /\ h - GoneUpTo(h) \in 0 .. w - 1
              /\ Represents(At(edges, h - GoneUpTo(h)), At(file.edges, p[h])))'
      BY <1>a, <2>2 DEF Represents, HasEnds
    <2>4. (\A h \in Indices(file.edges) : h >= r => At(edges, h).idx = p[h])'
      BY <1>1, <1>3, <2>1 DEF At
    <2>5. (\A k \in DOMAIN edges : HalvesFollow(edges[k], At(file.edges, edges[k].idx), p))'
      BY <1>a, <1>11 DEF HalvesFollow, At
    <2> QED
      BY <1>1, <1>10, <2>3, <2>4, <2>5 DEF Tracks
  <1>13. InOrder((DOMAIN edges) \ (w + 1 .. r))'
    <2> DEFINE old == (1 .. n) \ (w + 1 .. r)
               new == (1 .. n) \ (w + 2 .. r + 1)
               from(k) == IF k = w + 1 THEN r + 1 ELSE k
    <2>1. \A k, l \in old : k < l => ~KeyLess(ForwardKey(edges[l]), ForwardKey(edges[k]))
      BY <1>1, <1>2, <1>3 DEF DedupeInv, InOrder
    <2>2. \A k \in new : from(k) \in old /\ edges'[k] = edges[from(k)]
      <3> SUFFICES ASSUME NEW k \in new PROVE from(k) \in old /\ edges'[k] = edges[from(k)]
        OBVIOUS
      <3>1. CASE k = w + 1
        <4>1. r + 1 \in old
          BY <1>n
        <4> QED
          BY <3>1, <4>1, <1>5
      <3>2. CASE k # w + 1
        <4>1. k \in old /\ k # r + 1 /\ k \in 1 .. n
          BY <3>2, <1>n
        <4> QED
          BY <3>2, <4>1, <1>5
      <3> QED
        BY <3>1, <3>2
    <2>3. \A k, l \in new : k < l => from(k) < from(l)
      BY <1>n
    <2> HIDE DEF from
    <2>4. \A k, l \in new : k < l => ~KeyLess(ForwardKey(edges'[l]), ForwardKey(edges'[k]))
      BY <2>1, <2>2, <2>3
    <2>5. ((DOMAIN edges) \ (w + 1 .. r))' = new
      <3>1. w + 1 + 1 = w + 2
        BY <1>n
      <3> QED
        BY <1>a, <3>1
    <2> QED
      BY <1>a, <2>4, <2>5 DEF InOrder, ForwardKey
  <1>14. NoNeighbours(w)'
    <2>1. \A k \in 1 .. w - 1 : ~IsDuplicate(edges[k], edges[k + 1])
      BY <1>1, <1>2 DEF DedupeInv, NoNeighbours
    <2>2. ASSUME NEW k \in 1 .. w PROVE ~IsDuplicate(edges'[k], edges'[k + 1])
      <3>1. CASE k = w
        <4>1. edges'[k] = edges[w] /\ edges'[k + 1] = edges[r + 1]
          <5>1. w # w + 1 /\ w # r + 1
            BY <1>n
          <5> QED
            BY <3>1, <5>1, <1>4, <1>5
        <4> QED
          BY <1>1, <4>1
      <3>2. CASE k < w
        <4>1. /\ k \in 1 .. n /\ k # w + 1 /\ k # r + 1 /\ k \in 1 .. w - 1
              /\ k + 1 \in 1 .. n /\ k + 1 # w + 1 /\ k + 1 # r + 1
          BY <3>2, <1>n
        <4>2. edges'[k] = edges[k] /\ edges'[k + 1] = edges[k + 1]
          BY <4>1, <1>5
        <4> QED
          BY <2>1, <4>1, <4>2
      <3> QED
        BY <3>1, <3>2, <1>n
    <2>3. w' - 1 = w
      BY <1>1, <1>n
    <2> QED
      BY <2>2, <2>3 DEF NoNeighbours, IsDuplicate, Close
  <1>15. DedupeInv'
    <2>1. /\ r' = w' + Len(removed') /\ r' <= Len(edges') /\ Len(edges') = Len(file'.edges)
      BY <1>1, <1>3, <1>5, <1>n DEF m
    <2>2. ASSUME NEW k \in 1 .. m PROVE removed[k] \in 1 .. r
      BY <1>3, <1>n
    <2>3. \A k \in DOMAIN removed' : removed'[k] \in 1 .. r' - 1
      <3>1. r' - 1 = r
        BY <1>1, <1>n
      <3> QED
        BY <1>1, <1>3, <2>2, <3>1
    <2>4. \A k, l \in DOMAIN removed' : k < l => removed'[k] < removed'[l]
      BY <1>1, <1>2 DEF DedupeInv
    <2>5. (\A k \in DOMAIN edges : /\ edges[k].idx \in Indices(file.edges)
                                   /\ edges[k].src \in Nodes
                                   /\ edges[k].dst \in Nodes
                                   /\ IsOf(edges[k], At(file.edges, edges[k].idx)))'
      BY <1>1, <1>5, <1>11 DEF IsOf, HasEnds, Nodes
    <2> QED
      BY <1>12, <1>13, <1>14, <2>1, <2>3, <2>4, <2>5 DEF DedupeInv
  <1> QED
    BY <1>6, <1>7, <1>8, <1>15 DEF BuildingInv

\* The halves that the loop has left are valid.
LEMMA TrackedHalves ==
    ASSUME TypeOK, DedupeInv, pc = "dedupe", NEW p, Tracks(p), NEW k \in DOMAIN edges
    PROVE  LET f == At(file.edges, edges[k].idx)
           IN  /\ edges[k].idx + 1 \in DOMAIN file.edges
               /\ IsOf(edges[k], f)
               /\ Len(edges[k].halves) = Len(f.halves)
               /\ DOMAIN edges[k].halves = DOMAIN f.halves
               /\ \A j \in DOMAIN f.halves : /\ edges[k].halves[j] \in Indices(file.edges)
                                             /\ p[edges[k].halves[j]] = f.halves[j]
                                             /\ f.halves[j] \in Indices(file.edges)
  <1> DEFINE f == At(file.edges, edges[k].idx)
  <1>1. edges[k].idx \in Indices(file.edges) /\ IsOf(edges[k], f)
    BY DEF DedupeInv
  <1>2. edges[k].idx + 1 \in 1 .. Len(file.edges) /\ DOMAIN file.edges = 1 .. Len(file.edges)
    <2>1. Len(file.edges) \in Nat /\ Indices(file.edges) = 0 .. Len(file.edges) - 1
      BY FileFacts
    <2>2. DOMAIN file.edges = 1 .. Len(file.edges)
      BY FileFacts
    <2> QED
      BY <1>1, <2>1, <2>2
  <1>3. f \in [id : Nat \cup {None}, src : Int, dst : Int, metric : Int, halves : Halves]
    <2>1. file.edges \in Seq([id : Nat \cup {None}, src : Int, dst : Int, metric : Int,
                              halves : Halves])
      BY FileFacts
    <2> QED
      BY <1>2, <2>1, ElementOfSeq DEF At
  <1>4. edges[k] \in ProtoEdges
    <2>1. edges \in Seq(ProtoEdges) /\ DOMAIN edges = 1 .. Len(edges)
      BY DEF TypeOK
    <2> QED
      BY <2>1, ElementOfSeq
  <1>5. HalvesFollow(edges[k], f, p)
    BY DEF Tracks
  <1> HIDE DEF f
  <1>6. f.halves \in Halves /\ edges[k].halves \in Halves
    BY <1>3, <1>4 DEF ProtoEdges
  <1>7. \A hs \in Halves : DOMAIN hs = 1 .. Len(hs)
    BY DEF Halves
  <1>8. DOMAIN edges[k].halves = DOMAIN f.halves
    BY <1>5, <1>6, <1>7 DEF HalvesFollow
  <1>9. \A j \in DOMAIN f.halves : f.halves[j] \in Indices(file.edges)
    BY <1>5 DEF HalvesFollow, Tracks
  <1> QED
    BY <1>1, <1>2, <1>5, <1>8, <1>9 DEF HalvesFollow, f

LEMMA CorrectShortcutsBuilding ==
    ASSUME BuildingInv, CorrectShortcuts
    PROVE  BuildingInv'
  <1> DEFINE n == Len(edges)
             m == n - Len(removed)
             kept == SubSeq(edges, 1, m)
             halves(k) == [h \in DOMAIN kept[k].halves |-> Corrected(kept[k].halves[h])]
  <1>1. /\ pc = "dedupe" /\ pc' = "store"
        /\ r >= n
        /\ edges' = [k \in DOMAIN kept |-> [kept[k] EXCEPT !.halves = halves(k)]]
        /\ UNCHANGED <<file, read, nodeIds, located, level, w, r, removed, metrics, scOffsets,
                       scEdges, srcIdx, edgeIdx, offsets, toFwd, dsts, idToIdx>>
    BY DEF CorrectShortcuts, builderVars, dedupeVars, storeVars, offsetVars
  <1>2. TypeOK /\ Fresh /\ ReadInv /\ NodesInv /\ DedupeInv
    BY DEF BuildingInv
  <1>3. /\ edges \in Seq(ProtoEdges) /\ DOMAIN edges = 1 .. n /\ DOMAIN file.edges = 1 .. n
        /\ Len(file.edges) = n /\ Indices(file.edges) = 0 .. n - 1
        /\ removed \in Seq(Nat)
    BY <1>1, <1>2, DedupeTypes
  <1>n. /\ n \in Nat /\ m \in 0 .. n /\ w \in Nat /\ w >= 1 /\ r \in Nat
        /\ m <= w /\ w <= m + 1 /\ (n > 0 => w = m /\ r = n)
    <2>1. /\ n \in Nat /\ Len(removed) \in Nat /\ w \in Nat /\ w >= 1 /\ r \in Nat
          /\ r = w + Len(removed)
      BY <1>1, <1>2, DedupeTypes
    <2>2. r <= n \/ (r = 1 /\ n = 0)
      BY <1>1, <1>2 DEF DedupeInv
    <2>3. r >= n
      BY <1>1
    <2> HIDE DEF n
    <2> QED
      BY <2>1, <2>2, <2>3
  <1> HIDE DEF n, m
  <1>4. DOMAIN kept = 1 .. m /\ \A k \in 1 .. m : k \in 1 .. n /\ kept[k] = edges[k]
    BY <1>3, <1>n
  <1> HIDE DEF kept
  <1>5. PICK p : Tracks(p)
    BY <1>1, <1>2 DEF DedupeInv
  <1>6. ASSUME NEW h \in 0 .. n - 1
        PROVE  /\ Corrected(h) \in 0 .. m - 1
               /\ Represents(edges[Corrected(h) + 1], At(file.edges, p[h]))
    <2>1. \A k, l \in DOMAIN removed : k < l => removed[k] < removed[l]
      BY <1>1, <1>2 DEF DedupeInv
    <2>2. Corrected(h) = h - GoneUpTo(h)
      <3>1. h \in Nat
        BY <1>n
      <3> QED
        BY <1>3, <2>1, <3>1, CorrectedFacts
    <2>3. h < r /\ w = m
      BY <1>n
    <2>4. /\ h - GoneUpTo(h) \in 0 .. w - 1
          /\ Represents(edges[h - GoneUpTo(h) + 1], At(file.edges, p[h]))
      BY <1>3, <1>5, <2>3 DEF Tracks, At
    <2> QED
      BY <2>2, <2>3, <2>4
  <1>7. ASSUME NEW k \in 1 .. m
        PROVE  /\ edges'[k] \in ProtoEdges
               /\ edges'[k].id = edges[k].id /\ edges'[k].metric = edges[k].metric
               /\ edges'[k].src = edges[k].src /\ edges'[k].dst = edges[k].dst
               /\ Len(edges'[k].halves) = Len(edges[k].halves)
               /\ \A j \in DOMAIN edges[k].halves :
                     edges'[k].halves[j] = Corrected(edges[k].halves[j])
    <2> DEFINE hs == edges[k].halves
               mapped == [h \in DOMAIN hs |-> Corrected(hs[h])]
    <2>1. k \in DOMAIN edges /\ edges[k] \in ProtoEdges
      <3>1. k \in DOMAIN edges
        BY <1>3, <1>4
      <3> QED
        BY <1>3, <3>1, ElementOfSeq
    <2>2. hs \in Halves
      BY <2>1 DEF ProtoEdges
    <2>3. \A j \in DOMAIN hs : hs[j] \in 0 .. n - 1
      BY <1>3, <1>5, <2>1, <1>1, <1>2, TrackedHalves
    <2>4. \A j \in DOMAIN hs : mapped[j] = Corrected(hs[j]) /\ mapped[j] \in Nat
      BY <1>6, <1>n, <2>3
    <2>5. mapped = [j \in DOMAIN hs |-> mapped[j]]
      OBVIOUS
    <2>6. edges'[k] = [edges[k] EXCEPT !.halves = mapped]
      BY <1>1, <1>4
    <2> HIDE DEF mapped, hs
    <2>7. mapped \in Halves /\ Len(mapped) = Len(hs)
      BY <2>2, <2>4, <2>5, HalvesFacts
    <2>8. /\ edges'[k] \in ProtoEdges /\ edges'[k].halves = mapped
          /\ edges'[k].id = edges[k].id /\ edges'[k].metric = edges[k].metric
          /\ edges'[k].src = edges[k].src /\ edges'[k].dst = edges[k].dst
      BY <2>1, <2>6, <2>7 DEF ProtoEdges
    <2> QED
      BY <2>4, <2>7, <2>8 DEF hs
  <1>8. edges' \in Seq(ProtoEdges) /\ Len(edges') = m /\ DOMAIN edges' = 1 .. m
    <2>1. edges' \in [1 .. m -> ProtoEdges]
      BY <1>1, <1>4, <1>7
    <2>2. m \in Nat
      BY <1>n
    <2> QED
      BY <2>1, <2>2
  <1>a. /\ file' = file /\ nodeIds' = nodeIds /\ level' = level /\ pc' = "store"
        /\ w' = w /\ r' = r /\ removed' = removed /\ Nodes' = Nodes /\ FinalEdges' = FinalEdges
        /\ edgeIdx' = 0 /\ offsets' = [dir \in Dirs |-> <<0>>]
    BY <1>1, <1>2 DEF Fresh, Nodes, FinalEdges
  <1>9. TypeOK'
    <2>1. w' \in 1 .. Len(edges') + 1 /\ edgeIdx' \in 0 .. Len(edges')
      BY <1>8, <1>a, <1>n
    <2>2. offsets' \in [Dirs -> Seq(0 .. Len(edges'))]
      <3>1. <<0>> \in Seq(0 .. m)
        BY <1>n
      <3> QED
        BY <1>8, <1>a, <3>1
    <2> QED
      BY <1>1, <1>2, <1>8, <1>a, <2>1, <2>2 DEF TypeOK
  <1>10. Fresh' /\ ReadInv' /\ NodesInv' /\ LocatedInv'
    BY <1>1, <1>2 DEF Fresh, ReadInv, NodesInv, LocatedInv
  <1>11. DedupeInv' /\ ForwardInv' /\ BackwardInv' /\ OffsetInv' /\ GraphInv' /\ FailsForAReason'
    BY <1>1 DEF DedupeInv, ForwardInv, BackwardInv, OffsetInv, GraphInv, FailsForAReason, Dirs
  <1>12. KeptInv'
    <2>1. \A k \in 1 .. m : edges'[k].src \in Nodes /\ edges'[k].dst \in Nodes
      BY <1>1, <1>2, <1>3, <1>4, <1>7 DEF DedupeInv
    <2>2. InOrder(DOMAIN edges)'
      <3>1. \A k \in 1 .. m : k \in (DOMAIN edges) \ (w + 1 .. r)
        BY <1>3, <1>n
      <3>2. \A k, l \in 1 .. m : k < l => ~KeyLess(ForwardKey(edges[l]), ForwardKey(edges[k]))
        BY <1>1, <1>2, <3>1 DEF DedupeInv, InOrder
      <3>3. \A k \in 1 .. m : ForwardKey(edges[k])' = ForwardKey(edges[k])
        BY <1>7, <1>a DEF ForwardKey
      <3> QED
        BY <1>8, <3>2, <3>3 DEF InOrder
    <2>3. NoNeighbours(Len(edges))'
      <3>1. \A k \in 1 .. m - 1 : ~IsDuplicate(edges[k], edges[k + 1])
        <4>1. \A k \in 1 .. m - 1 : k \in 1 .. w - 1
          BY <1>n
        <4> QED
          BY <1>1, <1>2, <4>1 DEF DedupeInv, NoNeighbours
      <3>2. \A k \in 1 .. m - 1 : k \in 1 .. m /\ k + 1 \in 1 .. m
        BY <1>n
      <3>3. \A k \in 1 .. m - 1 : ~IsDuplicate(edges'[k], edges'[k + 1])
        BY <1>7, <3>1, <3>2 DEF IsDuplicate
      <3> QED
        BY <1>8, <3>3 DEF NoNeighbours, IsDuplicate, Close
    <2>4. ASSUME NEW e, e \in 0 .. m - 1, NEW f, Represents(edges[e + 1], f)
          PROVE  Represents(edges'[e + 1], f)
      <3>1. e + 1 \in 1 .. m
        BY <1>n, <2>4
      <3> QED
        BY <1>7, <2>4, <3>1 DEF Represents, HasEnds
    <2>5. ASSUME NEW k \in 1 .. m
          PROVE  \E i \in DOMAIN file.edges : IsOrigin(file.edges[i], edges[k])'
      <3> DEFINE f == At(file.edges, edges[k].idx)
      <3>1. /\ edges[k].idx + 1 \in DOMAIN file.edges
            /\ IsOf(edges[k], f)
            /\ Len(edges[k].halves) = Len(f.halves)
            /\ DOMAIN edges[k].halves = DOMAIN f.halves
            /\ \A j \in DOMAIN f.halves : /\ edges[k].halves[j] \in 0 .. n - 1
                                          /\ p[edges[k].halves[j]] = f.halves[j]
                                          /\ f.halves[j] \in Indices(file.edges)
        BY <1>1, <1>2, <1>3, <1>4, <1>5, TrackedHalves
      <3>2. IsOf(edges'[k], f)
        BY <1>7, <3>1 DEF IsOf, HasEnds
      <3>4. Len(edges'[k].halves) = Len(f.halves)
        BY <1>7, <3>1
      <3> HIDE DEF f
      <3>5. ASSUME NEW j \in DOMAIN f.halves
            PROVE  /\ edges'[k].halves[j] \in 0 .. m - 1
                   /\ f.halves[j] \in Indices(file.edges)
                   /\ Represents(edges'[edges'[k].halves[j] + 1], At(file.edges, f.halves[j]))
        <4> DEFINE h == edges[k].halves[j]
        <4>1. h \in 0 .. n - 1 /\ p[h] = f.halves[j]
          BY <3>1
        <4>2. f.halves[j] \in Indices(file.edges)
          BY <3>1
        <4>3. j \in DOMAIN edges[k].halves
          BY <3>1
        <4>4. edges'[k].halves[j] = Corrected(h)
          BY <1>7, <4>3
        <4> HIDE DEF h
        <4> QED
          BY <1>6, <2>4, <4>1, <4>2, <4>4
      <3>6. Indices(edges)' = 0 .. m - 1
        BY <1>8 DEF Indices
      <3>7. PICK i \in DOMAIN file.edges : f = file.edges[i]
        BY <3>1 DEF f, At
      <3>8. IsOrigin(file.edges[i], edges[k])'
        BY <1>a, <3>2, <3>4, <3>5, <3>6, <3>7
        DEF IsOrigin, IsOf, HasEnds, Represents, At, Close, Indices
      <3> QED
        BY <1>a, <3>8
    <2>6. ASSUME NEW i \in DOMAIN file.edges
          PROVE  \E k \in 1 .. m : Represents(edges'[k], file.edges[i])
      <3>1. i - 1 \in Indices(file.edges) /\ i - 1 + 1 = i
        BY <1>3, <1>n
      <3>2. PICK h \in Indices(file.edges) : p[h] = i - 1
        BY <1>5, <3>1 DEF Tracks
      <3>3. /\ Corrected(h) \in 0 .. m - 1
            /\ Represents(edges[Corrected(h) + 1], file.edges[i])
        BY <1>3, <1>6, <3>1, <3>2 DEF At
      <3>4. Corrected(h) + 1 \in 1 .. m
        BY <1>n, <3>3
      <3> QED
        BY <2>4, <3>3, <3>4
    <2>7. (\A i \in DOMAIN file.edges : \E k \in DOMAIN edges : Represents(edges[k], file.edges[i]))'
      BY <1>8, <1>a, <2>6 DEF Represents, HasEnds
    <2>8. (\A k \in DOMAIN edges : \E i \in DOMAIN file.edges : IsOrigin(file.edges[i], edges[k]))'
      BY <1>8, <1>a, <2>5
    <2> QED
      BY <1>8, <1>a, <2>1, <2>2, <2>3, <2>7, <2>8 DEF KeptInv
  <1> QED
    BY <1>9, <1>10, <1>11, <1>12 DEF BuildingInv

-----------------------------------------------------------------------------
(* Metrics and shortcut-offsets *)

\* The accessors find the halves of every edge in what the loop has written.
LEMMA WrittenHalves ==
    ASSUME edges \in Seq(ProtoEdges), NEW end, Describes(end, Len(edges)),
           NEW so, so = Append(end.offsets, Len(end.shortcuts)), NEW k \in 1 .. Len(edges)
    PROVE  (IF At(so, k) - At(so, k - 1) # 0
            THEN At(end.shortcuts, At(so, k - 1))
            ELSE <<>>) = edges[k].halves
  <1> DEFINE n == Len(edges)
  <1>1. /\ n \in Nat
        /\ end.offset \in Nat /\ end.offsets \in Seq(Nat)
        /\ Len(end.offsets) = n /\ Len(end.shortcuts) = end.offset
        /\ IF edges[k].halves = <<>>
           THEN NextOffset(end, k) = end.offsets[k]
           ELSE /\ NextOffset(end, k) = end.offsets[k] + 1
                /\ end.shortcuts[end.offsets[k] + 1] = edges[k].halves
    BY DEF Describes, ShortcutState
  <1> HIDE DEF n
  <1>2. so[k] = end.offsets[k] /\ so[k + 1] = NextOffset(end, k)
    <2>1. k \in 1 .. n
      BY DEF n
    <2>2. so[k] = end.offsets[k]
      BY <1>1, <2>1
    <2>3. CASE k < n
      <3>1. so[k + 1] = end.offsets[k + 1]
        BY <1>1, <2>1, <2>3
      <3> QED
        BY <1>1, <2>2, <2>3, <3>1 DEF NextOffset
    <2>4. CASE k = n
      <3>1. so[k + 1] = Len(end.shortcuts)
        BY <1>1, <2>1, <2>4
      <3> QED
        BY <1>1, <2>2, <2>4, <3>1 DEF NextOffset
    <2> QED
      BY <1>1, <2>1, <2>3, <2>4
  <1>3. At(so, k) = so[k + 1] /\ At(so, k - 1) = so[k]
    <2>1. k - 1 + 1 = k
      OBVIOUS
    <2> QED
      BY <2>1 DEF At
  <1>4. end.offsets[k] \in Nat
    BY <1>1 DEF n
  <1>5. CASE edges[k].halves = <<>>
    <2>1. NextOffset(end, k) = end.offsets[k]
      BY <1>1, <1>5
    <2>2. At(so, k) = end.offsets[k] /\ At(so, k - 1) = end.offsets[k]
      BY <1>2, <1>3, <2>1
    <2>3. ~(At(so, k) - At(so, k - 1) # 0)
      BY <1>4, <2>2
    <2> QED
      BY <1>5, <2>3
  <1>6. CASE edges[k].halves # <<>>
    <2>0. At(so, k) = end.offsets[k] + 1 /\ At(so, k - 1) = end.offsets[k]
      BY <1>1, <1>2, <1>3, <1>6
    <2>1. At(so, k) - At(so, k - 1) # 0
      BY <1>4, <2>0
    <2>2. At(end.shortcuts, At(so, k - 1)) = edges[k].halves
      BY <1>1, <1>2, <1>3, <1>6 DEF At
    <2> QED
      BY <2>1, <2>2
  <1> QED
    BY <1>5, <1>6

LEMMA StoreMetricsBuilding ==
    ASSUME BuildingInv, StoreMetrics
    PROVE  BuildingInv'
  <1> DEFINE n == Len(edges)
             end == FoldLeft(WithShortcut, NoShortcuts, edges)
             failing == \E i \in 1 .. n : Stored(edges[i].metric) < Accuracy
  <1>1. edges \in Seq(ProtoEdges) /\ n \in Nat /\ DOMAIN edges = 1 .. n
    BY DEF BuildingInv, TypeOK
  <1>2. TypeOK /\ Fresh /\ ReadInv /\ NodesInv /\ KeptInv
    BY DEF BuildingInv
  <1>3. /\ pc = "store"
        /\ metrics' = [i \in 1 .. n |-> Stored(edges[i].metric)]
        /\ IF failing
           THEN pc' = "err" /\ scOffsets' = scOffsets /\ scEdges' = scEdges
           ELSE /\ pc' = "FWD"
                /\ scOffsets' = Append(end.offsets, Len(end.shortcuts))
                /\ scEdges' = end.shortcuts
        /\ UNCHANGED <<file, read, nodeIds, located, level, edges, w, r, removed, srcIdx,
                       edgeIdx, offsets, toFwd, dsts, idToIdx>>
    BY <1>1 DEF StoreMetrics, NoShortcuts, builderVars, dedupeVars, offsetVars
  <1>4. \A k \in 1 .. n : edges[k].metric \in Int /\ Stored(edges[k].metric) \in Int
    <2>1. \A k \in 1 .. n : edges[k] \in ProtoEdges
      BY <1>1
    <2> QED
      BY <2>1 DEF ProtoEdges, Stored, Accuracy
  <1>5. Describes(end, n)
    BY <1>1, ShortcutsFacts
  <1> HIDE DEF n, end, failing
  <1>6. /\ metrics' \in Seq(Int) /\ Len(metrics') = n
        /\ \A k \in 1 .. n : metrics'[k] = Stored(edges[k].metric)
    <2>1. metrics' \in [1 .. n -> Int]
      BY <1>3, <1>4
    <2> QED
      BY <1>1, <1>3, <2>1
  <1>7. scOffsets' \in Seq(Nat) /\ scEdges' \in Seq(Nat \X Nat)
    <2>1. CASE failing
      BY <1>2, <1>3, <2>1 DEF TypeOK
    <2>2. CASE ~failing
      <3>1. end.offset \in Nat /\ end.offsets \in Seq(Nat) /\ end.shortcuts \in Seq(Nat \X Nat)
        BY <1>5 DEF Describes, ShortcutState
      <3>2. Append(end.offsets, Len(end.shortcuts)) \in Seq(Nat)
        <4>1. Len(end.shortcuts) \in Nat
          BY <3>1
        <4> QED
          BY <3>1, <4>1
      <3> QED
        BY <1>3, <2>2, <3>1, <3>2
    <2> QED
      BY <2>1, <2>2
  <1>8. /\ srcIdx' = 0 /\ edgeIdx' = 0
        /\ offsets' = [dir \in Dirs |-> <<0>>]
        /\ toFwd' = [dir \in Dirs |-> <<>>]
        /\ dsts' = [dir \in Dirs |-> <<>>]
        /\ idToIdx' = <<>>
        /\ Nodes' = Nodes
    BY <1>2, <1>3 DEF Fresh, Nodes
  <1>9. TypeOK'
    <2>1. pc' \in {"err", "FWD"}
      BY <1>3
    <2>2. offsets' \in [Dirs -> Seq(0 .. Len(edges'))] /\ dsts' \in [Dirs -> Seq(Nodes')]
      BY <1>2, <1>3, <1>8 DEF TypeOK
    <2>3. toFwd' \in [Dirs -> Seq(FinalEdges')] /\ idToIdx' \in Seq(Nat \X FinalEdges')
      BY <1>8
    <2> QED
      BY <1>2, <1>3, <1>6, <1>7, <1>8, <2>1, <2>2, <2>3 DEF TypeOK, Ended, Dirs
  <1>10. Fresh' /\ ReadInv' /\ NodesInv' /\ LocatedInv' /\ DedupeInv' /\ BackwardInv' /\ GraphInv'
    BY <1>2, <1>3, <1>8 DEF Fresh, ReadInv, NodesInv, LocatedInv, DedupeInv, BackwardInv,
                            GraphInv, Dirs
  <1>11. KeptInv'
    <2> SUFFICES ASSUME pc' = "FWD" PROVE KeptInv'
      BY <1>3 DEF KeptInv
    <2> QED
      BY <1>2, <1>3, <1>8 DEF KeptInv, InOrder, NoNeighbours, IsOrigin, IsOf, HasEnds, Represents,
                              ForwardKey
  <1>12. ForwardInv' /\ OffsetInv'
    <2> SUFFICES ASSUME pc' = "FWD", ~failing PROVE ForwardInv' /\ OffsetInv'
      BY <1>3 DEF ForwardInv, OffsetInv, Dirs
    <2>1. \A k \in 1 .. n : ScEdges(k - 1)' = edges[k].halves
      <3> SUFFICES ASSUME NEW k \in 1 .. n PROVE ScEdges(k - 1)' = edges[k].halves
        OBVIOUS
      <3>1. (IF At(scOffsets', k) - At(scOffsets', k - 1) # 0
             THEN At(end.shortcuts, At(scOffsets', k - 1))
             ELSE <<>>) = edges[k].halves
        BY <1>1, <1>3, <1>5, WrittenHalves DEF n
      <3>2. k - 1 + 1 = k /\ scEdges' = end.shortcuts
        BY <1>3
      <3> QED
        BY <3>1, <3>2 DEF ScEdges, IsShortcut
    <2>2. ForwardInv'
      <3>1. edges' = edges /\ DOMAIN edges = 1 .. n /\ Len(edges) = n /\ 1 .. 0 = {}
        BY <1>1, <1>3 DEF n
      <3>2. /\ Len(dsts'["FWD"]) = 0 /\ Len(dsts'["BWD"]) = 0 /\ Len(toFwd'["FWD"]) = 0
            /\ DOMAIN idToIdx' = {}
        BY <1>8 DEF Dirs
      <3>3. (\A k \in DOMAIN edges : ScEdges(k - 1) = edges[k].halves)'
        BY <2>1, <3>1
      <3> QED
        BY <1>6, <1>8, <3>1, <3>2, <3>3 DEF ForwardInv, Stored, Close
    <2>3. OffsetInv'
      <3>1. offsets'["FWD"] = <<0>> /\ edges' = edges /\ DOMAIN edges = 1 .. n /\ Len(edges) = n
        BY <1>1, <1>3, <1>8 DEF Dirs, n
      <3>2. \A k \in 1 .. n : edges[k].src >= 0
        <4>1. \A k \in 1 .. n : edges[k].src \in Nodes
          BY <1>1, <1>2, <1>3 DEF KeptInv
        <4> QED
          BY <4>1, <1>2 DEF Nodes, Indices, TypeOK
      <3> QED
        BY <1>8, <3>1, <3>2 DEF OffsetInv, Source
    <2> QED
      BY <2>2, <2>3
  <1>13. FailsForAReason'
    <2> SUFFICES ASSUME failing
                 PROVE  \E i \in DOMAIN file.edges : file.edges[i].metric < -Accuracy
      BY <1>3 DEF FailsForAReason
    <2>1. PICK k \in 1 .. n : Stored(edges[k].metric) < Accuracy
      BY DEF failing
    <2>2. edges[k].metric < -Accuracy
      BY <1>4, <2>1 DEF Stored, Close, Accuracy
    <2>3. PICK i \in DOMAIN file.edges : IsOrigin(file.edges[i], edges[k])
      BY <1>1, <1>2, <1>3 DEF KeptInv
    <2> QED
      BY <2>2, <2>3 DEF IsOrigin, IsOf
  <1> QED
    BY <1>9, <1>10, <1>11, <1>12, <1>13 DEF BuildingInv

-----------------------------------------------------------------------------
(* The offset-loops *)

LEMMA InOrderFirst ==
    ASSUME NEW a \in QuadKeys, NEW b \in QuadKeys, ~KeyLess(b, a)
    PROVE  /\ a[1] <= b[1]
           /\ a[1] = b[1] => a[2] <= b[2]
  <1>1. /\ a[1] \in Int /\ a[2] \in Int /\ b[1] \in Int /\ b[2] \in Int
    BY DEF QuadKeys
  <1> QED
    BY <1>1, QuadLess

\* In either loop, the edges are sorted by their source and then, descending, by the level of
\* their target.
Destination(dir, e) == IF dir = "FWD" THEN e.dst ELSE e.src

LEMMA LoopTypes ==
    ASSUME BuildingInv, pc \in Dirs
    PROVE  /\ edges \in Seq(ProtoEdges) /\ DOMAIN edges = 1 .. Len(edges) /\ Len(edges) \in Nat
           /\ Len(metrics) = Len(edges) /\ FinalEdges = 0 .. Len(edges) - 1
           /\ nodeIds \in Seq(Int) /\ level \in Seq(Nat) /\ Len(level) = Len(nodeIds)
           /\ Len(nodeIds) \in Nat /\ Nodes = 0 .. Len(nodeIds) - 1
           /\ \A k \in DOMAIN edges : edges[k] \in ProtoEdges
           /\ \A k \in DOMAIN edges : edges[k].src \in Nodes /\ edges[k].dst \in Nodes
           /\ \A k \in DOMAIN edges : Source(pc, edges[k]) \in Nodes
  <1>1. /\ edges \in Seq(ProtoEdges) /\ DOMAIN edges = 1 .. Len(edges) /\ Len(edges) \in Nat
        /\ nodeIds \in Seq(Int) /\ level \in Seq(Nat) /\ Len(nodeIds) \in Nat
        /\ \A k \in DOMAIN edges : edges[k] \in ProtoEdges
    <2>1. edges \in Seq(ProtoEdges) /\ nodeIds \in Seq(Int) /\ level \in Seq(Nat)
      BY DEF BuildingInv, TypeOK
    <2> HIDE DEF ProtoEdges
    <2>2. /\ DOMAIN edges = 1 .. Len(edges) /\ Len(edges) \in Nat /\ Len(nodeIds) \in Nat
          /\ \A k \in DOMAIN edges : edges[k] \in ProtoEdges
      BY <2>1
    <2> QED BY <2>1, <2>2
  <1>2. Len(level) = Len(nodeIds)
    BY DEF BuildingInv, NodesInv, Dirs
  <1>3. Nodes = 0 .. Len(nodeIds) - 1
    BY DEF Nodes, Indices
  <1>4. pc = "FWD" \/ pc = "BWD"
    BY DEF Dirs
  <1>5. Len(metrics) = Len(edges)
    BY <1>4 DEF BuildingInv, ForwardInv, BackwardInv
  <1>6. \A k \in DOMAIN edges : edges[k].src \in Nodes /\ edges[k].dst \in Nodes
    <2>1. CASE pc = "FWD"
      BY <2>1 DEF BuildingInv, KeptInv
    <2>2. CASE pc = "BWD"
      <3>1. \A dir \in Dirs : dsts[dir] \in Seq(Nodes)
        BY DEF BuildingInv, TypeOK
      <3>2. /\ Len(dsts["FWD"]) = Len(metrics) /\ Len(dsts["BWD"]) = Len(metrics)
            /\ \A k \in DOMAIN edges : /\ edges[k].idx \in FinalEdges
                                       /\ Target("FWD", edges[k].idx) = edges[k].dst
                                       /\ Target("BWD", edges[k].idx) = edges[k].src
        BY <2>2 DEF BuildingInv, BackwardInv
      <3>3. dsts["FWD"] \in Seq(Nodes) /\ dsts["BWD"] \in Seq(Nodes)
        BY <3>1 DEF Dirs
      <3>4. ASSUME NEW e \in FinalEdges
            PROVE  Target("FWD", e) \in Nodes /\ Target("BWD", e) \in Nodes
        <4>1. e + 1 \in 1 .. Len(metrics)
          BY <1>1, <1>5 DEF FinalEdges, Indices
        <4> QED
          BY <3>2, <3>3, <4>1, ElementOfSeq DEF Target, At
      <3> QED
        BY <3>2, <3>4
    <2> QED
      BY <1>4, <2>1, <2>2
  <1>7. \A k \in DOMAIN edges : Source(pc, edges[k]) \in Nodes
    BY <1>6 DEF Source
  <1> QED
    BY <1>1, <1>2, <1>3, <1>5, <1>6, <1>7 DEF FinalEdges, Indices

LEMMA LoopOrder ==
    ASSUME BuildingInv, pc \in Dirs, NEW k \in DOMAIN edges, NEW l \in DOMAIN edges, k < l
    PROVE  /\ Source(pc, edges[k]) <= Source(pc, edges[l])
           /\ Source(pc, edges[k]) = Source(pc, edges[l]) =>
                  At(level, Destination(pc, edges[k])) >= At(level, Destination(pc, edges[l]))
  <1>1. /\ nodeIds \in Seq(Int) /\ level \in Seq(Nat) /\ Len(level) = Len(nodeIds)
        /\ edges[k] \in ProtoEdges /\ edges[l] \in ProtoEdges
        /\ edges[k].src \in Nodes /\ edges[k].dst \in Nodes
        /\ edges[l].src \in Nodes /\ edges[l].dst \in Nodes
    BY LoopTypes
  <1>2. edges[k].id \in Int /\ edges[l].id \in Int
    BY <1>1 DEF ProtoEdges, None
  <1>3. /\ ForwardKey(edges[k]) \in QuadKeys /\ BackwardKey(edges[k]) \in QuadKeys
        /\ ForwardKey(edges[l]) \in QuadKeys /\ BackwardKey(edges[l]) \in QuadKeys
    BY <1>1, <1>2, KeysAreQuads
  <1>4. \A v \in Nodes : At(level, v) \in Nat
    BY <1>1 DEF Nodes, Indices, At
  <1>5. CASE pc = "FWD"
    <2>1. ~KeyLess(ForwardKey(edges[l]), ForwardKey(edges[k]))
      BY <1>5 DEF BuildingInv, KeptInv, InOrder
    <2>2. /\ ForwardKey(edges[k])[1] <= ForwardKey(edges[l])[1]
          /\ ForwardKey(edges[k])[1] = ForwardKey(edges[l])[1] =>
                ForwardKey(edges[k])[2] <= ForwardKey(edges[l])[2]
      BY <1>3, <2>1, InOrderFirst
    <2>3. At(level, edges[k].dst) \in Nat /\ At(level, edges[l].dst) \in Nat
      BY <1>1, <1>4
    <2> QED
      BY <1>5, <2>2, <2>3 DEF ForwardKey, Source, Destination
  <1>6. CASE pc = "BWD"
    <2>1. ~KeyLess(BackwardKey(edges[l]), BackwardKey(edges[k]))
      BY <1>6 DEF BuildingInv, BackwardInv
    <2>2. /\ BackwardKey(edges[k])[1] <= BackwardKey(edges[l])[1]
          /\ BackwardKey(edges[k])[1] = BackwardKey(edges[l])[1] =>
                BackwardKey(edges[k])[2] <= BackwardKey(edges[l])[2]
      BY <1>3, <2>1, InOrderFirst
    <2>3. At(level, edges[k].src) \in Nat /\ At(level, edges[l].src) \in Nat
      BY <1>1, <1>4
    <2> QED
      BY <1>6, <2>2, <2>3 DEF BackwardKey, Source, Destination
  <1> QED
    BY <1>5, <1>6 DEF Dirs

\* What the accessors show depends on no other variable.
LEMMA ShownUnchanged ==
    ASSUME UNCHANGED <<file, nodeIds, level, metrics, scOffsets, scEdges, dsts, idToIdx>>,
           offsets'["FWD"] = offsets["FWD"], toFwd'["FWD"] = toFwd["FWD"],
           EdgesShow, NodesShow("FWD")
    PROVE  EdgesShow' /\ NodesShow("FWD")'
  <1>1. EdgesShow'
    <2>1. FinalEdges' = FinalEdges
      BY DEF FinalEdges
    <2>4. ASSUME NEW e \in FinalEdges
          PROVE  (\E i \in DOMAIN file.edges : ShowsEdge(e, file.edges[i]))'
      <3>1. PICK i \in DOMAIN file.edges : ShowsEdge(e, file.edges[i])
        BY DEF EdgesShow
      <3>2. ShowsEdge(e, file.edges[i])'
        BY <2>1, <3>1 DEF ShowsEdge, StandsFor, Target, ScEdges, IsShortcut, At, Close
      <3> QED
        BY <3>2
    <2>5. ASSUME NEW i \in DOMAIN file.edges
          PROVE  (\E e \in FinalEdges : StandsFor(e, file.edges[i]))'
      <3>1. PICK e \in FinalEdges : StandsFor(e, file.edges[i])
        BY DEF EdgesShow
      <3>2. StandsFor(e, file.edges[i])'
        BY <3>1 DEF StandsFor, Target, At, Close
      <3> QED
        BY <2>1, <3>2
    <2>6. ASSUME NEW i \in DOMAIN file.edges, file.edges[i].id # None
          PROVE  (\E k \in DOMAIN idToIdx : /\ idToIdx[k][1] = file.edges[i].id
                                            /\ StandsFor(idToIdx[k][2], file.edges[i]))'
      <3>1. PICK k \in DOMAIN idToIdx : /\ idToIdx[k][1] = file.edges[i].id
                                       /\ StandsFor(idToIdx[k][2], file.edges[i])
        BY <2>6 DEF EdgesShow
      <3>2. StandsFor(idToIdx[k][2], file.edges[i])'
        BY <3>1 DEF StandsFor, Target, At, Close
      <3> QED
        BY <3>1, <3>2
    <2>7. \A i \in 2 .. Len(idToIdx') : idToIdx'[i - 1][1] < idToIdx'[i][1]
      BY DEF EdgesShow
    <2> QED
      BY <2>1, <2>4, <2>5, <2>6, <2>7 DEF EdgesShow
  <1>2. NodesShow("FWD")'
    BY DEF NodesShow, ShowsOwnEdges, ShowsDescending, Covers, OffsetIndices, Opp, FinalEdges,
           Target, Nodes, Indices, At
  <1> QED
    BY <1>1, <1>2

LEMMA PushOffsetBuilding ==
    ASSUME BuildingInv, PushOffset
    PROVE  BuildingInv'
  <1> DEFINE n == Len(edges)
             o == offsets[pc]
             src(k) == Source(pc, edges[k])
  <1>1. /\ pc \in Dirs /\ pc' = pc
        /\ edgeIdx < n
        /\ srcIdx # src(edgeIdx + 1)
        /\ srcIdx' = srcIdx + 1
        /\ offsets' = [offsets EXCEPT ![pc] = Append(o, edgeIdx)]
        /\ UNCHANGED <<file, read, nodeIds, located, level, edges, w, r, removed, metrics,
                       scOffsets, scEdges, edgeIdx, toFwd, dsts, idToIdx>>
    BY DEF PushOffset, At, builderVars, dedupeVars, storeVars
  <1>2. TypeOK /\ Fresh /\ ReadInv /\ NodesInv /\ KeptInv /\ ForwardInv /\ BackwardInv
        /\ OffsetInv /\ GraphInv
    BY DEF BuildingInv
  <1>3. /\ n \in Nat /\ DOMAIN edges = 1 .. n /\ edgeIdx \in 0 .. n /\ srcIdx \in Nat
        /\ Len(nodeIds) \in Nat
        /\ \A k \in 1 .. n : src(k) \in 0 .. Len(nodeIds) - 1
    <2>1. /\ n \in Nat /\ DOMAIN edges = 1 .. n /\ Len(nodeIds) \in Nat
          /\ Nodes = 0 .. Len(nodeIds) - 1
          /\ \A k \in DOMAIN edges : src(k) \in Nodes
      BY <1>1, LoopTypes
    <2>2. edgeIdx \in 0 .. n /\ srcIdx \in Nat
      BY <1>2 DEF TypeOK
    <2> QED
      BY <2>1, <2>2
  <1>4. \A k, l \in 1 .. n : k < l => src(k) <= src(l)
    BY <1>1, <1>3, LoopOrder
  <1>5. /\ offsets \in [Dirs -> Seq(0 .. n)] /\ o \in Seq(0 .. n)
    BY <1>1, <1>2 DEF TypeOK
  <1>6. /\ Len(o) = srcIdx + 1
        /\ DOMAIN o = 1 .. srcIdx + 1
        /\ \A v \in 1 .. srcIdx + 1 : o[v] \in Nat /\ o[v] <= edgeIdx
        /\ \A u, v \in 1 .. srcIdx + 1 : u < v => o[u] <= o[v]
        /\ o[1] = 0
        /\ \A k \in 1 .. edgeIdx :
              /\ src(k) \in 0 .. srcIdx
              /\ o[src(k) + 1] < k
              /\ src(k) < srcIdx => k <= o[src(k) + 1 + 1]
        /\ \A k \in edgeIdx + 1 .. n : src(k) >= srcIdx
    <2>1. Len(o) = srcIdx + 1 /\ DOMAIN o = 1 .. srcIdx + 1
      BY <1>1, <1>2, <1>5 DEF OffsetInv
    <2>2. \A v \in 1 .. srcIdx + 1 : o[v] \in Nat
      BY <1>3, <1>5, <2>1
    <2> QED
      BY <1>1, <1>2, <2>1, <2>2 DEF OffsetInv, At
  <1> HIDE DEF n, src
  <1>7. /\ offsets'[pc] = Append(o, edgeIdx)
        /\ \A dir \in Dirs : dir # pc => offsets'[dir] = offsets[dir]
        /\ offsets' \in [Dirs -> Seq(0 .. n)]
    <2>1. Append(o, edgeIdx) \in Seq(0 .. n)
      BY <1>3, <1>5
    <2> HIDE DEF o
    <2> QED
      BY <1>1, <1>5, <2>1
  <1> DEFINE o1 == Append(o, edgeIdx)
  <1>8. /\ Len(o1) = srcIdx + 2 /\ DOMAIN o1 = 1 .. srcIdx + 2
        /\ \A v \in 1 .. srcIdx + 1 : o1[v] = o[v]
        /\ o1[srcIdx + 2] = edgeIdx
    <2>1. srcIdx + 1 + 1 = srcIdx + 2
      BY <1>3
    <2> HIDE DEF o
    <2> QED
      BY <1>3, <1>5, <1>6, <2>1
  <1> HIDE DEF o, o1
  <1>9. /\ edgeIdx + 1 \in 1 .. n /\ src(edgeIdx + 1) > srcIdx
        /\ \A k \in edgeIdx + 1 .. n : src(k) >= srcIdx + 1
    <2>1. edgeIdx + 1 \in 1 .. n /\ edgeIdx + 1 \in edgeIdx + 1 .. n
      BY <1>1, <1>3
    <2>2. src(edgeIdx + 1) > srcIdx
      BY <1>1, <1>3, <1>6, <2>1
    <2>3. ASSUME NEW k \in edgeIdx + 1 .. n PROVE src(k) >= srcIdx + 1
      <3>1. k \in 1 .. n /\ (k = edgeIdx + 1 \/ edgeIdx + 1 < k)
        BY <1>3
      <3>2. src(edgeIdx + 1) <= src(k)
        BY <1>3, <1>4, <2>1, <3>1
      <3> QED
        BY <1>3, <2>1, <2>2, <3>1, <3>2
    <2> QED
      BY <2>1, <2>2, <2>3
  <1>10. TypeOK'
    <2>1. srcIdx' \in 0 .. Len(nodeIds')
      BY <1>1, <1>3, <1>9
    <2> QED
      BY <1>1, <1>2, <1>7, <2>1 DEF TypeOK, FinalEdges, Nodes, n
  <1>11. OffsetInv'
    <2>1. ASSUME NEW v \in 1 .. srcIdx + 2 PROVE o1[v] <= edgeIdx
      BY <1>3, <1>6, <1>8
    <2>2. ASSUME NEW u \in 1 .. srcIdx + 2, NEW v \in 1 .. srcIdx + 2, u < v
          PROVE  o1[u] <= o1[v]
      BY <1>3, <1>6, <1>8, <2>2
    <2>3. o1[1] = 0
      BY <1>3, <1>6, <1>8
    <2>4. ASSUME NEW k \in 1 .. edgeIdx
          PROVE  /\ src(k) \in 0 .. srcIdx + 1
                 /\ o1[src(k) + 1] < k
                 /\ src(k) < srcIdx + 1 => k <= o1[src(k) + 1 + 1]
      <3>1. src(k) \in 0 .. srcIdx /\ o[src(k) + 1] < k
            /\ (src(k) < srcIdx => k <= o[src(k) + 1 + 1])
        BY <1>6
      <3>2. src(k) + 1 \in 1 .. srcIdx + 1 /\ o1[src(k) + 1] = o[src(k) + 1]
        BY <1>3, <1>8, <3>1
      <3>3. CASE src(k) = srcIdx
        <4>1. o1[src(k) + 1 + 1] = edgeIdx
          BY <1>3, <1>8, <3>3
        <4> QED
          BY <1>3, <3>1, <3>2, <3>3, <4>1
      <3>4. CASE src(k) < srcIdx
        <4>1. src(k) + 1 + 1 \in 1 .. srcIdx + 1
          BY <1>3, <3>1, <3>4
        <4> QED
          BY <1>3, <1>8, <3>1, <3>2, <3>4, <4>1
      <3> QED
        BY <1>3, <3>1, <3>3, <3>4
    <2>5. /\ pc' = pc /\ pc \in Dirs /\ offsets'[pc'] = o1 /\ edges' = edges /\ edgeIdx' = edgeIdx
          /\ srcIdx' = srcIdx + 1 /\ Len(edges) = n /\ srcIdx' + 1 = srcIdx + 2
      BY <1>1, <1>3, <1>7 DEF o1, n
    <2> QED
      BY <1>8, <1>9, <2>1, <2>2, <2>3, <2>4, <2>5 DEF OffsetInv, At, src
  <1>12. Fresh' /\ ReadInv' /\ NodesInv' /\ LocatedInv' /\ DedupeInv' /\ FailsForAReason'
    <2>1. pc = "FWD" => offsets'["BWD"] = offsets["BWD"]
      BY <1>7 DEF Dirs
    <2> QED
      BY <1>1, <1>2, <2>1 DEF Fresh, ReadInv, NodesInv, LocatedInv, DedupeInv, FailsForAReason, Dirs
  <1>13. KeptInv' /\ ForwardInv' /\ BackwardInv'
    <2>1. KeptInv'
      BY <1>1, <1>2 DEF KeptInv, InOrder, NoNeighbours, IsOrigin, IsOf, HasEnds, Represents,
                        ForwardKey, Nodes
    <2>2. ForwardInv'
      BY <1>1, <1>2 DEF ForwardInv, ScEdges, IsShortcut
    <2>3. BackwardInv'
      BY <1>1, <1>2 DEF BackwardInv, FinalEdges, Target, BackwardKey
    <2> QED
      BY <2>1, <2>2, <2>3
  <1>14. GraphInv'
    <2>1. pc = "FWD" \/ pc = "BWD"
      BY <1>1 DEF Dirs
    <2>2. CASE pc = "BWD"
      <3>1. offsets'["FWD"] = offsets["FWD"] /\ EdgesShow /\ NodesShow("FWD")
        BY <1>2, <1>7, <2>2 DEF GraphInv, Dirs
      <3>2. EdgesShow' /\ NodesShow("FWD")'
        BY <1>1, <3>1, ShownUnchanged
      <3> QED
        BY <1>1, <2>2, <3>2 DEF GraphInv
    <2> QED
      BY <1>1, <2>1, <2>2 DEF GraphInv
  <1> QED
    BY <1>10, <1>11, <1>12, <1>13, <1>14 DEF BuildingInv

\* A step that only numbers edges keeps them.
LEMMA KeptUnchanged ==
    ASSUME KeptInv, pc = "FWD", UNCHANGED <<pc, file, nodeIds, level>>, NEW n \in Nat,
           Len(edges) = n, DOMAIN edges = 1 .. n, Len(edges') = n, DOMAIN edges' = 1 .. n,
           \A k \in 1 .. n :
              /\ edges'[k].id = edges[k].id /\ edges'[k].metric = edges[k].metric
              /\ edges'[k].src = edges[k].src /\ edges'[k].dst = edges[k].dst
              /\ edges'[k].halves = edges[k].halves
    PROVE  KeptInv'
  <1>1. \A k \in 1 .. n : edges'[k].src \in Nodes /\ edges'[k].dst \in Nodes
    BY DEF KeptInv
  <1>2. InOrder(DOMAIN edges)'
    BY DEF KeptInv, InOrder, ForwardKey
  <1>3. NoNeighbours(Len(edges))'
    <2>1. \A k \in 1 .. n - 1 : ~IsDuplicate(edges[k], edges[k + 1])
      BY DEF KeptInv, NoNeighbours
    <2>2. \A k \in 1 .. n - 1 : k \in 1 .. n /\ k + 1 \in 1 .. n
      OBVIOUS
    <2>3. \A k \in 1 .. n - 1 : ~IsDuplicate(edges'[k], edges'[k + 1])
      BY <2>1, <2>2 DEF IsDuplicate
    <2> QED
      BY <2>3 DEF NoNeighbours, IsDuplicate, Close
  <1>4. Indices(edges) = 0 .. n - 1 /\ Indices(edges)' = 0 .. n - 1
    BY DEF Indices
  <1>5. \A h \in 0 .. n - 1 : h + 1 \in 1 .. n
    OBVIOUS
  <1>6. ASSUME NEW k \in 1 .. n
        PROVE  (\E i \in DOMAIN file.edges : IsOrigin(file.edges[i], edges[k]))'
    <2>1. PICK i \in DOMAIN file.edges : IsOrigin(file.edges[i], edges[k])
      BY DEF KeptInv
    <2> DEFINE f == file.edges[i]
    <2>2. /\ IsOf(edges[k], f) /\ Len(edges[k].halves) = Len(f.halves)
          /\ \A j \in DOMAIN f.halves :
                /\ edges[k].halves[j] \in 0 .. n - 1
                /\ f.halves[j] \in Indices(file.edges)
                /\ Represents(edges[edges[k].halves[j] + 1], At(file.edges, f.halves[j]))
      BY <1>4, <2>1 DEF IsOrigin, At
    <2>3. IsOrigin(f, edges[k])'
      <3>1. IsOf(edges[k], f)'
        BY <2>2 DEF IsOf, HasEnds
      <3>2. ASSUME NEW j \in DOMAIN f.halves
            PROVE  /\ edges'[k].halves[j] \in 0 .. n - 1
                   /\ f.halves[j] \in Indices(file.edges)
                   /\ Represents(At(edges, edges[k].halves[j]), At(file.edges, f.halves[j]))'
        <4> DEFINE h == edges[k].halves[j]
        <4>1. /\ h \in 0 .. n - 1 /\ f.halves[j] \in Indices(file.edges)
              /\ Represents(edges[h + 1], At(file.edges, f.halves[j]))
              /\ edges'[k].halves[j] = h
          BY <2>2
        <4> HIDE DEF h
        <4>2. h + 1 \in 1 .. n
          BY <1>5, <4>1
        <4>3. /\ HasEnds(edges'[h + 1], At(file.edges, f.halves[j]))
              /\ Close(edges'[h + 1].metric, At(file.edges, f.halves[j]).metric)
          BY <4>1, <4>2 DEF Represents, HasEnds
        <4> QED
          BY <4>1, <4>3 DEF Represents, HasEnds, At, Close
      <3>3. Len(edges'[k].halves) = Len(f.halves)
        BY <2>2
      <3> QED
        BY <1>4, <3>1, <3>2, <3>3 DEF IsOrigin
    <2> QED
      BY <2>3
  <1>7. ASSUME NEW i \in DOMAIN file.edges
        PROVE  (\E k \in DOMAIN edges : Represents(edges[k], file.edges[i]))'
    <2>1. PICK k \in 1 .. n : Represents(edges[k], file.edges[i])
      BY DEF KeptInv
    <2>2. Represents(edges[k], file.edges[i])'
      BY <2>1 DEF Represents, HasEnds, Close
    <2> QED
      BY <2>2
  <1>8. (\A k \in DOMAIN edges : \E i \in DOMAIN file.edges : IsOrigin(file.edges[i], edges[k]))'
    BY <1>6
  <1>9. (\A i \in DOMAIN file.edges : \E k \in DOMAIN edges : Represents(edges[k], file.edges[i]))'
    BY <1>7
  <1> QED
    BY <1>1, <1>2, <1>3, <1>8, <1>9 DEF KeptInv, Nodes

\* The source of an edge is reached: the edge belongs to the running offset.
LEMMA OffsetsAfterEdge ==
    ASSUME BuildingInv, pc \in Dirs, UNCHANGED <<pc, srcIdx, offsets>>,
           edgeIdx < Len(edges), srcIdx = Source(pc, edges[edgeIdx + 1]),
           edgeIdx' = edgeIdx + 1, Len(edges') = Len(edges), DOMAIN edges' = DOMAIN edges,
           \A k \in DOMAIN edges : edges'[k].src = edges[k].src /\ edges'[k].dst = edges[k].dst
    PROVE  OffsetInv'
  <1> DEFINE n == Len(edges)
             o == offsets[pc]
             src(k) == Source(pc, edges[k])
  <1>1. n \in Nat /\ DOMAIN edges = 1 .. n
    BY LoopTypes
  <1>2. edgeIdx \in Nat /\ srcIdx \in Nat /\ edgeIdx < n /\ srcIdx = src(edgeIdx + 1)
    BY DEF BuildingInv, TypeOK
  <1>3. /\ Len(o) = srcIdx + 1
        /\ DOMAIN o = 1 .. srcIdx + 1
        /\ \A v \in 1 .. srcIdx + 1 : o[v] \in Nat /\ o[v] <= edgeIdx
        /\ \A u, v \in 1 .. srcIdx + 1 : u < v => o[u] <= o[v]
        /\ o[1] = 0
        /\ \A k \in 1 .. edgeIdx :
              /\ src(k) \in 0 .. srcIdx
              /\ o[src(k) + 1] < k
              /\ src(k) < srcIdx => k <= o[src(k) + 1 + 1]
        /\ \A k \in edgeIdx + 1 .. n : src(k) >= srcIdx
    <2>1. o \in Seq(0 .. n)
      BY DEF BuildingInv, TypeOK
    <2>2. OffsetInv
      BY DEF BuildingInv
    <2>3. Len(o) = srcIdx + 1 /\ DOMAIN o = 1 .. srcIdx + 1
      BY <2>1, <2>2 DEF OffsetInv
    <2>4. \A v \in 1 .. srcIdx + 1 : o[v] \in Nat
      BY <1>1, <2>1, <2>3
    <2> QED
      BY <2>2, <2>3, <2>4 DEF OffsetInv, At
  <1>4. \A k \in 1 .. n : Source(pc, edges'[k]) = src(k)
    BY <1>1 DEF Source
  <1> HIDE DEF n, o, src
  <1>5. ASSUME NEW k \in 1 .. edgeIdx + 1
        PROVE  /\ src(k) \in 0 .. srcIdx
               /\ o[src(k) + 1] < k
               /\ src(k) < srcIdx => k <= o[src(k) + 1 + 1]
    <2>1. CASE k = edgeIdx + 1
      <3>1. o[srcIdx + 1] <= edgeIdx /\ o[srcIdx + 1] \in Nat
        BY <1>2, <1>3
      <3> QED
        BY <1>2, <2>1, <3>1
    <2>2. CASE k # edgeIdx + 1
      <3>1. k \in 1 .. edgeIdx
        BY <1>2, <2>2
      <3> QED
        BY <1>3, <3>1
    <2> QED
      BY <2>1, <2>2
  <1>6. \A k \in 1 .. edgeIdx + 1 : k \in 1 .. n
    BY <1>1, <1>2
  <1>7. \A k \in edgeIdx + 1 + 1 .. n : k \in 1 .. n /\ k \in edgeIdx + 1 .. n
    BY <1>1, <1>2
  <1>8. \A v \in 1 .. srcIdx + 1 : o[v] <= edgeIdx + 1
    BY <1>2, <1>3
  <1>9. /\ pc' = pc /\ offsets'[pc'] = o /\ srcIdx' = srcIdx /\ edgeIdx' = edgeIdx + 1
        /\ Len(edges') = n
    BY DEF n, o
  <1>10. \A k \in edgeIdx + 1 + 1 .. n : src(k) >= srcIdx
    BY <1>3, <1>7
  <1>11. \A k \in edgeIdx' + 1 .. Len(edges') : Source(pc', edges'[k]) >= srcIdx'
    BY <1>4, <1>7, <1>9, <1>10
  <1>12. \A k \in 1 .. edgeIdx' :
             /\ Source(pc', edges'[k]) \in 0 .. srcIdx'
             /\ At(offsets'[pc'], Source(pc', edges'[k])) < k
             /\ Source(pc', edges'[k]) < srcIdx' => k <= At(offsets'[pc'], Source(pc', edges'[k]) + 1)
    BY <1>4, <1>5, <1>6, <1>9 DEF At
  <1> QED
    BY <1>3, <1>8, <1>9, <1>11, <1>12 DEF OffsetInv

LEMMA PushForwardEdgeBuilding ==
    ASSUME BuildingInv, PushForwardEdge
    PROVE  BuildingInv'
  <1> DEFINE n == Len(edges)
             e == edges[edgeIdx + 1]
  <1>1. /\ pc = "FWD" /\ pc' = "FWD"
        /\ edgeIdx < n
        /\ srcIdx = Source(pc, e)
        /\ edgeIdx' = edgeIdx + 1
        /\ edges' = [edges EXCEPT ![edgeIdx + 1].idx = edgeIdx]
        /\ dsts' = [FWD |-> Append(dsts["FWD"], e.dst), BWD |-> Append(dsts["BWD"], e.src)]
        /\ toFwd' = [toFwd EXCEPT !["FWD"] = Append(@, edgeIdx)]
        /\ idToIdx' = (IF e.id = None THEN idToIdx ELSE Append(idToIdx, <<e.id, edgeIdx>>))
        /\ UNCHANGED <<file, read, nodeIds, located, level, w, r, removed, metrics, scOffsets,
                       scEdges, srcIdx, offsets>>
    BY DEF PushForwardEdge, At, builderVars, dedupeVars, storeVars
  <1>2. TypeOK /\ Fresh /\ ReadInv /\ NodesInv /\ KeptInv /\ ForwardInv
    BY DEF BuildingInv
  <1>3. /\ n \in Nat /\ DOMAIN edges = 1 .. n /\ Len(metrics) = n /\ FinalEdges = 0 .. n - 1
        /\ \A k \in 1 .. n : edges[k] \in ProtoEdges
        /\ \A k \in 1 .. n : edges[k].src \in Nodes /\ edges[k].dst \in Nodes
    BY <1>1, LoopTypes DEF Dirs
  <1>4. edgeIdx \in Nat /\ edgeIdx + 1 \in 1 .. n /\ edgeIdx \in FinalEdges
    <2>1. edgeIdx \in Nat
      BY <1>2 DEF TypeOK
    <2> QED
      BY <1>1, <1>3, <2>1
  <1>5. /\ edges' \in Seq(ProtoEdges) /\ Len(edges') = n /\ DOMAIN edges' = 1 .. n
        /\ edges'[edgeIdx + 1].idx = edgeIdx
        /\ \A k \in 1 .. edgeIdx : edges'[k].idx = edges[k].idx
    <2> HIDE DEF n, e
    <2>1. edges \in [1 .. n -> ProtoEdges]
      BY <1>2, <1>3 DEF TypeOK, n
    <2>2. [edges[edgeIdx + 1] EXCEPT !.idx = edgeIdx] \in ProtoEdges
      BY <1>3, <1>4 DEF ProtoEdges
    <2>3. edges' \in [1 .. n -> ProtoEdges]
      BY <1>1, <2>1, <2>2
    <2>4. edges' \in Seq(ProtoEdges) /\ Len(edges') = n /\ DOMAIN edges' = 1 .. n
      BY <1>3, <2>3
    <2>5. edges'[edgeIdx + 1] = [edges[edgeIdx + 1] EXCEPT !.idx = edgeIdx]
      BY <1>1, <1>4, <2>1
    <2>6. edges'[edgeIdx + 1].idx = edgeIdx
      BY <1>3, <1>4, <2>5 DEF ProtoEdges
    <2>7. \A k \in 1 .. edgeIdx : k \in 1 .. n /\ k # edgeIdx + 1
      BY <1>3, <1>4
    <2>8. \A k \in 1 .. edgeIdx : edges'[k] = edges[k]
      BY <1>1, <2>1, <2>7
    <2> QED
      BY <2>4, <2>6, <2>8
  <1>6. ASSUME NEW k \in 1 .. n
        PROVE  /\ edges'[k].id = edges[k].id /\ edges'[k].metric = edges[k].metric
               /\ edges'[k].src = edges[k].src /\ edges'[k].dst = edges[k].dst
               /\ edges'[k].halves = edges[k].halves
    <2> HIDE DEF n, e
    <2>1. edges \in [1 .. n -> ProtoEdges]
      BY <1>2, <1>3 DEF TypeOK, n
    <2>2. CASE k = edgeIdx + 1
      <3>1. edges'[k] = [edges[k] EXCEPT !.idx = edgeIdx]
        BY <1>1, <1>4, <2>1, <2>2
      <3> QED
        BY <1>3, <3>1 DEF ProtoEdges
    <2>3. CASE k # edgeIdx + 1
      <3>1. edges'[k] = edges[k]
        BY <1>1, <2>1, <2>3
      <3> QED
        BY <3>1
    <2> QED
      BY <2>2, <2>3
  <1>7. e.id \in Nat \cup {None} /\ e.src \in Nodes /\ e.dst \in Nodes
    <2>1. e \in ProtoEdges
      BY <1>3, <1>4
    <2> QED
      BY <1>3, <1>4, <2>1 DEF ProtoEdges
  <1> HIDE DEF n, e
  <1>8. KeptInv'
    <2>1. Len(edges) = n
      BY DEF n
    <2> QED
      BY <1>1, <1>2, <1>3, <1>5, <1>6, <2>1, KeptUnchanged
  <1>9. OffsetInv'
    <2>1. /\ pc \in Dirs /\ edgeIdx < Len(edges) /\ srcIdx = Source(pc, edges[edgeIdx + 1])
          /\ Len(edges') = Len(edges) /\ DOMAIN edges' = DOMAIN edges
      BY <1>1, <1>3, <1>5 DEF n, e, Dirs
    <2> QED
      BY <1>1, <1>3, <1>6, <2>1, OffsetsAfterEdge
  <1>10. /\ dsts \in [Dirs -> Seq(Nodes)] /\ toFwd \in [Dirs -> Seq(FinalEdges)]
         /\ idToIdx \in Seq(Nat \X FinalEdges)
         /\ dsts["FWD"] \in Seq(Nodes) /\ dsts["BWD"] \in Seq(Nodes)
         /\ toFwd["FWD"] \in Seq(FinalEdges)
    BY <1>2 DEF TypeOK, Dirs
  <1>11. /\ dsts' \in [Dirs -> Seq(Nodes)]
         /\ Len(dsts'["FWD"]) = Len(dsts["FWD"]) + 1
         /\ Len(dsts'["BWD"]) = Len(dsts["BWD"]) + 1
         /\ \A k \in 1 .. Len(dsts["FWD"]) : dsts'["FWD"][k] = dsts["FWD"][k]
         /\ \A k \in 1 .. Len(dsts["BWD"]) : dsts'["BWD"][k] = dsts["BWD"][k]
         /\ dsts'["FWD"][Len(dsts["FWD"]) + 1] = e.dst
         /\ dsts'["BWD"][Len(dsts["BWD"]) + 1] = e.src
    <2>1. dsts'["FWD"] = Append(dsts["FWD"], e.dst) /\ dsts'["BWD"] = Append(dsts["BWD"], e.src)
      BY <1>1
    <2>2. dsts' = [dir \in Dirs |-> dsts'[dir]]
      BY <1>1 DEF Dirs
    <2>3. Append(dsts["FWD"], e.dst) \in Seq(Nodes) /\ Append(dsts["BWD"], e.src) \in Seq(Nodes)
      BY <1>7, <1>10
    <2>4. dsts' \in [Dirs -> Seq(Nodes)]
      BY <2>1, <2>2, <2>3 DEF Dirs
    <2> QED
      BY <1>7, <1>10, <2>1, <2>4
  <1>12. /\ toFwd' \in [Dirs -> Seq(FinalEdges)]
         /\ toFwd'["BWD"] = toFwd["BWD"]
         /\ Len(toFwd'["FWD"]) = Len(toFwd["FWD"]) + 1
         /\ \A k \in 1 .. Len(toFwd["FWD"]) : toFwd'["FWD"][k] = toFwd["FWD"][k]
         /\ toFwd'["FWD"][Len(toFwd["FWD"]) + 1] = edgeIdx
    <2>1. Append(toFwd["FWD"], edgeIdx) \in Seq(FinalEdges)
      BY <1>4, <1>10
    <2>2. toFwd'["FWD"] = Append(toFwd["FWD"], edgeIdx) /\ toFwd'["BWD"] = toFwd["BWD"]
      BY <1>1, <1>10 DEF Dirs
    <2>3. toFwd' \in [Dirs -> Seq(FinalEdges)]
      BY <1>1, <1>10, <2>1 DEF Dirs
    <2> QED
      BY <1>4, <1>10, <2>2, <2>3
  <1>13. idToIdx' \in Seq(Nat \X FinalEdges)
    <2>1. CASE e.id = None
      BY <1>1, <1>10, <2>1
    <2>2. CASE e.id # None
      <3>1. <<e.id, edgeIdx>> \in Nat \X FinalEdges
        BY <1>4, <1>7, <2>2
      <3> QED
        BY <1>1, <1>10, <2>2, <3>1
    <2> QED
      BY <2>1, <2>2
  <1>14. FinalEdges' = FinalEdges /\ Nodes' = Nodes /\ Len(edges') = Len(edges)
    BY <1>1, <1>5 DEF FinalEdges, Nodes, n
  <1>15. TypeOK'
    <2>1. edgeIdx' \in 0 .. Len(edges')
      BY <1>1, <1>4, <1>5
    <2> QED
      BY <1>1, <1>2, <1>5, <1>11, <1>12, <1>13, <1>14, <2>1 DEF TypeOK
  <1>16. Fresh' /\ ReadInv' /\ NodesInv' /\ LocatedInv' /\ DedupeInv' /\ BackwardInv' /\ GraphInv'
         /\ FailsForAReason'
    BY <1>1, <1>2, <1>12 DEF Fresh, ReadInv, NodesInv, LocatedInv, DedupeInv, BackwardInv,
                             GraphInv, FailsForAReason
  <1>17. ForwardInv'
    <2>1. /\ Len(metrics) = n
          /\ \A k \in 1 .. n : metrics[k] = Stored(edges[k].metric)
          /\ \A k \in 1 .. n : ScEdges(k - 1) = edges[k].halves
          /\ Len(dsts["FWD"]) = edgeIdx /\ Len(dsts["BWD"]) = edgeIdx
          /\ Len(toFwd["FWD"]) = edgeIdx
          /\ \A k \in 1 .. edgeIdx : /\ edges[k].idx = k - 1
                                     /\ dsts["FWD"][k] = edges[k].dst
                                     /\ dsts["BWD"][k] = edges[k].src
                                     /\ toFwd["FWD"][k] = k - 1
      BY <1>1, <1>2, <1>3 DEF ForwardInv, n
    <2>2. /\ \A a \in DOMAIN idToIdx : /\ idToIdx[a][2] \in 0 .. edgeIdx - 1
                                       /\ idToIdx[a][1] = At(edges, idToIdx[a][2]).id
          /\ \A a, b \in DOMAIN idToIdx : a < b => idToIdx[a][2] < idToIdx[b][2]
          /\ \A k \in 1 .. edgeIdx : edges[k].id # None =>
                \E a \in DOMAIN idToIdx : idToIdx[a][2] = k - 1
      BY <1>1, <1>2 DEF ForwardInv
    <2>3. (\A k \in DOMAIN edges : metrics[k] = Stored(edges[k].metric))'
      BY <1>1, <1>5, <1>6, <2>1 DEF Stored, Close
    <2>4. (\A k \in DOMAIN edges : ScEdges(k - 1) = edges[k].halves)'
      BY <1>1, <1>5, <1>6, <2>1 DEF ScEdges, IsShortcut
    <2>5. ASSUME NEW k \in 1 .. edgeIdx + 1
          PROVE  /\ edges'[k].idx = k - 1
                 /\ dsts'["FWD"][k] = edges'[k].dst
                 /\ dsts'["BWD"][k] = edges'[k].src
                 /\ toFwd'["FWD"][k] = k - 1
      <3>1. CASE k = edgeIdx + 1
        <4>1. edges[k] = e /\ k \in 1 .. n /\ k - 1 = edgeIdx
          BY <1>4, <3>1 DEF e
        <4> QED
          BY <1>5, <1>6, <1>11, <1>12, <2>1, <3>1, <4>1
      <3>2. CASE k # edgeIdx + 1
        <4>1. k \in 1 .. edgeIdx /\ k \in 1 .. n
          BY <1>3, <1>4, <3>2
        <4> QED
          BY <1>5, <1>6, <1>11, <1>12, <2>1, <4>1
      <3> QED
        BY <3>1, <3>2
    <2>6. /\ \A a \in DOMAIN idToIdx' : /\ idToIdx'[a][2] \in 0 .. edgeIdx
                                        /\ idToIdx'[a][1] = At(edges', idToIdx'[a][2]).id
          /\ \A a, b \in DOMAIN idToIdx' : a < b => idToIdx'[a][2] < idToIdx'[b][2]
          /\ \A k \in 1 .. edgeIdx + 1 : edges'[k].id # None =>
                \E a \in DOMAIN idToIdx' : idToIdx'[a][2] = k - 1
      <3>1. \A a \in DOMAIN idToIdx : idToIdx[a][1] = At(edges', idToIdx[a][2]).id
        <4> SUFFICES ASSUME NEW a \in DOMAIN idToIdx
                     PROVE  idToIdx[a][1] = At(edges', idToIdx[a][2]).id
          OBVIOUS
        <4>1. idToIdx[a][2] + 1 \in 1 .. n
          BY <1>3, <1>4, <2>2
        <4> QED
          BY <1>6, <2>2, <4>1 DEF At
      <3>2. edges'[edgeIdx + 1].id = e.id
        BY <1>4, <1>6 DEF e
      <3>3. \A k \in 1 .. edgeIdx : edges'[k].id = edges[k].id
        <4>1. \A k \in 1 .. edgeIdx : k \in 1 .. n
          BY <1>3, <1>4
        <4> QED
          BY <1>6, <4>1
      <3>4. CASE e.id = None
        <4>1. idToIdx' = idToIdx
          BY <1>1, <3>4
        <4>2. \A k \in 1 .. edgeIdx + 1 : edges'[k].id # None => k \in 1 .. edgeIdx
          BY <1>4, <3>2, <3>4
        <4> QED
          BY <1>4, <2>2, <3>1, <3>3, <4>1, <4>2
      <3>5. CASE e.id # None
        <4> DEFINE m == Len(idToIdx)
        <4>1. /\ m \in Nat /\ DOMAIN idToIdx = 1 .. m
              /\ DOMAIN idToIdx' = 1 .. m + 1
              /\ \A a \in 1 .. m : idToIdx'[a] = idToIdx[a]
              /\ idToIdx'[m + 1] = <<e.id, edgeIdx>>
          BY <1>1, <1>10, <3>5
        <4> HIDE DEF m
        <4>2. ASSUME NEW a \in 1 .. m + 1
              PROVE  /\ idToIdx'[a][2] \in 0 .. edgeIdx
                     /\ idToIdx'[a][1] = At(edges', idToIdx'[a][2]).id
          <5>1. CASE a = m + 1
            BY <1>4, <3>2, <4>1, <5>1 DEF At
          <5>2. CASE a \in 1 .. m
            BY <1>4, <2>2, <3>1, <4>1, <5>2
          <5> QED
            BY <4>1, <5>1, <5>2
        <4>3. ASSUME NEW a \in 1 .. m + 1, NEW b \in 1 .. m + 1, a < b
              PROVE  idToIdx'[a][2] < idToIdx'[b][2]
          <5>1. CASE b = m + 1
            <6>1. a \in 1 .. m /\ idToIdx[a][2] \in 0 .. edgeIdx - 1
              BY <2>2, <4>1, <4>3, <5>1
            <6> QED
              BY <1>4, <4>1, <5>1, <6>1
          <5>2. CASE b \in 1 .. m
            <6>1. a \in 1 .. m
              BY <4>1, <4>3, <5>2
            <6> QED
              BY <2>2, <4>1, <4>3, <5>2, <6>1
          <5> QED
            BY <4>1, <5>1, <5>2
        <4>4. ASSUME NEW k \in 1 .. edgeIdx + 1, edges'[k].id # None
              PROVE  \E a \in 1 .. m + 1 : idToIdx'[a][2] = k - 1
          <5>1. CASE k = edgeIdx + 1
            <6>1. m + 1 \in 1 .. m + 1 /\ idToIdx'[m + 1][2] = k - 1
              BY <1>4, <4>1, <5>1
            <6> QED
              BY <6>1
          <5>2. CASE k \in 1 .. edgeIdx
            <6>1. PICK a \in 1 .. m : idToIdx[a][2] = k - 1
              BY <2>2, <3>3, <4>1, <4>4, <5>2
            <6>2. a \in 1 .. m + 1 /\ idToIdx'[a][2] = k - 1
              BY <4>1, <6>1
            <6> QED
              BY <6>2
          <5> QED
            BY <1>4, <5>1, <5>2
        <4> QED
          BY <4>1, <4>2, <4>3, <4>4
      <3> QED
        BY <3>4, <3>5
    <2>7. edgeIdx' = edgeIdx + 1 /\ edgeIdx' - 1 = edgeIdx /\ metrics' = metrics
      BY <1>1, <1>4
    <2>8. /\ Len(metrics') = Len(edges') /\ Len(dsts'["FWD"]) = edgeIdx'
          /\ Len(dsts'["BWD"]) = edgeIdx' /\ Len(toFwd'["FWD"]) = edgeIdx'
      BY <1>5, <1>11, <1>12, <2>1, <2>7
    <2> QED
      BY <2>3, <2>4, <2>5, <2>6, <2>7, <2>8 DEF ForwardInv
  <1> QED
    BY <1>8, <1>9, <1>15, <1>16, <1>17 DEF BuildingInv

LEMMA PushBackwardEdgeBuilding ==
    ASSUME BuildingInv, PushBackwardEdge
    PROVE  BuildingInv'
  <1> DEFINE n == Len(edges)
             idx == edges[edgeIdx + 1].idx
  <1>1. /\ pc = "BWD" /\ pc' = "BWD"
        /\ edgeIdx < n
        /\ srcIdx = Source(pc, edges[edgeIdx + 1])
        /\ edgeIdx' = edgeIdx + 1
        /\ toFwd' = [toFwd EXCEPT !["BWD"] = Append(@, idx)]
        /\ UNCHANGED <<file, read, nodeIds, located, level, edges, w, r, removed, metrics,
                       scOffsets, scEdges, srcIdx, offsets, dsts, idToIdx>>
    BY DEF PushBackwardEdge, MappedEdge, At, builderVars, dedupeVars, storeVars
  <1>2. TypeOK /\ Fresh /\ ReadInv /\ NodesInv /\ BackwardInv /\ GraphInv
    BY DEF BuildingInv
  <1>3. /\ n \in Nat /\ DOMAIN edges = 1 .. n /\ Len(metrics) = n /\ FinalEdges = 0 .. n - 1
    BY <1>1, LoopTypes DEF Dirs
  <1>4. edgeIdx \in Nat /\ edgeIdx + 1 \in 1 .. n /\ idx \in FinalEdges
    <2>1. edgeIdx \in Nat
      BY <1>2 DEF TypeOK
    <2>2. edgeIdx + 1 \in 1 .. n
      BY <1>1, <1>3, <2>1
    <2> QED
      BY <1>1, <1>2, <1>3, <2>1, <2>2 DEF BackwardInv
  <1>5. OffsetInv'
    <2>1. pc \in Dirs
      BY <1>1 DEF Dirs
    <2> QED
      BY <1>1, <2>1, OffsetsAfterEdge
  <1>6. toFwd \in [Dirs -> Seq(FinalEdges)] /\ toFwd["BWD"] \in Seq(FinalEdges)
    BY <1>2 DEF TypeOK, Dirs
  <1> HIDE DEF n, idx
  <1>7. /\ toFwd' \in [Dirs -> Seq(FinalEdges)]
        /\ toFwd'["FWD"] = toFwd["FWD"]
        /\ Len(toFwd'["BWD"]) = Len(toFwd["BWD"]) + 1
        /\ \A k \in 1 .. Len(toFwd["BWD"]) : toFwd'["BWD"][k] = toFwd["BWD"][k]
        /\ toFwd'["BWD"][Len(toFwd["BWD"]) + 1] = idx
    <2>1. Append(toFwd["BWD"], idx) \in Seq(FinalEdges)
      BY <1>4, <1>6
    <2>2. toFwd'["BWD"] = Append(toFwd["BWD"], idx) /\ toFwd'["FWD"] = toFwd["FWD"]
      BY <1>1, <1>6 DEF Dirs
    <2>3. toFwd' \in [Dirs -> Seq(FinalEdges)]
      BY <1>1, <1>6, <2>1 DEF Dirs
    <2> QED
      BY <1>4, <1>6, <2>2, <2>3
  <1>8. TypeOK'
    <2>1. edgeIdx' \in 0 .. Len(edges')
      BY <1>1, <1>3, <1>4 DEF n
    <2>2. FinalEdges' = FinalEdges /\ Nodes' = Nodes
      BY <1>1 DEF FinalEdges, Nodes
    <2> QED
      BY <1>1, <1>2, <1>7, <2>1, <2>2 DEF TypeOK
  <1>9. Fresh' /\ ReadInv' /\ NodesInv' /\ LocatedInv' /\ DedupeInv' /\ KeptInv' /\ ForwardInv'
        /\ FailsForAReason'
    BY <1>1, <1>2 DEF Fresh, ReadInv, NodesInv, LocatedInv, DedupeInv, KeptInv, ForwardInv,
                      FailsForAReason
  <1>10. BackwardInv'
    <2>1. Len(toFwd["BWD"]) = edgeIdx /\ \A k \in 1 .. edgeIdx : toFwd["BWD"][k] = edges[k].idx
      BY <1>1, <1>2 DEF BackwardInv
    <2>2. ASSUME NEW k \in 1 .. edgeIdx + 1 PROVE toFwd'["BWD"][k] = edges[k].idx
      <3>1. CASE k = edgeIdx + 1
        BY <1>7, <2>1, <3>1 DEF idx
      <3>2. CASE k # edgeIdx + 1
        <4>1. k \in 1 .. edgeIdx
          BY <1>4, <3>2
        <4> QED
          BY <1>7, <2>1, <4>1
      <3> QED
        BY <3>1, <3>2
    <2>3. Len(toFwd'["BWD"]) = edgeIdx'
      BY <1>1, <1>7, <2>1
    <2> QED
      BY <1>1, <1>2, <2>2, <2>3 DEF BackwardInv, FinalEdges, Target, BackwardKey
  <1>11. GraphInv'
    <2>1. EdgesShow /\ NodesShow("FWD")
      BY <1>1, <1>2 DEF GraphInv
    <2>2. EdgesShow' /\ NodesShow("FWD")'
      BY <1>1, <1>7, <2>1, ShownUnchanged
    <2> QED
      BY <1>1, <2>2 DEF GraphInv
  <1> QED
    BY <1>5, <1>8, <1>9, <1>10, <1>11 DEF BuildingInv

-----------------------------------------------------------------------------
(* The offsets of a finished loop *)

\* After a loop over n edges that has reached node s, where src[k] is the source of the k-th edge.
IsOffsetArray(o, src, n, s) ==
    /\ o \in Seq(Nat) /\ Len(o) = s + 2
    /\ \A u, v \in 1 .. s + 2 : u < v => o[u] <= o[v]
    /\ o[1] = 0 /\ \A v \in 1 .. s + 2 : o[v] <= n
    /\ \A k \in 1 .. n : src[k] \in 0 .. s /\ o[src[k] + 1] < k /\ k <= o[src[k] + 2]

\* Between the offsets of node v lie exactly the edges with this source.
LEMMA BetweenOffsets ==
    ASSUME NEW n \in Nat, NEW s \in Nat, NEW src, NEW o, IsOffsetArray(o, src, n, s),
           NEW v \in 0 .. s
    PROVE  /\ o[v + 1] \in 0 .. n /\ o[v + 2] \in 0 .. n /\ o[v + 1] <= o[v + 2]
           /\ \A k \in 1 .. n : src[k] = v <=> k \in o[v + 1] + 1 .. o[v + 2]
  <1>1. /\ v + 1 \in 1 .. s + 2 /\ v + 2 \in 1 .. s + 2 /\ v + 1 < v + 2
    OBVIOUS
  <1>2. \A u \in 1 .. s + 2 : o[u] \in Nat /\ o[u] <= n
    BY DEF IsOffsetArray
  <1>3. o[v + 1] <= o[v + 2]
    BY <1>1 DEF IsOffsetArray
  <1>4. ASSUME NEW k \in 1 .. n
        PROVE  src[k] = v <=> k \in o[v + 1] + 1 .. o[v + 2]
    <2> DEFINE u == src[k]
    <2>1. u \in 0 .. s /\ o[u + 1] < k /\ k <= o[u + 2]
      BY DEF IsOffsetArray
    <2> HIDE DEF u
    <2>2. u + 1 \in 1 .. s + 2 /\ u + 2 \in 1 .. s + 2
      BY <2>1
    <2>3. CASE u = v
      BY <1>1, <1>2, <2>1, <2>3 DEF u
    <2>4. CASE u < v
      <3>1. u + 2 = v + 1 \/ u + 2 < v + 1
        BY <2>1, <2>4
      <3>2. o[u + 2] <= o[v + 1]
        BY <1>1, <1>2, <2>2, <3>1 DEF IsOffsetArray
      <3>3. k \notin o[v + 1] + 1 .. o[v + 2]
        BY <1>1, <1>2, <2>1, <2>2, <3>2
      <3> QED
        BY <2>4, <3>3, <2>1 DEF u
    <2>5. CASE v < u
      <3>1. v + 2 = u + 1 \/ v + 2 < u + 1
        BY <2>1, <2>5
      <3>2. o[v + 2] <= o[u + 1]
        BY <1>1, <1>2, <2>2, <3>1 DEF IsOffsetArray
      <3>3. k \notin o[v + 1] + 1 .. o[v + 2]
        BY <1>1, <1>2, <2>1, <2>2, <3>2
      <3> QED
        BY <2>5, <3>3, <2>1 DEF u
    <2> QED
      BY <2>1, <2>3, <2>4, <2>5
  <1> QED
    BY <1>1, <1>2, <1>3, <1>4

\* map is the edge at each position of the loop, of which every edge has one.
IsNumbering(map, n) ==
    /\ map \in Seq(0 .. n - 1) /\ Len(map) = n
    /\ \A k, l \in 1 .. n : map[k] = map[l] => k = l
    /\ \A e \in 0 .. n - 1 : \E k \in 1 .. n : map[k] = e

ShowsItsOwn(o, src, n, s, map, srcOf, v) ==
    LET leaving == SubSeq(map, o[v + 1] + 1, o[v + 2])
        own == {e \in 0 .. n - 1 : srcOf[e + 1] = v}
    IN  IF v <= s
        THEN /\ ToSet(leaving) = own
             /\ Len(leaving) = Cardinality(own)
             /\ \A i \in 2 .. Len(leaving) : \E k \in 1 .. n - 1 :
                   /\ leaving[i - 1] = map[k] /\ leaving[i] = map[k + 1]
                   /\ src[k] = v /\ src[k + 1] = v
        ELSE own = {}

\* Hence the accessor of a node shows its own edges, each once, in the loop's order.
LEMMA OwnEdges ==
    ASSUME NEW n \in Nat, NEW s \in Nat, NEW src, NEW o, IsOffsetArray(o, src, n, s),
           NEW map, IsNumbering(map, n),
           NEW srcOf, \A k \in 1 .. n : srcOf[map[k] + 1] = src[k],
           NEW v \in Nat
    PROVE  ShowsItsOwn(o, src, n, s, map, srcOf, v)
  <1> DEFINE a == o[v + 1]
             b == o[v + 2]
             leaving == SubSeq(map, a + 1, b)
             own == {e \in 0 .. n - 1 : srcOf[e + 1] = v}
  <1>1. ASSUME ~(v <= s) PROVE own = {}
    <2> SUFFICES ASSUME NEW e \in 0 .. n - 1, srcOf[e + 1] = v PROVE FALSE
      OBVIOUS
    <2>1. PICK k \in 1 .. n : map[k] = e
      BY DEF IsNumbering
    <2>2. src[k] = v /\ src[k] \in 0 .. s
      BY <2>1 DEF IsOffsetArray
    <2> QED
      BY <1>1, <2>2
  <1>2. ASSUME v <= s
        PROVE  /\ ToSet(leaving) = own
               /\ Len(leaving) = Cardinality(own)
               /\ \A i \in 2 .. Len(leaving) : \E k \in 1 .. n - 1 :
                     /\ leaving[i - 1] = map[k] /\ leaving[i] = map[k + 1]
                     /\ src[k] = v /\ src[k + 1] = v
    <2>1. /\ a \in 0 .. n /\ b \in 0 .. n /\ a <= b
          /\ \A k \in 1 .. n : src[k] = v <=> k \in a + 1 .. b
      <3>1. v \in 0 .. s
        BY <1>2
      <3> QED
        BY <3>1, BetweenOffsets
    <2>2. map \in Seq(0 .. n - 1) /\ Len(map) = n /\ DOMAIN map = 1 .. n
      BY DEF IsNumbering
    <2> HIDE DEF a, b
    <2>3. /\ Len(leaving) = b - a
          /\ DOMAIN leaving = 1 .. b - a
          /\ \A i \in 1 .. b - a : a + i \in a + 1 .. b /\ a + i \in 1 .. n
          /\ \A i \in 1 .. b - a : leaving[i] = map[a + i]
          /\ leaving = [i \in 1 .. b - a |-> map[a + i]]
      <3>1. leaving = [i \in 1 .. b - a |-> map[a + i]]
        <4>1. b - (a + 1) + 1 = b - a /\ \A i \in 1 .. b - a : i + (a + 1) - 1 = a + i
          BY <2>1
        <4> QED
          BY <2>1, <2>2, <4>1
      <3> HIDE DEF leaving
      <3> QED
        BY <2>1, <3>1
    <2> HIDE DEF leaving
    <2>4. \A k \in a + 1 .. b : k \in 1 .. n /\ k - a \in 1 .. b - a /\ a + (k - a) = k
      BY <2>1
    <2>5. \A e \in 0 .. n - 1 : e \in own <=> \E k \in a + 1 .. b : map[k] = e
      <3> SUFFICES ASSUME NEW e \in 0 .. n - 1
                   PROVE  srcOf[e + 1] = v <=> \E k \in a + 1 .. b : map[k] = e
        OBVIOUS
      <3>1. PICK k \in 1 .. n : map[k] = e
        BY DEF IsNumbering
      <3>2. srcOf[e + 1] = src[k]
        BY <3>1
      <3>3. \A l \in a + 1 .. b : map[l] = e => l = k
        BY <2>4, <3>1 DEF IsNumbering
      <3> QED
        BY <2>1, <3>1, <3>2, <3>3
    <2>6. ToSet(leaving) = own
      <3>1. ASSUME NEW e \in ToSet(leaving) PROVE e \in own
        <4>1. PICK i \in 1 .. b - a : leaving[i] = e
          BY <2>3 DEF ToSet
        <4>2. map[a + i] = e /\ a + i \in a + 1 .. b /\ e \in 0 .. n - 1
          BY <2>2, <2>3, <4>1
        <4> QED
          BY <2>5, <4>2
      <3>2. ASSUME NEW e \in own PROVE e \in ToSet(leaving)
        <4>1. PICK k \in a + 1 .. b : map[k] = e
          BY <2>5
        <4>2. k - a \in 1 .. b - a /\ leaving[k - a] = e
          BY <2>3, <2>4, <4>1
        <4> QED
          BY <2>3, <4>2 DEF ToSet
      <3> QED
        BY <3>1, <3>2
    <2>7. Len(leaving) = Cardinality(own)
      <3>1. IsFiniteSet(1 .. b - a) /\ Cardinality(1 .. b - a) = b - a
        <4>1. 1 \in Int /\ b - a \in Int /\ b - a >= 0 /\ (1 > b - a <=> b - a = 0)
              /\ b - a - 1 + 1 = b - a
          BY <2>1
        <4> QED
          BY <4>1, FS_Interval
      <3>2. leaving \in [1 .. b - a -> own]
        <4>1. \A i \in 1 .. b - a : map[a + i] \in own
          BY <2>3, <2>6 DEF ToSet
        <4> QED
          BY <2>3, <4>1
      <3>3. \A i, j \in 1 .. b - a : leaving[i] = leaving[j] => i = j
        <4> SUFFICES ASSUME NEW i \in 1 .. b - a, NEW j \in 1 .. b - a, leaving[i] = leaving[j]
                     PROVE  i = j
          OBVIOUS
        <4>1. a + i = a + j
          BY <2>3 DEF IsNumbering
        <4> QED
          BY <2>1, <4>1
      <3>4. \A e \in own : \E i \in 1 .. b - a : leaving[i] = e
        BY <2>3, <2>6 DEF ToSet
      <3>5. ExistsBijection(1 .. b - a, own)
        <4>1. leaving \in Bijection(1 .. b - a, own)
          BY <3>2, <3>3, <3>4 DEF Bijection, Injection, Surjection, IsInjective
        <4> QED
          BY <4>1 DEF ExistsBijection
      <3> HIDE DEF own
      <3>6. Cardinality(own) = Cardinality(1 .. b - a)
        BY <3>1, <3>5, FS_Bijection
      <3> QED
        BY <2>3, <3>1, <3>6
    <2>8. ASSUME NEW i \in 2 .. Len(leaving)
          PROVE  \E k \in 1 .. n - 1 :
                     /\ leaving[i - 1] = map[k] /\ leaving[i] = map[k + 1]
                     /\ src[k] = v /\ src[k + 1] = v
      <3> DEFINE k == a + (i - 1)
      <3>1. /\ i - 1 \in 1 .. b - a /\ i \in 1 .. b - a /\ a + i = k + 1
        BY <2>1, <2>3
      <3>2. /\ leaving[i - 1] = map[k] /\ leaving[i] = map[a + i]
            /\ k \in a + 1 .. b /\ a + i \in a + 1 .. b /\ k \in 1 .. n /\ a + i \in 1 .. n
        BY <2>3, <3>1
      <3> HIDE DEF k
      <3>3. k \in 1 .. n - 1
        BY <3>1, <3>2
      <3> QED
        BY <2>1, <3>1, <3>2, <3>3
    <2> QED
      BY <2>6, <2>7, <2>8
  <1> QED
    BY <1>1, <1>2 DEF ShowsItsOwn

-----------------------------------------------------------------------------
(* The ends of the offset-loops *)

\* With its last entry, the offset-array of a loop divides the edges among their sources.
LEMMA LastOffset ==
    ASSUME BuildingInv, pc \in Dirs, edgeIdx = Len(edges)
    PROVE  /\ srcIdx \in Nat
           /\ IsOffsetArray(Append(offsets[pc], edgeIdx),
                            [k \in 1 .. Len(edges) |-> Source(pc, edges[k])],
                            Len(edges), srcIdx)
  <1> DEFINE n == Len(edges)
             s == srcIdx
             o == offsets[pc]
             all == Append(o, n)
             src == [k \in 1 .. n |-> Source(pc, edges[k])]
  <1>1. n \in Nat /\ s \in Nat /\ o \in Seq(0 .. n) /\ DOMAIN edges = 1 .. n
    BY LoopTypes DEF BuildingInv, TypeOK
  <1>2. /\ Len(o) = s + 1
        /\ \A v \in DOMAIN o : o[v] <= n
        /\ \A u, v \in DOMAIN o : u < v => o[u] <= o[v]
        /\ o[1] = 0
        /\ \A k \in 1 .. n : /\ src[k] \in 0 .. s
                             /\ o[src[k] + 1] < k
                             /\ src[k] < s => k <= o[src[k] + 1 + 1]
    BY DEF BuildingInv, OffsetInv, At
  <1> HIDE DEF n, s, o, src
  <1>3. DOMAIN o = 1 .. s + 1 /\ o \in Seq(Nat)
    <2>1. o \in Seq(Nat)
      BY <1>1
    <2> QED
      BY <1>1, <1>2, <2>1
  <1>4. /\ all \in Seq(Nat) /\ Len(all) = s + 2
        /\ \A v \in 1 .. s + 1 : all[v] = o[v] /\ all[v] \in Nat
        /\ all[s + 2] = n
    BY <1>1, <1>2, <1>3
  <1> HIDE DEF all
  <1>5. \A u, v \in 1 .. s + 2 : u < v => all[u] <= all[v]
    <2> SUFFICES ASSUME NEW u \in 1 .. s + 2, NEW v \in 1 .. s + 2, u < v
                 PROVE  all[u] <= all[v]
      OBVIOUS
    <2>1. u \in 1 .. s + 1 /\ (v \in 1 .. s + 1 \/ v = s + 2)
      BY <1>1
    <2> QED
      BY <1>2, <1>3, <1>4, <2>1
  <1>6. all[1] = 0 /\ \A v \in 1 .. s + 2 : all[v] <= n
    <2>1. \A v \in 1 .. s + 2 : v \in 1 .. s + 1 \/ v = s + 2
      BY <1>1
    <2>2. 1 \in 1 .. s + 1
      BY <1>1
    <2> QED
      BY <1>1, <1>2, <1>3, <1>4, <2>1, <2>2
  <1>7. ASSUME NEW k \in 1 .. n
        PROVE  src[k] \in 0 .. s /\ all[src[k] + 1] < k /\ k <= all[src[k] + 2]
    <2> DEFINE v == src[k]
    <2>1. v \in 0 .. s /\ o[v + 1] < k /\ (v < s => k <= o[v + 1 + 1])
      BY <1>2
    <2> HIDE DEF v
    <2>2. all[v + 1] < k
      <3>1. v + 1 \in 1 .. s + 1
        BY <1>1, <2>1
      <3> QED
        BY <1>4, <2>1, <3>1
    <2>3. k <= all[v + 2]
      <3>1. v + 1 + 1 = v + 2 /\ (v + 2 = s + 2 \/ (v < s /\ v + 2 \in 1 .. s + 1))
        BY <1>1, <2>1
      <3>2. CASE v + 2 = s + 2
        BY <1>1, <1>4, <3>2
      <3>3. CASE v < s /\ v + 2 \in 1 .. s + 1
        BY <1>4, <2>1, <3>1, <3>3
      <3> QED
        BY <3>1, <3>2, <3>3
    <2> QED
      BY <2>1, <2>2, <2>3 DEF v
  <1>8. IsOffsetArray(all, src, n, s)
    BY <1>4, <1>5, <1>6, <1>7 DEF IsOffsetArray
  <1> QED
    BY <1>1, <1>8 DEF n, s, o, all, src

\* The map of a loop numbers the edges of the graph, with the ends of the loop's edges.
LEMMA LoopNumbering ==
    ASSUME BuildingInv, pc \in Dirs, edgeIdx = Len(edges)
    PROVE  /\ IsNumbering(toFwd[pc], Len(edges))
           /\ \A k \in 1 .. Len(edges) :
                 /\ toFwd[pc][k] \in FinalEdges
                 /\ Target(Opp(pc), toFwd[pc][k]) = Source(pc, edges[k])
                 /\ Target(pc, toFwd[pc][k]) = Destination(pc, edges[k])
  <1> DEFINE n == Len(edges)
             map == toFwd[pc]
  <1>1. /\ n \in Nat /\ FinalEdges = 0 .. n - 1 /\ DOMAIN edges = 1 .. n
        /\ edgeIdx = n /\ map \in Seq(0 .. n - 1)
    BY LoopTypes DEF BuildingInv, TypeOK
  <1>2. CASE pc = "FWD"
    <2>1. /\ Len(map) = n
          /\ \A k \in 1 .. n : /\ map[k] = k - 1
                               /\ dsts["FWD"][k] = edges[k].dst
                               /\ dsts["BWD"][k] = edges[k].src
      BY <1>1, <1>2 DEF BuildingInv, ForwardInv
    <2> HIDE DEF n, map
    <2>2. /\ \A k \in 1 .. n : map[k] + 1 = k
          /\ \A e \in 0 .. n - 1 : e + 1 \in 1 .. n /\ map[e + 1] = e
      BY <1>1, <2>1
    <2>3. \A k, l \in 1 .. n : map[k] = map[l] => k = l
      BY <1>1, <2>1
    <2>4. \A k \in 1 .. n : /\ Target("BWD", map[k]) = Source("FWD", edges[k])
                            /\ Target("FWD", map[k]) = Destination("FWD", edges[k])
      BY <2>1, <2>2 DEF Target, At, Source, Destination
    <2>5. IsNumbering(map, n)
      BY <1>1, <2>1, <2>2, <2>3 DEF IsNumbering
    <2>6. \A k \in 1 .. n : map[k] \in FinalEdges
      BY <1>1, <2>1
    <2> QED
      BY <1>2, <2>4, <2>5, <2>6 DEF n, map, Opp
  <1>3. CASE pc = "BWD"
    <2>1. /\ Len(map) = n
          /\ \A k \in 1 .. n : /\ map[k] = edges[k].idx
                               /\ edges[k].idx \in FinalEdges
                               /\ Target("FWD", edges[k].idx) = edges[k].dst
                               /\ Target("BWD", edges[k].idx) = edges[k].src
          /\ \A k, l \in 1 .. n : edges[k].idx = edges[l].idx => k = l
          /\ \A e \in FinalEdges : \E k \in 1 .. n : edges[k].idx = e
      BY <1>1, <1>3 DEF BuildingInv, BackwardInv
    <2> HIDE DEF n, map
    <2>2. \A k, l \in 1 .. n : map[k] = map[l] => k = l
      BY <2>1
    <2>3. ASSUME NEW e \in 0 .. n - 1 PROVE \E k \in 1 .. n : map[k] = e
      <3>1. PICK k \in 1 .. n : edges[k].idx = e
        BY <1>1, <2>1
      <3> QED
        BY <2>1, <3>1
    <2>4. IsNumbering(map, n)
      BY <1>1, <2>1, <2>2, <2>3 DEF IsNumbering
    <2>5. \A k \in 1 .. n : /\ Target("FWD", map[k]) = Source("BWD", edges[k])
                            /\ Target("BWD", map[k]) = Destination("BWD", edges[k])
      BY <2>1 DEF Source, Destination
    <2> QED
      BY <1>3, <2>1, <2>4, <2>5 DEF n, map, Opp
  <1> QED
    BY <1>2, <1>3 DEF Dirs

\* So every node shows its own edges, with the levels descending, as soon as its loop ends.
LEMMA EndShowsNodes ==
    ASSUME BuildingInv, pc \in Dirs, edgeIdx = Len(edges), NEW dir, dir = pc,
           UNCHANGED <<nodeIds, level, metrics, toFwd, dsts>>,
           offsets'[dir] = Append(offsets[dir], edgeIdx)
    PROVE  NodesShow(dir)'
  <1> DEFINE n == Len(edges)
             s == srcIdx
             src == [k \in 1 .. n |-> Source(dir, edges[k])]
             o == offsets'[dir]
             map == toFwd[dir]
             srcOf == dsts[Opp(dir)]
  <1>1. n \in Nat /\ s \in Nat /\ IsOffsetArray(o, src, n, s)
    BY LoopTypes, LastOffset
  <1>2. /\ IsNumbering(map, n)
        /\ \A k \in 1 .. n : /\ srcOf[map[k] + 1] = src[k]
                             /\ Target(dir, map[k]) = Destination(dir, edges[k])
    BY LoopNumbering DEF Target, At
  <1>3. /\ FinalEdges = 0 .. n - 1 /\ Nodes = 0 .. Len(nodeIds) - 1 /\ Len(nodeIds) \in Nat
        /\ DOMAIN edges = 1 .. n
    BY LoopTypes
  <1>4. \A k, l \in 1 .. n : k < l /\ src[k] = src[l] =>
            At(level, Destination(dir, edges[k])) >= At(level, Destination(dir, edges[l]))
    BY <1>3, LoopOrder
  <1> HIDE DEF n, s, src, o, map, srcOf
  <1>5. ASSUME NEW v \in Nodes PROVE ShowsOwnEdges(dir, v)' /\ ShowsDescending(dir, v)'
    <2> DEFINE leaving == SubSeq(map, o[v + 1] + 1, o[v + 2])
               own == {e \in 0 .. n - 1 : srcOf[e + 1] = v}
    <2>1. v \in Nat
      BY <1>3
    <2>2. IF v <= s
          THEN /\ ToSet(leaving) = own
               /\ Len(leaving) = Cardinality(own)
               /\ \A i \in 2 .. Len(leaving) : \E k \in 1 .. n - 1 :
                     /\ leaving[i - 1] = map[k] /\ leaving[i] = map[k + 1]
                     /\ src[k] = v /\ src[k + 1] = v
          ELSE own = {}
      <3>1. ShowsItsOwn(o, src, n, s, map, srcOf, v)
        BY <1>1, <1>2, <2>1, OwnEdges
      <3> QED
        BY <3>1 DEF ShowsItsOwn
    <2>3. Covers(dir, v)' <=> v <= s
      <3>1. Len(o) = s + 2
        BY <1>1 DEF IsOffsetArray
      <3>2. Covers(dir, v)' <=> v + 1 \in 0 .. Len(o) - 1
        BY DEF Covers, Indices, o
      <3> QED
        BY <1>1, <2>1, <3>1, <3>2
    <2>4. OffsetIndices(dir, v)' = leaving
      <3>1. v + 1 + 1 = v + 2
        BY <2>1
      <3> QED
        BY <3>1 DEF OffsetIndices, At, o, map
    <2>5. {e \in FinalEdges : Target(Opp(dir), e) = v}' = own
      <3>1. FinalEdges' = 0 .. n - 1
        BY <1>3 DEF FinalEdges
      <3> QED
        BY <3>1 DEF Target, At, srcOf
    <2>6. ShowsOwnEdges(dir, v)'
      <3> HIDE DEF leaving, own
      <3> QED
        BY <2>2, <2>3, <2>4, <2>5 DEF ShowsOwnEdges
    <2>7. ASSUME v <= s, NEW i \in 2 .. Len(leaving)
          PROVE  At(level, Target(dir, leaving[i - 1])) >= At(level, Target(dir, leaving[i]))
      <3>1. PICK k \in 1 .. n - 1 : /\ leaving[i - 1] = map[k] /\ leaving[i] = map[k + 1]
                                    /\ src[k] = v /\ src[k + 1] = v
        BY <2>2, <2>7
      <3>2. k \in 1 .. n /\ k + 1 \in 1 .. n /\ k < k + 1
        BY <1>1
      <3>3. At(level, Target(dir, map[k])) >= At(level, Target(dir, map[k + 1]))
        BY <1>2, <1>4, <3>1, <3>2
      <3> HIDE DEF leaving
      <3> QED
        BY <3>1, <3>3
    <2>8. ShowsDescending(dir, v)'
      <3> HIDE DEF leaving, own
      <3> QED
        BY <2>3, <2>4, <2>7 DEF ShowsDescending, At, Target
    <2> QED
      BY <2>6, <2>8
  <1>6. Nodes' = Nodes
    BY DEF Nodes
  <1> QED
    BY <1>5, <1>6 DEF NodesShow

\* A stored edge stands for whatever edge of the file its proto-edge represents.
LEMMA StoredStandsFor ==
    ASSUME BuildingInv, pc = "FWD", edgeIdx = Len(edges), NEW k \in DOMAIN edges,
           NEW f, f.metric \in Int, Represents(edges[k], f)
    PROVE  StandsFor(k - 1, f)
  <1>1. k \in 1 .. Len(edges) /\ k - 1 + 1 = k /\ edges[k] \in ProtoEdges
    BY LoopTypes DEF Dirs
  <1>2. /\ dsts["FWD"][k] = edges[k].dst /\ dsts["BWD"][k] = edges[k].src
        /\ metrics[k] = Stored(edges[k].metric)
    BY <1>1 DEF BuildingInv, ForwardInv
  <1>3. /\ At(nodeIds, Target("BWD", k - 1)) = f.src
        /\ At(nodeIds, Target("FWD", k - 1)) = f.dst
    BY <1>1, <1>2 DEF Represents, HasEnds, Target, At
  <1>4. \/ Close(metrics[k], f.metric)
        \/ metrics[k] = Accuracy /\ f.metric \in -2 * Accuracy .. -1
    <2>1. edges[k].metric \in Int /\ Close(edges[k].metric, f.metric)
      BY <1>1 DEF ProtoEdges, Represents
    <2> QED
      BY <1>2, <2>1 DEF Stored, Close, Accuracy
  <1> QED
    BY <1>1, <1>3, <1>4 DEF StandsFor, At

\* After the forward-loop, edges and ids show what the file says.
LEMMA EndShowsEdges ==
    ASSUME BuildingInv, pc = "FWD", edgeIdx = Len(edges)
    PROVE  /\ \A e \in FinalEdges : \E i \in DOMAIN file.edges : ShowsEdge(e, file.edges[i])
           /\ \A i \in DOMAIN file.edges : \E e \in FinalEdges : StandsFor(e, file.edges[i])
           /\ \A i \in DOMAIN file.edges : file.edges[i].id # None =>
                 \E a \in DOMAIN idToIdx : /\ idToIdx[a][1] = file.edges[i].id
                                           /\ StandsFor(idToIdx[a][2], file.edges[i])
  <1> DEFINE n == Len(edges)
  <1>1. /\ n \in Nat /\ DOMAIN edges = 1 .. n /\ FinalEdges = 0 .. n - 1
        /\ edges \in Seq(ProtoEdges)
    BY LoopTypes DEF Dirs
  <1>2. /\ \A k \in 1 .. n : \E i \in DOMAIN file.edges : IsOrigin(file.edges[i], edges[k])
        /\ \A i \in DOMAIN file.edges : \E k \in 1 .. n : Represents(edges[k], file.edges[i])
    BY <1>1 DEF BuildingInv, KeptInv
  <1>3. \A i \in DOMAIN file.edges : file.edges[i].metric \in Int
    <2>1. file.edges \in Seq([id : Nat \cup {None}, src : Int, dst : Int, metric : Int,
                              halves : Halves])
      BY FileFacts DEF BuildingInv
    <2> SUFFICES ASSUME NEW i \in DOMAIN file.edges PROVE file.edges[i].metric \in Int
      OBVIOUS
    <2>2. file.edges[i] \in [id : Nat \cup {None}, src : Int, dst : Int, metric : Int,
                             halves : Halves]
      BY <2>1, FileFacts, ElementOfSeq DEF BuildingInv
    <2> QED
      BY <2>2
  <1>n. \A i \in 0 .. n - 1 : i + 1 \in 1 .. n /\ i + 1 - 1 = i
    BY <1>1
  <1>m. \A k \in 1 .. n : k - 1 \in 0 .. n - 1
    BY <1>1
  <1>4. ASSUME NEW e \in FinalEdges
        PROVE  \E i \in DOMAIN file.edges : ShowsEdge(e, file.edges[i])
    <2>1. e \in 0 .. n - 1 /\ e + 1 \in 1 .. n /\ e + 1 - 1 = e
      BY <1>1, <1>n
    <2>2. PICK i \in DOMAIN file.edges : IsOrigin(file.edges[i], edges[e + 1])
      BY <1>2, <2>1
    <2> DEFINE f == file.edges[i]
    <2>3. edges[e + 1] \in ProtoEdges
      BY <1>1, <2>1
    <2>4. Represents(edges[e + 1], f)
      BY <2>2, <2>3 DEF IsOrigin, IsOf, Represents, Close, Accuracy, ProtoEdges
    <2>5. StandsFor(e, f)
      BY <1>1, <1>3, <2>1, <2>4, StoredStandsFor
    <2>6. ScEdges(e) = edges[e + 1].halves
      BY <1>1, <2>1 DEF BuildingInv, ForwardInv
    <2>7. ASSUME NEW j \in DOMAIN f.halves
          PROVE  /\ ScEdges(e)[j] \in FinalEdges
                 /\ StandsFor(ScEdges(e)[j], At(file.edges, f.halves[j]))
      <3> DEFINE h == ScEdges(e)[j]
                 g == f.halves[j]
      <3>1. /\ h \in 0 .. n - 1 /\ g \in Indices(file.edges)
            /\ Represents(At(edges, h), At(file.edges, g))
        BY <2>2, <2>6 DEF IsOrigin, Indices
      <3>2. h + 1 \in 1 .. n /\ h + 1 - 1 = h
        BY <1>n, <3>1
      <3>3. At(file.edges, g).metric \in Int
        <4>1. DOMAIN file.edges = 1 .. Len(file.edges) /\ Len(file.edges) \in Nat
          BY FileFacts DEF BuildingInv
        <4> HIDE DEF h, g
        <4>2. g + 1 \in DOMAIN file.edges
          BY <3>1, <4>1 DEF Indices
        <4> QED
          BY <1>3, <4>2 DEF At
      <3> HIDE DEF h, g
      <3>4. StandsFor(h, At(file.edges, g))
        BY <1>1, <3>1, <3>2, <3>3, StoredStandsFor DEF At
      <3> QED
        BY <1>1, <3>1, <3>4 DEF h, g
    <2>8. Len(ScEdges(e)) = Len(f.halves)
      BY <2>2, <2>6 DEF IsOrigin
    <2>9. ShowsEdge(e, f)
      BY <2>5, <2>7, <2>8 DEF ShowsEdge
    <2> QED
      BY <2>9
  <1>5. ASSUME NEW i \in DOMAIN file.edges
        PROVE  \E k \in 1 .. n : edges[k].id = file.edges[i].id /\ StandsFor(k - 1, file.edges[i])
    <2>1. PICK k \in 1 .. n : Represents(edges[k], file.edges[i])
      BY <1>2
    <2>2. StandsFor(k - 1, file.edges[i])
      BY <1>1, <1>3, <2>1, StoredStandsFor
    <2> QED
      BY <2>1, <2>2 DEF Represents, HasEnds
  <1>6. ASSUME NEW i \in DOMAIN file.edges, file.edges[i].id # None
        PROVE  \E a \in DOMAIN idToIdx : /\ idToIdx[a][1] = file.edges[i].id
                                         /\ StandsFor(idToIdx[a][2], file.edges[i])
    <2>1. PICK k \in 1 .. n : edges[k].id = file.edges[i].id /\ StandsFor(k - 1, file.edges[i])
      BY <1>5
    <2>2. PICK a \in DOMAIN idToIdx : idToIdx[a][2] = k - 1
      BY <1>6, <2>1 DEF BuildingInv, ForwardInv
    <2>3. idToIdx[a][1] = At(edges, k - 1).id
      BY <2>2 DEF BuildingInv, ForwardInv
    <2>4. k - 1 + 1 = k
      BY <1>1
    <2>5. idToIdx[a][1] = edges[k].id
      BY <2>3, <2>4 DEF At
    <2> QED
      BY <2>1, <2>2, <2>5
  <1>7. \A i \in DOMAIN file.edges : \E e \in FinalEdges : StandsFor(e, file.edges[i])
    BY <1>1, <1>5, <1>m
  <1> QED
    BY <1>4, <1>6, <1>7

\* Sorting the edge-ids, which are their own keys.
LEMMA SortedIds ==
    ASSUME NEW T \in SUBSET Nat, NEW ids \in Seq(Nat \X T),
           NEW keys, \A a \in DOMAIN ids : keys[a] = ids[a]
    PROVE  /\ SortedBy(ids, keys) \in Seq(Nat \X T)
           /\ \A a \in DOMAIN ids : \E b \in DOMAIN SortedBy(ids, keys) :
                  SortedBy(ids, keys)[b] = ids[a]
           /\ (\A a, b \in DOMAIN ids : a # b => ids[a][1] # ids[b][1]) =>
                  \A b \in 2 .. Len(SortedBy(ids, keys)) :
                      SortedBy(ids, keys)[b - 1][1] < SortedBy(ids, keys)[b][1]
  <1> DEFINE n == Len(ids)
             sorted == SortedBy(ids, keys)
  <1>0. n \in Nat /\ DOMAIN ids = 1 .. n
    OBVIOUS
  <1>1. \A a \in 1 .. n : ids[a] \in Nat \X T
    BY ElementOfSeq
  <1>2. \A a \in 1 .. n : keys[a] \in PairKeys /\ keys[a] = ids[a]
    <2>1. Nat \X T \subseteq PairKeys
      <3> SUFFICES ASSUME NEW x \in Nat, NEW t \in T PROVE <<x, t>> \in Int \X Int
        BY DEF PairKeys
      <3> QED
        OBVIOUS
    <2> QED
      BY <1>0, <1>1, <2>1
  <1> HIDE DEF n
  <1> HIDE DEF sorted
  <1>9. sorted = [k \in 1 .. n |-> sorted[k]]
    BY <1>0, <1>2, PairLessStrict, SortedByFacts DEF sorted
  <1>3. /\ DOMAIN sorted = 1 .. n
        /\ \E p : Sorts(p, sorted, ids, keys, n)
    BY <1>0, <1>2, PairLessStrict, SortedByFacts DEF sorted
  <1>4. PICK p : /\ IsPermutation(p, n)
                 /\ \A k \in 1 .. n : sorted[k] = ids[p[k]]
                 /\ \A k, l \in 1 .. n : k < l =>
                        \/ KeyLess(keys[p[k]], keys[p[l]])
                        \/ keys[p[k]] = keys[p[l]] /\ p[k] < p[l]
    BY <1>3 DEF Sorts
  <1>5. /\ \A k \in 1 .. n : p[k] \in 1 .. n
        /\ \A k, l \in 1 .. n : p[k] = p[l] => k = l
        /\ \A a \in 1 .. n : \E k \in 1 .. n : p[k] = a
    BY <1>4 DEF IsPermutation
  <1>6. sorted \in Seq(Nat \X T) /\ Len(sorted) = n
    <2>1. \A k \in 1 .. n : sorted[k] \in Nat \X T
      <3> SUFFICES ASSUME NEW k \in 1 .. n PROVE sorted[k] \in Nat \X T
        OBVIOUS
      <3>1. p[k] \in 1 .. n /\ sorted[k] = ids[p[k]]
        BY <1>4, <1>5
      <3> QED
        BY <1>1, <3>1
    <2>2. sorted \in [1 .. n -> Nat \X T]
      BY <1>3, <1>9, <2>1
    <2> QED
      BY <1>0, <2>2
  <1>7. ASSUME NEW a \in DOMAIN ids PROVE \E b \in DOMAIN sorted : sorted[b] = ids[a]
    <2>1. PICK k \in 1 .. n : p[k] = a
      BY <1>0, <1>5
    <2> QED
      BY <1>3, <1>4, <2>1
  <1>8. ASSUME \A a, b \in DOMAIN ids : a # b => ids[a][1] # ids[b][1],
               NEW b \in 2 .. Len(sorted)
        PROVE  sorted[b - 1][1] < sorted[b][1]
    <2>1. b - 1 \in 1 .. n /\ b \in 1 .. n /\ b - 1 < b
      BY <1>0, <1>6
    <2> DEFINE x == keys[p[b - 1]]
               y == keys[p[b]]
    <2>2. KeyLess(x, y) \/ (x = y /\ p[b - 1] < p[b])
      BY <1>4, <2>1
    <2>3. p[b - 1] # p[b] /\ p[b - 1] \in 1 .. n /\ p[b] \in 1 .. n
      <3>1. b - 1 # b
        BY <2>1
      <3> QED
        BY <1>5, <2>1, <3>1
    <2>4. x[1] # y[1]
      BY <1>0, <1>2, <1>8, <2>3
    <2>5. x \in PairKeys /\ y \in PairKeys
      BY <1>2, <2>3
    <2>6. sorted[b - 1] = x /\ sorted[b] = y
      BY <1>2, <1>4, <2>1, <2>3
    <2> HIDE DEF x, y
    <2>7. KeyLess(x, y)
      BY <2>2, <2>4
    <2>8. x[1] < y[1]
      BY <2>4, <2>5, <2>7, PairLess
    <2> QED
      BY <2>6, <2>8
  <1> QED
    BY <1>6, <1>7, <1>8 DEF sorted

\* Two kept edges with one id tell that the file has such two edges, which are no duplicates.
LEMMA EqualIdsInFile ==
    ASSUME BuildingInv, pc = "FWD", edgeIdx = Len(edges), ~UniqueIds
    PROVE  \E i, j \in DOMAIN file.edges :
              /\ file.edges[i].id # None
              /\ file.edges[i].id = file.edges[j].id
              /\ ~IsDuplicate(file.edges[i], file.edges[j])
  <1> DEFINE n == Len(edges)
  <1>1. /\ n \in Nat /\ DOMAIN edges = 1 .. n
        /\ nodeIds \in Seq(Int) /\ level \in Seq(Nat) /\ Len(level) = Len(nodeIds)
        /\ \A k \in 1 .. n : /\ edges[k] \in ProtoEdges
                             /\ edges[k].src \in Nodes /\ edges[k].dst \in Nodes
    BY LoopTypes DEF Dirs
  <1>2. idToIdx \in Seq(Nat \X FinalEdges)
    BY DEF BuildingInv, TypeOK
  <1>3. /\ \A a \in DOMAIN idToIdx : /\ idToIdx[a][2] \in 0 .. n - 1
                                     /\ idToIdx[a][1] = edges[idToIdx[a][2] + 1].id
                                     /\ idToIdx[a][1] \in Nat
        /\ \A a, b \in DOMAIN idToIdx : a < b => idToIdx[a][2] < idToIdx[b][2]
    <2>1. /\ \A a \in DOMAIN idToIdx : /\ idToIdx[a][2] \in 0 .. n - 1
                                       /\ idToIdx[a][1] = edges[idToIdx[a][2] + 1].id
          /\ \A a, b \in DOMAIN idToIdx : a < b => idToIdx[a][2] < idToIdx[b][2]
      BY DEF BuildingInv, ForwardInv, At
    <2>2. \A a \in DOMAIN idToIdx : idToIdx[a] \in Nat \X FinalEdges
      BY <1>2, ElementOfSeq
    <2> QED
      BY <2>1, <2>2
  <1>4. \A k \in 1 .. n : \E i \in DOMAIN file.edges : IsOrigin(file.edges[i], edges[k])
    BY <1>1 DEF BuildingInv, KeptInv
  <1>5. /\ \A k, l \in 1 .. n : k < l => ~KeyLess(ForwardKey(edges[l]), ForwardKey(edges[k]))
        /\ \A k \in 1 .. n - 1 : ~IsDuplicate(edges[k], edges[k + 1])
    BY <1>1 DEF BuildingInv, KeptInv, InOrder, NoNeighbours
  <1>6. \A u, v \in Nodes : At(nodeIds, u) = At(nodeIds, v) => u = v
    BY <1>1, IdxFacts DEF BuildingInv, NodesInv
  <1> HIDE DEF n
  <1>7. PICK a \in DOMAIN idToIdx, b \in DOMAIN idToIdx : a < b /\ idToIdx[a][1] = idToIdx[b][1]
    <2>1. PICK a \in DOMAIN idToIdx, b \in DOMAIN idToIdx : a # b /\ idToIdx[a][1] = idToIdx[b][1]
      BY DEF UniqueIds
    <2>2. a \in Nat /\ b \in Nat
      BY <1>2
    <2>3. a < b \/ b < a
      BY <2>1, <2>2
    <2> QED
      BY <2>1, <2>3
  <1> DEFINE k == idToIdx[a][2] + 1
             l == idToIdx[b][2] + 1
  <1>8. /\ k \in 1 .. n /\ l \in 1 .. n /\ k < l /\ k + 1 \in 1 .. n /\ k \in 1 .. n - 1
        /\ k + 1 = l \/ k + 1 < l
        /\ edges[k].id = edges[l].id /\ edges[k].id \in Nat
    <2>1. /\ idToIdx[a][2] \in 0 .. n - 1 /\ idToIdx[b][2] \in 0 .. n - 1
          /\ idToIdx[a][2] < idToIdx[b][2]
      BY <1>3, <1>7
    <2>2. /\ k \in 1 .. n /\ l \in 1 .. n /\ k < l /\ k + 1 \in 1 .. n /\ k \in 1 .. n - 1
          /\ k + 1 = l \/ k + 1 < l
      <3>1. ASSUME NEW x \in 0 .. n - 1, NEW y \in 0 .. n - 1, x < y
            PROVE  /\ x + 1 \in 1 .. n /\ y + 1 \in 1 .. n /\ x + 1 < y + 1
                   /\ x + 1 + 1 \in 1 .. n /\ x + 1 \in 1 .. n - 1
                   /\ x + 1 + 1 = y + 1 \/ x + 1 + 1 < y + 1
        BY <1>1, <3>1
      <3> QED
        BY <2>1, <3>1
    <2> QED
      BY <1>3, <1>7, <2>2
  <1> HIDE DEF k, l
  <1>9. PICK i \in DOMAIN file.edges : IsOrigin(file.edges[i], edges[k])
    BY <1>4, <1>8
  <1>10. PICK j \in DOMAIN file.edges : IsOrigin(file.edges[j], edges[l])
    BY <1>4, <1>8
  <1>11. PICK h \in DOMAIN file.edges : IsOrigin(file.edges[h], edges[k + 1])
    BY <1>4, <1>8
  <1>12. file.edges[i].id = edges[k].id /\ file.edges[i].id # None
    BY <1>8, <1>9 DEF IsOrigin, IsOf, HasEnds, None
  <1>13. CASE ~IsDuplicate(file.edges[i], file.edges[j])
    BY <1>8, <1>10, <1>12, <1>13 DEF IsOrigin, IsOf, HasEnds
  <1>14. CASE IsDuplicate(file.edges[i], file.edges[j])
    <2>1. edges[k].src = edges[l].src /\ edges[k].dst = edges[l].dst
      <3>1. /\ At(nodeIds, edges[k].src) = At(nodeIds, edges[l].src)
            /\ At(nodeIds, edges[k].dst) = At(nodeIds, edges[l].dst)
        BY <1>9, <1>10, <1>14 DEF IsOrigin, IsOf, HasEnds, IsDuplicate
      <3> QED
        BY <1>1, <1>6, <1>8, <3>1
    <2>2. ForwardKey(edges[k]) = ForwardKey(edges[l])
      BY <1>8, <2>1 DEF ForwardKey
    <2>3. /\ ForwardKey(edges[k]) \in QuadKeys
          /\ ForwardKey(edges[k + 1]) \in QuadKeys
      <3>1. \A m \in 1 .. n : edges[m].id \in Int
        BY <1>1 DEF ProtoEdges, None
      <3> QED
        BY <1>1, <1>8, <3>1, KeysAreQuads
    <2>4. ~KeyLess(ForwardKey(edges[k + 1]), ForwardKey(edges[k]))
      <3>1. k < k + 1
        BY <1>8
      <3> QED
        BY <1>5, <1>8, <3>1
    <2>5. ~KeyLess(ForwardKey(edges[k]), ForwardKey(edges[k + 1]))
      <3>1. CASE k + 1 = l
        BY <2>2, <2>3, <3>1, QuadLessStrict DEF IsLessStrict
      <3>2. CASE k + 1 < l
        BY <1>5, <1>8, <2>2, <3>2
      <3> QED
        BY <1>8, <3>1, <3>2
    <2>6. ForwardKey(edges[k + 1]) = ForwardKey(edges[k])
      BY <2>3, <2>4, <2>5, QuadLessStrict DEF IsLessStrict
    <2>7. /\ edges[k + 1].src = edges[k].src /\ edges[k + 1].dst = edges[k].dst
          /\ edges[k + 1].id = edges[k].id
      BY <2>6 DEF ForwardKey
    <2>8. ~Close(edges[k].metric, edges[k + 1].metric)
      BY <1>5, <1>8, <2>7 DEF IsDuplicate
    <2>9. ~IsDuplicate(file.edges[i], file.edges[h])
      BY <1>9, <1>11, <2>8 DEF IsOrigin, IsOf, IsDuplicate
    <2>10. file.edges[h].id = edges[k].id
      BY <1>11, <2>7 DEF IsOrigin, IsOf, HasEnds
    <2> QED
      BY <1>12, <2>9, <2>10
  <1> QED
    BY <1>13, <1>14

\* Sorting for the backward-loop.
LEMMA BackwardSorted ==
    ASSUME BuildingInv, pc = "FWD", edgeIdx = Len(edges),
           NEW sorted, sorted = SortedBy(edges, [k \in DOMAIN edges |-> BackwardKey(edges[k])])
    PROVE  /\ sorted \in Seq(ProtoEdges) /\ Len(sorted) = Len(edges)
           /\ \A k \in DOMAIN sorted : \E l \in DOMAIN edges :
                 sorted[k] = edges[l] /\ sorted[k].idx = l - 1
           /\ \A k, l \in DOMAIN sorted : sorted[k].idx = sorted[l].idx => k = l
           /\ \A e \in FinalEdges : \E k \in DOMAIN sorted : sorted[k].idx = e
           /\ \A k, l \in DOMAIN sorted :
                 k < l => ~KeyLess(BackwardKey(sorted[l]), BackwardKey(sorted[k]))
  <1> DEFINE n == Len(edges)
             keys == [k \in DOMAIN edges |-> BackwardKey(edges[k])]
  <1>1. /\ n \in Nat /\ DOMAIN edges = 1 .. n /\ FinalEdges = 0 .. n - 1
        /\ edges \in Seq(ProtoEdges)
        /\ nodeIds \in Seq(Int) /\ level \in Seq(Nat) /\ Len(level) = Len(nodeIds)
        /\ \A k \in 1 .. n : /\ edges[k] \in ProtoEdges
                             /\ edges[k].src \in Nodes /\ edges[k].dst \in Nodes
    BY LoopTypes DEF Dirs
  <1>2. \A k \in 1 .. n : edges[k].idx = k - 1
    BY DEF BuildingInv, ForwardInv
  <1>3. \A k \in 1 .. n : keys[k] = BackwardKey(edges[k]) /\ keys[k] \in QuadKeys
    <2>1. \A k \in 1 .. n : edges[k].id \in Int
      BY <1>1 DEF ProtoEdges, None
    <2> QED
      BY <1>1, <2>1, KeysAreQuads
  <1>4. sorted = SortedBy(edges, keys)
    OBVIOUS
  <1> HIDE DEF n, keys
  <1>5. /\ DOMAIN sorted = 1 .. n
        /\ sorted = [k \in 1 .. n |-> sorted[k]]
        /\ \E p : Sorts(p, sorted, edges, keys, n)
    <2>1. n \in Nat /\ DOMAIN edges = 1 .. n
      BY <1>1
    <2>2. \A k \in 1 .. n : keys[k] \in QuadKeys
      BY <1>3
    <2>3. /\ DOMAIN SortedBy(edges, keys) = 1 .. n
          /\ SortedBy(edges, keys) = [k \in 1 .. n |-> SortedBy(edges, keys)[k]]
          /\ \E p : Sorts(p, SortedBy(edges, keys), edges, keys, n)
      BY <2>1, <2>2, QuadLessStrict, SortedByFacts
    <2> QED
      BY <1>4, <2>3
  <1>6. PICK p : Sorts(p, sorted, edges, keys, n)
    BY <1>5
  <1>7. /\ \A k \in 1 .. n : p[k] \in 1 .. n /\ sorted[k] = edges[p[k]]
        /\ \A k, l \in 1 .. n : p[k] = p[l] => k = l
        /\ \A i \in 1 .. n : \E k \in 1 .. n : p[k] = i
    BY <1>6 DEF Sorts, IsPermutation
  <1>8. \A k \in 1 .. n : sorted[k].idx = p[k] - 1 /\ sorted[k] \in ProtoEdges
    BY <1>1, <1>2, <1>7
  <1>9. sorted \in Seq(ProtoEdges) /\ Len(sorted) = n
    <2>1. sorted \in [1 .. n -> ProtoEdges]
      BY <1>5, <1>8
    <2> QED
      BY <1>1, <2>1
  <1>a. \A k, l \in 1 .. n : p[k] = p[l] => k = l
    BY <1>7
  <1>10. ASSUME NEW k \in 1 .. n, NEW l \in 1 .. n, sorted[k].idx = sorted[l].idx
         PROVE  k = l
    <2>1. p[k] \in 1 .. n /\ p[l] \in 1 .. n
      BY <1>7
    <2>2. p[k] - 1 = p[l] - 1
      BY <1>8, <1>10
    <2>3. p[k] = p[l]
      BY <1>1, <2>1, <2>2
    <2> QED
      BY <1>a, <2>3
  <1>11. ASSUME NEW e \in FinalEdges PROVE \E k \in 1 .. n : sorted[k].idx = e
    <2>1. e \in Int /\ e + 1 \in 1 .. n
      BY <1>1
    <2>2. PICK k \in 1 .. n : p[k] = e + 1
      BY <1>7, <2>1
    <2>3. sorted[k].idx = e
      <3>1. sorted[k].idx = p[k] - 1
        BY <1>8
      <3>2. p[k] - 1 = e
        BY <2>1, <2>2
      <3> QED
        BY <3>1, <3>2
    <2> QED
      BY <2>3
  <1>12. ASSUME NEW k \in 1 .. n, NEW l \in 1 .. n, k < l
         PROVE  ~KeyLess(BackwardKey(sorted[l]), BackwardKey(sorted[k]))
    <2>1. /\ keys[p[k]] \in QuadKeys /\ keys[p[l]] \in QuadKeys
          /\ keys[p[k]] = BackwardKey(sorted[k]) /\ keys[p[l]] = BackwardKey(sorted[l])
      <3>1. /\ p[k] \in 1 .. n /\ sorted[k] = edges[p[k]]
            /\ p[l] \in 1 .. n /\ sorted[l] = edges[p[l]]
        BY <1>7
      <3> QED
        BY <1>3, <3>1
    <2>2. KeyLess(keys[p[k]], keys[p[l]]) \/ keys[p[k]] = keys[p[l]]
      BY <1>6, <1>12 DEF Sorts
    <2> QED
      BY <2>1, <2>2, QuadNotBoth
  <1>13. ASSUME NEW k \in 1 .. n
         PROVE  \E l \in 1 .. n : sorted[k] = edges[l] /\ sorted[k].idx = l - 1
    BY <1>7, <1>8
  <1> QED
    BY <1>1, <1>5, <1>9, <1>10, <1>11, <1>12, <1>13 DEF n

LEMMA EndForwardBuilding ==
    ASSUME BuildingInv, EndForward
    PROVE  BuildingInv'
  <1> DEFINE n == Len(edges)
             sorted == SortedBy(edges, [k \in DOMAIN edges |-> BackwardKey(edges[k])])
  <1>1. /\ pc = "FWD" /\ edgeIdx = n
        /\ offsets' = [offsets EXCEPT !["FWD"] = Append(offsets["FWD"], edgeIdx)]
        /\ idToIdx' = SortedBy(idToIdx, idToIdx)
        /\ UNCHANGED <<file, read, nodeIds, located, level, w, r, removed, metrics, scOffsets,
                       scEdges, toFwd, dsts>>
    BY DEF EndForward, builderVars, dedupeVars, storeVars
  <1>2. IF UniqueIds
        THEN pc' = "BWD" /\ edges' = sorted /\ edgeIdx' = 0 /\ srcIdx' = 0
        ELSE pc' = "err" /\ UNCHANGED <<edges, edgeIdx, srcIdx>>
    BY DEF EndForward
  <1>3. /\ n \in Nat /\ DOMAIN edges = 1 .. n /\ FinalEdges = 0 .. n - 1
        /\ edges \in Seq(ProtoEdges) /\ Len(metrics) = n
        /\ Nodes = 0 .. Len(nodeIds) - 1 /\ Len(nodeIds) \in Nat
        /\ \A k \in 1 .. n : edges[k].src \in Nodes /\ edges[k].dst \in Nodes
    BY <1>1, LoopTypes DEF Dirs
  <1>4. TypeOK /\ Fresh /\ NodesInv /\ ForwardInv
    BY DEF BuildingInv
  <1>5. /\ offsets["FWD"] \in Seq(0 .. n) /\ offsets["BWD"] \in Seq(0 .. n)
        /\ DOMAIN offsets = Dirs
        /\ toFwd \in [Dirs -> Seq(FinalEdges)] /\ dsts \in [Dirs -> Seq(Nodes)]
        /\ idToIdx \in Seq(Nat \X FinalEdges)
        /\ srcIdx \in 0 .. Len(nodeIds) /\ edgeIdx \in 0 .. n
        /\ w \in 1 .. n + 1
    BY <1>4 DEF TypeOK, Dirs
  <1>6. /\ sorted \in Seq(ProtoEdges) /\ Len(sorted) = n
        /\ \A k \in DOMAIN sorted : \E l \in DOMAIN edges :
              sorted[k] = edges[l] /\ sorted[k].idx = l - 1
        /\ \A k, l \in DOMAIN sorted : sorted[k].idx = sorted[l].idx => k = l
        /\ \A e \in FinalEdges : \E k \in DOMAIN sorted : sorted[k].idx = e
        /\ \A k, l \in DOMAIN sorted :
              k < l => ~KeyLess(BackwardKey(sorted[l]), BackwardKey(sorted[k]))
    BY <1>1, BackwardSorted
  <1>7. /\ idToIdx' \in Seq(Nat \X FinalEdges)
        /\ \A a \in DOMAIN idToIdx : \E b \in DOMAIN idToIdx' : idToIdx'[b] = idToIdx[a]
        /\ UniqueIds => \A b \in 2 .. Len(idToIdx') : idToIdx'[b - 1][1] < idToIdx'[b][1]
    <2>1. FinalEdges \in SUBSET Nat
      BY <1>3
    <2>2. \A a \in DOMAIN idToIdx : idToIdx[a] = idToIdx[a]
      OBVIOUS
    <2> DEFINE ids == SortedBy(idToIdx, idToIdx)
    <2>3. /\ ids \in Seq(Nat \X FinalEdges)
          /\ \A a \in DOMAIN idToIdx : \E b \in DOMAIN ids : ids[b] = idToIdx[a]
          /\ (\A a, b \in DOMAIN idToIdx : a # b => idToIdx[a][1] # idToIdx[b][1]) =>
                \A b \in 2 .. Len(ids) : ids[b - 1][1] < ids[b][1]
      BY <1>5, <2>1, <2>2, SortedIds
    <2>4. ids = idToIdx'
      BY <1>1
    <2> HIDE DEF ids
    <2> QED
      BY <2>3, <2>4 DEF UniqueIds
  <1> HIDE DEF n, sorted
  <1>8. FinalEdges' = FinalEdges /\ Nodes' = Nodes
    BY <1>1 DEF FinalEdges, Nodes, Indices
  <1>9. edges' \in Seq(ProtoEdges) /\ Len(edges') = n /\ DOMAIN edges' = 1 .. n
    <2>1. edges' \in Seq(ProtoEdges) /\ Len(edges') = n
      BY <1>2, <1>3, <1>6 DEF n
    <2> QED
      BY <2>1
  <1>10. offsets' \in [Dirs -> Seq(0 .. n)] /\ offsets'["BWD"] = offsets["BWD"]
         /\ offsets'["FWD"] = Append(offsets["FWD"], edgeIdx)
    <2>1. Append(offsets["FWD"], edgeIdx) \in Seq(0 .. n)
      BY <1>5
    <2> QED
      BY <1>1, <1>5, <2>1 DEF Dirs
  <1>11. TypeOK'
    <2>1. edgeIdx' \in 0 .. n /\ srcIdx' \in 0 .. Len(nodeIds)
      BY <1>2, <1>3, <1>5
    <2>2. pc' \in {"BWD", "err"}
      BY <1>2
    <2>3. w' \in 1 .. Len(edges') + 1
      BY <1>1, <1>5, <1>9
    <2>4. edgeIdx' \in 0 .. Len(edges') /\ offsets' \in [Dirs -> Seq(0 .. Len(edges'))]
      BY <1>9, <1>10, <2>1
    <2>5. /\ idToIdx' \in Seq(Nat \X FinalEdges') /\ toFwd' \in [Dirs -> Seq(FinalEdges')]
          /\ dsts' \in [Dirs -> Seq(Nodes')]
      BY <1>1, <1>5, <1>7, <1>8
    <2>6. /\ IsFile(file)' /\ read' \in 0 .. Len(file'.nodes) /\ nodeIds' \in Seq(Int)
          /\ located' \subseteq Nodes' /\ level' \in Seq(Nat)
          /\ r' \in w' .. Len(file'.edges) + 1 /\ removed' \in Seq(Nat)
          /\ metrics' \in Seq(Int) /\ scOffsets' \in Seq(Nat) /\ scEdges' \in Seq(Nat \X Nat)
      BY <1>1, <1>4, <1>8 DEF TypeOK, IsFile
    <2>7. pc' \in {"edges", "nodes", "sort", "dedupe", "store"} \cup Dirs \cup Ended
      BY <2>2 DEF Dirs, Ended
    <2> QED
      BY <1>9, <2>1, <1>1, <2>3, <2>4, <2>5, <2>6, <2>7 DEF TypeOK
  <1>12. pc' \in {"BWD", "err"} /\ (pc' = "BWD" <=> UniqueIds)
    BY <1>2
  <1>13. Fresh' /\ ReadInv' /\ LocatedInv' /\ DedupeInv' /\ KeptInv' /\ ForwardInv'
    BY <1>12 DEF Fresh, ReadInv, LocatedInv, DedupeInv, KeptInv, ForwardInv
  <1>14. NodesInv'
    BY <1>1, <1>4, <1>12 DEF NodesInv
  <1>15. BackwardInv'
    <2> SUFFICES ASSUME pc' = "BWD" PROVE BackwardInv'
      BY DEF BackwardInv
    <2>1. edges' = sorted /\ edgeIdx' = 0
      BY <1>2, <1>12
    <2>2. toFwd'["BWD"] = <<>>
      BY <1>1, <1>4 DEF Fresh
    <2>3. Len(dsts'["FWD"]) = n /\ Len(dsts'["BWD"]) = n /\ Len(metrics') = n
      BY <1>1, <1>3, <1>4 DEF ForwardInv
    <2>4. ASSUME NEW k \in DOMAIN edges'
          PROVE  (/\ edges[k].idx \in FinalEdges
                  /\ Target("FWD", edges[k].idx) = edges[k].dst
                  /\ Target("BWD", edges[k].idx) = edges[k].src)'
      <3>1. PICK l \in 1 .. n : sorted[k] = edges[l] /\ sorted[k].idx = l - 1
        BY <1>3, <1>6, <2>1
      <3>2. l - 1 + 1 = l /\ l - 1 \in FinalEdges
        BY <1>3
      <3>3. dsts["FWD"][l] = edges[l].dst /\ dsts["BWD"][l] = edges[l].src
        BY <1>1, <1>4 DEF ForwardInv
      <3>4. /\ edges'[k].idx \in FinalEdges'
            /\ dsts'["FWD"][edges'[k].idx + 1] = edges'[k].dst
            /\ dsts'["BWD"][edges'[k].idx + 1] = edges'[k].src
        BY <1>1, <1>8, <2>1, <3>1, <3>2, <3>3
      <3> QED
        BY <3>4 DEF Target, At
    <2>5. \A k, l \in DOMAIN edges' :
              k < l => (~KeyLess(BackwardKey(edges[l]), BackwardKey(edges[k])))'
      BY <1>1, <1>6, <2>1 DEF BackwardKey, At
    <2>6. /\ \A k, l \in DOMAIN edges' : edges'[k].idx = edges'[l].idx => k = l
          /\ \A e \in FinalEdges' : \E k \in DOMAIN edges' : edges'[k].idx = e
      BY <1>6, <1>8, <2>1
    <2>7. Len(toFwd'["BWD"]) = edgeIdx' /\ \A k \in 1 .. edgeIdx' : toFwd'["BWD"][k] = edges'[k].idx
      BY <2>1, <2>2
    <2> QED
      BY <1>9, <2>3, <2>4, <2>5, <2>6, <2>7 DEF BackwardInv
  <1>16. OffsetInv'
    <2> SUFFICES ASSUME pc' = "BWD" PROVE OffsetInv'
      BY <1>12 DEF OffsetInv, Dirs
    <2>1. edges' = sorted /\ edgeIdx' = 0 /\ srcIdx' = 0 /\ offsets'["BWD"] = <<0>>
      BY <1>1, <1>2, <1>4, <1>10, <1>12 DEF Fresh
    <2>2. ASSUME NEW k \in 1 .. n PROVE edges'[k].dst \in Nat
      <3>1. PICK l \in 1 .. n : sorted[k] = edges[l]
        BY <1>3, <1>6, <1>9, <2>1
      <3>2. edges[l].dst \in Nat
        BY <1>3
      <3> QED
        BY <2>1, <3>1, <3>2
    <2>3. \A k \in 1 .. Len(edges') : Source("BWD", edges'[k]) >= 0
      BY <1>9, <2>2 DEF Source
    <2> QED
      BY <2>1, <2>3 DEF OffsetInv
  <1>17. GraphInv'
    <2> SUFFICES ASSUME pc' = "BWD" PROVE EdgesShow' /\ NodesShow("FWD")'
      BY <1>12 DEF GraphInv
    <2>1. NodesShow("FWD")'
      BY <1>1, <1>10, EndShowsNodes DEF Dirs, n
    <2>2. /\ \A e \in FinalEdges : \E i \in DOMAIN file.edges : ShowsEdge(e, file.edges[i])
          /\ \A i \in DOMAIN file.edges : \E e \in FinalEdges : StandsFor(e, file.edges[i])
          /\ \A i \in DOMAIN file.edges : file.edges[i].id # None =>
                \E a \in DOMAIN idToIdx : /\ idToIdx[a][1] = file.edges[i].id
                                          /\ StandsFor(idToIdx[a][2], file.edges[i])
      BY <1>1, EndShowsEdges DEF n
    <2>3. ASSUME NEW e \in FinalEdges
          PROVE  (\E i \in DOMAIN file.edges : ShowsEdge(e, file.edges[i]))'
      <3>1. PICK i \in DOMAIN file.edges : ShowsEdge(e, file.edges[i])
        BY <2>2
      <3>2. ShowsEdge(e, file.edges[i])'
        BY <1>1, <1>8, <3>1 DEF ShowsEdge, StandsFor, Target, ScEdges, IsShortcut, At, Close
      <3> QED
        BY <1>1, <3>2
    <2>4. ASSUME NEW i \in DOMAIN file.edges
          PROVE  (\E e \in FinalEdges : StandsFor(e, file.edges[i]))'
      <3>1. PICK e \in FinalEdges : StandsFor(e, file.edges[i])
        BY <2>2
      <3>2. StandsFor(e, file.edges[i])'
        BY <1>1, <3>1 DEF StandsFor, Target, At, Close
      <3> QED
        BY <1>8, <3>2
    <2>5. ASSUME NEW i \in DOMAIN file.edges, file.edges[i].id # None
          PROVE  (\E k \in DOMAIN idToIdx : /\ idToIdx[k][1] = file.edges[i].id
                                            /\ StandsFor(idToIdx[k][2], file.edges[i]))'
      <3>1. PICK a \in DOMAIN idToIdx : /\ idToIdx[a][1] = file.edges[i].id
                                        /\ StandsFor(idToIdx[a][2], file.edges[i])
        BY <2>2, <2>5
      <3>2. PICK b \in DOMAIN idToIdx' : idToIdx'[b] = idToIdx[a]
        BY <1>7
      <3> DEFINE e == idToIdx[a][2]
      <3>3. PICK x : x = e
        OBVIOUS
      <3>4. StandsFor(x, file.edges[i])'
        BY <1>1, <3>1, <3>3 DEF StandsFor, Target, At, Close
      <3>5. idToIdx'[b][1] = file'.edges[i].id /\ idToIdx'[b][2] = x
        BY <1>1, <3>1, <3>2, <3>3
      <3> QED
        BY <3>4, <3>5
    <2>6. \A b \in 2 .. Len(idToIdx') : idToIdx'[b - 1][1] < idToIdx'[b][1]
      BY <1>7, <1>12
    <2>7. EdgesShow'
      BY <1>1, <1>8, <2>3, <2>4, <2>5, <2>6 DEF EdgesShow
    <2> QED
      BY <2>1, <2>7
  <1>18. FailsForAReason'
    <2> SUFFICES ASSUME pc' = "err" PROVE FailsForAReason'
      BY DEF FailsForAReason
    <2>1. ~UniqueIds
      BY <1>12
    <2>2. \E i, j \in DOMAIN file.edges :
              /\ file.edges[i].id # None
              /\ file.edges[i].id = file.edges[j].id
              /\ ~IsDuplicate(file.edges[i], file.edges[j])
      BY <1>1, <2>1, EqualIdsInFile DEF n
    <2> QED
      BY <1>1, <2>2 DEF FailsForAReason
  <1> QED
    BY <1>11, <1>13, <1>14, <1>15, <1>16, <1>17, <1>18 DEF BuildingInv

LEMMA EndBackwardBuilding ==
    ASSUME BuildingInv, EndBackward
    PROVE  BuildingInv'
  <1> DEFINE n == Len(edges)
  <1>1. /\ pc = "BWD" /\ edgeIdx = n /\ pc' = "done"
        /\ offsets' = [offsets EXCEPT !["BWD"] = Append(offsets["BWD"], edgeIdx)]
        /\ UNCHANGED <<file, read, nodeIds, located, level, edges, w, r, removed, metrics,
                       scOffsets, scEdges, srcIdx, edgeIdx, toFwd, dsts, idToIdx>>
    BY DEF EndBackward, builderVars, dedupeVars, storeVars
  <1>2. TypeOK /\ NodesInv /\ EdgesShow /\ NodesShow("FWD")
    BY <1>1 DEF BuildingInv, GraphInv
  <1>3. /\ offsets' \in [Dirs -> Seq(0 .. n)]
        /\ offsets'["FWD"] = offsets["FWD"]
        /\ offsets'["BWD"] = Append(offsets["BWD"], edgeIdx)
    <2>1. /\ offsets \in [Dirs -> Seq(0 .. n)] /\ "BWD" \in Dirs /\ "FWD" \in Dirs
          /\ edgeIdx \in 0 .. n
      BY <1>2 DEF TypeOK, Dirs
    <2>2. Append(offsets["BWD"], edgeIdx) \in Seq(0 .. n)
      BY <2>1
    <2> QED
      BY <1>1, <2>1, <2>2
  <1>4. TypeOK'
    <2>1. FinalEdges' = FinalEdges /\ Nodes' = Nodes
      BY <1>1 DEF FinalEdges, Nodes, Indices
    <2>2. pc' \in {"edges", "nodes", "sort", "dedupe", "store"} \cup Dirs \cup Ended
      BY <1>1 DEF Ended
    <2> QED
      BY <1>1, <1>2, <1>3, <2>1, <2>2 DEF TypeOK, IsFile
  <1>5. /\ Fresh' /\ ReadInv' /\ LocatedInv' /\ DedupeInv' /\ KeptInv' /\ ForwardInv'
        /\ BackwardInv' /\ OffsetInv' /\ FailsForAReason'
    BY <1>1 DEF Fresh, ReadInv, LocatedInv, DedupeInv, KeptInv, ForwardInv, BackwardInv,
                OffsetInv, Dirs, FailsForAReason
  <1>6. NodesInv'
    BY <1>1, <1>2 DEF NodesInv
  <1>7. EdgesShow' /\ NodesShow("FWD")'
    BY <1>1, <1>2, <1>3, ShownUnchanged
  <1>8. NodesShow("BWD")'
    BY <1>1, <1>3, EndShowsNodes DEF Dirs
  <1>9. GraphInv'
    BY <1>7, <1>8 DEF GraphInv
  <1> QED
    BY <1>4, <1>5, <1>6, <1>9 DEF BuildingInv

-----------------------------------------------------------------------------
(* The theorems *)

LEMMA StutteringBuilding ==
    ASSUME BuildingInv, UNCHANGED vars
    PROVE  BuildingInv'
  <1>1. UNCHANGED <<file, pc, read, nodeIds, located, level, edges, w, r, removed, metrics,
                    scOffsets, scEdges, srcIdx, edgeIdx, offsets, toFwd, dsts, idToIdx>>
    BY DEF vars, builderVars, dedupeVars, storeVars, offsetVars
  <1>2. TypeOK'
    BY <1>1 DEF BuildingInv, TypeOK, IsFile, Nodes, FinalEdges, Indices
  <1>3. Fresh' /\ ReadInv' /\ NodesInv' /\ LocatedInv'
    BY <1>1 DEF BuildingInv, Fresh, ReadInv, Inserted, NodesInv, LocatedInv, Nodes, Indices, At
  <1>4. DedupeInv'
    <2> SUFFICES ASSUME pc = "dedupe" PROVE DedupeInv'
      BY <1>1 DEF DedupeInv
    <2>1. PICK p : Tracks(p)
      BY DEF BuildingInv, DedupeInv
    <2>2. Tracks(p)'
      <3>1. \A h \in Indices(file.edges) : GoneUpTo(h)' = GoneUpTo(h)
        BY <1>1 DEF GoneUpTo
      <3>2. \A h \in Indices(file.edges) :
                Represents(At(edges, h - GoneUpTo(h)), At(file.edges, p[h])) =>
                    Represents(At(edges, h - GoneUpTo(h)), At(file.edges, p[h]))'
        BY <1>1, <3>1 DEF Represents, HasEnds, Close, At
      <3>3. \A k \in DOMAIN edges : HalvesFollow(edges[k], At(file.edges, edges[k].idx), p)'
        BY <1>1, <2>1 DEF Tracks, HalvesFollow, Indices, At
      <3> QED
        BY <1>1, <2>1, <3>1, <3>2, <3>3 DEF Tracks, Indices, At
    <2>3. InOrder((DOMAIN edges) \ (w + 1 .. r))' /\ NoNeighbours(w)'
      BY <1>1 DEF BuildingInv, DedupeInv, InOrder, NoNeighbours, IsDuplicate, Close, ForwardKey, At
    <2>4. \A k \in DOMAIN edges : IsOf(edges[k], At(file.edges, edges[k].idx))'
      BY <1>1 DEF BuildingInv, DedupeInv, IsOf, HasEnds, At
    <2>5. \A k \in DOMAIN edges' : /\ edges'[k].idx \in Indices(file.edges)'
                                   /\ edges'[k].src \in Nodes' /\ edges'[k].dst \in Nodes'
      BY <1>1 DEF BuildingInv, DedupeInv, Nodes, Indices
    <2>6. /\ Len(edges') = Len(file'.edges)
          /\ r' = w' + Len(removed')
          /\ r' <= Len(edges') \/ (r' = 1 /\ edges' = <<>>)
          /\ \A k \in DOMAIN removed' : removed'[k] \in 1 .. r' - 1
          /\ \A k, l \in DOMAIN removed' : k < l => removed'[k] < removed'[l]
      BY <1>1 DEF BuildingInv, DedupeInv
    <2> QED
      BY <1>1, <2>2, <2>3, <2>4, <2>5, <2>6 DEF DedupeInv
  <1>5. KeptInv'
    <2> SUFFICES ASSUME pc \in {"store", "FWD"} PROVE KeptInv'
      BY <1>1 DEF KeptInv
    <2>1. KeptInv
      BY DEF BuildingInv
    <2>2. \A k \in DOMAIN edges' : edges'[k].src \in Nodes' /\ edges'[k].dst \in Nodes'
      BY <1>1, <2>1 DEF KeptInv, Nodes, Indices
    <2>3. InOrder(DOMAIN edges)'
      BY <1>1, <2>1 DEF KeptInv, InOrder, ForwardKey
    <2>4. NoNeighbours(Len(edges))'
      BY <1>1, <2>1 DEF KeptInv, NoNeighbours, IsDuplicate, Close
    <2>5. ASSUME NEW k \in DOMAIN edges'
          PROVE  \E i \in DOMAIN file'.edges : IsOrigin(file.edges[i], edges[k])'
      <3>1. PICK i \in DOMAIN file.edges : IsOrigin(file.edges[i], edges[k])
        BY <1>1, <2>1 DEF KeptInv
      <3>2. IsOrigin(file.edges[i], edges[k])'
        BY <1>1, <3>1 DEF IsOrigin, IsOf, HasEnds, Represents, Close, Indices, At
      <3> QED
        BY <1>1, <3>2
    <2>6. ASSUME NEW i \in DOMAIN file'.edges
          PROVE  \E k \in DOMAIN edges' : Represents(edges[k], file.edges[i])'
      <3>1. PICK k \in DOMAIN edges : Represents(edges[k], file.edges[i])
        BY <1>1, <2>1 DEF KeptInv
      <3>2. Represents(edges[k], file.edges[i])'
        BY <1>1, <3>1 DEF Represents, HasEnds, Close
      <3> QED
        BY <1>1, <3>2
    <2> QED
      BY <2>2, <2>3, <2>4, <2>5, <2>6 DEF KeptInv
  <1>6. ForwardInv'
    BY <1>1 DEF BuildingInv, ForwardInv, Stored, ScEdges, IsShortcut, At
  <1>7. BackwardInv' /\ OffsetInv'
    BY <1>1 DEF BuildingInv, BackwardInv, OffsetInv, Target, BackwardKey, Source, FinalEdges,
                Indices, At
  <1>8. GraphInv'
    <2>1. pc' = pc /\ GraphInv
      BY <1>1 DEF BuildingInv
    <2>2. pc \in {"BWD", "done"} => EdgesShow' /\ NodesShow("FWD")'
      BY <1>1, <2>1, ShownUnchanged DEF GraphInv
    <2>3. NodesShow("BWD") => NodesShow("BWD")'
      BY <1>1 DEF NodesShow, ShowsOwnEdges, ShowsDescending, Covers, OffsetIndices, Opp,
                  FinalEdges, Target, Nodes, Indices, At
    <2> QED
      BY <2>1, <2>2, <2>3 DEF GraphInv
  <1>9. FailsForAReason'
    BY <1>1 DEF BuildingInv, FailsForAReason, Nodes, Indices, At, IsDuplicate, Close
  <1> QED
    BY <1>2, <1>3, <1>4, <1>5, <1>6, <1>7, <1>8, <1>9 DEF BuildingInv

LEMMA NextBuilding == BuildingInv /\ [Next]_vars => BuildingInv'
  <1> SUFFICES ASSUME BuildingInv, [Next]_vars PROVE BuildingInv'
    OBVIOUS
  <1>1. CASE InsertEdge \/ EndEdges \/ InsertNode \/ CheckCoordinates
    BY <1>1, InsertEdgeBuilding, EndEdgesBuilding, InsertNodeBuilding, CheckCoordinatesBuilding
  <1>2. CASE SortForward
    BY <1>2, SortForwardBuilding
  <1>3. CASE RemoveDuplicate \/ KeepEdge \/ CorrectShortcuts
    BY <1>3, RemoveDuplicateBuilding, KeepEdgeBuilding, CorrectShortcutsBuilding
  <1>4. CASE StoreMetrics
    BY <1>4, StoreMetricsBuilding
  <1>5. CASE PushOffset \/ PushForwardEdge \/ PushBackwardEdge
    BY <1>5, PushOffsetBuilding, PushForwardEdgeBuilding, PushBackwardEdgeBuilding
  <1>6. CASE EndForward \/ EndBackward
    BY <1>6, EndForwardBuilding, EndBackwardBuilding
  <1>7. CASE Stopped \/ UNCHANGED vars
    BY <1>7, StutteringBuilding DEF Stopped
  <1> QED
    BY <1>1, <1>2, <1>3, <1>4, <1>5, <1>6, <1>7 DEF Next

LEMMA BuildingInvariant == Spec => []BuildingInv
  BY InitBuilding, NextBuilding, PTL DEF Spec

\* All variables keep their types.  That r and w stay within proto_edges, an offset-loop within
\* the nodes, and what the maps and ends of the graph refer to within its edges and nodes,
\* means that finalize indexes no vector out of bounds, except for halves that are no edges.
THEOREM BuildingTypeCorrect == Spec => []TypeOK
  <1>1. BuildingInv => TypeOK
    BY DEF BuildingInv
  <1> QED
    BY <1>1, BuildingInvariant, PTL

\* The offset-array and the map of either direction show exactly the edges of each node, each
\* once: the loops of finalize skip no node, and the backward-order permutes the edges.
THEOREM LeavingIsCompleteSafe == Spec => []LeavingIsComplete
  <1>1. BuildingInv => LeavingIsComplete
    <2> SUFFICES ASSUME BuildingInv, pc = "done", NEW dir \in Dirs, NEW v \in Nodes
                 PROVE  ShowsOwnEdges(dir, v)
      BY DEF LeavingIsComplete, ShowsOwnEdges
    <2>1. NodesShow("FWD") /\ NodesShow("BWD")
      BY DEF BuildingInv, GraphInv
    <2> QED
      BY <2>1 DEF NodesShow, Dirs
  <1> QED
    BY <1>1, BuildingInvariant, PTL

\* In either direction, the edges of a node lead to ever lower levels, which CH-Dijkstra relies
\* on when it stops at the first edge that leads down (dijkstra.rs:271).
THEOREM LevelsDescendSafe == Spec => []LevelsDescend
  <1>1. BuildingInv => LevelsDescend
    <2> SUFFICES ASSUME BuildingInv, pc = "done", NEW dir \in Dirs, NEW v \in Nodes
                 PROVE  ShowsDescending(dir, v)
      BY DEF LevelsDescend, ShowsDescending
    <2>1. NodesShow("FWD") /\ NodesShow("BWD")
      BY DEF BuildingInv, GraphInv
    <2> QED
      BY <2>1 DEF NodesShow, Dirs
  <1> QED
    BY <1>1, BuildingInvariant, PTL

\* Removing duplicates loses no edge: each edge of the file has one in the graph that stands for
\* it, and the graph has no others.
THEOREM NothingLostSafe == Spec => []NothingLost
  <1>1. BuildingInv => NothingLost
    BY DEF BuildingInv, GraphInv, EdgesShow, ShowsEdge, NothingLost
  <1> QED
    BY <1>1, BuildingInvariant, PTL

\* The accessors find the halves of each shortcut, however many edges have been moved by the
\* sorting, and removed before and between its halves.
THEOREM ShortcutsKeepTheirHalvesSafe == Spec => []ShortcutsKeepTheirHalves
  <1>1. BuildingInv => ShortcutsKeepTheirHalves
    BY DEF BuildingInv, GraphInv, EdgesShow, ShowsEdge, ShortcutsKeepTheirHalves
  <1> QED
    BY <1>1, BuildingInvariant, PTL

\* The map of edge-ids is sorted, as its binary search needs it, and leads from every id of the
\* file to its edge.
THEOREM IdsResolveSafe == Spec => []IdsResolve
  <1>1. BuildingInv => IdsResolve
    BY DEF BuildingInv, GraphInv, EdgesShow, IdsResolve
  <1> QED
    BY <1>1, BuildingInvariant, PTL

\* finalize returns an error only for a node without coordinate, a metric below zero by more
\* than the accuracy, or an id of two different edges: duplicates and metrics around zero never
\* are the reason.
THEOREM FailsForAReasonSafe == Spec => []FailsForAReason
  <1>1. BuildingInv => FailsForAReason
    BY DEF BuildingInv
  <1> QED
    BY <1>1, BuildingInvariant, PTL
===============================================================================
