--------------------------- MODULE BalancingProofs ---------------------------
(***************************************************************************)
(* The invariants of Balancing hold for all streets, shortcuts, metrics,   *)
(* loads and configs.                                                      *)
(***************************************************************************)
EXTENDS Balancing, Foundations

-----------------------------------------------------------------------------
(* The inductive invariant *)

Edges == Streets \cup Shortcuts

NotBelowZero(x) == x[1] >= 0

\* Metrics aren't below zero before the first update, and after an update if it is guarded.
IsKept == IsGuarded \/ (iter = 0 /\ pc # "stats")

IsMetric(x) == IsRational(x) /\ (IsKept => NotBelowZero(x))

\* Streets are there, and all edges have the same metrics.
GraphFits ==
    /\ Streets \subseteq DOMAIN graph /\ DOMAIN graph \subseteq Edges
    /\ \A e, f \in DOMAIN graph : DOMAIN graph[e] = DOMAIN graph[f]
    /\ pc # "err" => \A e \in DOMAIN graph : \A id \in DOMAIN graph[e] : IsMetric(graph[e][id])

\* What has been written of the graph
Holds(rows, ids) ==
    /\ DOMAIN rows = Streets
    /\ \A e \in Streets : \A k \in DOMAIN ids : /\ ids[k] \in DOMAIN graph[e]
                                                /\ rows[e][k] = graph[e][ids[k]]
    /\ \A e \in Streets : DOMAIN rows[e] = DOMAIN ids

FilesFit ==
    pc \in {"construct", "read"} =>
        /\ <<iter, "graph">> \in DOMAIN maps /\ Holds(maps[<<iter, "graph">>], IterCfg.written)
        /\ iter \in DOMAIN infos /\ Holds(infos[iter], IterCfg.infos)

\* The rows of the streets, and sums of them
IsConstructedOf(all, rows) ==
    /\ Streets \subseteq DOMAIN all /\ DOMAIN all \subseteq Edges
    /\ \A e \in DOMAIN all : /\ DOMAIN all[e] = DOMAIN IterCfg.written
                             /\ \A k \in DOMAIN IterCfg.written : IsMetric(all[e][k])
    /\ \A e \in Streets : all[e] = rows[e]
    /\ \A s \in DOMAIN all \ Streets :
          /\ Halves[s][1] \in DOMAIN all /\ Halves[s][2] \in DOMAIN all
          /\ \A k \in DOMAIN IterCfg.written :
                all[s][k] = Plus(all[Halves[s][1]][k], all[Halves[s][2]][k])

ConstructedFits ==
    pc = "read" => /\ <<iter, "ch">> \in DOMAIN maps
                   /\ IsConstructedOf(maps[<<iter, "ch">>], maps[<<iter, "graph">>])

\* After reading, shortcuts cost what their halves do.
SumsFit ==
    pc \in {"routing", "simulate"} /\ ConfigsAgree =>
        \A s \in DOMAIN graph \ Streets : \A id \in ToSet(IterCfg.parsed) :
            AreClose(graph[s][id], Plus(graph[Halves[s][1]][id], graph[Halves[s][2]][id]),
                     Tolerance)

AlphasFit == pc = "simulate" => alphas = Alphas

LoadFits ==
    pc = "update" => DOMAIN load = DOMAIN graph /\ \A e \in DOMAIN graph : load[e] \in Nat

\* Metrics but for the workload stay as they are.
IsUntouched(e, id, value) ==
    ConfigsAgree /\ id # "workload" => value \in {Custom[e][id], Stored(Custom[e][id])}

GraphIsUntouched ==
    \A e \in Streets : \A id \in DOMAIN graph[e] : IsUntouched(e, id, graph[e][id])

\* The last iteration's graph is the one that has been published.
LastIsPublished ==
    LET published == maps[<<Results, "graph">>]
        analysed == maps[<<cfg.updates, "graph">>]
        ids == IF cfg.updates = 0 THEN cfg.iter0.written ELSE cfg.iterI.written
    IN  /\ {<<Results, "graph">>, <<cfg.updates, "graph">>} \subseteq DOMAIN maps
        /\ \A e \in Streets : \A id \in ToSet(cfg.published) :
              LET value == published[e][ColumnOf(cfg.published, id)]
              IN  /\ id \in ToSet(ids) => value = analysed[e][ColumnOf(ids, id)]
                  /\ IsUntouched(e, id, value)

PublishedFits ==
    /\ pc = "write" /\ iter = cfg.updates =>
          /\ <<Results, "graph">> \in DOMAIN maps
          /\ Holds(maps[<<Results, "graph">>], cfg.published)
    /\ \/ pc \in {"construct", "read", "routing", "simulate", "update", "stats"}
          /\ iter = cfg.updates
       \/ pc \in {"iterate", "done"} /\ iter = cfg.updates + 1
       => LastIsPublished

DemandFits == \A i \in 0 .. iter - 1 : stats[i].pairs = pairs

IInv ==
    /\ TypeOK
    /\ GraphFits
    /\ FilesFit
    /\ ConstructedFits
    /\ SumsFit
    /\ AlphasFit
    /\ LoadFits
    /\ GraphIsUntouched
    /\ PublishedFits
    /\ DemandFits
    /\ UpdatedGraphIsReadable

-----------------------------------------------------------------------------
(* Metrics around zero *)

LEMMA AccuracyFacts ==
    IsRational(Accuracy) /\ Accuracy[1] > 0
  <1>1. IsRational(Accuracy) /\ Less(Zero, Accuracy)
    BY BalancingAssumption
  <1>2. Accuracy[1] \in Int
    BY <1>1, RationalHasParts
  <1>3. 0 * Accuracy[2] < Accuracy[1] * 1
    BY <1>1 DEF Less, Zero
  <1>4. 0 * Accuracy[2] = 0
    <2>1. Accuracy[2] \in Nat
      BY <1>1, RationalHasParts
    <2> QED BY <2>1
  <1> QED
    BY <1>1, <1>2, <1>3, <1>4

LEMMA SignFacts ==
    ASSUME NEW x, IsRational(x)
    PROVE  /\ Less(x, Zero) <=> x[1] < 0
           /\ \A D \in Nat, v \in Int : D > 0 /\ Is(x, D, v) => (x[1] >= 0 <=> v >= 0)
  <1>1. x[1] \in Int /\ x[2] \in Nat /\ x[2] > 0
    BY RationalHasParts
  <1>2. x[1] * 1 = x[1] /\ 0 * x[2] = 0
    BY <1>1
  <1>3. Less(x, Zero) <=> x[1] < 0
    BY <1>2 DEF Less, Zero
  <1>4. ASSUME NEW D \in Nat, NEW v \in Int, D > 0, Is(x, D, v)
        PROVE  x[1] >= 0 <=> v >= 0
    <2>1. 0 * D = 0 * 1
      OBVIOUS
    <2>2. Is(Zero, D, 0)
      BY <2>1, ThreeHalvesIsRational DEF Is, Zero
    <2>3. Less(x, Zero) <=> v < 0
      BY <1>4, <2>2, IsLess
    <2> QED BY <1>1, <1>3, <2>3
  <1> QED
    BY <1>3, <1>4

\* The numerator of what is stored instead of u / D, for an accuracy of a / D
StoredAs(u, a) == IF Magnitude(u) < 3 * a THEN 2 * a ELSE u

LEMMA StoredIs ==
    ASSUME NEW x, NEW D \in Nat, D > 0, NEW u \in Int, NEW a \in Int,
           Is(x, D, u), Is(Accuracy, D, 2 * a)
    PROVE  /\ a > 0
           /\ IsZero(x) <=> Magnitude(u) < 3 * a
           /\ Is(Stored(x), D, StoredAs(u, a)) /\ StoredAs(u, a) \in Int
           /\ IsRefused(x) <=> StoredAs(u, a) < 2 * a
  <1>1. 0 * D = 0 * 1
    OBVIOUS
  <1>2. Is(Zero, D, 0)
    BY <1>1, ThreeHalvesIsRational DEF Is, Zero
  <1>3. 2 * a \in Int
    OBVIOUS
  <1>4. a > 0
    <2>1. Less(Zero, Accuracy) <=> 0 < 2 * a
      BY <1>2, <1>3, IsLess
    <2> QED BY <2>1, BalancingAssumption
  <1>5. u - 0 = u
    OBVIOUS
  <1>6. IsZero(x) <=> Magnitude(u) < 3 * a
    <2> DEFINE nil == Zero
               none == 0
    <2>1. Is(nil, D, none) /\ none \in Int /\ u - none = u
      BY <1>2, <1>5
    <2>2. IsZero(x) <=> AreClose(x, nil, Accuracy)
      BY DEF IsZero
    <2> HIDE DEF nil, none
    <2>3. AreClose(x, nil, Accuracy) <=> Magnitude(u - none) < 3 * a
      BY <2>1, IsClose
    <2> QED BY <2>1, <2>2, <2>3
  <1>7. Is(Stored(x), D, StoredAs(u, a)) /\ StoredAs(u, a) \in Int
    BY <1>3, <1>6 DEF Stored, StoredAs
  <1>8. IsRefused(x) <=> StoredAs(u, a) < 2 * a
    <2> DEFINE y == Stored(x)
               v == StoredAs(u, a)
    <2>1. Is(y, D, v) /\ v \in Int
      BY <1>7
    <2>2. IsRefused(x) <=> Less(y, Accuracy)
      BY DEF IsRefused
    <2> HIDE DEF y, v
    <2>3. Less(y, Accuracy) <=> v < 2 * a
      BY <1>3, <2>1, IsLess
    <2> QED BY <2>2, <2>3 DEF v
  <1> QED
    BY <1>4, <1>6, <1>7, <1>8

LEMMA StoredFacts ==
    ASSUME NEW x, IsRational(x)
    PROVE  /\ IsRational(Stored(x))
           /\ NotBelowZero(x) => NotBelowZero(Stored(x)) /\ ~IsRefused(x)
           /\ IsZero(x) \/ x[1] # 0
           /\ Stored(Stored(x)) = Stored(x)
  <1>1. PICK D \in Nat \ {0} : \E u, v, a \in Int :
            Is(x, D, u) /\ Is(x, D, v) /\ Is(Accuracy, D, 2 * a)
    BY AccuracyFacts, CommonDenominator
  <1>2. PICK u \in Int, a \in Int : Is(x, D, u) /\ Is(Accuracy, D, 2 * a)
    BY <1>1
  <1>3. D \in Nat /\ D > 0
    OBVIOUS
  <1>4. /\ a > 0
        /\ IsZero(x) <=> Magnitude(u) < 3 * a
        /\ Is(Stored(x), D, StoredAs(u, a)) /\ StoredAs(u, a) \in Int
        /\ IsRefused(x) <=> StoredAs(u, a) < 2 * a
    BY <1>2, <1>3, StoredIs
  <1>5. x[1] >= 0 <=> u >= 0
    BY <1>2, <1>3, SignFacts
  <1>6. u >= 0 => StoredAs(u, a) >= 2 * a
    BY <1>4 DEF StoredAs, Magnitude
  <1>7. IsRational(Stored(x))
    BY <1>4 DEF Is
  <1>8. NotBelowZero(x) => NotBelowZero(Stored(x)) /\ ~IsRefused(x)
    <2> SUFFICES ASSUME NotBelowZero(x) PROVE NotBelowZero(Stored(x)) /\ ~IsRefused(x)
      OBVIOUS
    <2>1. StoredAs(u, a) >= 2 * a
      BY <1>5, <1>6 DEF NotBelowZero
    <2>2. StoredAs(u, a) >= 0
      BY <1>4, <2>1
    <2>3. Stored(x)[1] >= 0
      <3> DEFINE y == Stored(x)
                 v == StoredAs(u, a)
      <3>1. IsRational(y) /\ Is(y, D, v) /\ v \in Int /\ v >= 0
        BY <1>4, <1>7, <2>2
      <3> HIDE DEF y, v
      <3>2. y[1] >= 0
        BY <1>3, <3>1, SignFacts
      <3> QED BY <3>2 DEF y
    <2> QED BY <1>4, <2>1, <2>3 DEF NotBelowZero
  <1>9. IsZero(x) \/ x[1] # 0
    <2> SUFFICES ASSUME x[1] = 0 PROVE IsZero(x)
      OBVIOUS
    <2>1. u * x[2] = 0
      BY <1>2, <1>3 DEF Is
    <2>2. x[2] \in Nat /\ x[2] > 0
      BY RationalHasParts
    <2>3. u = 0
      BY <2>1, <2>2
    <2> QED BY <1>4, <2>3 DEF Magnitude
  <1>10. Stored(Stored(x)) = Stored(x)
    BY DEF Stored
  <1> QED
    BY <1>7, <1>8, <1>9, <1>10

\* Correcting both halves and the shortcut moves its length from theirs by less than three
\* accuracies, and by less than one and a half if none is below zero.
LEMMA StoredSums ==
    ASSUME NEW x, NEW y, IsRational(x), IsRational(y),
           ~IsRefused(x), ~IsRefused(y), ~IsRefused(Plus(x, y)),
           NEW stored, stored = Stored(Plus(x, y))
    PROVE  /\ AreClose(stored, Plus(Stored(x), Stored(y)), Times(<<2, 1>>, Accuracy))
           /\ NotBelowZero(x) /\ NotBelowZero(y) =>
                  AreClose(stored, Plus(Stored(x), Stored(y)), Accuracy)
  <1>1. PICK D \in Nat \ {0} : \E u, v, a \in Int :
            Is(x, D, u) /\ Is(y, D, v) /\ Is(Accuracy, D, 2 * a)
    BY AccuracyFacts, CommonDenominator
  <1>2. PICK u \in Int, v \in Int, a \in Int :
            Is(x, D, u) /\ Is(y, D, v) /\ Is(Accuracy, D, 2 * a)
    BY <1>1
  <1>3. D \in Nat /\ D > 0
    OBVIOUS
  <1> DEFINE w == u + v
             su == StoredAs(u, a)
             sv == StoredAs(v, a)
             sw == StoredAs(w, a)
             z == Plus(x, y)
  <1>4. w \in Int /\ Is(z, D, w)
    BY <1>2, <1>3, IsPlus
  <1>5. a > 0 /\ Is(Stored(x), D, su) /\ su \in Int /\ su >= 2 * a
    <2>1. IsRefused(x) <=> su < 2 * a
      BY <1>2, <1>3, StoredIs
    <2>2. a > 0 /\ Is(Stored(x), D, su) /\ su \in Int
      BY <1>2, <1>3, StoredIs
    <2> QED BY <2>1, <2>2
  <1>6. Is(Stored(y), D, sv) /\ sv \in Int /\ sv >= 2 * a
    <2>1. IsRefused(y) <=> sv < 2 * a
      BY <1>2, <1>3, StoredIs
    <2>2. Is(Stored(y), D, sv) /\ sv \in Int
      BY <1>2, <1>3, StoredIs
    <2> QED BY <2>1, <2>2
  <1>7. Is(Stored(z), D, sw) /\ sw \in Int /\ sw >= 2 * a
    <2>1. ~IsRefused(z)
      OBVIOUS
    <2> HIDE DEF z, w
    <2>2. IsRefused(z) <=> sw < 2 * a
      BY <1>2, <1>3, <1>4, StoredIs
    <2>3. Is(Stored(z), D, sw) /\ sw \in Int
      BY <1>2, <1>3, <1>4, StoredIs
    <2> QED BY <2>1, <2>2, <2>3
  <1>8. /\ Magnitude(sw - (su + sv)) < 6 * a
        /\ u >= 0 /\ v >= 0 => Magnitude(sw - (su + sv)) < 3 * a
    <2>1. \A i \in Int, k \in Int : k > 0 => (Magnitude(i) < k <=> -k < i /\ i < k)
      BY DEF Magnitude
    <2>2. a \in Int /\ a > 0 /\ 3 * a \in Int /\ 3 * a > 0 /\ 6 * a \in Int /\ 6 * a > 0
      BY <1>5
    <2>3. /\ su = IF -(3 * a) < u /\ u < 3 * a THEN 2 * a ELSE u
          /\ sv = IF -(3 * a) < v /\ v < 3 * a THEN 2 * a ELSE v
          /\ sw = IF -(3 * a) < u + v /\ u + v < 3 * a THEN 2 * a ELSE u + v
      BY <1>4, <2>1, <2>2 DEF StoredAs
    <2>4. su >= 2 * a /\ sv >= 2 * a /\ sw >= 2 * a /\ su \in Int /\ sv \in Int /\ sw \in Int
      BY <1>5, <1>6, <1>7
    <2> HIDE DEF su, sv, sw
    <2>a. (su = 2 * a /\ -(3 * a) < u /\ u < 3 * a) \/ (su = u /\ u >= 3 * a)
      BY <2>2, <2>3, <2>4
    <2>b. (sv = 2 * a /\ -(3 * a) < v /\ v < 3 * a) \/ (sv = v /\ v >= 3 * a)
      BY <2>2, <2>3, <2>4
    <2>c. /\ sw = 2 * a \/ sw = u + v
          /\ u + v < 3 * a /\ -(3 * a) < u + v => sw = 2 * a
          /\ sw = 2 * a => sw = u + v \/ (u + v < 3 * a /\ -(3 * a) < u + v)
      BY <2>2, <2>3
    <2>5. -(6 * a) < sw - (su + sv) /\ sw - (su + sv) < 6 * a
      <3>1. CASE su = u /\ u >= 3 * a
        BY <2>2, <2>4, <2>b, <2>c, <3>1
      <3>2. CASE su = 2 * a /\ -(3 * a) < u /\ u < 3 * a
        <4>1. CASE sv = v /\ v >= 3 * a
          BY <2>2, <2>4, <2>c, <3>2, <4>1
        <4>2. CASE sv = 2 * a /\ -(3 * a) < v /\ v < 3 * a
          <5>1. CASE sw = 2 * a
            BY <2>2, <2>4, <3>2, <4>2, <5>1
          <5>2. CASE sw = u + v
            BY <2>2, <2>4, <2>c, <3>2, <4>2, <5>2
          <5> QED BY <2>c, <5>1, <5>2
        <4> QED BY <2>b, <4>1, <4>2
      <3> QED BY <2>a, <3>1, <3>2
    <2>6. u >= 0 /\ v >= 0 => -(3 * a) < sw - (su + sv) /\ sw - (su + sv) < 3 * a
      BY <2>2, <2>3, <2>4
    <2>7. sw - (su + sv) \in Int
      BY <2>4
    <2> QED BY <2>1, <2>2, <2>5, <2>6, <2>7
  <1>10. (x[1] >= 0 <=> u >= 0) /\ (y[1] >= 0 <=> v >= 0)
    BY <1>2, <1>3, SignFacts
  <1> HIDE DEF su, sv, sw, w, z
  <1> DEFINE sum == Plus(Stored(x), Stored(y))
             sn == su + sv
  <1>11. Is(sum, D, sn) /\ sn \in Int
    BY <1>3, <1>5, <1>6, IsPlus
  <1>12. Magnitude(sw - sn) < 6 * a /\ (u >= 0 /\ v >= 0 => Magnitude(sw - sn) < 3 * a)
    BY <1>8
  <1> DEFINE t == Stored(z)
  <1>13. Is(t, D, sw)
    BY <1>7
  <1> HIDE DEF sum, sn, t
  <1>14. /\ AreClose(t, sum, Accuracy) <=> Magnitude(sw - sn) < 3 * a
         /\ AreClose(t, sum, Times(<<2, 1>>, Accuracy)) <=> Magnitude(sw - sn) < 6 * a
    BY <1>2, <1>3, <1>7, <1>11, <1>13, IsClose
  <1> QED
    BY <1>10, <1>12, <1>14 DEF t, sum, z, NotBelowZero

-----------------------------------------------------------------------------
(* Columns *)

LEMMA ColumnFacts ==
    ASSUME NEW T, NEW ids \in Seq(T), NEW id \in ToSet(ids)
    PROVE  ColumnOf(ids, id) \in DOMAIN ids /\ ids[ColumnOf(ids, id)] = id
  <1> DEFINE I == {i \in 1 .. Len(ids) : ids[i] = id}
             R == OpToRel(<, Nat)
  <1>1. Len(ids) \in Nat /\ DOMAIN ids = 1 .. Len(ids)
    OBVIOUS
  <1>2. PICK k \in DOMAIN ids : ids[k] = id
    BY DEF ToSet
  <1>3. k \in I
    BY <1>1, <1>2
  <1>4. ColumnOf(ids, id) = CHOOSE i \in I : \A j \in I : i <= j
    BY <1>3 DEF ColumnOf, SelectInSeq, Min
  <1>5. \E i \in I : \A j \in I : i <= j
    <2>1. IsWellFoundedOn(R, Nat)
      BY NatLessThanWellFounded
    <2>2. \A i, j \in Nat : i < j => <<i, j>> \in R
      BY DEF OpToRel
    <2>3. I \subseteq Nat /\ I # {}
      BY <1>1, <1>3
    <2> HIDE DEF I, R
    <2>4. PICK i \in I : \A j \in I : <<j, i>> \notin R
      BY <2>1, <2>3, WFMin
    <2>5. ASSUME NEW j \in I PROVE i <= j
      <3>1. i \in Nat /\ j \in Nat /\ ~(j < i)
        BY <2>2, <2>3, <2>4
      <3> QED BY <3>1
    <2> QED BY <2>5
  <1>6. ColumnOf(ids, id) \in I
    <2> HIDE DEF I
    <2> QED BY <1>4, <1>5
  <1> QED
    BY <1>1, <1>6

LEMMA ElementsOfConcat ==
    ASSUME NEW T, NEW s \in Seq(T), NEW t \in Seq(T)
    PROVE  ToSet(s \o t) = ToSet(s) \cup ToSet(t)
  <1>1. /\ s \o t \in Seq(T) /\ Len(s \o t) = Len(s) + Len(t)
        /\ \A i \in 1 .. Len(s) + Len(t) :
              (s \o t)[i] = IF i <= Len(s) THEN s[i] ELSE t[i - Len(s)]
    OBVIOUS
  <1> DEFINE m == Len(s)
             n == Len(t)
             u == s \o t
  <1>2. m \in Nat /\ n \in Nat /\ DOMAIN s = 1 .. m /\ DOMAIN t = 1 .. n /\ DOMAIN u = 1 .. m + n
    BY <1>1
  <1>3. \A i \in 1 .. m + n : u[i] = IF i <= m THEN s[i] ELSE t[i - m]
    BY <1>1
  <1> HIDE DEF m, n, u
  <1>4. ASSUME NEW i \in 1 .. m PROVE i \in 1 .. m + n /\ u[i] = s[i]
    BY <1>2, <1>3
  <1>5. ASSUME NEW i \in 1 .. n PROVE m + i \in 1 .. m + n /\ u[m + i] = t[i]
    <2>1. m + i \in 1 .. m + n /\ ~(m + i <= m) /\ (m + i) - m = i
      BY <1>2
    <2> QED BY <1>3, <2>1
  <1>6. ASSUME NEW i \in 1 .. m + n PROVE (i \in 1 .. m /\ u[i] = s[i])
                                        \/ (i - m \in 1 .. n /\ u[i] = t[i - m])
    BY <1>2, <1>3
  <1>7. ToSet(u) = ToSet(s) \cup ToSet(t)
    <2>1. ASSUME NEW x \in ToSet(s) PROVE x \in ToSet(u)
      BY <1>2, <1>4 DEF ToSet
    <2>2. ASSUME NEW x \in ToSet(t) PROVE x \in ToSet(u)
      <3>1. PICK i \in 1 .. n : x = t[i]
        BY <1>2 DEF ToSet
      <3>2. m + i \in DOMAIN u /\ u[m + i] = x
        BY <1>2, <1>5, <3>1
      <3> QED BY <3>2 DEF ToSet
    <2>3. ASSUME NEW x \in ToSet(u) PROVE x \in ToSet(s) \/ x \in ToSet(t)
      <3>1. PICK i \in 1 .. m + n : x = u[i]
        BY <1>2 DEF ToSet
      <3>2. CASE i \in 1 .. m /\ u[i] = s[i]
        BY <1>2, <3>1, <3>2 DEF ToSet
      <3>3. CASE i - m \in 1 .. n /\ u[i] = t[i - m]
        <4> DEFINE j == i - m
        <4>1. j \in DOMAIN t /\ t[j] = x
          BY <1>2, <3>1, <3>3
        <4> HIDE DEF j
        <4> QED BY <4>1 DEF ToSet
      <3> QED BY <1>6, <3>2, <3>3
    <2> QED BY <2>1, <2>2, <2>3
  <1> QED
    BY <1>7 DEF u

-----------------------------------------------------------------------------
(* The rows of shortcuts *)

\* A finite set of naturals has a bound.
LEMMA BoundExists ==
    ASSUME NEW S, IsFiniteSet(S), S \subseteq Nat
    PROVE  \E b \in Nat : \A x \in S : x < b
  <1>0. PICK n \in Nat : ExistsSurjection(1 .. n, S)
    BY FS_NatSurjection
  <1>1. PICK f \in Surjection(1 .. n, S) : TRUE
    BY <1>0 DEF ExistsSurjection
  <1>2. \A x \in S : \E i \in 1 .. n : f[i] = x
    BY <1>1 DEF Surjection
  <1>a. \A i \in 1 .. n : f[i] \in Nat
    BY <1>1 DEF Surjection
  <1> DEFINE N == {k \in Nat : k <= n => \E b \in Nat : \A i \in 1 .. k : f[i] < b}
  <1>3. 0 \in N
    <2>1. \A i \in 1 .. 0 : f[i] < 0
      OBVIOUS
    <2> QED BY <2>1
  <1>4. ASSUME NEW k \in Nat, k \in N PROVE k + 1 \in N
    <2> SUFFICES ASSUME k + 1 <= n PROVE \E b \in Nat : \A i \in 1 .. k + 1 : f[i] < b
      OBVIOUS
    <2>1. PICK b \in Nat : \A i \in 1 .. k : f[i] < b
      BY <1>4
    <2>2. f[k + 1] \in Nat
      BY <1>a
    <2> DEFINE c == b + f[k + 1] + 1
    <2>3. c \in Nat /\ b <= c /\ f[k + 1] < c
      BY <2>2
    <2> HIDE DEF c
    <2>4. \A i \in 1 .. k + 1 : i \in 1 .. k \/ i = k + 1
      OBVIOUS
    <2>5. \A i \in 1 .. k : f[i] \in Nat
      BY <1>a
    <2>6. \A i \in 1 .. k + 1 : f[i] < c
      BY <2>1, <2>2, <2>3, <2>4, <2>5
    <2> QED BY <2>3, <2>6
  <1>5. n \in N
    <2> HIDE DEF N
    <2> QED BY <1>3, <1>4, NaturalsAreInductive
  <1>6. PICK b \in Nat : \A i \in 1 .. n : f[i] < b
    BY <1>5
  <1> QED
    BY <1>2, <1>6

Added(first, second) == [k \in DOMAIN first |-> Plus(first[k], second[k])]

LEMMA HalvesFacts ==
    /\ \A s \in Shortcuts : /\ Halves[s][1] \in Edges /\ Halves[s][1] < s
                            /\ Halves[s][2] \in Edges /\ Halves[s][2] < s
    /\ Edges \subseteq Nat /\ IsFiniteSet(Edges)
    /\ \A e \in Edges : e \in Streets <=> e \notin Shortcuts
  <1>1. 1 \in 1 .. 2 /\ 2 \in 1 .. 2
    OBVIOUS
  <1>2. IsFiniteSet(Streets \cup Shortcuts)
    BY BalancingAssumption, FS_Union
  <1> QED
    BY <1>1, <1>2, BalancingAssumption DEF Edges

AddsUp(f, rows) ==
    f = [e \in Streets \cup Shortcuts |->
            IF e \in Streets THEN rows[e]
            ELSE [k \in DOMAIN f[Halves[e][1]] |->
                     Plus(f[Halves[e][1]][k], f[Halves[e][2]][k])]]

\* Sums over halves exist, because halves have lower numbers.
LEMMA SumsExist ==
    ASSUME NEW rows
    PROVE  \E f : AddsUp(f, rows)
  <1> DEFINE value(f, e) == IF e \in Streets THEN rows[e]
                            ELSE Added(f[Halves[e][1]], f[Halves[e][2]])
             N == {n \in Nat : \E f : \A e \in Edges : e < n => f[e] = value(f, e)}
  <1>1. 0 \in N
    BY HalvesFacts
  <1>2. ASSUME NEW n \in Nat, n \in N PROVE n + 1 \in N
    <2>1. PICK f : \A e \in Edges : e < n => f[e] = value(f, e)
      BY <1>2
    <2> DEFINE g == [e \in Edges |-> IF e < n THEN f[e] ELSE value(f, e)]
    <2>2. ASSUME NEW e \in Edges, e < n + 1 PROVE g[e] = value(g, e)
      <3>1. value(g, e) = value(f, e)
        <4>1. CASE e \in Streets
          BY <4>1
        <4>2. CASE e \notin Streets
          <5>1. /\ Halves[e][1] \in Edges /\ Halves[e][1] < e
                /\ Halves[e][2] \in Edges /\ Halves[e][2] < e
            BY <4>2, HalvesFacts
          <5>2. e \in Nat /\ Halves[e][1] \in Nat /\ Halves[e][2] \in Nat
            BY <5>1, HalvesFacts
          <5>3. Halves[e][1] < n /\ Halves[e][2] < n
            BY <2>2, <5>1, <5>2
          <5>4. g[Halves[e][1]] = f[Halves[e][1]] /\ g[Halves[e][2]] = f[Halves[e][2]]
            BY <5>1, <5>3
          <5> HIDE DEF g
          <5> QED BY <4>2, <5>4
        <4> QED BY <4>1, <4>2
      <3>2. g[e] = value(f, e)
        BY <2>1
      <3> QED BY <3>1, <3>2
    <2> HIDE DEF g, value
    <2> QED BY <2>2
  <1>3. PICK b \in Nat : \A e \in Edges : e < b
    BY HalvesFacts, BoundExists
  <1>4. b \in N
    <2> HIDE DEF N
    <2> QED BY <1>1, <1>2, NaturalsAreInductive
  <1>5. PICK f : \A e \in Edges : f[e] = value(f, e)
    BY <1>3, <1>4
  <1> DEFINE g == [e \in Edges |-> f[e]]
  <1>6. \A e \in Edges : value(g, e) = value(f, e)
    <2> SUFFICES ASSUME NEW e \in Edges PROVE value(g, e) = value(f, e)
      OBVIOUS
    <2>1. CASE e \in Streets
      BY <2>1
    <2>2. CASE e \notin Streets
      <3>1. Halves[e][1] \in Edges /\ Halves[e][2] \in Edges
        BY <2>2, HalvesFacts
      <3>2. g[Halves[e][1]] = f[Halves[e][1]] /\ g[Halves[e][2]] = f[Halves[e][2]]
        BY <3>1
      <3> HIDE DEF g
      <3> QED BY <2>2, <3>2
    <2> QED BY <2>1, <2>2
  <1>7. g = [e \in Edges |-> value(g, e)]
    <2> HIDE DEF value
    <2> QED BY <1>5, <1>6
  <1> HIDE DEF g
  <1>8. AddsUp(g, rows)
    BY <1>7 DEF AddsUp, Added, Edges
  <1> QED
    BY <1>8

\* The rows of the chosen shortcuts are sums of their halves'.
SumsUp(all, rows, chosen) ==
    /\ DOMAIN all = Streets \cup chosen
    /\ \A e \in Streets : all[e] = rows[e]
    /\ \A s \in chosen :
          /\ Halves[s][1] \in DOMAIN all /\ Halves[s][2] \in DOMAIN all
          /\ all[s] = Added(all[Halves[s][1]], all[Halves[s][2]])

LEMMA ConstructedFacts ==
    ASSUME NEW rows, NEW chosen \in SUBSET Shortcuts,
           \A s \in chosen : ToSet(Halves[s]) \subseteq Streets \cup chosen
    PROVE  SumsUp(Constructed(rows, chosen), rows, chosen)
  <1> DEFINE sums == CHOOSE f : AddsUp(f, rows)
             all == Constructed(rows, chosen)
  <1>1. all = [e \in Streets \cup chosen |-> sums[e]]
    BY DEF Constructed, AddsUp
  <1>3. AddsUp(sums, rows)
    BY SumsExist
  <1> HIDE DEF sums
  <1>4. \A e \in Edges : sums[e] = IF e \in Streets THEN rows[e]
                                   ELSE Added(sums[Halves[e][1]], sums[Halves[e][2]])
    BY <1>3 DEF AddsUp, Added, Edges
  <1> HIDE DEF all
  <1>5. DOMAIN all = Streets \cup chosen
    BY <1>1
  <1>6. \A e \in Streets : all[e] = rows[e]
    BY <1>1, <1>4 DEF Edges
  <1>7. ASSUME NEW s \in chosen
        PROVE  /\ Halves[s][1] \in DOMAIN all /\ Halves[s][2] \in DOMAIN all
               /\ all[s] = Added(all[Halves[s][1]], all[Halves[s][2]])
    <2>1. Halves[s][1] \in ToSet(Halves[s]) /\ Halves[s][2] \in ToSet(Halves[s])
      <3>1. DOMAIN Halves[s] = 1 .. 2
        BY BalancingAssumption
      <3> QED BY <3>1 DEF ToSet
    <2>2. s \in Edges /\ s \notin Streets
      BY HalvesFacts DEF Edges
    <2>3. Halves[s][1] \in Streets \cup chosen /\ Halves[s][2] \in Streets \cup chosen
      BY <2>1
    <2> QED BY <1>1, <1>4, <1>5, <2>2, <2>3
  <1> QED
    BY <1>5, <1>6, <1>7 DEF all, SumsUp

LEMMA MeanOverIsRational ==
    ASSUME NEW f, IsFiniteSet(DOMAIN f), DOMAIN f # {}, \A e \in DOMAIN f : IsRational(f[e])
    PROVE  IsRational(MeanOver(f))
  <1> DEFINE S == DOMAIN f
             n == Cardinality(S)
             order == SetToSeq(S)
             T == {x \in Int \X (Nat \ {0}) : IsRational(x)}
             xs == [k \in 1 .. n |-> f[order[k]]]
  <1>1. n \in Nat /\ n > 0
    BY FS_CardinalityType, FS_EmptySet
  <1>2. order \in [1 .. n -> S]
    <2>1. \E g : g \in Bijection(1 .. n, S)
      BY FS_CardinalityType DEF ExistsBijection
    <2>2. PICK g \in [1 .. n -> S] : IsInjective(g)
      BY <2>1 DEF Bijection, Injection, IsInjective
    <2>3. order = CHOOSE h \in [1 .. n -> S] : IsInjective(h)
      BY DEF SetToSeq
    <2> QED BY <2>2, <2>3
  <1>3. \A x : IsRational(x) => x \in T
    BY DEF IsRational
  <1> HIDE DEF T, n, order
  <1>4. xs \in Seq(T) /\ Len(xs) = n
    <2>1. \A k \in 1 .. n : f[order[k]] \in T
      BY <1>2, <1>3
    <2> QED BY <1>1, <2>1
  <1>5. IsRational(MeanOf(xs))
    <2> HIDE DEF xs
    <2> QED BY <1>1, <1>4, MeanIsRational DEF T
  <1>6. MeanOver(f) = MeanOf(xs)
    BY DEF MeanOver, n, order
  <1> QED
    BY <1>5, <1>6

-----------------------------------------------------------------------------
(* What the stages rely on *)

LEMMA ConfigFacts ==
    ASSUME TypeOK
    PROVE  /\ cfg.updates \in Nat /\ iter \in Nat /\ iter \in Int
           /\ IterCfg.written \in Seq(Ids) /\ IterCfg.parsed \in Seq(Ids)
           /\ IterCfg.infos \in Seq(Ids) /\ IterCfg.generated \in Seq(Ids)
           /\ cfg.published \in Seq(Ids) /\ cfg.monitored \in Seq(Ids)
           /\ IsRational(cfg.correction) /\ (cfg.min = None \/ IsRational(cfg.min))
           /\ ConfigsAgree => Agrees(IterCfg)
  <1>1. IsConfig(cfg)
    BY DEF TypeOK
  <1>2. cfg.updates \in Nat /\ iter \in Nat
    BY <1>1 DEF TypeOK, IsConfig
  <1>3. IsIteration(IterCfg)
    BY <1>1 DEF IsConfig, IterCfg
  <1>4. ConfigsAgree => Agrees(IterCfg)
    BY DEF ConfigsAgree, IterCfg
  <1> QED
    BY <1>1, <1>2, <1>3, <1>4 DEF IsConfig, IsIteration

LEMMA RowsFacts ==
    ASSUME GraphFits, NEW T, NEW ids \in Seq(T), IsWritable(ids)
    PROVE  Holds(Rows(Streets, ids), ids)
  <1> DEFINE first == CHOOSE e \in Streets : TRUE
             rows == [e \in Streets |-> [k \in DOMAIN ids |-> graph[e][ids[k]]]]
  <1>1. first \in Streets
    BY BalancingAssumption
  <1>2. Rows(Streets, ids) = IF \A k \in DOMAIN ids : ids[k] \in DOMAIN graph[first]
                             THEN rows ELSE None
    BY DEF Rows
  <1>3. Rows(Streets, ids) # None
    BY DEF IsWritable
  <1> HIDE DEF first
  <1>4. Rows(Streets, ids) = rows /\ \A k \in DOMAIN ids : ids[k] \in DOMAIN graph[first]
    BY <1>2, <1>3
  <1>5. \A e \in Streets : DOMAIN graph[e] = DOMAIN graph[first]
    BY <1>1 DEF GraphFits
  <1> QED
    BY <1>4, <1>5 DEF Holds

\* What is published is what is analysed, if both are written of the same graph.
LEMMA PublishedAsAnalysed ==
    ASSUME TypeOK, GraphIsUntouched, NEW published, Holds(published, cfg.published),
           NEW analysed, NEW T, NEW ids \in Seq(T), Holds(analysed, ids),
           NEW e \in Streets, NEW id \in ToSet(cfg.published),
           NEW value, value = published[e][ColumnOf(cfg.published, id)]
    PROVE  /\ id \in ToSet(ids) => value = analysed[e][ColumnOf(ids, id)]
           /\ IsUntouched(e, id, value)
  <1> DEFINE k == ColumnOf(cfg.published, id)
             j == ColumnOf(ids, id)
  <1>1. k \in DOMAIN cfg.published /\ cfg.published[k] = id
    BY ConfigFacts, ColumnFacts
  <1>2. id \in ToSet(ids) => j \in DOMAIN ids /\ ids[j] = id
    BY ColumnFacts
  <1> HIDE DEF k, j
  <1>3. id \in DOMAIN graph[e] /\ published[e][k] = graph[e][id]
    BY <1>1 DEF Holds
  <1>4. id \in ToSet(ids) => analysed[e][j] = graph[e][id]
    BY <1>2 DEF Holds
  <1>5. IsUntouched(e, id, graph[e][id])
    BY <1>3 DEF GraphIsUntouched
  <1> QED
    BY <1>3, <1>4, <1>5 DEF k, j

LEMMA PlusIsMetric ==
    ASSUME NEW x, NEW y, IsMetric(x), IsMetric(y)
    PROVE  IsMetric(Plus(x, y))
  <1>1. IsRational(x) /\ IsRational(y)
    BY DEF IsMetric
  <1>2. PICK D \in Nat \ {0} : \E u, v, a \in Int :
            Is(x, D, u) /\ Is(y, D, v) /\ Is(Accuracy, D, 2 * a)
    BY <1>1, AccuracyFacts, CommonDenominator
  <1>3. PICK u \in Int, v \in Int : Is(x, D, u) /\ Is(y, D, v)
    BY <1>2
  <1>4. D \in Nat /\ D > 0 /\ u + v \in Int
    OBVIOUS
  <1>5. Is(Plus(x, y), D, u + v) /\ IsRational(Plus(x, y))
    BY <1>1, <1>3, <1>4, IsPlus, PlusValue
  <1>6. x[1] >= 0 /\ y[1] >= 0 => u >= 0 /\ v >= 0
    BY <1>1, <1>3, <1>4, SignFacts
  <1>7. u >= 0 /\ v >= 0 => Plus(x, y)[1] >= 0
    <2> DEFINE z == Plus(x, y)
               w == u + v
    <2>1. IsRational(z) /\ Is(z, D, w) /\ w \in Int
      BY <1>4, <1>5
    <2> HIDE DEF z, w
    <2>2. z[1] >= 0 <=> w >= 0
      BY <1>4, <2>1, SignFacts
    <2> QED BY <2>2 DEF z, w
  <1> QED
    BY <1>5, <1>6, <1>7 DEF IsMetric, NotBelowZero

LEMMA StoredIsMetric ==
    ASSUME NEW x, IsMetric(x)
    PROVE  IsMetric(Stored(x))
  BY StoredFacts DEF IsMetric

\* The constructor's rows are sums of metrics.
LEMMA ConstructedIsConstructed ==
    ASSUME TypeOK, GraphFits, pc # "err",
           NEW rows, Holds(rows, IterCfg.written),
           NEW chosen \in SUBSET Shortcuts,
           \A s \in chosen : ToSet(Halves[s]) \subseteq Streets \cup chosen
    PROVE  IsConstructedOf(Constructed(rows, chosen), rows)
  <1> DEFINE all == Constructed(rows, chosen)
             K == DOMAIN IterCfg.written
             S == {n \in Nat : n \in DOMAIN all =>
                                   DOMAIN all[n] = K /\ \A k \in K : IsMetric(all[n][k])}
  <1>1. /\ DOMAIN all = Streets \cup chosen
        /\ \A e \in Streets : all[e] = rows[e]
        /\ \A s \in chosen : /\ Halves[s][1] \in DOMAIN all /\ Halves[s][2] \in DOMAIN all
                             /\ all[s] = Added(all[Halves[s][1]], all[Halves[s][2]])
    <2>1. SumsUp(all, rows, chosen)
      BY ConstructedFacts
    <2> HIDE DEF all
    <2> QED BY <2>1 DEF SumsUp
  <1>2. \A e \in Streets : DOMAIN rows[e] = K /\ \A k \in K : IsMetric(rows[e][k])
    BY DEF Holds, GraphFits
  <1> HIDE DEF all, K
  <1>3. ASSUME NEW n \in Nat, \A j \in Nat : j < n => j \in S PROVE n \in S
    <2> SUFFICES ASSUME n \in DOMAIN all
                 PROVE  DOMAIN all[n] = K /\ \A k \in K : IsMetric(all[n][k])
      OBVIOUS
    <2>1. CASE n \in Streets
      BY <1>1, <1>2, <2>1
    <2>2. CASE n \in chosen
      <3> DEFINE g == Halves[n][1]
                 h == Halves[n][2]
      <3>1. g \in DOMAIN all /\ h \in DOMAIN all /\ all[n] = Added(all[g], all[h])
        BY <1>1, <2>2
      <3>2. g \in Nat /\ h \in Nat /\ g < n /\ h < n
        BY <2>2, HalvesFacts
      <3> HIDE DEF g, h
      <3>3. /\ DOMAIN all[g] = K /\ \A k \in K : IsMetric(all[g][k])
            /\ DOMAIN all[h] = K /\ \A k \in K : IsMetric(all[h][k])
        BY <1>3, <3>1, <3>2
      <3>4. DOMAIN all[n] = K /\ \A k \in K : all[n][k] = Plus(all[g][k], all[h][k])
        BY <3>1, <3>3 DEF Added
      <3> QED BY <3>3, <3>4, PlusIsMetric
    <2> QED BY <1>1, <2>1, <2>2
  <1>4. \A n \in Nat : n \in S
    <2> HIDE DEF S
    <2> QED BY <1>3, StrongInduction
  <1>5. Streets \subseteq DOMAIN all /\ DOMAIN all \subseteq Edges /\ DOMAIN all \subseteq Nat
    BY <1>1, HalvesFacts DEF Edges
  <1>6. \A e \in DOMAIN all : DOMAIN all[e] = K /\ \A k \in K : IsMetric(all[e][k])
    BY <1>4, <1>5
  <1>7. ASSUME NEW s \in DOMAIN all \ Streets
        PROVE  /\ Halves[s][1] \in DOMAIN all /\ Halves[s][2] \in DOMAIN all
               /\ \A k \in K : all[s][k] = Plus(all[Halves[s][1]][k], all[Halves[s][2]][k])
    BY <1>1, <1>6 DEF Added
  <1> QED
    BY <1>1, <1>5, <1>6, <1>7 DEF IsConstructedOf, all, K

-----------------------------------------------------------------------------
(* What an update calculates *)

LEMMA MovedIsRational ==
    ASSUME TypeOK, NEW old, NEW new, IsRational(old), IsRational(new)
    PROVE  IsRational(Moved(old, new))
  <1>1. IsRational(cfg.correction) /\ iter \in Nat
    BY ConfigFacts
  <1>2. IsRational(Plus(old, Times(Minus(new, old), cfg.correction)))
    <2>1. IsRational(Minus(new, old))
      BY MinusIsRational
    <2>2. IsRational(Times(Minus(new, old), cfg.correction))
      BY <1>1, <2>1, TimesValue
    <2> QED BY <2>2, PlusValue
  <1>3. IsRational(Over(Plus(Times(<<iter, 1>>, old), new), <<iter + 1, 1>>))
    <2>1. IsRational(<<iter, 1>>) /\ IsRational(<<iter + 1, 1>>)
      BY <1>1, WholeIsRational
    <2>2. IsRational(Times(<<iter, 1>>, old))
      BY <2>1, TimesValue
    <2>3. IsRational(Plus(Times(<<iter, 1>>, old), new))
      BY <2>2, PlusValue
    <2>4. <<iter + 1, 1>>[1] # 0
      BY <1>1
    <2> DEFINE x == Plus(Times(<<iter, 1>>, old), new)
               y == <<iter + 1, 1>>
    <2>5. IsRational(x) /\ IsRational(y) /\ y[1] # 0
      BY <2>1, <2>3, <2>4
    <2> HIDE DEF x, y
    <2>6. IsRational(Over(x, y))
      BY <2>5, OverIsRational
    <2> QED BY <2>6 DEF x, y
  <1> QED
    BY <1>2, <1>3 DEF Moved

LEMMA NotLess ==
    ASSUME NEW x, NEW y, IsRational(x), IsRational(y), ~Less(x, y), NotBelowZero(y)
    PROVE  NotBelowZero(x)
  <1>1. PICK D \in Nat \ {0} : \E u, v, a \in Int :
            Is(x, D, u) /\ Is(y, D, v) /\ Is(Accuracy, D, 2 * a)
    BY AccuracyFacts, CommonDenominator
  <1>2. PICK u \in Int, v \in Int : Is(x, D, u) /\ Is(y, D, v)
    BY <1>1
  <1>3. D \in Nat /\ D > 0
    OBVIOUS
  <1>4. ~(u < v)
    BY <1>2, <1>3, IsLess
  <1>5. (x[1] >= 0 <=> u >= 0) /\ (y[1] >= 0 <=> v >= 0)
    BY <1>2, <1>3, SignFacts
  <1> QED
    BY <1>4, <1>5 DEF NotBelowZero

LEMMA ClampedFacts ==
    ASSUME TypeOK, NEW x, IsRational(x)
    PROVE  /\ IsRational(Clamped(x))
           /\ IsGuarded /\ cfg.min # None => NotBelowZero(Clamped(x))
  <1>1. cfg.min = None \/ IsRational(cfg.min)
    BY ConfigFacts
  <1>2. IsRational(Clamped(x))
    BY <1>1 DEF Clamped
  <1>3. ASSUME IsGuarded, cfg.min # None PROVE NotBelowZero(Clamped(x))
    <2>1. IsRational(cfg.min) /\ ~Less(cfg.min, Zero)
      BY <1>1, <1>3 DEF IsGuarded
    <2>2. cfg.min[1] \in Int
      BY <2>1, RationalHasParts
    <2>3. NotBelowZero(cfg.min)
      BY <2>1, <2>2, SignFacts DEF NotBelowZero
    <2>4. CASE IsAtMost(x, cfg.min)
      BY <1>3, <2>3, <2>4 DEF Clamped
    <2>5. CASE ~IsAtMost(x, cfg.min)
      <3>1. Clamped(x) = x /\ ~Less(x, cfg.min)
        BY <2>5 DEF Clamped, IsAtMost
      <3> QED BY <2>1, <2>3, <3>1, NotLess
    <2> QED BY <2>4, <2>5
  <1> QED
    BY <1>2, <1>3

LEMMA AboveZero ==
    ASSUME NEW x, IsRational(x), ~IsAtMost(x, Zero)
    PROVE  x[1] > 0
  <1>1. ~Less(x, Zero) /\ ~IsZero(x)
    BY DEF IsAtMost, IsZero
  <1>2. x[1] \in Int
    BY RationalHasParts
  <1>3. ~(x[1] < 0)
    BY <1>1, SignFacts
  <1>4. x[1] # 0
    BY <1>1, StoredFacts
  <1> QED
    BY <1>2, <1>3, <1>4

\* Metrics over a mean above zero
LEMMA NormalizedFacts ==
    ASSUME NEW f, NEW mean, IsRational(mean), mean[1] # 0, \A e \in DOMAIN f : IsRational(f[e])
    PROVE  /\ DOMAIN NormalizedBy(f, mean) = DOMAIN f
           /\ \A e \in DOMAIN f :
                 /\ IsRational(NormalizedBy(f, mean)[e])
                 /\ NotBelowZero(f[e]) /\ mean[1] > 0 => NotBelowZero(NormalizedBy(f, mean)[e])
  <1>1. \A e \in DOMAIN f : /\ IsRational(Over(f[e], mean))
                            /\ f[e][1] >= 0 /\ mean[1] > 0 => Over(f[e], mean)[1] >= 0
    BY OverIsRational
  <1> QED
    BY <1>1 DEF NormalizedBy, NotBelowZero

\* An update that succeeds stores fractions, and guarded ones aren't below zero.
LEMMA UpdatedFacts ==
    ASSUME TypeOK, GraphFits, LoadFits, pc = "update",
           "workload" \in DOMAIN graph[CHOOSE e \in Streets : TRUE],
           NEW loads, loads = [e \in DOMAIN load |-> <<load[e], 1>>],
           ~IsZero(MeanOver(loads)),
           NEW new, new = NormalizedBy(loads, MeanOver(loads)),
           NEW moved, moved = [e \in DOMAIN load |-> Clamped(Moved(graph[e]["workload"], new[e]))],
           ~(cfg.min = None /\ cfg.isErr /\ \E e \in DOMAIN moved : IsZeroOrLower(moved[e])),
           ~IsAtMost(MeanOver(moved), Zero)
    PROVE  \A e \in DOMAIN graph :
               /\ IsRational(NormalizedBy(moved, MeanOver(moved))[e])
               /\ IsGuarded => NotBelowZero(NormalizedBy(moved, MeanOver(moved))[e])
  <1>1. DOMAIN load = DOMAIN graph /\ \A e \in DOMAIN graph : load[e] \in Nat
    BY DEF LoadFits
  <1>2. IsFiniteSet(DOMAIN graph) /\ DOMAIN graph # {}
    <2>1. DOMAIN graph \subseteq Edges /\ Streets \subseteq DOMAIN graph
      BY DEF GraphFits
    <2>2. Streets # {}
      BY BalancingAssumption
    <2> QED BY <2>1, <2>2, HalvesFacts, FS_Subset
  <1>3. DOMAIN loads = DOMAIN graph /\ \A e \in DOMAIN graph : IsRational(loads[e])
    BY <1>1, WholeIsRational
  <1>4. IsRational(MeanOver(loads))
    BY <1>2, <1>3, MeanOverIsRational
  <1>5. MeanOver(loads)[1] # 0
    BY <1>4, StoredFacts
  <1>6. \A e \in DOMAIN graph : IsRational(new[e])
    BY <1>3, <1>4, <1>5, NormalizedFacts
  <1>7. \A e \in DOMAIN graph : "workload" \in DOMAIN graph[e] /\ IsRational(graph[e]["workload"])
    <2>1. (CHOOSE e \in Streets : TRUE) \in Streets
      BY BalancingAssumption
    <2>2. (CHOOSE e \in Streets : TRUE) \in DOMAIN graph
      BY <2>1 DEF GraphFits
    <2>3. \A e \in DOMAIN graph : "workload" \in DOMAIN graph[e]
      BY <2>2 DEF GraphFits
    <2> QED BY <2>3 DEF TypeOK
  <1>8. DOMAIN moved = DOMAIN graph
    BY <1>1
  <1>9. ASSUME NEW e \in DOMAIN graph
        PROVE  IsRational(moved[e]) /\ (IsGuarded => NotBelowZero(moved[e]))
    <2> DEFINE x == Moved(graph[e]["workload"], new[e])
    <2>1. moved[e] = Clamped(x)
      BY <1>1
    <2>2. IsRational(x)
      BY <1>6, <1>7, MovedIsRational
    <2> HIDE DEF x
    <2>3. IsRational(moved[e])
      BY <2>1, <2>2, ClampedFacts
    <2>4. ASSUME IsGuarded PROVE NotBelowZero(moved[e])
      <3>1. CASE cfg.min # None
        BY <2>1, <2>2, <2>4, <3>1, ClampedFacts
      <3>2. CASE cfg.min = None
        <4>1. ~IsAtMost(moved[e], Zero)
          BY <1>8, <2>4, <3>2 DEF IsGuarded, IsZeroOrLower
        <4>2. moved[e][1] > 0 /\ moved[e][1] \in Int
          BY <2>3, <4>1, AboveZero, RationalHasParts
        <4> QED BY <4>2 DEF NotBelowZero
      <3> QED BY <3>1, <3>2
    <2> QED BY <2>3, <2>4
  <1>10. IsRational(MeanOver(moved))
    BY <1>2, <1>8, <1>9, MeanOverIsRational
  <1>11. MeanOver(moved)[1] > 0
    BY <1>10, AboveZero
  <1> DEFINE mean == MeanOver(moved)
             stored == NormalizedBy(moved, mean)
  <1>12. IsRational(mean) /\ mean[1] > 0 /\ mean[1] # 0
    BY <1>10, <1>11
  <1> HIDE DEF mean
  <1>13. \A e \in DOMAIN moved : /\ IsRational(stored[e])
                                 /\ NotBelowZero(moved[e]) => NotBelowZero(stored[e])
    BY <1>8, <1>9, <1>12, NormalizedFacts
  <1> QED
    BY <1>8, <1>9, <1>13 DEF mean

-----------------------------------------------------------------------------
(* What steps leave alone *)

LEMMA GraphKeeps ==
    ASSUME GraphFits, GraphIsUntouched, UNCHANGED <<cfg, graph>>, pc # "err", IsKept' => IsKept
    PROVE  GraphFits' /\ GraphIsUntouched'
  <1>1. IsGuarded' <=> IsGuarded
    BY DEF IsGuarded
  <1>2. \A x : IsMetric(x) => IsMetric(x)'
    BY DEF IsMetric
  <1>3. GraphFits'
    BY <1>2 DEF GraphFits
  <1>4. ConfigsAgree' <=> ConfigsAgree
    BY DEF ConfigsAgree
  <1>5. GraphIsUntouched'
    BY <1>4 DEF GraphIsUntouched, IsUntouched
  <1> QED
    BY <1>3, <1>5

LEMMA PublishedKeeps ==
    ASSUME LastIsPublished, UNCHANGED cfg,
           \A key \in DOMAIN maps : key[2] = "graph" => key \in DOMAIN maps' /\ maps'[key] = maps[key]
    PROVE  LastIsPublished'
  <1> DEFINE P == <<Results, "graph">>
             A == <<cfg.updates, "graph">>
  <1>1. P \in DOMAIN maps /\ A \in DOMAIN maps
    BY DEF LastIsPublished
  <1>2. P[2] = "graph" /\ A[2] = "graph"
    OBVIOUS
  <1>3. P \in DOMAIN maps' /\ A \in DOMAIN maps' /\ maps'[P] = maps[P] /\ maps'[A] = maps[A]
    BY <1>1, <1>2
  <1>4. \A e, id, value : IsUntouched(e, id, value) => IsUntouched(e, id, value)'
    BY DEF IsUntouched, ConfigsAgree
  <1> QED
    BY <1>3, <1>4 DEF LastIsPublished

LEMMA FilesKeep ==
    ASSUME TypeOK, FilesFit, UNCHANGED <<cfg, iter, graph>>, pc \in {"construct", "read"},
           UNCHANGED infos,
           \A key \in DOMAIN maps : key[2] = "graph" => key \in DOMAIN maps' /\ maps'[key] = maps[key]
    PROVE  FilesFit'
  <1> DEFINE key == <<iter, "graph">>
  <1>1. key \in DOMAIN maps /\ Holds(maps[key], IterCfg.written)
        /\ iter \in DOMAIN infos /\ Holds(infos[iter], IterCfg.infos)
    BY DEF FilesFit
  <1>2. key \in DOMAIN maps' /\ maps'[key] = maps[key]
    BY <1>1
  <1>3. IterCfg' = IterCfg
    BY DEF IterCfg
  <1>4. \A rows, ids : Holds(rows, ids)' <=> Holds(rows, ids)
    BY DEF Holds
  <1> QED
    BY <1>1, <1>2, <1>3, <1>4 DEF FilesFit

-----------------------------------------------------------------------------
(* The invariant holds initially and is kept by every step. *)

LEMMA InitIsFine ==
    ASSUME Init
    PROVE  IInv
  <1>1. IsConfig(cfg)
    BY BalancingAssumption DEF Init
  <1>2. cfg.updates \in Nat /\ MaxEdits \in Nat
    BY <1>1, BalancingAssumption DEF IsConfig
  <1>3. /\ graph = Custom /\ DOMAIN Custom = Streets
        /\ \A e \in Streets : /\ DOMAIN Custom[e] = Ids
                              /\ \A id \in Ids : /\ IsRational(Custom[e][id])
                                                 /\ ~Less(Custom[e][id], Zero)
    BY BalancingAssumption DEF Init
  <1>4. \A e \in Streets : \A id \in Ids : NotBelowZero(Custom[e][id])
    <2> SUFFICES ASSUME NEW e \in Streets, NEW id \in Ids PROVE NotBelowZero(Custom[e][id])
      OBVIOUS
    <2> DEFINE x == Custom[e][id]
    <2>1. IsRational(x) /\ ~Less(x, Zero)
      BY <1>3
    <2> HIDE DEF x
    <2>2. x[1] \in Int
      BY <2>1, RationalHasParts
    <2>3. x[1] >= 0
      BY <2>1, <2>2, SignFacts
    <2> QED BY <2>3 DEF NotBelowZero, x
  <1>5. TypeOK
    BY <1>1, <1>2, <1>3 DEF TypeOK, Init, Results
  <1>6. GraphFits /\ GraphIsUntouched
    BY <1>3, <1>4 DEF GraphFits, GraphIsUntouched, IsMetric, IsUntouched, Edges
  <1>7. FilesFit /\ ConstructedFits /\ SumsFit /\ AlphasFit /\ LoadFits
    BY DEF Init, FilesFit, ConstructedFits, SumsFit, AlphasFit, LoadFits
  <1>8. PublishedFits /\ DemandFits /\ UpdatedGraphIsReadable
    BY <1>2 DEF Init, PublishedFits, DemandFits, UpdatedGraphIsReadable
  <1> QED
    BY <1>5, <1>6, <1>7, <1>8 DEF IInv

\* A stage that fails leaves everything as it was.
LEMMA FailKeeps ==
    ASSUME IInv, Fail, pc \notin {"done", "err"}, UNCHANGED <<cfg, iter, graph, fileVars>>,
           pc = "read" /\ ConfigsAgree => iter > 0 /\ ~IsGuarded
    PROVE  IInv'
  <1>1. pc' = "err" /\ failedAt' = pc /\ pc # "none"
    BY DEF Fail, IInv, TypeOK
  <1>2. TypeOK'
    BY <1>1 DEF IInv, TypeOK, fileVars
  <1>3. GraphFits' /\ GraphIsUntouched'
    BY <1>1 DEF IInv, GraphFits, GraphIsUntouched, IsUntouched, ConfigsAgree
  <1>4. (FilesFit /\ ConstructedFits /\ SumsFit /\ AlphasFit /\ LoadFits)'
    BY <1>1 DEF FilesFit, ConstructedFits, SumsFit, AlphasFit, LoadFits
  <1>5. PublishedFits' /\ DemandFits'
    BY <1>1 DEF IInv, PublishedFits, DemandFits, fileVars
  <1>6. UpdatedGraphIsReadable'
    BY <1>1 DEF UpdatedGraphIsReadable, ConfigsAgree, IsGuarded
  <1> QED
    BY <1>2, <1>3, <1>4, <1>5, <1>6 DEF IInv

LEMMA BeginIterationKeeps ==
    ASSUME IInv, BeginIteration
    PROVE  IInv'
  <1> DEFINE rest == <<cfg, iter, graph, infos, userPairs, pairs, stats>>
             P == <<Results, "graph">>
  <1>1. pc = "iterate" /\ UNCHANGED rest
    BY DEF BeginIteration
  <1>2. TypeOK /\ cfg.updates \in Nat /\ iter \in 0 .. cfg.updates + 1 /\ failedAt = "none"
    BY <1>1, ConfigFacts DEF IInv, TypeOK
  <1>3. CASE Fail /\ UNCHANGED maps
    BY <1>1, <1>3, FailKeeps DEF fileVars
  <1>4. ASSUME pc' \in {"done", "write"}, UNCHANGED failedAt PROVE
            /\ (FilesFit /\ ConstructedFits /\ SumsFit /\ AlphasFit /\ LoadFits)'
            /\ GraphFits' /\ GraphIsUntouched' /\ DemandFits' /\ UpdatedGraphIsReadable'
    <2>1. IsKept' => IsKept
      BY <1>1 DEF IsKept, IsGuarded
    <2>2. GraphFits' /\ GraphIsUntouched'
      BY <1>1, <2>1, GraphKeeps DEF IInv
    <2>3. (FilesFit /\ ConstructedFits /\ SumsFit /\ AlphasFit /\ LoadFits)'
      BY <1>4 DEF FilesFit, ConstructedFits, SumsFit, AlphasFit, LoadFits
    <2>4. DemandFits' /\ UpdatedGraphIsReadable'
      BY <1>1, <1>2, <1>4 DEF IInv, DemandFits, UpdatedGraphIsReadable
    <2> QED BY <2>2, <2>3, <2>4
  <1>5. CASE iter = NumIter /\ pc' = "done" /\ UNCHANGED <<failedAt, maps>>
    <2>1. TypeOK'
      BY <1>1, <1>2, <1>5 DEF TypeOK, NumIter
    <2>2. LastIsPublished
      BY <1>1, <1>5 DEF IInv, PublishedFits, NumIter
    <2>3. PublishedFits'
      BY <1>1, <1>5, <2>2, PublishedKeeps DEF PublishedFits
    <2> QED BY <1>4, <1>5, <2>1, <2>3 DEF IInv
  <1>6. CASE iter # NumIter /\ iter # NumIter - 1 /\ pc' = "write" /\ UNCHANGED <<failedAt, maps>>
    <2>1. TypeOK'
      BY <1>1, <1>2, <1>6 DEF TypeOK, NumIter
    <2>2. PublishedFits'
      BY <1>1, <1>2, <1>6 DEF PublishedFits, NumIter
    <2> QED BY <1>4, <1>6, <2>1, <2>2 DEF IInv
  <1>7. CASE /\ iter = NumIter - 1 /\ pc' = "write" /\ UNCHANGED failedAt
             /\ IsWritable(cfg.published) /\ maps' = WithMap(Results, "graph", cfg.published)
    <2>1. DOMAIN maps' = DOMAIN maps \cup {P} /\ maps'[P] = Rows(Streets, cfg.published)
      <3> DEFINE content == Rows(Streets, cfg.published)
      <3>1. maps' = With(maps, P, content)
        BY <1>7 DEF WithMap
      <3> HIDE DEF content, P
      <3>2. DOMAIN maps' = DOMAIN maps \cup {P} /\ maps'[P] = content
        BY <3>1 DEF With
      <3> QED BY <3>2 DEF content
    <2>2. P \in (Results .. cfg.updates) \X {"graph", "ch"}
      BY <1>2 DEF Results
    <2>3. TypeOK'
      BY <1>1, <1>2, <1>7, <2>1, <2>2 DEF TypeOK, NumIter
    <2>4. Holds(maps'[P], cfg.published)
      BY <1>2, <1>7, <2>1, RowsFacts, ConfigFacts DEF IInv
    <2>5. Holds(maps[P], cfg.published)'
      BY <1>1, <2>4 DEF Holds
    <2>6. PublishedFits'
      BY <1>1, <1>2, <1>7, <2>1, <2>5 DEF PublishedFits
    <2> QED BY <1>4, <1>7, <2>3, <2>6 DEF IInv
  <1> QED
    BY <1>3, <1>5, <1>6, <1>7 DEF BeginIteration

LEMMA WriteGraphKeeps ==
    ASSUME IInv, WriteGraph
    PROVE  IInv'
  <1> DEFINE G == <<iter, "graph">>
             P == <<Results, "graph">>
             written == IterCfg.written
  <1>1. pc = "write" /\ UNCHANGED <<cfg, iter, graph, alphas, load, userPairs, pairs, stats>>
    BY DEF WriteGraph
  <1>2. /\ TypeOK /\ cfg.updates \in Nat /\ iter \in 0 .. cfg.updates /\ failedAt = "none"
        /\ written \in Seq(Ids) /\ IterCfg.infos \in Seq(Ids)
    BY <1>1, ConfigFacts DEF IInv, TypeOK
  <1>3. CASE Fail /\ UNCHANGED <<maps, infos>>
    BY <1>1, <1>3, FailKeeps DEF fileVars
  <1>4. CASE /\ IsWritable(written) /\ IsWritable(IterCfg.infos)
             /\ G \notin DOMAIN maps
             /\ maps' = WithMap(iter, "graph", written)
             /\ infos' = With(infos, iter, Rows(Streets, IterCfg.infos))
             /\ pc' = "construct" /\ UNCHANGED failedAt
    <2> DEFINE rows == Rows(Streets, written)
               others == Rows(Streets, IterCfg.infos)
    <2>1. Holds(rows, written) /\ Holds(others, IterCfg.infos)
      BY <1>2, <1>4, RowsFacts DEF IInv
    <2>2. maps' = With(maps, G, rows) /\ infos' = With(infos, iter, others)
      BY <1>4 DEF WithMap
    <2> HIDE DEF G, rows, others
    <2>3. /\ DOMAIN maps' = DOMAIN maps \cup {G} /\ maps'[G] = rows
          /\ \A k \in DOMAIN maps : k # G => maps'[k] = maps[k]
      BY <2>2 DEF With
    <2>4. iter \in DOMAIN infos' /\ infos'[iter] = others
      BY <2>2 DEF With
    <2>5. G \in (Results .. cfg.updates) \X {"graph", "ch"} /\ G # P
      BY <1>2 DEF Results, G
    <2>6. TypeOK'
      BY <1>1, <1>2, <1>4, <2>3, <2>5 DEF TypeOK
    <2>7. IsKept' => IsKept
      BY <1>1 DEF IsKept, IsGuarded
    <2>8. GraphFits' /\ GraphIsUntouched'
      BY <1>1, <2>7, GraphKeeps DEF IInv
    <2>9. IterCfg' = IterCfg /\ \A r, ids : Holds(r, ids)' <=> Holds(r, ids)
      BY <1>1 DEF IterCfg, Holds
    <2>10. FilesFit'
      <3>1. G \in DOMAIN maps' /\ Holds(maps'[G], written)
            /\ iter \in DOMAIN infos' /\ Holds(infos'[iter], IterCfg.infos)
        BY <2>1, <2>3, <2>4
      <3>2. G' = G
        BY <1>1 DEF G
      <3> QED BY <1>1, <2>9, <3>1, <3>2 DEF FilesFit, G
    <2>11. (ConstructedFits /\ SumsFit /\ AlphasFit /\ LoadFits)'
      BY <1>4 DEF ConstructedFits, SumsFit, AlphasFit, LoadFits
    <2>12. DemandFits' /\ UpdatedGraphIsReadable'
      BY <1>1, <1>2, <1>4 DEF IInv, DemandFits, UpdatedGraphIsReadable
    <2>13. ASSUME iter = cfg.updates PROVE LastIsPublished'
      <3> DEFINE ids == IF cfg.updates = 0 THEN cfg.iter0.written ELSE cfg.iterI.written
      <3>1. ids = written /\ G = <<cfg.updates, "graph">>
        BY <2>13 DEF IterCfg, G
      <3>2. P \in DOMAIN maps /\ Holds(maps[P], cfg.published)
        BY <1>1, <2>13 DEF IInv, PublishedFits
      <3>3. P \in DOMAIN maps' /\ maps'[P] = maps[P]
        BY <2>3, <2>5, <3>2
      <3> DEFINE published == maps'[P]
                 analysed == maps'[G]
      <3>4. Holds(published, cfg.published) /\ Holds(analysed, written)
        BY <2>1, <2>3, <3>2, <3>3
      <3>5. TypeOK /\ GraphIsUntouched
        BY DEF IInv
      <3> HIDE DEF published, analysed, written
      <3>6. ASSUME NEW e \in Streets, NEW id \in ToSet(cfg.published),
                   NEW value, value = published[e][ColumnOf(cfg.published, id)]
            PROVE  /\ id \in ToSet(written) => value = analysed[e][ColumnOf(written, id)]
                   /\ IsUntouched(e, id, value)
        BY <1>2, <3>4, <3>5, <3>6, PublishedAsAnalysed
      <3>7. \A e, id, value : IsUntouched(e, id, value) => IsUntouched(e, id, value)'
        BY <1>1 DEF IsUntouched, ConfigsAgree
      <3>8. /\ ids' = ids /\ <<cfg.updates, "graph">>' = G /\ P' = P /\ cfg' = cfg
            /\ maps'[P] = published /\ maps'[G] = analysed
        BY <1>1, <3>1 DEF published, analysed
      <3>9. {P, G} \subseteq DOMAIN maps'
        BY <2>3, <3>3
      <3> QED BY <1>1, <3>1, <3>6, <3>7, <3>8, <3>9 DEF LastIsPublished
    <2>14. PublishedFits'
      BY <1>1, <1>4, <2>13 DEF PublishedFits
    <2> QED BY <2>6, <2>8, <2>10, <2>11, <2>12, <2>14 DEF IInv
  <1> QED
    BY <1>3, <1>4 DEF WriteGraph

LEMMA ConstructKeeps ==
    ASSUME IInv, Construct
    PROVE  IInv'
  <1> DEFINE G == <<iter, "graph">>
             C == <<iter, "ch">>
  <1>1. pc = "construct" /\ UNCHANGED <<cfg, iter, graph, alphas, load, infos, userPairs, pairs, stats>>
    BY DEF Construct
  <1>2. TypeOK /\ cfg.updates \in Nat /\ iter \in 0 .. cfg.updates /\ failedAt = "none"
    BY <1>1, ConfigFacts DEF IInv, TypeOK
  <1>3. CASE Fail /\ UNCHANGED maps
    BY <1>1, <1>3, FailKeeps DEF fileVars
  <1>4. ASSUME NEW chosen \in SUBSET Shortcuts,
               \A s \in chosen : ToSet(Halves[s]) \subseteq Streets \cup chosen,
               maps' = With(maps, C, Constructed(maps[G], chosen)),
               pc' = "read", UNCHANGED failedAt
        PROVE  IInv'
    <2> DEFINE all == Constructed(maps[G], chosen)
    <2>1. G \in DOMAIN maps /\ Holds(maps[G], IterCfg.written)
      BY <1>1 DEF IInv, FilesFit
    <2>2. IsConstructedOf(all, maps[G])
      <3> DEFINE rows == maps[G]
      <3>1. Holds(rows, IterCfg.written)
        BY <2>1
      <3> HIDE DEF rows
      <3>2. IsConstructedOf(Constructed(rows, chosen), rows)
        BY <1>1, <1>4, <3>1, ConstructedIsConstructed DEF IInv
      <3> QED BY <3>2 DEF rows
    <2> HIDE DEF all, C
    <2>3. /\ DOMAIN maps' = DOMAIN maps \cup {C} /\ maps'[C] = all
          /\ \A k \in DOMAIN maps : k # C => maps'[k] = maps[k]
      BY <1>4 DEF With, all
    <2>4. \A k \in DOMAIN maps : k[2] = "graph" => k \in DOMAIN maps' /\ maps'[k] = maps[k]
      BY <2>3 DEF C
    <2>5. C \in (Results .. cfg.updates) \X {"graph", "ch"}
      BY <1>2 DEF Results, C
    <2>6. TypeOK'
      BY <1>1, <1>2, <1>4, <2>3, <2>5 DEF TypeOK
    <2>7. (IsKept' <=> IsKept) /\ IterCfg' = IterCfg
      BY <1>1, <1>4 DEF IsKept, IsGuarded, IterCfg
    <2>8. GraphFits' /\ GraphIsUntouched'
      BY <1>1, <2>7, GraphKeeps DEF IInv
    <2>9. FilesFit'
      BY <1>1, <2>4, FilesKeep DEF IInv
    <2>10. ConstructedFits'
      <3>1. \A a, r : IsConstructedOf(a, r) => IsConstructedOf(a, r)'
        BY <2>7 DEF IsConstructedOf, IsMetric
      <3>2. maps'[G] = maps[G] /\ maps'[C] = all /\ C \in DOMAIN maps'
        BY <2>1, <2>3, <2>4
      <3>3. \A a, r : a = maps'[C] /\ r = maps'[G] => IsConstructedOf(a, r)'
        BY <2>2, <3>1, <3>2
      <3>4. <<iter', "graph">> = G /\ <<iter', "ch">> = C
        BY <1>1 DEF C
      <3> QED BY <3>2, <3>3, <3>4 DEF ConstructedFits
    <2>11. (SumsFit /\ AlphasFit /\ LoadFits)'
      BY <1>4 DEF SumsFit, AlphasFit, LoadFits
    <2>12. DemandFits' /\ UpdatedGraphIsReadable'
      BY <1>1, <1>2, <1>4 DEF IInv, DemandFits, UpdatedGraphIsReadable
    <2>13. PublishedFits'
      <3>1. iter = cfg.updates => LastIsPublished
        BY <1>1 DEF IInv, PublishedFits
      <3>2. iter = cfg.updates => LastIsPublished'
        BY <1>1, <2>4, <3>1, PublishedKeeps
      <3> QED BY <1>1, <1>4, <3>2 DEF PublishedFits
    <2> QED BY <2>6, <2>8, <2>9, <2>10, <2>11, <2>12, <2>13 DEF IInv
  <1> QED
    BY <1>3, <1>4 DEF Construct

-----------------------------------------------------------------------------
(* Reading what has been constructed *)

\* What read_in_ch_graph refuses
IsUnreadable(i, rows) ==
    \/ Len(i.parsed) # Len(i.written)
    \/ ToSet(i.parsed) \cap ToSet(i.generated) # {}
    \/ ~ToSet(i.infos) \subseteq ToSet(i.parsed \o i.generated)
    \/ \E e \in DOMAIN rows : \E k \in DOMAIN i.parsed : IsRefused(rows[e][k])

\* Metrics that aren't below zero are read.
LEMMA KeptIsReadable ==
    ASSUME TypeOK, ConfigsAgree, IsKept, NEW all, NEW rows, IsConstructedOf(all, rows)
    PROVE  ~IsUnreadable(IterCfg, all)
  <1> DEFINE i == IterCfg
  <1>1. Agrees(i) /\ i.parsed \in Seq(Ids) /\ i.generated \in Seq(Ids)
    BY ConfigFacts
  <1>2. \A e \in DOMAIN all : \A k \in DOMAIN i.written : IsMetric(all[e][k])
    BY DEF IsConstructedOf
  <1> HIDE DEF i
  <1>3. i.parsed = i.written /\ ToSet(i.parsed) \cap ToSet(i.generated) = {}
    BY <1>1 DEF Agrees
  <1>4. ToSet(i.infos) \subseteq ToSet(i.parsed \o i.generated)
    <2>1. ToSet(i.parsed \o i.generated) = ToSet(i.parsed) \cup ToSet(i.generated)
      BY <1>1, ElementsOfConcat
    <2> QED BY <1>1, <2>1 DEF Agrees
  <1>5. \A x : IsMetric(x) => ~IsRefused(x)
    BY StoredFacts DEF IsMetric
  <1>6. \A e \in DOMAIN all : \A k \in DOMAIN i.parsed : ~IsRefused(all[e][k])
    BY <1>2, <1>3, <1>5
  <1> QED
    BY <1>3, <1>4, <1>6 DEF IsUnreadable, i

\* The metrics of an edge are what has been constructed or written, or default values.
LEMMA ReadEdgeFacts ==
    ASSUME IInv, pc = "read",
           NEW rows, rows = maps[<<iter, "ch">>], ~IsUnreadable(IterCfg, rows),
           NEW e \in DOMAIN rows
    PROVE  /\ DOMAIN ReadEdge(e) = ToSet(IterCfg.parsed \o IterCfg.generated)
           /\ \A id \in DOMAIN ReadEdge(e) :
                 /\ IsMetric(ReadEdge(e)[id])
                 /\ e \in Streets => IsUntouched(e, id, ReadEdge(e)[id])
           /\ ConfigsAgree =>
                 \A id \in ToSet(IterCfg.parsed) :
                     ReadEdge(e)[id] = Stored(rows[e][ColumnOf(IterCfg.parsed, id)])
  <1> DEFINE i == IterCfg
             base == maps[<<iter, "graph">>]
             others == infos[iter]
             edge == ReadEdge(e)
             all == ToSet(i.parsed \o i.generated)
  <1>1. TypeOK /\ GraphFits /\ GraphIsUntouched
    BY DEF IInv
  <1>2. /\ i.written \in Seq(Ids) /\ i.parsed \in Seq(Ids) /\ i.infos \in Seq(Ids)
        /\ i.generated \in Seq(Ids) /\ (ConfigsAgree => Agrees(i))
    BY <1>1, ConfigFacts
  <1>3. Holds(base, i.written) /\ Holds(others, i.infos)
    BY DEF IInv, FilesFit
  <1>4. IsConstructedOf(rows, base)
    BY DEF IInv, ConstructedFits
  <1>5. edge = [id \in all |->
                   IF e \in Streets /\ id \in ToSet(i.infos) THEN others[e][ColumnOf(i.infos, id)]
                   ELSE IF id \in ToSet(i.generated) THEN One
                   ELSE Stored(rows[e][ColumnOf(i.parsed, id)])]
    BY DEF ReadEdge
  <1>6. all = ToSet(i.parsed) \cup ToSet(i.generated)
    BY <1>2, ElementsOfConcat
  <1>7. Len(i.parsed) = Len(i.written) /\ ToSet(i.parsed) \cap ToSet(i.generated) = {}
    BY DEF IsUnreadable
  <1>8. \A k \in DOMAIN i.written : IsMetric(rows[e][k])
    BY <1>4 DEF IsConstructedOf
  <1>9. e \in Streets => rows[e] = base[e] /\ e \in DOMAIN graph
    BY <1>1, <1>4 DEF IsConstructedOf, GraphFits
  <1>10. DOMAIN i.parsed = DOMAIN i.written
    <2>1. DOMAIN i.parsed = 1 .. Len(i.parsed) /\ DOMAIN i.written = 1 .. Len(i.written)
      BY <1>2
    <2> QED BY <1>7, <2>1
  <1> HIDE DEF i, base, others, edge, all
  <1>11. ASSUME e \in Streets, NEW id \in ToSet(i.infos)
         PROVE  others[e][ColumnOf(i.infos, id)] = graph[e][id] /\ id \in DOMAIN graph[e]
    <2>1. ColumnOf(i.infos, id) \in DOMAIN i.infos /\ i.infos[ColumnOf(i.infos, id)] = id
      BY <1>2, ColumnFacts
    <2> QED BY <1>3, <1>11, <2>1 DEF Holds
  <1>12. ASSUME NEW id \in ToSet(i.parsed)
         PROVE  ColumnOf(i.parsed, id) \in DOMAIN i.written /\ i.parsed[ColumnOf(i.parsed, id)] = id
    BY <1>2, <1>10, ColumnFacts
  <1>13. \A f \in DOMAIN graph : \A id \in DOMAIN graph[f] : IsMetric(graph[f][id])
    BY <1>1 DEF GraphFits
  <1>14. IsMetric(One)
    <2>1. IsRational(<<1, 1>>)
      BY WholeIsRational
    <2> QED BY <2>1 DEF IsMetric, NotBelowZero, One
  <1>15. ASSUME NEW id \in all
         PROVE  IsMetric(edge[id]) /\ (e \in Streets => IsUntouched(e, id, edge[id]))
    <2>1. CASE e \in Streets /\ id \in ToSet(i.infos)
      <3>1. edge[id] = graph[e][id] /\ id \in DOMAIN graph[e]
        BY <1>5, <1>11, <2>1
      <3> QED BY <1>1, <1>9, <1>13, <2>1, <3>1 DEF GraphIsUntouched
    <2>2. CASE ~(e \in Streets /\ id \in ToSet(i.infos)) /\ id \in ToSet(i.generated)
      <3>1. edge[id] = One
        BY <1>5, <2>2
      <3>2. e \in Streets /\ ConfigsAgree => id = "workload"
        BY <1>2, <2>2 DEF Agrees
      <3> QED BY <1>14, <3>1, <3>2 DEF IsUntouched
    <2>3. CASE ~(e \in Streets /\ id \in ToSet(i.infos)) /\ id \notin ToSet(i.generated)
      <3> DEFINE k == ColumnOf(i.parsed, id)
                 x == rows[e][k]
      <3>1. edge[id] = Stored(x)
        BY <1>5, <2>3
      <3>2. k \in DOMAIN i.written /\ i.parsed[k] = id
        BY <1>6, <1>12, <2>3
      <3>3. IsMetric(x)
        BY <1>8, <3>2
      <3> HIDE DEF k, x
      <3>4. IsMetric(edge[id])
        BY <3>1, <3>3, StoredIsMetric
      <3>5. ASSUME e \in Streets, ConfigsAgree, id # "workload"
            PROVE  edge[id] \in {Custom[e][id], Stored(Custom[e][id])}
        <4>1. i.written[k] = id
          BY <1>2, <3>2, <3>5 DEF Agrees
        <4>2. x = graph[e][id] /\ id \in DOMAIN graph[e]
          BY <1>3, <1>9, <3>2, <3>5, <4>1 DEF Holds, x
        <4>3. graph[e][id] \in {Custom[e][id], Stored(Custom[e][id])}
          BY <1>1, <3>5, <4>2 DEF GraphIsUntouched, IsUntouched
        <4>4. \A y : Stored(Stored(y)) = Stored(y)
          BY DEF Stored
        <4> QED BY <3>1, <4>2, <4>3, <4>4
      <3> QED BY <3>4, <3>5 DEF IsUntouched
    <2> QED BY <2>1, <2>2, <2>3
  <1>16. ASSUME ConfigsAgree, NEW id \in ToSet(i.parsed)
         PROVE  edge[id] = Stored(rows[e][ColumnOf(i.parsed, id)])
    <2>1. id \notin ToSet(i.generated) /\ id \notin ToSet(i.infos)
      BY <1>2, <1>7, <1>16 DEF Agrees
    <2> QED BY <1>5, <1>6, <2>1
  <1>17. DOMAIN edge = all
    BY <1>5
  <1> QED
    BY <1>15, <1>16, <1>17 DEF edge, all, i

\* What is read costs as much as its halves do, as long as it's said to be what was written.
LEMMA ReadSums ==
    ASSUME IInv, pc = "read", ConfigsAgree,
           NEW rows, rows = maps[<<iter, "ch">>], ~IsUnreadable(IterCfg, rows),
           NEW s \in DOMAIN rows \ Streets, NEW id \in ToSet(IterCfg.parsed)
    PROVE  /\ Halves[s][1] \in DOMAIN rows /\ Halves[s][2] \in DOMAIN rows
           /\ AreClose(ReadEdge(s)[id],
                       Plus(ReadEdge(Halves[s][1])[id], ReadEdge(Halves[s][2])[id]), Tolerance)
  <1> DEFINE i == IterCfg
             k == ColumnOf(i.parsed, id)
             g == Halves[s][1]
             h == Halves[s][2]
             base == maps[<<iter, "graph">>]
  <1>1. TypeOK /\ IsConstructedOf(rows, base)
    BY DEF IInv, ConstructedFits
  <1>2. Agrees(i) /\ i.parsed \in Seq(Ids)
    BY <1>1, ConfigFacts
  <1>3. k \in DOMAIN i.parsed /\ i.parsed = i.written
    BY <1>2, ColumnFacts DEF Agrees
  <1> HIDE DEF base
  <1>4. g \in DOMAIN rows /\ h \in DOMAIN rows /\ rows[s][k] = Plus(rows[g][k], rows[h][k])
    BY <1>1, <1>3 DEF IsConstructedOf
  <1>5. IsMetric(rows[g][k]) /\ IsMetric(rows[h][k])
    BY <1>1, <1>3, <1>4 DEF IsConstructedOf
  <1>6. \A e \in DOMAIN rows : ~IsRefused(rows[e][k])
    BY <1>3 DEF IsUnreadable
  <1>7. \A e \in DOMAIN rows : ReadEdge(e)[id] = Stored(rows[e][k])
    BY ReadEdgeFacts
  <1> HIDE DEF i, k, g, h
  <1> DEFINE x == rows[g][k]
             y == rows[h][k]
             read == ReadEdge(s)[id]
  <1>8. /\ IsRational(x) /\ IsRational(y)
        /\ ~IsRefused(x) /\ ~IsRefused(y) /\ ~IsRefused(Plus(x, y))
        /\ read = Stored(Plus(x, y))
    BY <1>4, <1>5, <1>6, <1>7 DEF IsMetric
  <1>9. ReadEdge(g)[id] = Stored(x) /\ ReadEdge(h)[id] = Stored(y)
    BY <1>4, <1>7
  <1>10. IsGuarded \/ iter = 0 => NotBelowZero(x) /\ NotBelowZero(y)
    BY <1>5 DEF IsMetric, IsKept
  <1> HIDE DEF x, y, read
  <1>11. /\ AreClose(read, Plus(Stored(x), Stored(y)), Times(<<2, 1>>, Accuracy))
         /\ NotBelowZero(x) /\ NotBelowZero(y) =>
                AreClose(read, Plus(Stored(x), Stored(y)), Accuracy)
    BY <1>8, StoredSums
  <1>12. AreClose(read, Plus(Stored(x), Stored(y)), Tolerance)
    BY <1>10, <1>11 DEF Tolerance
  <1> QED
    BY <1>4, <1>9, <1>12 DEF read, g, h

LEMMA ReadGraphKeeps ==
    ASSUME IInv, ReadGraph
    PROVE  IInv'
  <1> DEFINE i == IterCfg
             rows == maps[<<iter, "ch">>]
             base == maps[<<iter, "graph">>]
             read == [e \in DOMAIN rows |-> ReadEdge(e)]
  <1>1. pc = "read" /\ UNCHANGED <<cfg, iter, alphas, load, fileVars>>
    BY DEF ReadGraph
  <1>2. TypeOK /\ failedAt = "none" /\ iter \in Nat /\ iter <= cfg.updates
    BY <1>1, ConfigFacts DEF IInv, TypeOK
  <1>3. IsConstructedOf(rows, base)
    BY <1>1 DEF IInv, ConstructedFits
  <1>4. CASE IsUnreadable(i, rows) /\ Fail /\ UNCHANGED graph
    <2> HIDE DEF rows, base
    <2>1. ASSUME ConfigsAgree PROVE iter > 0 /\ ~IsGuarded
      <3>1. ~IsKept
        BY <1>2, <1>3, <1>4, <2>1, KeptIsReadable
      <3> QED BY <1>1, <1>2, <3>1 DEF IsKept
    <2> QED BY <1>1, <1>4, <2>1, FailKeeps
  <1>5. CASE ~IsUnreadable(i, rows) /\ graph' = read /\ pc' = "routing" /\ UNCHANGED failedAt
    <2>1. Streets \subseteq DOMAIN rows /\ DOMAIN rows \subseteq Edges
      BY <1>3 DEF IsConstructedOf
    <2> HIDE DEF base
    <2>2. /\ \A e \in DOMAIN rows : DOMAIN ReadEdge(e) = ToSet(i.parsed \o i.generated)
          /\ \A e \in DOMAIN rows : \A id \in DOMAIN ReadEdge(e) :
                 /\ IsMetric(ReadEdge(e)[id])
                 /\ e \in Streets => IsUntouched(e, id, ReadEdge(e)[id])
      BY <1>1, <1>5, ReadEdgeFacts
    <2>3. ASSUME ConfigsAgree, NEW s \in DOMAIN rows \ Streets, NEW id \in ToSet(i.parsed)
          PROVE  /\ Halves[s][1] \in DOMAIN rows /\ Halves[s][2] \in DOMAIN rows
                 /\ AreClose(ReadEdge(s)[id],
                             Plus(ReadEdge(Halves[s][1])[id], ReadEdge(Halves[s][2])[id]),
                             Tolerance)
      BY <1>1, <1>5, <2>3, ReadSums
    <2> HIDE DEF rows
    <2>4. DOMAIN read = DOMAIN rows /\ \A e \in DOMAIN rows : read[e] = ReadEdge(e)
      OBVIOUS
    <2> HIDE DEF read
    <2>5. /\ DOMAIN graph' = DOMAIN rows
          /\ \A e \in DOMAIN rows : graph'[e] = ReadEdge(e)
      BY <1>5, <2>4
    <2>6. /\ IsGuarded' <=> IsGuarded
          /\ IsKept' <=> IsKept
          /\ ConfigsAgree' <=> ConfigsAgree
          /\ IterCfg' = i /\ Tolerance' = Tolerance
      BY <1>1, <1>5 DEF IsKept, IsGuarded, ConfigsAgree, IterCfg, Tolerance
    <2>7. /\ \A x : IsMetric(x) => IsMetric(x)'
          /\ \A e, id, x : IsUntouched(e, id, x) => IsUntouched(e, id, x)'
      BY <2>6 DEF IsMetric, IsUntouched
    <2>8. TypeOK'
      <3>1. \A e \in DOMAIN graph' : \A id \in DOMAIN graph'[e] : IsRational(graph'[e][id])
        BY <2>2, <2>5 DEF IsMetric
      <3> QED BY <1>1, <1>2, <1>5, <3>1 DEF TypeOK, fileVars
    <2>9. GraphFits'
      BY <2>1, <2>2, <2>5, <2>7 DEF GraphFits
    <2>10. GraphIsUntouched'
      BY <2>1, <2>2, <2>5, <2>7 DEF GraphIsUntouched
    <2>11. SumsFit'
      BY <2>3, <2>5, <2>6 DEF SumsFit
    <2>12. (FilesFit /\ ConstructedFits /\ AlphasFit /\ LoadFits)'
      BY <1>5 DEF FilesFit, ConstructedFits, AlphasFit, LoadFits
    <2>13. DemandFits' /\ UpdatedGraphIsReadable'
      BY <1>1, <1>2, <1>5 DEF IInv, DemandFits, UpdatedGraphIsReadable, fileVars
    <2>14. PublishedFits'
      <3>1. iter = cfg.updates => LastIsPublished
        BY <1>1 DEF IInv, PublishedFits
      <3>2. UNCHANGED maps
        BY <1>1 DEF fileVars
      <3>3. iter = cfg.updates => LastIsPublished'
        BY <1>1, <3>1, <3>2, PublishedKeeps
      <3> QED BY <1>1, <1>5, <3>3 DEF PublishedFits
    <2> QED BY <2>8, <2>9, <2>10, <2>11, <2>12, <2>13, <2>14 DEF IInv
  <1> QED
    BY <1>4, <1>5 DEF ReadGraph, IsUnreadable

-----------------------------------------------------------------------------
(* Searching, updating and storing *)

LEMMA ReadRoutingKeeps ==
    ASSUME IInv, ReadRouting
    PROVE  IInv'
  <1>1. pc = "routing" /\ UNCHANGED <<cfg, iter, graph, load, maps, infos, userPairs, stats>>
    BY DEF ReadRouting
  <1>2. TypeOK /\ failedAt = "none" /\ iter \in Nat /\ iter <= cfg.updates
    BY <1>1, ConfigFacts DEF IInv, TypeOK
  <1>3. CASE Fail /\ UNCHANGED <<alphas, pairs>>
    BY <1>1, <1>3, FailKeeps DEF fileVars
  <1>4. CASE alphas' = Alphas /\ pairs' = Pairs /\ pc' = "simulate" /\ UNCHANGED failedAt
    <2>1. /\ IsKept' <=> IsKept
          /\ ConfigsAgree' <=> ConfigsAgree
          /\ IterCfg' = IterCfg /\ Tolerance' = Tolerance /\ Alphas' = Alphas
      BY <1>1, <1>4 DEF IsKept, IsGuarded, ConfigsAgree, IterCfg, Tolerance, Alphas
    <2>2. pairs' \in -1 .. MaxEdits
      <3>1. userPairs \in 0 .. MaxEdits /\ pairs \in -1 .. MaxEdits /\ MaxEdits \in Nat
        BY <1>2, BalancingAssumption DEF TypeOK
      <3> QED BY <1>4, <3>1 DEF Pairs
    <2>3. TypeOK'
      BY <1>1, <1>2, <1>4, <2>2 DEF TypeOK
    <2>4. GraphFits' /\ GraphIsUntouched'
      BY <1>1, <2>1, GraphKeeps DEF IInv
    <2>5. SumsFit' /\ AlphasFit'
      BY <1>1, <1>4, <2>1 DEF IInv, SumsFit, AlphasFit
    <2>6. (FilesFit /\ ConstructedFits /\ LoadFits)'
      BY <1>4 DEF FilesFit, ConstructedFits, LoadFits
    <2>7. UpdatedGraphIsReadable'
      BY <1>2, <1>4 DEF UpdatedGraphIsReadable
    <2>8. DemandFits'
      <3>1. CASE iter = 0
        <4>1. 0 .. iter' - 1 = {}
          BY <1>1, <3>1
        <4> QED BY <4>1 DEF DemandFits
      <3>2. CASE iter # 0
        <4>1. pairs' = pairs
          BY <1>4, <3>2 DEF Pairs
        <4> QED BY <1>1, <4>1 DEF IInv, DemandFits
      <3> QED BY <3>1, <3>2
    <2>9. PublishedFits'
      <3>1. iter = cfg.updates => LastIsPublished
        BY <1>1 DEF IInv, PublishedFits
      <3>2. iter = cfg.updates => LastIsPublished'
        BY <1>1, <3>1, PublishedKeeps
      <3> QED BY <1>1, <1>4, <3>2 DEF PublishedFits
    <2> QED BY <2>3, <2>4, <2>5, <2>6, <2>7, <2>8, <2>9 DEF IInv
  <1> QED
    BY <1>3, <1>4 DEF ReadRouting

LEMMA SimulateKeeps ==
    ASSUME IInv, Simulate
    PROVE  IInv'
  <1>1. /\ pc = "simulate" /\ pc' = "update"
        /\ UNCHANGED <<cfg, failedAt, iter, graph, alphas, maps, infos, userPairs, pairs, stats>>
    BY DEF Simulate, fileVars
  <1>2. TypeOK /\ failedAt = "none" /\ iter \in Nat /\ iter <= cfg.updates
    BY <1>1, ConfigFacts DEF IInv, TypeOK
  <1>3. PICK l \in Loads : load' = [e \in DOMAIN graph |-> IF e \in Streets THEN l[e] ELSE 0]
    BY DEF Simulate
  <1>4. TypeOK'
    BY <1>1, <1>2 DEF TypeOK
  <1>5. GraphFits' /\ GraphIsUntouched'
    <2>1. IsKept' => IsKept
      BY <1>1 DEF IsKept, IsGuarded
    <2> QED BY <1>1, <2>1, GraphKeeps DEF IInv
  <1>6. LoadFits'
    <2>1. \A e \in Streets : l[e] \in Nat
      BY BalancingAssumption
    <2>2. DOMAIN load' = DOMAIN graph /\ \A e \in DOMAIN graph : load'[e] \in Nat
      BY <1>3, <2>1
    <2> QED BY <1>1, <2>2 DEF LoadFits
  <1>7. (FilesFit /\ ConstructedFits /\ SumsFit /\ AlphasFit)'
    BY <1>1 DEF FilesFit, ConstructedFits, SumsFit, AlphasFit
  <1>8. DemandFits' /\ UpdatedGraphIsReadable'
    BY <1>1, <1>2 DEF IInv, DemandFits, UpdatedGraphIsReadable
  <1>9. PublishedFits'
    <2>1. iter = cfg.updates => LastIsPublished
      BY <1>1 DEF IInv, PublishedFits
    <2>2. iter = cfg.updates => LastIsPublished'
      BY <1>1, <2>1, PublishedKeeps
    <2> QED BY <1>1, <2>2 DEF PublishedFits
  <1> QED
    BY <1>4, <1>5, <1>6, <1>7, <1>8, <1>9 DEF IInv

LEMMA UpdateKeeps ==
    ASSUME IInv, Update
    PROVE  IInv'
  <1> DEFINE loads == [e \in DOMAIN load |-> <<load[e], 1>>]
             new == NormalizedBy(loads, MeanOver(loads))
             moved == [e \in DOMAIN load |-> Clamped(Moved(graph[e]["workload"], new[e]))]
             stored == NormalizedBy(moved, MeanOver(moved))
             first == CHOOSE e \in Streets : TRUE
  <1>1. pc = "update" /\ UNCHANGED <<cfg, iter, alphas, load, fileVars>>
    BY DEF Update
  <1>2. TypeOK /\ failedAt = "none" /\ iter \in Nat /\ iter <= cfg.updates
    BY <1>1, ConfigFacts DEF IInv, TypeOK
  <1>3. CASE Fail /\ UNCHANGED graph
    BY <1>1, <1>3, FailKeeps
  <1>4. CASE /\ "workload" \in DOMAIN graph[first] /\ ~IsZero(MeanOver(loads))
             /\ ~(cfg.min = None /\ cfg.isErr /\ \E e \in DOMAIN moved : IsZeroOrLower(moved[e]))
             /\ ~IsAtMost(MeanOver(moved), Zero)
             /\ graph' = [e \in DOMAIN graph |-> [graph[e] EXCEPT !["workload"] = stored[e]]]
             /\ pc' = "stats" /\ UNCHANGED failedAt
    <2>1. TypeOK /\ GraphFits /\ LoadFits /\ GraphIsUntouched
      BY DEF IInv
    <2>2. \A e \in DOMAIN graph : /\ IsRational(stored[e])
                                  /\ IsGuarded => NotBelowZero(stored[e])
      <3>1. /\ loads = [e \in DOMAIN load |-> <<load[e], 1>>]
            /\ new = NormalizedBy(loads, MeanOver(loads))
            /\ moved = [e \in DOMAIN load |-> Clamped(Moved(graph[e]["workload"], new[e]))]
        OBVIOUS
      <3> HIDE DEF loads, new, moved
      <3> QED BY <1>1, <1>4, <2>1, <3>1, UpdatedFacts
    <2> HIDE DEF stored, moved, new, loads, first
    <2>3. /\ DOMAIN graph' = DOMAIN graph
          /\ \A e \in DOMAIN graph :
                /\ DOMAIN graph'[e] = DOMAIN graph[e]
                /\ \A id \in DOMAIN graph[e] :
                      graph'[e][id] = IF id = "workload" THEN stored[e] ELSE graph[e][id]
      BY <1>4
    <2>4. /\ IsGuarded' <=> IsGuarded
          /\ IsKept' <=> IsGuarded
          /\ ConfigsAgree' <=> ConfigsAgree
      BY <1>1, <1>4 DEF IsKept, IsGuarded, ConfigsAgree
    <2>5. \A e \in DOMAIN graph : \A id \in DOMAIN graph[e] : IsMetric(graph[e][id])
      BY <1>1, <2>1 DEF GraphFits
    <2>6. \A e \in DOMAIN graph : \A id \in DOMAIN graph[e] :
             IsRational(graph'[e][id]) /\ (IsGuarded => NotBelowZero(graph'[e][id]))
      BY <2>2, <2>3, <2>5 DEF IsMetric, IsKept
    <2>7. TypeOK'
      BY <1>1, <1>2, <1>4, <2>3, <2>6 DEF TypeOK, fileVars
    <2>8. GraphFits'
      <3>1. \A x : IsRational(x) /\ (IsGuarded => NotBelowZero(x)) => IsMetric(x)'
        BY <2>4 DEF IsMetric
      <3> QED BY <2>1, <2>3, <2>6, <3>1 DEF GraphFits
    <2>9. GraphIsUntouched'
      <3>1. \A e, id, x : IsUntouched(e, id, x)' <=> IsUntouched(e, id, x)
        BY <2>4 DEF IsUntouched
      <3>2. \A e, x : IsUntouched(e, "workload", x)
        BY DEF IsUntouched
      <3>3. \A e \in Streets : e \in DOMAIN graph
        BY <2>1 DEF GraphFits
      <3>4. \A e \in Streets : \A id \in DOMAIN graph'[e] : IsUntouched(e, id, graph'[e][id])
        BY <2>1, <2>3, <3>2, <3>3 DEF GraphIsUntouched
      <3> QED BY <3>1, <3>4 DEF GraphIsUntouched
    <2>10. (FilesFit /\ ConstructedFits /\ SumsFit /\ AlphasFit /\ LoadFits)'
      BY <1>4 DEF FilesFit, ConstructedFits, SumsFit, AlphasFit, LoadFits
    <2>11. DemandFits' /\ UpdatedGraphIsReadable'
      BY <1>1, <1>2, <1>4 DEF IInv, DemandFits, UpdatedGraphIsReadable, fileVars
    <2>12. PublishedFits'
      <3>1. iter = cfg.updates => LastIsPublished
        BY <1>1 DEF IInv, PublishedFits
      <3>2. UNCHANGED maps
        BY <1>1 DEF fileVars
      <3>3. iter = cfg.updates => LastIsPublished'
        BY <1>1, <3>1, <3>2, PublishedKeeps
      <3> QED BY <1>1, <1>4, <3>3 DEF PublishedFits
    <2> QED BY <2>7, <2>8, <2>9, <2>10, <2>11, <2>12 DEF IInv
  <1> QED
    BY <1>3, <1>4 DEF Update

LEMMA WriteStatsKeeps ==
    ASSUME IInv, WriteStats
    PROVE  IInv'
  <1>1. pc = "stats" /\ UNCHANGED <<cfg, graph, alphas, load, maps, infos, userPairs, pairs>>
    BY DEF WriteStats
  <1>2. /\ TypeOK /\ failedAt = "none" /\ iter \in Nat /\ iter <= cfg.updates
        /\ cfg.updates \in Nat
    BY <1>1, ConfigFacts DEF IInv, TypeOK
  <1>3. CASE Fail /\ UNCHANGED <<stats, iter>>
    BY <1>1, <1>3, FailKeeps DEF fileVars
  <1>4. CASE /\ stats' = With(stats, iter, [pairs |-> pairs, load |-> load])
             /\ iter' = iter + 1 /\ pc' = "iterate" /\ UNCHANGED failedAt
    <2>1. /\ DOMAIN stats' = DOMAIN stats \cup {iter}
          /\ \A j \in DOMAIN stats' : stats'[j].pairs = IF j = iter THEN pairs ELSE stats[j].pairs
      <3> DEFINE content == [pairs |-> pairs, load |-> load]
      <3>1. stats' = With(stats, iter, content) /\ content.pairs = pairs
        BY <1>4
      <3> HIDE DEF content
      <3> QED BY <3>1 DEF With
    <2>2. DOMAIN stats' = 0 .. iter' - 1
      <3>1. DOMAIN stats = 0 .. iter - 1
        BY <1>2 DEF TypeOK
      <3>2. iter' - 1 = iter /\ (0 .. iter - 1) \cup {iter} = 0 .. iter
        BY <1>2, <1>4
      <3> QED BY <2>1, <3>1, <3>2
    <2>3. TypeOK'
      BY <1>1, <1>2, <1>4, <2>2 DEF TypeOK
    <2>4. GraphFits' /\ GraphIsUntouched'
      <3>1. IsKept' => IsKept
        BY <1>1, <1>2, <1>4 DEF IsKept, IsGuarded
      <3> QED BY <1>1, <3>1, GraphKeeps DEF IInv
    <2>5. (FilesFit /\ ConstructedFits /\ SumsFit /\ AlphasFit /\ LoadFits)'
      BY <1>4 DEF FilesFit, ConstructedFits, SumsFit, AlphasFit, LoadFits
    <2>6. UpdatedGraphIsReadable'
      BY <1>2, <1>4 DEF UpdatedGraphIsReadable
    <2>7. DemandFits'
      <3>1. \A j \in 0 .. iter' - 1 : stats'[j].pairs = pairs
        <4>1. \A j \in 0 .. iter' - 1 : j = iter \/ j \in 0 .. iter - 1
          BY <1>2, <1>4
        <4>2. \A j \in 0 .. iter - 1 : stats[j].pairs = pairs
          BY DEF IInv, DemandFits
        <4> QED BY <2>1, <2>2, <4>1, <4>2
      <3> QED BY <1>1, <3>1 DEF DemandFits
    <2>8. PublishedFits'
      <3>1. iter = cfg.updates => LastIsPublished
        BY <1>1 DEF IInv, PublishedFits
      <3>2. iter = cfg.updates => LastIsPublished'
        BY <1>1, <3>1, PublishedKeeps
      <3>3. iter' = cfg.updates' + 1 => iter = cfg.updates
        BY <1>1, <1>2, <1>4
      <3> QED BY <1>4, <3>2, <3>3 DEF PublishedFits
    <2> QED BY <2>3, <2>4, <2>5, <2>6, <2>7, <2>8 DEF IInv
  <1> QED
    BY <1>3, <1>4 DEF WriteStats

\* Neither stuttering nor the user disturbs what the invariant is about.
LEMMA OthersKeep ==
    ASSUME IInv, UNCHANGED <<cfg, pc, failedAt, iter, graph, alphas, load, fileVars>>
                 \/ UserEdits
    PROVE  IInv'
  <1>1. UNCHANGED <<cfg, pc, failedAt, iter, graph, alphas, load, maps, infos, pairs, stats>>
    BY DEF UserEdits, fileVars
  <1>2. userPairs' \in 0 .. MaxEdits
    <2>1. userPairs \in 0 .. MaxEdits /\ MaxEdits \in Nat
      BY BalancingAssumption DEF IInv, TypeOK
    <2> QED BY <2>1 DEF UserEdits, fileVars
  <1>3. TypeOK'
    BY <1>1, <1>2 DEF IInv, TypeOK
  <1>4. /\ IsKept' <=> IsKept
        /\ ConfigsAgree' <=> ConfigsAgree
        /\ IsGuarded' <=> IsGuarded
        /\ IterCfg' = IterCfg /\ Tolerance' = Tolerance /\ Alphas' = Alphas
    BY <1>1 DEF IsKept, IsGuarded, ConfigsAgree, IterCfg, Tolerance, Alphas
  <1>5. /\ \A x : IsMetric(x)' <=> IsMetric(x)
        /\ \A e, id, x : IsUntouched(e, id, x)' <=> IsUntouched(e, id, x)
        /\ \A rows, ids : Holds(rows, ids)' <=> Holds(rows, ids)
    BY <1>1, <1>4 DEF IsMetric, IsUntouched, Holds
  <1>6. \A all, rows : IsConstructedOf(all, rows)' <=> IsConstructedOf(all, rows)
    BY <1>4, <1>5 DEF IsConstructedOf
  <1>7. GraphFits' /\ GraphIsUntouched'
    BY <1>1, <1>5 DEF IInv, GraphFits, GraphIsUntouched
  <1>8. FilesFit' /\ ConstructedFits'
    BY <1>1, <1>4, <1>5, <1>6 DEF IInv, FilesFit, ConstructedFits
  <1>9. SumsFit' /\ AlphasFit' /\ LoadFits'
    BY <1>1, <1>4 DEF IInv, SumsFit, AlphasFit, LoadFits
  <1>10. PublishedFits'
    <2>1. LastIsPublished => LastIsPublished'
      BY <1>1, PublishedKeeps
    <2> QED BY <1>1, <1>5, <2>1 DEF IInv, PublishedFits
  <1>11. DemandFits' /\ UpdatedGraphIsReadable'
    BY <1>1, <1>4 DEF IInv, DemandFits, UpdatedGraphIsReadable
  <1> QED
    BY <1>3, <1>7, <1>8, <1>9, <1>10, <1>11 DEF IInv

-----------------------------------------------------------------------------
(* The theorems *)

\* In every run, each part of the inductive invariant holds: what the files contain of the graph,
\* what the constructor made of it, which metrics have been read, searched, updated and stored.
THEOREM Invariance == Spec => []IInv
  <1>1. Init => IInv
    BY InitIsFine
  <1>2. IInv /\ [Next]_vars => IInv'
    <2> SUFFICES ASSUME IInv, [Next]_vars PROVE IInv'
      OBVIOUS
    <2>1. CASE BeginIteration
      BY <2>1, BeginIterationKeeps
    <2>2. CASE WriteGraph
      BY <2>2, WriteGraphKeeps
    <2>3. CASE Construct
      BY <2>3, ConstructKeeps
    <2>4. CASE ReadGraph
      BY <2>4, ReadGraphKeeps
    <2>5. CASE ReadRouting
      BY <2>5, ReadRoutingKeeps
    <2>6. CASE Simulate
      BY <2>6, SimulateKeeps
    <2>7. CASE Update
      BY <2>7, UpdateKeeps
    <2>8. CASE WriteStats
      BY <2>8, WriteStatsKeeps
    <2>9. CASE UserEdits
      BY <2>9, OthersKeep
    <2>10. CASE Stopped \/ UNCHANGED vars
      BY <2>10, OthersKeep DEF Stopped, vars, fileVars
    <2> QED BY <2>1, <2>2, <2>3, <2>4, <2>5, <2>6, <2>7, <2>8, <2>9, <2>10 DEF Next
  <1> QED
    BY <1>1, <1>2, PTL DEF Spec

\* Every variable has its type; iterations end after the last update's, and each has stored its
\* statistics once (the loop of run).
THEOREM TypeCorrect == Spec => []TypeOK
  <1>1. IInv => TypeOK
    BY DEF IInv
  <1> QED
    BY <1>1, Invariance, PTL

\* No search runs on shortcuts that have become stale, in whatever order configs name metrics,
\* whatever the constructor chooses and however often the workload changes: every shortcut costs
\* what its halves cost, but for the tolerance that correcting metrics around zero needs.
THEOREM ConsistentSearches == Spec => []SearchesOnConsistentShortcuts
  <1>1. IInv => SearchesOnConsistentShortcuts
    <2> SUFFICES ASSUME IInv, pc = "simulate", ConfigsAgree, AlphasAreConstructed,
                        NEW s \in Shortcuts \cap DOMAIN graph, NEW id \in alphas
                 PROVE  AreClose(graph[s][id],
                                 Plus(graph[Halves[s][1]][id], graph[Halves[s][2]][id]), Tolerance)
      BY DEF SearchesOnConsistentShortcuts
    <2>1. s \in DOMAIN graph \ Streets
      BY BalancingAssumption
    <2>2. Agrees(IterCfg)
      BY ConfigFacts DEF IInv
    <2>3. alphas = Alphas
      BY DEF IInv, AlphasFit
    <2>4. id \in ToSet(IterCfg.parsed)
      BY <2>2, <2>3 DEF AlphasAreConstructed, Alphas, IterCfg, Agrees
    <2> QED BY <2>1, <2>4 DEF IInv, SumsFit
  <1> QED
    BY <1>1, Invariance, PTL

\* What is published at the end is the graph that the last iteration analysed, it differs from
\* the custom graph in its workload alone, and all iterations routed the same pairs, whenever
\* users edit their file.
THEOREM EvaluatedIsPublished == Spec => []EvaluatesWhatItPublishes
  <1>1. IInv => EvaluatesWhatItPublishes
    <2> SUFFICES ASSUME IInv, pc = "done", ConfigsAgree PROVE EvaluatesWhatItPublishes
      BY DEF EvaluatesWhatItPublishes
    <2>1. iter = cfg.updates + 1 /\ cfg.updates \in Nat
      BY ConfigFacts DEF IInv, TypeOK
    <2>2. LastIsPublished
      BY <2>1 DEF IInv, PublishedFits
    <2>3. \A i, j \in 0 .. cfg.updates : stats[i].pairs = stats[j].pairs
      <3>1. iter - 1 = cfg.updates
        BY <2>1
      <3> QED BY <3>1 DEF IInv, DemandFits
    <2> QED BY <2>2, <2>3 DEF EvaluatesWhatItPublishes, LastIsPublished, IsUntouched
  <1> QED
    BY <1>1, Invariance, PTL

\* The parser refuses a graph that the balancer has written only after an update that the config
\* lets yield a workload below zero.
THEOREM UpdatesAreReadable == Spec => []UpdatedGraphIsReadable
  <1>1. IInv => UpdatedGraphIsReadable
    BY DEF IInv
  <1> QED
    BY <1>1, Invariance, PTL
===============================================================================
