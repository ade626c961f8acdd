------------------------ MODULE MetricGenerationProofs ------------------------
(***************************************************************************)
(* What MetricGeneration promises holds for every config and map-file.     *)
(***************************************************************************)
EXTENDS MetricGeneration, Foundations, SequenceTheorems

(* The metrics among categories *)

\* The metrics among categories are those of a function that recurs over the categories.
LEMMA MetricsIterate ==
    ASSUME NEW s \in Seq(Parsed)
    PROVE  \E found : /\ found[0] = <<>>
                      /\ \A k \in 1 .. Len(s) : found[k] = WithMetric(found[k - 1], s[k])
                      /\ MetricsOf(s) = found[Len(s)]
  <1> DEFINE n == Len(s)
             T == Seq(Parsed)
             step == [p \in (1 .. n) \X T |-> WithMetric(p[2], s[p[1]])]
             IsIter(f) == f = [r \in SUBSET (1 .. n) |->
                                  IF r = {} THEN <<>> ELSE WithMetric(f[r \ {Max(r)}], s[Max(r)])]
             iter == CHOOSE f : IsIter(f)
             found == [k \in 0 .. n |-> iter[1 .. k]]
  <1>1. n \in Nat /\ DOMAIN s = 1 .. n /\ \A k \in 1 .. n : s[k] \in Parsed
    OBVIOUS
  <1>2. MetricsOf(s) = iter[1 .. n]
    BY <1>1 DEF MetricsOf, FoldLeft, MapThenFoldSet
  <1>3. step \in [(1 .. n) \X T -> T]
    <2>1. ASSUME NEW x \in T, NEW k \in 1 .. n PROVE WithMetric(x, s[k]) \in T
      <3>1. s[k] \in Parsed
        BY <1>1
      <3> HIDE DEF n
      <3> QED BY <3>1, AppendProperties DEF WithMetric
    <2>2. \A p \in (1 .. n) \X T : WithMetric(p[2], s[p[1]]) \in T
      BY <2>1
    <2> HIDE DEF T
    <2> QED BY <2>2
  <1>4. \A i \in 1 .. n, x \in T : step[<<i, x>>] = WithMetric(x, s[i])
    OBVIOUS
  <1>5. <<>> \in T
    OBVIOUS
  <1> HIDE DEF T, step, n
  <1>6. PICK f : IsSequenceFold(f, n, T, <<>>, step)
    BY <1>1, <1>3, <1>5, SequenceFoldExists
  <1>7. /\ f \in [SUBSET (1 .. n) -> T]
        /\ \A r \in SUBSET (1 .. n) :
              f[r] = IF r = {} THEN <<>> ELSE step[<<Max(r), f[r \ {Max(r)}]>>]
    BY <1>6 DEF IsSequenceFold
  <1>8. ASSUME NEW r \in SUBSET (1 .. n)
        PROVE  f[r] = IF r = {} THEN <<>> ELSE WithMetric(f[r \ {Max(r)}], s[Max(r)])
    <2>1. CASE r = {}
      BY <1>7, <2>1
    <2>2. CASE r # {}
      <3>1. Max(r) \in 1 .. n
        BY <1>1, <2>2, MaxFacts
      <3>2. f[r \ {Max(r)}] \in T
        BY <1>7
      <3> QED BY <1>4, <1>7, <2>2, <3>1, <3>2
    <2> QED BY <2>1, <2>2
  <1>9. IsIter(f)
    BY <1>7, <1>8
  <1>10. IsIter(iter)
    <2> HIDE DEF IsIter
    <2> QED BY <1>9
  <1> HIDE DEF iter
  <1>11. \A r \in SUBSET (1 .. n) : r # {} => iter[r] = WithMetric(iter[r \ {Max(r)}], s[Max(r)])
    BY <1>10
  <1>12. iter[{}] = <<>>
    BY <1>10
  <1> HIDE DEF IsIter
  <1>13. found[0] = <<>>
    <2>1. 1 .. 0 = {} /\ 0 \in 0 .. n
      BY <1>1
    <2> QED BY <1>12, <2>1
  <1>14. ASSUME NEW m \in 1 .. n PROVE found[m] = WithMetric(found[m - 1], s[m])
    <2>1. /\ Max(1 .. m) = m
          /\ 1 .. m # {} /\ 1 .. m \in SUBSET (1 .. n)
          /\ (1 .. m) \ {m} = 1 .. m - 1
      BY <1>1, MaxFacts
    <2>2. iter[1 .. m] = WithMetric(iter[1 .. m - 1], s[m])
      BY <1>11, <2>1
    <2>3. m \in 0 .. n /\ m - 1 \in 0 .. n
      BY <1>1
    <2> QED BY <2>2, <2>3
  <1>15. MetricsOf(s) = found[n]
    BY <1>1, <1>2
  <1> QED
    BY <1>13, <1>14, <1>15 DEF n

\* Appending a category appends a metric, or nothing.
LEMMA MetricsOfAppended ==
    ASSUME NEW s \in Seq(Parsed), NEW c \in Parsed
    PROVE  MetricsOf(Append(s, c)) = WithMetric(MetricsOf(s), c)
  <1> DEFINE n == Len(s)
             t == Append(s, c)
  <1>1. /\ n \in Nat /\ t \in Seq(Parsed) /\ Len(t) = n + 1 /\ t[n + 1] = c
        /\ \A k \in 1 .. n : t[k] = s[k]
    BY AppendProperties
  <1>2. PICK f : /\ f[0] = <<>> /\ \A k \in 1 .. n : f[k] = WithMetric(f[k - 1], s[k])
                 /\ MetricsOf(s) = f[n]
    BY MetricsIterate
  <1> HIDE DEF t
  <1>3. PICK g : /\ g[0] = <<>> /\ \A k \in 1 .. Len(t) : g[k] = WithMetric(g[k - 1], t[k])
                 /\ MetricsOf(t) = g[Len(t)]
    BY <1>1, MetricsIterate
  <1> HIDE DEF n
  <1> DEFINE N == {k \in Nat : k <= n => f[k] = g[k]}
  <1>4. 0 \in N
    BY <1>2, <1>3
  <1>5. ASSUME NEW k \in Nat, k \in N PROVE k + 1 \in N
    <2> SUFFICES ASSUME k + 1 <= n PROVE f[k + 1] = g[k + 1]
      OBVIOUS
    <2>1. k + 1 \in 1 .. n /\ k + 1 \in 1 .. Len(t) /\ (k + 1) - 1 = k /\ f[k] = g[k]
      BY <1>1, <1>5
    <2> QED BY <1>1, <1>2, <1>3, <2>1
  <1>6. f[n] = g[n]
    <2> HIDE DEF N
    <2>1. n \in N
      BY <1>1, <1>4, <1>5, NaturalsAreInductive
    <2> QED BY <1>1, <2>1 DEF N
  <1>7. n + 1 \in 1 .. Len(t) /\ (n + 1) - 1 = n
    BY <1>1
  <1>8. g[n + 1] = WithMetric(g[n], c)
    BY <1>1, <1>3, <1>7
  <1> QED
    BY <1>1, <1>2, <1>3, <1>6, <1>8 DEF t

\* pos says where the metrics are among the categories of s, and equally of t.
ArePositions(pos, found, other, s, t, n) ==
    /\ found \in Seq(Parsed) /\ other \in Seq(Parsed) /\ Len(found) = Len(other)
    /\ \A i \in 1 .. Len(found) :
          /\ pos[i] \in 1 .. n /\ IsMetric(s[pos[i]])
          /\ found[i] = s[pos[i]] /\ other[i] = t[pos[i]]
          /\ \A j \in 1 .. Len(found) : j < i => pos[j] < pos[i]

\* Two lists of categories whose metrics have the same positions have as many metrics, at the
\* same places.
LEMMA MetricsHavePositions ==
    ASSUME NEW s \in Seq(Parsed), NEW t \in Seq(Parsed), Len(s) = Len(t),
           \A k \in 1 .. Len(s) : IsMetric(s[k]) <=> IsMetric(t[k])
    PROVE  \E pos : ArePositions(pos, MetricsOf(s), MetricsOf(t), s, t, Len(s))
  <1> DEFINE n == Len(s)
  <1>1. n \in Nat /\ \A k \in 1 .. n : s[k] \in Parsed /\ t[k] \in Parsed
    OBVIOUS
  <1>2. PICK f : /\ f[0] = <<>> /\ \A k \in 1 .. n : f[k] = WithMetric(f[k - 1], s[k])
                 /\ MetricsOf(s) = f[n]
    BY MetricsIterate
  <1>3. PICK g : /\ g[0] = <<>> /\ \A k \in 1 .. n : g[k] = WithMetric(g[k - 1], t[k])
                 /\ MetricsOf(t) = g[n]
    BY MetricsIterate
  <1>4. \A k \in 1 .. n : IsMetric(s[k]) <=> IsMetric(t[k])
    OBVIOUS
  <1> HIDE DEF n
  <1> DEFINE N == {k \in Nat : k <= n => \E pos : ArePositions(pos, f[k], g[k], s, t, k)}
  <1>5. 0 \in N
    <2>1. <<>> \in Seq(Parsed) /\ Len(<<>>) = 0
      OBVIOUS
    <2>2. ArePositions(<<>>, f[0], g[0], s, t, 0)
      BY <1>2, <1>3, <2>1 DEF ArePositions
    <2> QED BY <2>2
  <1>6. ASSUME NEW k \in Nat, k \in N PROVE k + 1 \in N
    <2> SUFFICES ASSUME k + 1 <= n PROVE \E pos : ArePositions(pos, f[k + 1], g[k + 1], s, t, k + 1)
      OBVIOUS
    <2> DEFINE m == k + 1
    <2>1. m \in 1 .. n /\ m - 1 = k /\ m = k + 1
      BY <1>1
    <2> HIDE DEF m
    <2>0. k <= n
      BY <1>1
    <2>2. PICK pos : ArePositions(pos, f[k], g[k], s, t, k)
      <3> HIDE DEF n, m
      <3> QED BY <1>6, <2>0
    <2>3. f[m] = WithMetric(f[k], s[m]) /\ g[m] = WithMetric(g[k], t[m])
      BY <1>2, <1>3, <2>1
    <2>4. s[m] \in Parsed /\ t[m] \in Parsed /\ (IsMetric(s[m]) <=> IsMetric(t[m]))
      BY <1>1, <1>4, <2>1
    <2>5. CASE ~IsMetric(s[m])
      <3>1. f[m] = f[k] /\ g[m] = g[k]
        BY <2>3, <2>4, <2>5 DEF WithMetric
      <3>2. ArePositions(pos, f[m], g[m], s, t, m)
        BY <2>1, <2>2, <3>1 DEF ArePositions
      <3> QED BY <3>2 DEF m
    <2>6. CASE IsMetric(s[m])
      <3> DEFINE l == Len(f[k])
                 new == [i \in 1 .. l + 1 |-> IF i = l + 1 THEN m ELSE pos[i]]
      <3>1. f[m] = Append(f[k], s[m]) /\ g[m] = Append(g[k], t[m])
        BY <2>3, <2>4, <2>6 DEF WithMetric
      <3>2. f[k] \in Seq(Parsed) /\ g[k] \in Seq(Parsed) /\ l \in Nat /\ Len(g[k]) = l
        BY <2>2 DEF ArePositions
      <3>3. /\ f[m] \in Seq(Parsed) /\ Len(f[m]) = l + 1 /\ f[m][l + 1] = s[m]
            /\ \A i \in 1 .. l : f[m][i] = f[k][i]
            /\ g[m] \in Seq(Parsed) /\ Len(g[m]) = l + 1 /\ g[m][l + 1] = t[m]
            /\ \A i \in 1 .. l : g[m][i] = g[k][i]
        BY <2>4, <3>1, <3>2, AppendProperties
      <3>4. \A i \in 1 .. l : /\ pos[i] \in 1 .. k /\ IsMetric(s[pos[i]])
                              /\ f[k][i] = s[pos[i]] /\ g[k][i] = t[pos[i]]
                              /\ \A j \in 1 .. l : j < i => pos[j] < pos[i]
        BY <2>2 DEF ArePositions
      <3>5. new[l + 1] = m /\ \A i \in 1 .. l : new[i] = pos[i]
        BY <3>2
      <3> HIDE DEF l, new
      <3>6. ASSUME NEW i \in 1 .. l + 1
            PROVE  /\ new[i] \in 1 .. m /\ IsMetric(s[new[i]])
                   /\ f[m][i] = s[new[i]] /\ g[m][i] = t[new[i]]
                   /\ \A j \in 1 .. l + 1 : j < i => new[j] < new[i]
        <4>1. CASE i = l + 1
          <5>1. \A j \in 1 .. l + 1 : j < i => j \in 1 .. l
            BY <3>2, <4>1
          <5> QED BY <2>1, <2>6, <3>3, <3>4, <3>5, <4>1, <5>1
        <4>2. CASE i # l + 1
          <5>1. i \in 1 .. l /\ \A j \in 1 .. l + 1 : j < i => j \in 1 .. l
            BY <3>2, <4>2
          <5> QED BY <2>1, <3>3, <3>4, <3>5, <5>1
        <4> QED BY <4>1, <4>2
      <3>7. ArePositions(new, f[m], g[m], s, t, m)
        BY <3>3, <3>6 DEF ArePositions
      <3> QED BY <3>7 DEF m
    <2> QED BY <2>5, <2>6
  <1>7. n \in N
    <2> HIDE DEF N
    <2> QED BY <1>1, <1>5, <1>6, NaturalsAreInductive
  <1> QED
    BY <1>1, <1>2, <1>3, <1>7 DEF n

-----------------------------------------------------------------------------
(* Every variable has its type *)

\* A row of n values
IsRow(r, n) == r = [i \in 1 .. n |-> r[i]]

Extends(t, r, v) == t = Append(r, v)

\* A row to which a value is appended has one more, and keeps the others.
LEMMA RowAppended ==
    ASSUME NEW n \in Nat, NEW r, IsRow(r, n), NEW v, NEW t, Extends(t, r, v)
    PROVE  IsRow(t, n + 1) /\ t[n + 1] = v /\ \A i \in 1 .. n : t[i] = r[i]
  <1> DEFINE S == {r[i] : i \in 1 .. n} \cup {v}
  <1>1. DOMAIN r = 1 .. n /\ \A i \in 1 .. n : r[i] \in S
    BY DEF IsRow
  <1>2. r \in [1 .. n -> S]
    <2> HIDE DEF S
    <2> QED BY <1>1 DEF IsRow
  <1>3. v \in S
    OBVIOUS
  <1> HIDE DEF S
  <1>4. r \in Seq(S) /\ Len(r) = n
    BY <1>2
  <1>5. /\ t \in Seq(S) /\ Len(t) = n + 1 /\ t[n + 1] = v
        /\ \A i \in 1 .. n : t[i] = r[i]
    <2>1. /\ Append(r, v) \in Seq(S) /\ Len(Append(r, v)) = n + 1 /\ Append(r, v)[n + 1] = v
          /\ \A i \in 1 .. n : Append(r, v)[i] = r[i]
      BY <1>3, <1>4, AppendProperties
    <2> QED BY <2>1 DEF Extends
  <1>6. t = [i \in 1 .. n + 1 |-> t[i]]
    BY ONLY <1>5
  <1>7. IsRow(t, n + 1)
    BY ONLY <1>6 DEF IsRow
  <1> QED
    BY ONLY <1>5, <1>7

\* What the stages have set so far
Shape ==
    /\ pc \in {"config", "check"} => next = 1 /\ metrics = <<>> /\ idToIdx = <<>>
    /\ pc = "config" => cats = <<>> /\ units = <<>> /\ ids = <<>>
    /\ pc = "nodes" => next <= Len(input.nodeGenerating) + 1
    /\ pc \in {"edges", "normalize", "done"} => next <= Len(input.generating) + 1
    /\ pc \in {"normalize", "done"} => next = Len(input.generating) + 1
    /\ pc \in {"nodes", "edges", "normalize", "done"} => DOMAIN metrics = DOMAIN input.edges
    /\ \A e \in DOMAIN metrics : IsRow(metrics[e], Len(units))
    /\ pc # "done" => means = <<>>

\* What the type invariant says of the input and of lengths
LEMMA InputFacts ==
    ASSUME TypeOK
    PROVE  /\ input.edges \in Seq(Edges) /\ Len(input.edges) \in Nat
           /\ DOMAIN input.edges = 1 .. Len(input.edges)
           /\ input.generating \in Seq(Generatable) /\ Len(input.generating) \in Nat
           /\ DOMAIN input.generating = 1 .. Len(input.generating)
           /\ input.nodeGenerating \in Seq([info : STRING, id : STRING])
           /\ Len(input.nodeGenerating) \in Nat
           /\ input.categories \in Seq(Parsed) /\ Len(input.categories) \in Nat
           /\ next \in Nat /\ next > 0 /\ Len(units) \in Nat /\ Len(ids) = Len(units)
           /\ DOMAIN units = 1 .. Len(units) /\ DOMAIN ids = 1 .. Len(units)
  BY DEF TypeOK, IsInput

\* A category to generate has the fields of its kind.
LEMMA GeneratedFacts ==
    ASSUME NEW c \in Generatable
    PROVE  /\ c.kind = "Meta" => c \in Metas
           /\ c.kind = "Custom" =>
                 c \in [kind : {"Custom"}, unit : UnitInfo, id : STRING, default : Values]
           /\ c.kind = "Haversine" => c \in [kind : {"Haversine"}, unit : UnitInfo, id : STRING]
           /\ c.kind \in {"Copy", "Convert"} =>
                 c \in [kind : {"Copy", "Convert"}, from : MetricNames, to : MetricNames]
           /\ c.kind = "Calc" =>
                 c \in [kind : {"Calc"}, a : MetricNames, b : MetricNames, result : MetricNames]
           /\ c.kind = "Merge" =>
                 c \in [kind : {"Merge"}, lines : Seq(Seq(Values \cup {Unparsable})),
                        edgeId : STRING, columns : Seq(STRING)]
           /\ c.kind \in {"Meta", "Custom", "Haversine", "Copy", "Convert", "Calc", "Merge"}
  BY DEF Generatable, Metas

\* While categories are left, the current one is a category, and the next position is one.
LEMMA CurrentFacts ==
    ASSUME TypeOK, pc = "edges", next <= Len(input.generating)
    PROVE  /\ Current \in Generatable
           /\ next \in 1 .. Len(input.generating)
           /\ next + 1 \in 1 .. Len(input.generating) + Len(input.nodeGenerating) + 1
           /\ next + 1 <= Len(input.generating) + 1
  <1>1. next \in 1 .. Len(input.generating)
    BY InputFacts
  <1>2. Current \in Generatable
    BY <1>1, InputFacts DEF Current
  <1> DEFINE l == Len(input.generating)
             m == Len(input.nodeGenerating)
  <1>3. l \in Nat /\ m \in Nat /\ next \in 1 .. l
    BY <1>1, InputFacts
  <1> HIDE DEF l, m
  <1>4. next + 1 \in 1 .. l + m + 1 /\ next + 1 <= l + 1
    BY <1>3
  <1> QED
    BY <1>1, <1>2, <1>4 DEF l, m

\* The steps that add a metric
LEMMA AddMetricTypeCorrect ==
    ASSUME TypeOK, Shape, pc = "edges", next <= Len(input.generating),
           NEW to, to.unit \in UnitInfo, to.id \in STRING, NEW value, AddMetric(to, value)
    PROVE  TypeOK' /\ Shape'
  <1> DEFINE n == Len(units)
             c == [kind |-> "Metric", unit |-> to.unit, id |-> to.id]
  <1>1. /\ metrics' = [e \in DOMAIN metrics |-> Append(metrics[e], value[e])]
        /\ units' = Append(units, to.unit) /\ ids' = Append(ids, to.id)
        /\ cats' = Append(cats, c) /\ next' = next + 1
        /\ UNCHANGED <<input, pc, line, nodeCats, means, idToIdx>>
    BY DEF AddMetric, AddCategory
  <1>2. c \in Parsed
    BY DEF Parsed
  <1> HIDE DEF c
  <1>3. cats' \in Seq(Parsed)
    BY <1>1, <1>2, AppendProperties DEF TypeOK
  <1>4. /\ units' \in Seq(UnitInfo) /\ Len(units') = n + 1
        /\ ids' \in Seq(STRING) /\ Len(ids') = n + 1 /\ n \in Nat
    BY <1>1, AppendProperties, InputFacts DEF TypeOK
  <1>5. ASSUME NEW e \in DOMAIN metrics' PROVE IsRow(metrics'[e], n + 1)
    <2>1. e \in DOMAIN metrics /\ metrics'[e] = Append(metrics[e], value[e])
      BY <1>1
    <2>2. IsRow(metrics[e], n)
      BY <2>1 DEF Shape
    <2> HIDE DEF n
    <2>3. n \in Nat
      BY <1>4
    <2> DEFINE r == metrics[e]
               v == value[e]
               t == metrics'[e]
    <2>4. IsRow(r, n) /\ Extends(t, r, v)
      BY <2>1, <2>2 DEF Extends
    <2> HIDE DEF r, v, t
    <2>5. IsRow(t, n + 1)
      BY ONLY <2>3, <2>4, RowAppended
    <2> QED BY <2>5 DEF t
  <1>6. DOMAIN metrics' = DOMAIN metrics /\ DOMAIN metrics = DOMAIN input.edges
    BY <1>1 DEF Shape
  <1>7. \A e \in DOMAIN metrics' : DOMAIN metrics'[e] = DOMAIN units'
    <2> HIDE DEF n
    <2>1. DOMAIN units' = 1 .. n + 1
      BY <1>4
    <2> QED BY <1>5, <2>1 DEF IsRow
  <1>8. TypeOK'
    BY <1>1, <1>3, <1>4, <1>6, <1>7, CurrentFacts DEF TypeOK
  <1>9. Shape'
    BY <1>1, <1>4, <1>5, <1>6, CurrentFacts DEF Shape
  <1> QED
    BY <1>8, <1>9

\* The metrics among parsed categories are some of them.
LEMMA MetricsOfFacts ==
    ASSUME NEW s \in Seq(Parsed)
    PROVE  /\ MetricsOf(s) \in Seq(Parsed) /\ Len(MetricsOf(s)) \in Nat
           /\ \A i \in 1 .. Len(MetricsOf(s)) :
                 /\ MetricsOf(s)[i] \in [kind : {"Metric"}, unit : UnitInfo, id : STRING]
                 /\ \E k \in 1 .. Len(s) : MetricsOf(s)[i] = s[k]
  <1> DEFINE found == MetricsOf(s)
  <1>1. PICK pos : ArePositions(pos, found, found, s, s, Len(s))
    BY MetricsHavePositions
  <1>2. found \in Seq(Parsed) /\ Len(found) \in Nat
    BY <1>1 DEF ArePositions
  <1>3. ASSUME NEW i \in 1 .. Len(found)
        PROVE  /\ found[i] \in [kind : {"Metric"}, unit : UnitInfo, id : STRING]
               /\ \E k \in 1 .. Len(s) : found[i] = s[k]
    <2>1. pos[i] \in 1 .. Len(s) /\ IsMetric(found[i]) /\ found[i] = s[pos[i]]
      BY <1>1 DEF ArePositions
    <2>2. found[i] \in Parsed
      BY <1>2
    <2> HIDE DEF found
    <2>3. found[i] \in [kind : {"Metric"}, unit : UnitInfo, id : STRING]
      BY <2>1, <2>2 DEF Parsed, Metas, IsMetric
    <2> QED BY <2>1, <2>3
  <1> QED
    BY <1>2, <1>3

\* The first position is in range.
LEMMA StartFits ==
    ASSUME NEW l \in Nat, NEW m \in Nat
    PROVE  1 \in 1 .. l + m + 1 /\ 1 <= l + 1
  OBVIOUS

\* Initially, and then step by step: variables have their types, and the stages have set what
\* Shape says.
LEMMA InitTypeCorrect == Init => TypeOK /\ Shape
  <1> SUFFICES ASSUME Init PROVE TypeOK /\ Shape
    OBVIOUS
  <1>1. IsInput(input)
    BY GenerationAssumption DEF Init
  <1>2. /\ pc = "config" /\ next = 1 /\ line = 1 /\ nodeCats = input.nodes
        /\ cats = <<>> /\ units = <<>> /\ ids = <<>> /\ metrics = <<>> /\ idToIdx = <<>>
        /\ means = <<>>
    BY DEF Init
  <1>3. Len(input.generating) \in Nat /\ Len(input.nodeGenerating) \in Nat
        /\ nodeCats \in Seq([info : STRING, id : STRING])
    BY <1>1, <1>2 DEF IsInput
  <1>4. next \in 1 .. Len(input.generating) + Len(input.nodeGenerating) + 1
    BY <1>2, <1>3, StartFits
  <1>5. /\ cats \in Seq(Parsed) /\ units \in Seq(UnitInfo) /\ ids \in Seq(STRING)
        /\ Len(ids) = Len(units) /\ DOMAIN metrics = {} /\ DOMAIN idToIdx = {}
    BY <1>2
  <1>6. TypeOK
    <2>1. pc \in {"config", "check", "nodes", "edges", "normalize", "done", "err"}
          /\ line \in Nat \ {0}
      BY <1>2
    <2>2. /\ metrics # <<>> => DOMAIN metrics = DOMAIN input.edges
          /\ \A e \in DOMAIN metrics : DOMAIN metrics[e] = DOMAIN units
          /\ \A id \in DOMAIN idToIdx : idToIdx[id] \in DOMAIN metrics
      BY <1>2, <1>5
    <2> QED BY <1>1, <1>3, <1>4, <1>5, <2>1, <2>2 DEF TypeOK
  <1>7. Shape
    BY <1>2, <1>5 DEF Shape
  <1> QED
    BY <1>6, <1>7

LEMMA ReadConfigTypeCorrect ==
    ASSUME TypeOK, Shape, ReadConfig
    PROVE  TypeOK' /\ Shape'
  <1> DEFINE parsed == MetricsOf(input.categories)
  <1>1. pc = "config" /\ UNCHANGED <<input, next, line, nodeCats, metrics, idToIdx, means>>
    BY DEF ReadConfig, graphVars
  <1>2. CASE pc' = "err" /\ UNCHANGED <<cats, units, ids>>
    BY <1>1, <1>2 DEF TypeOK, Shape
  <1>3. CASE /\ pc' = "check" /\ cats' = input.categories
             /\ units' = [k \in DOMAIN parsed |-> parsed[k].unit]
             /\ ids' = [k \in DOMAIN parsed |-> parsed[k].id]
    <2>1. /\ parsed \in Seq(Parsed) /\ Len(parsed) \in Nat
          /\ \A i \in 1 .. Len(parsed) :
                parsed[i] \in [kind : {"Metric"}, unit : UnitInfo, id : STRING]
      BY MetricsOfFacts, InputFacts
    <2> HIDE DEF parsed
    <2>2. DOMAIN parsed = 1 .. Len(parsed)
      BY <2>1
    <2>3. \A i \in 1 .. Len(parsed) : parsed[i].unit \in UnitInfo /\ parsed[i].id \in STRING
      BY <2>1
    <2>4. /\ units' \in Seq(UnitInfo) /\ Len(units') = Len(parsed)
          /\ ids' \in Seq(STRING) /\ Len(ids') = Len(parsed)
      BY <1>3, <2>1, <2>2, <2>3
    <2>5. cats' \in Seq(Parsed)
      BY <1>3, InputFacts
    <2>6. next' = 1 /\ metrics' = <<>> /\ idToIdx' = <<>> /\ means' = <<>>
      BY <1>1 DEF Shape
    <2>7. DOMAIN metrics' = {} /\ DOMAIN idToIdx' = {}
      BY <2>6
    <2>8. TypeOK'
      BY <1>1, <1>3, <2>4, <2>5, <2>6, <2>7 DEF TypeOK
    <2>9. Shape'
      BY <1>3, <2>6, <2>7 DEF Shape
    <2> QED BY <2>8, <2>9
  <1> QED
    BY <1>2, <1>3 DEF ReadConfig

LEMMA CheckConfigTypeCorrect ==
    ASSUME TypeOK, Shape, CheckConfig
    PROVE  TypeOK' /\ Shape'
  <1>1. pc = "check" /\ UNCHANGED <<input, next, line, nodeCats, cats, units, ids, means>>
    BY DEF CheckConfig, cfgVars
  <1>2. CASE pc' = "err" /\ UNCHANGED <<metrics, idToIdx>>
    BY <1>1, <1>2 DEF TypeOK, Shape
  <1>3. CASE /\ pc' = "nodes"
             /\ metrics' = [e \in DOMAIN input.edges |->
                               [i \in DOMAIN units |-> Told(input.edges[e], units[i])]]
             /\ idToIdx' = [id \in {input.edges[e].id : e \in DOMAIN input.edges} |->
                               CHOOSE e \in DOMAIN input.edges : input.edges[e].id = id]
    <2>1. DOMAIN metrics' = DOMAIN input.edges
      BY <1>3
    <2>2. \A e \in DOMAIN metrics' :
             IsRow(metrics'[e], Len(units)) /\ DOMAIN metrics'[e] = DOMAIN units
      BY <1>3, InputFacts DEF IsRow
    <2>3. \A id \in DOMAIN idToIdx' : idToIdx'[id] \in DOMAIN metrics'
      BY <1>3, <2>1
    <2>4. next = 1 /\ means = <<>>
      BY <1>1 DEF Shape
    <2>5. TypeOK'
      BY <1>1, <1>3, <2>1, <2>2, <2>3 DEF TypeOK
    <2>6. Shape'
      <3>1. next' <= Len(input'.nodeGenerating) + 1
        BY <1>1, <2>4, InputFacts
      <3> QED BY <1>1, <1>3, <2>1, <2>2, <2>4, <3>1 DEF Shape
    <2> QED BY <2>5, <2>6
  <1> QED
    BY <1>2, <1>3 DEF CheckConfig

LEMMA NodesTypeCorrect ==
    ASSUME TypeOK, Shape, GenerateNode \/ CheckIds
    PROVE  TypeOK' /\ Shape'
  <1>1. CASE GenerateNode
    <2> DEFINE c == input.nodeGenerating[next]
    <2>1. /\ pc = "nodes" /\ next <= Len(input.nodeGenerating)
          /\ UNCHANGED <<input, line, cats, units, ids, metrics, idToIdx, means>>
      BY <1>1 DEF GenerateNode, graphVars
    <2>2. CASE pc' = "err" /\ UNCHANGED <<next, nodeCats>>
      BY <2>1, <2>2 DEF TypeOK, Shape
    <2>3. CASE nodeCats' = Append(nodeCats, c) /\ next' = next + 1 /\ UNCHANGED pc
      <3>1. c \in [info : STRING, id : STRING]
        <4>1. next \in 1 .. Len(input.nodeGenerating)
          BY <2>1, InputFacts
        <4> QED BY <4>1, InputFacts, ElementOfSeq
      <3> HIDE DEF c
      <3>2. nodeCats' \in Seq([info : STRING, id : STRING])
        BY <2>3, <3>1, AppendProperties DEF TypeOK
      <3> DEFINE l == Len(input.generating)
                 m == Len(input.nodeGenerating)
      <3>3. l \in Nat /\ m \in Nat /\ next \in Nat /\ next > 0 /\ next <= m
        BY <2>1, InputFacts
      <3> HIDE DEF l, m
      <3>4. next + 1 \in 1 .. l + m + 1 /\ next + 1 <= m + 1
        BY <3>3
      <3>5. TypeOK'
        BY <2>1, <2>3, <3>2, <3>4 DEF TypeOK, l, m
      <3>6. Shape'
        BY <2>1, <2>3, <3>4 DEF Shape, m
      <3> QED BY <3>5, <3>6
    <2> QED BY <1>1, <2>2, <2>3 DEF GenerateNode
  <1>2. CASE CheckIds
    <2>1. /\ pc = "nodes" /\ pc' \in {"err", "edges"} /\ next' = 1
          /\ UNCHANGED <<input, line, nodeCats, cats, units, ids, metrics, idToIdx, means>>
      BY <1>2 DEF CheckIds, cfgVars, graphVars
    <2>2. /\ next' \in 1 .. Len(input.generating) + Len(input.nodeGenerating) + 1
          /\ next' <= Len(input.generating) + 1
      BY <2>1, InputFacts, StartFits
    <2>3. TypeOK'
      BY <2>1, <2>2 DEF TypeOK
    <2>4. Shape'
      BY <2>1, <2>2 DEF Shape
    <2> QED BY <2>3, <2>4
  <1> QED
    BY <1>1, <1>2

LEMMA ErrTypeCorrect ==
    ASSUME TypeOK, Shape, pc # "done", Err
    PROVE  TypeOK' /\ Shape'
  <1>1. /\ pc' = "err"
        /\ UNCHANGED <<input, next, line, nodeCats, cats, units, ids, metrics, idToIdx, means>>
    BY DEF Err, cfgVars, graphVars
  <1> QED
    BY <1>1 DEF TypeOK, Shape

LEMMA GenerateMetaTypeCorrect ==
    ASSUME TypeOK, Shape, GenerateMeta
    PROVE  TypeOK' /\ Shape'
  <1>1. pc = "edges" /\ next <= Len(input.generating) /\ Current.kind = "Meta"
    BY DEF GenerateMeta, Generates
  <1>2. CASE Err
    BY <1>1, <1>2, ErrTypeCorrect
  <1>3. CASE /\ idToIdx' = IF Current.info = "EdgeId" THEN Numbered ELSE idToIdx
             /\ AddCategory(Current)
             /\ UNCHANGED <<units, ids, metrics>>
    <2>1. /\ cats' = Append(cats, Current) /\ next' = next + 1
          /\ UNCHANGED <<input, pc, line, nodeCats, means, units, ids, metrics>>
      BY <1>3 DEF AddCategory
    <2>2. Current \in Parsed
      BY <1>1, CurrentFacts, GeneratedFacts DEF Parsed
    <2>3. cats' \in Seq(Parsed)
      <3> HIDE DEF Current
      <3> QED BY <2>1, <2>2, AppendProperties DEF TypeOK
    <2>4. DOMAIN metrics = DOMAIN input.edges
      BY <1>1 DEF Shape
    <2>5. \A id \in DOMAIN idToIdx' : idToIdx'[id] \in DOMAIN metrics
      <3>1. CASE Current.info = "EdgeId"
        <4>1. \A id \in 0 .. Len(input.edges) - 1 : id + 1 \in 1 .. Len(input.edges)
          BY InputFacts
        <4> QED BY <1>3, <2>4, <3>1, <4>1, InputFacts DEF Numbered
      <3>2. CASE Current.info # "EdgeId"
        BY <1>3, <3>2 DEF TypeOK
      <3> QED BY <3>1, <3>2
    <2>6. TypeOK'
      BY <1>1, <2>1, <2>3, <2>5, CurrentFacts DEF TypeOK
    <2>7. Shape'
      BY <1>1, <2>1, CurrentFacts DEF Shape
    <2> QED BY <2>6, <2>7
  <1> QED
    BY <1>2, <1>3 DEF GenerateMeta

LEMMA GenerateMetricTypeCorrect ==
    ASSUME TypeOK, Shape,
           GenerateCustom \/ GenerateHaversine \/ GenerateCopy \/ GenerateCalc
    PROVE  TypeOK' /\ Shape'
  <1>1. CASE Err
    <2>1. pc = "edges"
      BY DEF GenerateCustom, GenerateHaversine, GenerateCopy, GenerateCalc, Generates
    <2> QED BY <1>1, <2>1, ErrTypeCorrect
  <1>2. CASE GenerateCustom
    <2>1. pc = "edges" /\ next <= Len(input.generating) /\ Current.kind = "Custom"
      BY <1>2 DEF GenerateCustom, Generates
    <2>2. Current.unit \in UnitInfo /\ Current.id \in STRING
      BY <2>1, CurrentFacts, GeneratedFacts
    <2> HIDE DEF Current
    <2> QED BY <1>2, <2>1, <2>2, AddMetricTypeCorrect DEF GenerateCustom
  <1>3. CASE GenerateHaversine /\ ~Err
    <2>1. pc = "edges" /\ next <= Len(input.generating) /\ Current.kind = "Haversine"
      BY <1>3 DEF GenerateHaversine, Generates
    <2>2. Current.unit \in UnitInfo /\ Current.id \in STRING
      BY <2>1, CurrentFacts, GeneratedFacts
    <2> HIDE DEF Current
    <2> QED BY <1>3, <2>1, <2>2, AddMetricTypeCorrect DEF GenerateHaversine
  <1>4. CASE GenerateCopy /\ ~Err
    <2>1. pc = "edges" /\ next <= Len(input.generating) /\ Current.kind = "Copy"
      BY <1>4 DEF GenerateCopy, Generates
    <2>2. Current.to.unit \in UnitInfo /\ Current.to.id \in STRING
      BY <2>1, CurrentFacts, GeneratedFacts DEF MetricNames
    <2> HIDE DEF Current
    <2> QED BY <1>4, <2>1, <2>2, AddMetricTypeCorrect DEF GenerateCopy
  <1>5. CASE GenerateCalc /\ ~Err
    <2>1. pc = "edges" /\ next <= Len(input.generating) /\ Current.kind = "Calc"
      BY <1>5 DEF GenerateCalc, Generates
    <2>2. Current.result.unit \in UnitInfo /\ Current.result.id \in STRING
      BY <2>1, CurrentFacts, GeneratedFacts DEF MetricNames
    <2> HIDE DEF Current
    <2> QED BY <1>5, <2>1, <2>2, AddMetricTypeCorrect DEF GenerateCalc
  <1> QED
    BY <1>1, <1>2, <1>3, <1>4, <1>5

\* What Convert does unless it fails
Converts ==
    /\ metrics' = [e \in DOMAIN metrics |->
                      [metrics[e] EXCEPT ![IdxOf(Current.from.id)] = ConvertedAt(e)]]
    /\ cats' = [k \in DOMAIN cats |-> Renamed(cats[k])]
    /\ units' = [units EXCEPT ![IdxOf(Current.from.id)] = Current.to.unit]
    /\ ids' = [ids EXCEPT ![IdxOf(Current.from.id)] = Current.to.id]
    /\ next' = next + 1
    /\ UNCHANGED <<input, pc, line, nodeCats, idToIdx, means>>

\* Renaming a category leaves a category.
LEMMA RenamedIsParsed ==
    ASSUME NEW c \in Parsed, Current.to.unit \in UnitInfo, Current.to.id \in STRING
    PROVE  Renamed(c) \in Parsed /\ (IsMetric(Renamed(c)) <=> IsMetric(c))
  <1> HIDE DEF Current
  <1>1. CASE IsMetric(c) /\ c.id = Current.from.id
    <2>1. c \in [kind : {"Metric"}, unit : UnitInfo, id : STRING]
      BY <1>1 DEF Parsed, Metas, IsMetric
    <2> DEFINE d == [c EXCEPT !.unit = Current.to.unit, !.id = Current.to.id]
    <2>2. d \in [kind : {"Metric"}, unit : UnitInfo, id : STRING]
      BY <2>1
    <2>3. Renamed(c) = d
      BY <1>1 DEF Renamed
    <2> HIDE DEF d
    <2> QED BY <1>1, <2>2, <2>3 DEF Parsed, IsMetric
  <1>2. CASE ~(IsMetric(c) /\ c.id = Current.from.id)
    BY <1>2 DEF Renamed
  <1> QED
    BY <1>1, <1>2

LEMMA ConvertTypeCorrect ==
    ASSUME TypeOK, Shape, Convert
    PROVE  TypeOK' /\ Shape'
  <1>1. pc = "edges" /\ next <= Len(input.generating) /\ Current.kind = "Convert"
    BY DEF Convert, Generates
  <1>2. CASE Err
    BY <1>1, <1>2, ErrTypeCorrect
  <1>3. CASE Converts
    <2> DEFINE i == IdxOf(Current.from.id)
               n == Len(units)
    <2>1. Current.to.unit \in UnitInfo /\ Current.to.id \in STRING
      BY <1>1, CurrentFacts, GeneratedFacts DEF MetricNames
    <2>2. /\ metrics' = [e \in DOMAIN metrics |-> [metrics[e] EXCEPT ![i] = ConvertedAt(e)]]
          /\ cats' = [k \in DOMAIN cats |-> Renamed(cats[k])]
          /\ units' = [units EXCEPT ![i] = Current.to.unit]
          /\ ids' = [ids EXCEPT ![i] = Current.to.id] /\ next' = next + 1
          /\ UNCHANGED <<input, pc, line, nodeCats, idToIdx, means>>
      BY <1>3 DEF Converts
    <2> HIDE DEF i
    <2>3. cats' \in Seq(Parsed)
      <3>1. \A k \in 1 .. Len(cats) : Renamed(cats[k]) \in Parsed
        BY <2>1, RenamedIsParsed DEF TypeOK
      <3>2. DOMAIN cats = 1 .. Len(cats) /\ Len(cats) \in Nat
        BY DEF TypeOK
      <3> QED BY <2>2, <3>1, <3>2
    <2> HIDE DEF Current
    <2>4. /\ units' \in Seq(UnitInfo) /\ Len(units') = n /\ DOMAIN units' = DOMAIN units
          /\ ids' \in Seq(STRING) /\ Len(ids') = n
      <3>1. /\ units \in Seq(UnitInfo) /\ ids \in Seq(STRING) /\ n \in Nat
            /\ Len(ids) = n /\ DOMAIN units = 1 .. n /\ DOMAIN ids = 1 .. n
        BY InputFacts DEF TypeOK
      <3> HIDE DEF n
      <3>2. /\ units' = [k \in 1 .. n |-> IF k = i THEN Current.to.unit ELSE units[k]]
            /\ ids' = [k \in 1 .. n |-> IF k = i THEN Current.to.id ELSE ids[k]]
        BY <2>2, <3>1
      <3>3. \A k \in 1 .. n : units[k] \in UnitInfo /\ ids[k] \in STRING
        BY <3>1
      <3>4. units' \in Seq(UnitInfo) /\ Len(units') = n /\ DOMAIN units' = 1 .. n
        BY <2>1, <3>1, <3>2, <3>3
      <3>5. ids' \in Seq(STRING) /\ Len(ids') = n
        BY <2>1, <3>1, <3>2, <3>3
      <3> QED BY <3>1, <3>4, <3>5
    <2>5. ASSUME NEW e \in DOMAIN metrics'
          PROVE  IsRow(metrics'[e], n) /\ DOMAIN metrics'[e] = DOMAIN units'
      <3> DEFINE v == ConvertedAt(e)
      <3>1. metrics'[e] = [metrics[e] EXCEPT ![i] = v] /\ e \in DOMAIN metrics
        BY <2>2
      <3>2. IsRow(metrics[e], n)
        BY <3>1 DEF Shape
      <3> HIDE DEF v, n
      <3>3. metrics[e] = [j \in 1 .. n |-> metrics[e][j]]
        BY <3>2 DEF IsRow
      <3>4. DOMAIN metrics[e] = 1 .. n
        BY <3>3
      <3>5. metrics'[e] = [j \in 1 .. n |-> IF j = i THEN v ELSE metrics[e][j]]
        BY <3>1, <3>4
      <3>6. IsRow(metrics'[e], n)
        BY <3>5 DEF IsRow
      <3> QED BY <2>4, <3>5, <3>6, InputFacts DEF n
    <2>6. DOMAIN metrics' = DOMAIN metrics
      BY <2>2
    <2>7. DOMAIN metrics = DOMAIN input.edges
      BY <1>1 DEF Shape
    <2>8. TypeOK'
      BY <1>1, <2>2, <2>3, <2>4, <2>5, <2>6, <2>7, CurrentFacts DEF TypeOK
    <2>9. Shape'
      BY <1>1, <2>2, <2>4, <2>5, <2>6, <2>7, CurrentFacts DEF Shape
    <2> QED BY <2>8, <2>9
  <1> QED
    BY <1>2, <1>3 DEF Convert, Converts

LEMMA MergeTypeCorrect ==
    ASSUME TypeOK, Shape, MergeLine \/ EndMerge
    PROVE  TypeOK' /\ Shape'
  <1>1. pc = "edges" /\ next <= Len(input.generating) /\ Current.kind = "Merge"
    BY DEF MergeLine, EndMerge, Generates
  <1>2. CASE Err
    BY <1>1, <1>2, ErrTypeCorrect
  <1>3. CASE EndMerge
    <2>1. /\ next' = next + 1 /\ line' = 1
          /\ UNCHANGED <<input, pc, nodeCats, cats, units, ids, metrics, idToIdx, means>>
      BY <1>3 DEF EndMerge, cfgVars, graphVars
    <2>4. next + 1 \in 1 .. Len(input.generating) + Len(input.nodeGenerating) + 1
      BY <1>1, CurrentFacts
    <2>5. /\ next' \in 1 .. Len(input'.generating) + Len(input'.nodeGenerating) + 1
          /\ line' \in Nat \ {0}
      <3>1. input' = input /\ next' = next + 1 /\ line' = 1 /\ 1 \in Nat \ {0}
        BY <2>1
      <3> QED BY ONLY <2>4, <3>1
    <2>2. TypeOK'
      BY <2>1, <2>5 DEF TypeOK
    <2>3. Shape'
      BY <1>1, <2>1, CurrentFacts DEF Shape
    <2> QED BY <2>2, <2>3
  <1>4. CASE MergeLine /\ ~Err
    <2> DEFINE params == Current.lines[line]
               e == idToIdx[params[EdgeColumn][1]]
               n == Len(units)
    <2>1. /\ metrics' = [metrics EXCEPT ![e] = Merged(metrics[e], params)]
          /\ line' = line + 1
          /\ UNCHANGED <<input, pc, next, nodeCats, cats, units, ids, idToIdx, means>>
      BY <1>4 DEF MergeLine, cfgVars
    <2> HIDE DEF params, e
    <2>2. DOMAIN metrics' = DOMAIN metrics
      BY <2>1
    <2>3. ASSUME NEW d \in DOMAIN metrics PROVE IsRow(metrics'[d], n)
      <3>1. IsRow(metrics[d], n)
        BY DEF Shape
      <3> HIDE DEF n
      <3>2. CASE d = e
        <4>1. metrics'[d] = Merged(metrics[d], params)
          BY <2>1, <3>2
        <4>2. DOMAIN metrics[d] = 1 .. n
          BY <3>1 DEF IsRow
        <4> QED BY <4>1, <4>2 DEF IsRow, Merged
      <3>3. CASE d # e
        BY <2>1, <3>1, <3>3
      <3> QED BY <3>2, <3>3
    <2>4. \A d \in DOMAIN metrics' : DOMAIN metrics'[d] = DOMAIN units
      BY <2>2, <2>3, InputFacts DEF IsRow
    <2>5. line' \in Nat \ {0}
      BY <2>1 DEF TypeOK
    <2>6. DOMAIN metrics = DOMAIN input.edges
      BY <1>1 DEF Shape
    <2>7. TypeOK'
      BY <2>1, <2>2, <2>4, <2>5, <2>6 DEF TypeOK
    <2>8. Shape'
      BY <1>1, <2>1, <2>2, <2>3 DEF Shape
    <2> QED BY <2>7, <2>8
  <1> QED
    BY <1>2, <1>3, <1>4

LEMMA EndTypeCorrect ==
    ASSUME TypeOK, Shape, EndGenerating \/ Normalize
    PROVE  TypeOK' /\ Shape'
  <1>1. CASE Err
    <2>1. pc # "done"
      BY DEF EndGenerating, Normalize
    <2> QED BY <1>1, <2>1, ErrTypeCorrect
  <1>2. CASE EndGenerating
    <2>1. /\ pc = "edges" /\ next > Len(input.generating) /\ pc' \in {"normalize", "done"}
          /\ UNCHANGED <<input, next, line, nodeCats, cats, units, ids, metrics, idToIdx, means>>
      BY <1>2 DEF EndGenerating, cfgVars, graphVars
    <2>2. next = Len(input.generating) + 1
      BY <2>1, InputFacts DEF Shape
    <2>3. TypeOK'
      BY <2>1 DEF TypeOK
    <2>4. Shape'
      BY <2>1, <2>2 DEF Shape
    <2> QED BY <2>3, <2>4
  <1>3. CASE Normalize /\ ~Err
    <2>1. /\ metrics' = [e \in DOMAIN metrics |->
                            [i \in DOMAIN units |-> Normalized(metrics[e][i], means'[i])]]
          /\ pc = "normalize" /\ pc' = "done"
          /\ UNCHANGED <<input, next, line, nodeCats, cats, units, ids, idToIdx>>
      BY <1>3 DEF Normalize, cfgVars
    <2>2. DOMAIN metrics' = DOMAIN metrics
      BY <2>1
    <2>3. DOMAIN metrics = DOMAIN input.edges
      BY <2>1 DEF Shape
    <2>4. \A e \in DOMAIN metrics' :
             IsRow(metrics'[e], Len(units)) /\ DOMAIN metrics'[e] = DOMAIN units
      BY <2>1, InputFacts DEF IsRow
    <2>5. TypeOK'
      BY <2>1, <2>2, <2>3, <2>4 DEF TypeOK
    <2>6. Shape'
      BY <2>1, <2>2, <2>3, <2>4 DEF Shape
    <2> QED BY <2>5, <2>6
  <1> QED
    BY <1>1, <1>2, <1>3

\* Every step keeps the types.
LEMMA NextTypeCorrect ==
    ASSUME TypeOK, Shape, [Next]_vars
    PROVE  TypeOK' /\ Shape'
  <1>1. CASE UNCHANGED vars
    BY <1>1 DEF vars, cfgVars, graphVars, TypeOK, Shape
  <1> QED
    BY <1>1, ReadConfigTypeCorrect, CheckConfigTypeCorrect, NodesTypeCorrect,
       GenerateMetaTypeCorrect, GenerateMetricTypeCorrect, ConvertTypeCorrect, MergeTypeCorrect,
       EndTypeCorrect DEF Next, Stopped

-----------------------------------------------------------------------------
(* Descriptions of the columns agree *)

\* The ids that the file has, and those that the k-th category to generate creates
ParsedIds == {c.id : c \in {d \in ToSet(input.categories) : d.kind # "Ignored"}}
Created == {k \in DOMAIN input.generating : input.generating[k].kind # "Merge"}
NameOf(k) == IF input.generating[k].kind = "Convert" THEN input.generating[k].to.id
                                                    ELSE NewId(input.generating[k])

\* How many categories to generate are done, plus one
At == IF pc \in {"config", "check", "nodes"} THEN 1 ELSE next

\* Each column has one description and an id of its own, which the file has or which has been
\* created already.
Columns ==
    /\ Len(MetricsOf(cats)) = Len(ids)
    /\ \A i \in 1 .. Len(ids) :
          MetricsOf(cats)[i] = [kind |-> "Metric", unit |-> units[i], id |-> ids[i]]
    /\ \A i, j \in 1 .. Len(ids) : i # j => ids[i] # ids[j]
    /\ \A i \in 1 .. Len(ids) :
          ids[i] \in ParsedIds \/ \E k \in Created : k < At /\ ids[i] = NameOf(k)

HasColumns ==
    pc \in {"check", "nodes", "edges", "normalize", "done"} /\ NamesAreFresh => Columns

\* Capacity is left for every metric that is still to add.
Adding(n) == {k \in DOMAIN input.generating : k >= n /\ AddsMetric(input.generating[k])}
HasCapacity ==
    pc \in {"nodes", "edges", "normalize", "done"} => Len(ids) + Cardinality(Adding(At)) <= Dim

\* The names that a config creates, and those of its file
LEMMA FreshFacts ==
    ASSUME NamesAreFresh
    PROVE  /\ \A k \in Created : NameOf(k) \notin ParsedIds
           /\ \A j, k \in Created : j # k => NameOf(j) # NameOf(k)
  BY DEF NamesAreFresh, Created, NameOf, ParsedIds

\* What is left to add is one less after a category that adds a metric.
LEMMA AddingFacts ==
    ASSUME TypeOK, NEW m \in Nat, NEW n \in Nat, m <= n
    PROVE  /\ Cardinality(Adding(m)) \in Nat /\ Cardinality(Adding(n)) \in Nat
           /\ Cardinality(Adding(n)) <= Cardinality(Adding(m))
           /\ m \in DOMAIN input.generating /\ n = m + 1 /\ AddsMetric(input.generating[m]) =>
                 Cardinality(Adding(m)) = Cardinality(Adding(n)) + 1
  <1>1. IsFiniteSet(DOMAIN input.generating) /\ DOMAIN input.generating \subseteq Nat
    <2> DEFINE l == Len(input.generating)
    <2>1. l \in Nat /\ DOMAIN input.generating = 1 .. l
      BY InputFacts
    <2> HIDE DEF l
    <2>2. IsFiniteSet(1 .. l) /\ 1 .. l \subseteq Nat
      BY <2>1, FS_Interval
    <2> QED BY <2>1, <2>2
  <1>2. IsFiniteSet(Adding(m)) /\ IsFiniteSet(Adding(n))
    BY <1>1, FS_Subset DEF Adding
  <1>3. Adding(n) \subseteq Adding(m)
    BY <1>1 DEF Adding
  <1>4. /\ Cardinality(Adding(m)) \in Nat /\ Cardinality(Adding(n)) \in Nat
        /\ Cardinality(Adding(n)) <= Cardinality(Adding(m))
    BY <1>2, <1>3, FS_Subset, FS_CardinalityType
  <1>5. ASSUME m \in DOMAIN input.generating, n = m + 1, AddsMetric(input.generating[m])
        PROVE  Cardinality(Adding(m)) = Cardinality(Adding(n)) + 1
    <2>1. \A k \in Nat : k >= m <=> k = m \/ k >= n
      BY <1>5
    <2>2. Adding(m) = Adding(n) \cup {m}
      BY <1>1, <1>5, <2>1 DEF Adding
    <2>3. m \notin Adding(n)
      BY <1>5 DEF Adding
    <2> QED BY <1>2, <2>2, <2>3, FS_AddElement
  <1> QED
    BY <1>4, <1>5

\* Steps that change no column
LEMMA SameColumns ==
    ASSUME TypeOK, Columns, UNCHANGED <<input, units, ids>>, MetricsOf(cats') = MetricsOf(cats),
           At \in Nat, At' \in Nat, At <= At'
    PROVE  Columns'
  <1>1. \A k \in Created : k < At => k < At'
    BY InputFacts DEF Created
  <1>2. input' = input /\ units' = units /\ ids' = ids /\ MetricsOf(cats') = MetricsOf(cats)
    OBVIOUS
  <1>3. /\ ParsedIds' = ParsedIds /\ Created' = Created
        /\ \A k : NameOf(k) = NameOf(k)'
    BY <1>2 DEF ParsedIds, Created, NameOf
  <1>4. /\ Len(MetricsOf(cats')) = Len(ids')
        /\ \A i \in 1 .. Len(ids') :
              MetricsOf(cats')[i] = [kind |-> "Metric", unit |-> units'[i], id |-> ids'[i]]
        /\ \A i, j \in 1 .. Len(ids') : i # j => ids'[i] # ids'[j]
    BY <1>2 DEF Columns
  <1>5. ASSUME NEW i \in 1 .. Len(ids')
        PROVE  ids'[i] \in ParsedIds' \/ \E k \in Created' : k < At' /\ ids'[i] = NameOf(k)'
    <2>1. ids[i] \in ParsedIds \/ \E k \in Created : k < At /\ ids[i] = NameOf(k)
      BY <1>2, <1>5 DEF Columns
    <2> HIDE DEF At, ParsedIds, Created, NameOf
    <2>2. CASE ids[i] \in ParsedIds
      BY <1>2, <1>3, <2>2
    <2>3. ASSUME NEW k \in Created, k < At, ids[i] = NameOf(k)
          PROVE  k \in Created' /\ k < At' /\ ids'[i] = NameOf(k)'
      BY <1>1, <1>2, <1>3, <2>3
    <2> QED BY <2>1, <2>2, <2>3
  <1> QED
    BY <1>4, <1>5 DEF Columns

\* A step that adds no metric takes no capacity.
LEMMA SameCapacity ==
    ASSUME TypeOK, HasCapacity, pc \in {"nodes", "edges", "normalize"}, UNCHANGED <<input, ids>>,
           At \in Nat, At' \in Nat, At <= At'
    PROVE  HasCapacity'
  <1>1. input' = input /\ ids' = ids
    OBVIOUS
  <1>2. Len(ids) + Cardinality(Adding(At)) <= Dim
    BY DEF HasCapacity
  <1> HIDE DEF At
  <1>3. \A m : Adding(m)' = Adding(m)
    BY <1>1 DEF Adding
  <1>4. /\ Cardinality(Adding(At)) \in Nat /\ Cardinality(Adding(At')) \in Nat
        /\ Cardinality(Adding(At')) <= Cardinality(Adding(At))
    BY AddingFacts
  <1>5. Len(ids) + Cardinality(Adding(At')) <= Dim
    BY <1>2, <1>4, InputFacts, GenerationAssumption
  <1>6. Adding(At)' = Adding(At')
    BY <1>1 DEF Adding
  <1> QED
    BY <1>1, <1>5, <1>6 DEF HasCapacity

\* Columns agree, and capacity is left, after the config was read, and after every later step.
LEMMA ReadConfigColumns ==
    ASSUME TypeOK, Shape, ReadConfig
    PROVE  HasColumns' /\ HasCapacity'
  <1> DEFINE cs == input.categories
             named == {k \in DOMAIN cs : cs[k].kind # "Ignored"}
             parsed == MetricsOf(cs)
  <1>1. pc' \in {"err", "check"} /\ UNCHANGED input
    BY DEF ReadConfig
  <1>2. ASSUME pc' = "check" PROVE Columns'
    <2>1. /\ \A j, k \in named : j # k => cs[j].id # cs[k].id
          /\ cats' = cs
          /\ units' = [k \in DOMAIN parsed |-> parsed[k].unit]
          /\ ids' = [k \in DOMAIN parsed |-> parsed[k].id]
      BY <1>2 DEF ReadConfig
    <2>2. cs \in Seq(Parsed) /\ DOMAIN cs = 1 .. Len(cs)
      BY InputFacts
    <2>3. /\ parsed \in Seq(Parsed) /\ Len(parsed) \in Nat
          /\ \A i \in 1 .. Len(parsed) :
                parsed[i] \in [kind : {"Metric"}, unit : UnitInfo, id : STRING]
      BY <2>2, MetricsOfFacts
    <2>4. PICK pos : ArePositions(pos, parsed, parsed, cs, cs, Len(cs))
      BY <2>2, MetricsHavePositions
    <2>5. \A i \in 1 .. Len(parsed) :
             /\ pos[i] \in named /\ parsed[i] = cs[pos[i]]
             /\ \A j \in 1 .. Len(parsed) : j < i => pos[j] < pos[i]
      BY <2>2, <2>4 DEF ArePositions, IsMetric
    <2> HIDE DEF parsed
    <2>6. DOMAIN parsed = 1 .. Len(parsed)
      BY <2>3
    <2>7. /\ Len(ids') = Len(parsed)
          /\ \A i \in 1 .. Len(parsed) : units'[i] = parsed[i].unit /\ ids'[i] = parsed[i].id
      BY <2>1, <2>3, <2>6
    <2>8. MetricsOf(cats') = parsed
      BY <2>1 DEF parsed
    <2>9. \A i \in 1 .. Len(ids') :
             MetricsOf(cats')[i] = [kind |-> "Metric", unit |-> units'[i], id |-> ids'[i]]
      BY <2>3, <2>7, <2>8
    <2>10. ASSUME NEW i \in 1 .. Len(ids'), NEW j \in 1 .. Len(ids'), i # j
           PROVE  ids'[i] # ids'[j]
      <3>1. i \in 1 .. Len(parsed) /\ j \in 1 .. Len(parsed)
        BY <2>7
      <3>2. pos[i] # pos[j]
        <4>1. pos[i] \in Nat /\ pos[j] \in Nat
          BY <2>2, <2>5, <3>1
        <4>2. i < j \/ j < i
          BY <2>10, <3>1
        <4> QED BY <2>5, <3>1, <4>1, <4>2
      <3>3. pos[i] \in named /\ pos[j] \in named
        BY <2>5, <3>1
      <3> HIDE DEF named
      <3>4. cs[pos[i]].id # cs[pos[j]].id
        BY <2>1, <3>2, <3>3
      <3> QED BY <2>5, <2>7, <3>1, <3>4
    <2>11. \A i \in 1 .. Len(ids') : ids'[i] \in ParsedIds'
      <3>1. ASSUME NEW i \in 1 .. Len(parsed) PROVE ids'[i] \in ParsedIds
        <4>1. pos[i] \in DOMAIN cs /\ cs[pos[i]].kind # "Ignored" /\ ids'[i] = cs[pos[i]].id
          BY <2>5, <2>7, <3>1
        <4>2. cs[pos[i]] \in ToSet(cs)
          BY <4>1 DEF ToSet
        <4> QED BY <4>1, <4>2 DEF ParsedIds
      <3>2. ParsedIds' = ParsedIds
        BY <1>1 DEF ParsedIds
      <3> QED BY <2>7, <3>1, <3>2
    <2>12. Len(MetricsOf(cats')) = Len(ids')
      BY <2>7, <2>8
    <2> QED BY <2>9, <2>10, <2>11, <2>12 DEF Columns
  <1> QED
    BY <1>1, <1>2 DEF HasColumns, HasCapacity

LEMMA CheckConfigColumns ==
    ASSUME TypeOK, Shape, HasColumns, CheckConfig
    PROVE  HasColumns' /\ HasCapacity'
  <1>1. /\ pc = "check" /\ pc' \in {"nodes", "err"}
        /\ UNCHANGED <<input, next, line, nodeCats, cats, units, ids, means>>
    BY DEF CheckConfig, cfgVars
  <1>2. ASSUME NamesAreFresh' PROVE Columns'
    <2>1. NamesAreFresh
      BY <1>1, <1>2 DEF NamesAreFresh, NewId
    <2>2. Columns
      BY <1>1, <2>1 DEF HasColumns
    <2>3. At = 1 /\ At' = 1 /\ MetricsOf(cats') = MetricsOf(cats)
      BY <1>1 DEF At, Shape
    <2> QED BY <1>1, <2>2, <2>3, SameColumns
  <1>3. ASSUME pc' = "nodes" PROVE Len(ids') + Cardinality(Adding(At)') <= Dim
    <2>1. Len(units) + Cardinality({k \in DOMAIN input.generating :
                                       AddsMetric(input.generating[k])}) <= Dim
      BY <1>3 DEF CheckConfig
    <2>2. At' = 1
      BY <1>3 DEF At
    <2>3. Adding(At)' = {k \in DOMAIN input.generating : AddsMetric(input.generating[k])}
      BY <1>1, <2>2, InputFacts DEF Adding
    <2> QED BY <1>1, <2>1, <2>3, InputFacts
  <1> QED
    BY <1>1, <1>2, <1>3 DEF HasColumns, HasCapacity

\* Whether names are fresh depends on the input only.
LEMMA FreshUnchanged ==
    ASSUME UNCHANGED input
    PROVE  /\ NamesAreFresh' = NamesAreFresh /\ ParsedIds' = ParsedIds /\ Created' = Created
           /\ \A k : NameOf(k)' = NameOf(k)
           /\ \A n : Adding(n)' = Adding(n)
  BY DEF NamesAreFresh, NewId, ParsedIds, Created, NameOf, Adding, AddsMetric

\* The steps that add a metric
LEMMA AddMetricColumns ==
    ASSUME TypeOK, HasColumns, HasCapacity, pc = "edges", next <= Len(input.generating),
           NEW to, to.unit \in UnitInfo, to.id \in STRING, to.id = NameOf(next),
           AddsMetric(Current), NEW value, AddMetric(to, value)
    PROVE  HasColumns' /\ HasCapacity'
  <1> DEFINE n == Len(ids)
             c == [kind |-> "Metric", unit |-> to.unit, id |-> to.id]
  <1>1. /\ units' = Append(units, to.unit) /\ ids' = Append(ids, to.id)
        /\ cats' = Append(cats, c) /\ next' = next + 1 /\ UNCHANGED <<input, pc>>
    BY DEF AddMetric, AddCategory
  <1>2. c \in Parsed /\ IsMetric(c)
    BY DEF Parsed, IsMetric
  <1>3. /\ n \in Nat /\ Len(ids') = n + 1 /\ ids'[n + 1] = to.id /\ units'[n + 1] = to.unit
        /\ \A i \in 1 .. n : ids'[i] = ids[i] /\ units'[i] = units[i]
    BY <1>1, InputFacts, AppendProperties DEF TypeOK
  <1>4. At = next /\ At' = next + 1 /\ next \in Nat /\ next < next + 1
    BY <1>1, InputFacts DEF At
  <1>5. next \in Created
    BY CurrentFacts, InputFacts DEF Created, Current, AddsMetric
  <1> HIDE DEF c, n, At
  <1>6. ASSUME NamesAreFresh' PROVE Columns'
    <2>1. NamesAreFresh
      BY <1>1, <1>6, FreshUnchanged
    <2>2. Columns
      BY <2>1 DEF HasColumns
    <2>3. /\ Len(MetricsOf(cats)) = n
          /\ \A i \in 1 .. n :
                MetricsOf(cats)[i] = [kind |-> "Metric", unit |-> units[i], id |-> ids[i]]
          /\ \A i, j \in 1 .. n : i # j => ids[i] # ids[j]
          /\ \A i \in 1 .. n :
                ids[i] \in ParsedIds \/ \E k \in Created : k < next /\ ids[i] = NameOf(k)
      BY <1>4, <2>2 DEF Columns, n
    <2>4. MetricsOf(cats') = Append(MetricsOf(cats), c) /\ MetricsOf(cats) \in Seq(Parsed)
      BY <1>1, <1>2, MetricsOfAppended, MetricsOfFacts DEF TypeOK, WithMetric
    <2>5. /\ Len(MetricsOf(cats')) = n + 1 /\ MetricsOf(cats')[n + 1] = c
          /\ \A i \in 1 .. n : MetricsOf(cats')[i] = MetricsOf(cats)[i]
      BY <1>2, <2>3, <2>4, AppendProperties
    <2>6. \A i \in 1 .. n + 1 : i \in 1 .. n \/ i = n + 1
      BY <1>3
    <2>7. \A i \in 1 .. n : ids[i] # to.id
      <3> SUFFICES ASSUME NEW i \in 1 .. n PROVE ids[i] # to.id
        OBVIOUS
      <3>1. CASE ids[i] \in ParsedIds
        BY <1>5, <2>1, <3>1, FreshFacts
      <3>2. ASSUME NEW k \in Created, k < next, ids[i] = NameOf(k) PROVE ids[i] # to.id
        <4>1. k # next
          BY <1>4, <3>2, InputFacts DEF Created
        <4> QED BY <1>5, <2>1, <3>2, <4>1, FreshFacts
      <3> QED BY <2>3, <3>1, <3>2
    <2>8. \A i \in 1 .. n + 1 :
             MetricsOf(cats')[i] = [kind |-> "Metric", unit |-> units'[i], id |-> ids'[i]]
      BY <1>3, <2>3, <2>5, <2>6 DEF c
    <2>9. \A i, j \in 1 .. n + 1 : i # j => ids'[i] # ids'[j]
      BY <1>3, <2>3, <2>6, <2>7
    <2>10. ASSUME NEW i \in 1 .. n + 1
           PROVE  ids'[i] \in ParsedIds \/ \E k \in Created : k < next + 1 /\ ids'[i] = NameOf(k)
      <3>1. CASE i = n + 1
        <4>1. ids'[i] = NameOf(next)
          BY <1>3, <3>1
        <4> QED BY <1>4, <1>5, <4>1
      <3>2. CASE i \in 1 .. n
        <4>1. CASE ids[i] \in ParsedIds
          BY <1>3, <3>2, <4>1
        <4>2. ASSUME NEW k \in Created, k < next, ids[i] = NameOf(k)
              PROVE  k < next + 1 /\ ids'[i] = NameOf(k)
          BY <1>3, <1>4, <3>2, <4>2, InputFacts DEF Created
        <4> QED BY <2>3, <3>2, <4>1, <4>2
      <3> QED BY <2>6, <3>1, <3>2
    <2>11. /\ ParsedIds' = ParsedIds /\ Created' = Created /\ \A k : NameOf(k)' = NameOf(k)
      BY <1>1, FreshUnchanged
    <2>12. \A i \in 1 .. n + 1 :
              ids'[i] \in ParsedIds' \/ \E k \in Created' : k < At' /\ ids'[i] = NameOf(k)'
      <3> HIDE DEF ParsedIds, Created, NameOf
      <3> SUFFICES ASSUME NEW i \in 1 .. n + 1
                   PROVE  \/ ids'[i] \in ParsedIds'
                          \/ \E k \in Created' : k < At' /\ ids'[i] = NameOf(k)'
        OBVIOUS
      <3>1. CASE ids'[i] \in ParsedIds
        BY <2>11, <3>1
      <3>2. ASSUME NEW k \in Created, k < next + 1, ids'[i] = NameOf(k)
            PROVE  k \in Created' /\ k < At' /\ ids'[i] = NameOf(k)'
        BY <1>4, <2>11, <3>2
      <3> QED BY <2>10, <3>1, <3>2
    <2> QED BY <1>3, <2>5, <2>8, <2>9, <2>12 DEF Columns
  <1>7. Len(ids') + Cardinality(Adding(At)') <= Dim
    <2>1. Len(ids) + Cardinality(Adding(next)) <= Dim
      BY <1>4 DEF HasCapacity
    <2>2. /\ Cardinality(Adding(next)) = Cardinality(Adding(next + 1)) + 1
          /\ Cardinality(Adding(next + 1)) \in Nat
      <3> DEFINE l == next + 1
      <3>1. l \in Nat /\ l = next + 1 /\ next <= l /\ next \in Nat
        BY <1>4
      <3>2. next \in DOMAIN input.generating /\ AddsMetric(input.generating[next])
        BY CurrentFacts, InputFacts DEF Current
      <3> HIDE DEF l
      <3>3. Cardinality(Adding(next)) = Cardinality(Adding(l)) + 1 /\ Cardinality(Adding(l)) \in Nat
        BY <3>1, <3>2, AddingFacts
      <3> QED BY <3>3 DEF l
    <2>3. Adding(At)' = Adding(next + 1)
      BY <1>1, <1>4 DEF Adding, AddsMetric
    <2>4. Len(ids) = n /\ Len(ids') = n + 1 /\ n \in Nat /\ Dim \in Nat
      BY <1>3, GenerationAssumption DEF n
    <2> DEFINE l == Cardinality(Adding(next))
               m == Cardinality(Adding(next + 1))
    <2>5. l = m + 1 /\ m \in Nat /\ n + l <= Dim
      BY <2>1, <2>2, <2>4
    <2> HIDE DEF l, m
    <2>6. n + 1 + m <= Dim
      BY <2>4, <2>5
    <2> QED BY <2>3, <2>4, <2>6 DEF m
  <1> QED
    BY <1>1, <1>6, <1>7 DEF HasColumns, HasCapacity

\* The steps that change no column
LEMMA SteadyColumns ==
    ASSUME TypeOK, HasColumns, HasCapacity, pc \in {"nodes", "edges", "normalize"},
           UNCHANGED <<input, units, ids>>, MetricsOf(cats') = MetricsOf(cats),
           At \in Nat, At' \in Nat, At <= At'
    PROVE  HasColumns' /\ HasCapacity'
  <1>1. HasCapacity'
    BY SameCapacity
  <1>2. ASSUME NamesAreFresh' PROVE Columns'
    <2>1. NamesAreFresh
      BY <1>2, FreshUnchanged
    <2>2. Columns
      BY <2>1 DEF HasColumns
    <2> HIDE DEF At
    <2> QED BY <2>2, SameColumns
  <1> QED
    BY <1>1, <1>2 DEF HasColumns

LEMMA OtherColumns ==
    ASSUME TypeOK, Shape, HasColumns, HasCapacity,
           GenerateNode \/ CheckIds \/ GenerateMeta \/ MergeLine \/ EndMerge \/ EndGenerating
             \/ Normalize
    PROVE  HasColumns' /\ HasCapacity'
  <1>1. CASE pc' = "err"
    BY <1>1 DEF HasColumns, HasCapacity
  <1>2. CASE GenerateNode /\ pc' # "err"
    <2>1. pc = "nodes" /\ pc' = "nodes" /\ UNCHANGED <<input, cats, units, ids>>
      BY <1>2 DEF GenerateNode
    <2>2. At = 1 /\ At' = 1 /\ MetricsOf(cats') = MetricsOf(cats)
      BY <2>1 DEF At
    <2> QED BY <2>1, <2>2, SteadyColumns
  <1>3. CASE CheckIds /\ pc' # "err"
    <2>1. pc = "nodes" /\ pc' = "edges" /\ next' = 1 /\ UNCHANGED <<input, cats, units, ids>>
      BY <1>3 DEF CheckIds, cfgVars
    <2>2. At = 1 /\ At' = 1 /\ MetricsOf(cats') = MetricsOf(cats)
      BY <2>1 DEF At
    <2> QED BY <2>1, <2>2, SteadyColumns
  <1>4. CASE GenerateMeta /\ pc' # "err"
    <2>1. pc = "edges" /\ next <= Len(input.generating) /\ Current.kind = "Meta"
      BY <1>4 DEF GenerateMeta, Generates
    <2>2. cats' = Append(cats, Current) /\ next' = next + 1 /\ UNCHANGED <<input, pc, units, ids>>
      BY <1>4 DEF GenerateMeta, AddCategory, Err
    <2>3. At = next /\ At' = next + 1 /\ next \in Nat
      BY <2>1, <2>2, InputFacts DEF At
    <2>4. Current \in Parsed /\ cats \in Seq(Parsed)
      BY <2>1, CurrentFacts, GeneratedFacts DEF Parsed, TypeOK
    <2>5. MetricsOf(cats') = MetricsOf(cats)
      <3> HIDE DEF Current
      <3> QED BY <2>1, <2>2, <2>4, MetricsOfAppended DEF WithMetric, IsMetric
    <2>6. At \in Nat /\ At' \in Nat /\ At <= At'
      BY <2>3
    <2> QED BY <2>1, <2>2, <2>5, <2>6, SteadyColumns
  <1>5. CASE MergeLine /\ pc' # "err"
    <2>1. pc = "edges" /\ pc' = "edges" /\ UNCHANGED <<input, next, cats, units, ids>>
      BY <1>5 DEF MergeLine, Generates, Err, cfgVars
    <2>2. At = next /\ At' = next /\ next \in Nat /\ MetricsOf(cats') = MetricsOf(cats)
      BY <2>1, InputFacts DEF At
    <2>3. At \in Nat /\ At' \in Nat /\ At <= At'
      BY <2>2
    <2> QED BY <2>1, <2>2, <2>3, SteadyColumns
  <1>6. CASE EndMerge /\ pc' # "err"
    <2>1. pc = "edges" /\ pc' = "edges" /\ next' = next + 1 /\ UNCHANGED <<input, cats, units, ids>>
      BY <1>6 DEF EndMerge, Generates, cfgVars
    <2>2. At = next /\ At' = next + 1 /\ next \in Nat /\ MetricsOf(cats') = MetricsOf(cats)
      BY <2>1, InputFacts DEF At
    <2>3. At \in Nat /\ At' \in Nat /\ At <= At'
      BY <2>2
    <2> QED BY <2>1, <2>2, <2>3, SteadyColumns
  <1>7. CASE (EndGenerating \/ Normalize) /\ pc' # "err"
    <2>1. /\ pc \in {"edges", "normalize"} /\ pc' \in {"normalize", "done"}
          /\ UNCHANGED <<input, next, cats, units, ids>>
      BY <1>7 DEF EndGenerating, Normalize, Err, cfgVars
    <2>2. At = next /\ At' = next /\ next \in Nat /\ MetricsOf(cats') = MetricsOf(cats)
      BY <2>1, InputFacts DEF At
    <2>3. At \in Nat /\ At' \in Nat /\ At <= At'
      BY <2>2
    <2> QED BY <2>1, <2>2, <2>3, SteadyColumns
  <1> QED
    BY <1>1, <1>2, <1>3, <1>4, <1>5, <1>6, <1>7

LEMMA GenerateMetricColumns ==
    ASSUME TypeOK, Shape, HasColumns, HasCapacity,
           GenerateCustom \/ GenerateHaversine \/ GenerateCopy \/ GenerateCalc
    PROVE  HasColumns' /\ HasCapacity'
  <1>1. CASE Err
    BY <1>1 DEF Err, HasColumns, HasCapacity
  <1>2. ASSUME GenerateCustom PROVE HasColumns' /\ HasCapacity'
    <2>1. pc = "edges" /\ next <= Len(input.generating) /\ Current.kind = "Custom"
      BY <1>2 DEF GenerateCustom, Generates
    <2>2. /\ Current.unit \in UnitInfo /\ Current.id \in STRING /\ AddsMetric(Current)
          /\ Current.id = NameOf(next)
      BY <2>1, CurrentFacts, GeneratedFacts DEF AddsMetric, NameOf, NewId, Current
    <2> HIDE DEF Current
    <2> QED BY <1>2, <2>1, <2>2, AddMetricColumns DEF GenerateCustom
  <1>3. ASSUME GenerateHaversine, ~Err PROVE HasColumns' /\ HasCapacity'
    <2>1. pc = "edges" /\ next <= Len(input.generating) /\ Current.kind = "Haversine"
      BY <1>3 DEF GenerateHaversine, Generates
    <2>2. /\ Current.unit \in UnitInfo /\ Current.id \in STRING /\ AddsMetric(Current)
          /\ Current.id = NameOf(next)
      BY <2>1, CurrentFacts, GeneratedFacts DEF AddsMetric, NameOf, NewId, Current
    <2> HIDE DEF Current
    <2> QED BY <1>3, <2>1, <2>2, AddMetricColumns DEF GenerateHaversine
  <1>4. ASSUME GenerateCopy, ~Err PROVE HasColumns' /\ HasCapacity'
    <2>1. pc = "edges" /\ next <= Len(input.generating) /\ Current.kind = "Copy"
      BY <1>4 DEF GenerateCopy, Generates
    <2>2. /\ Current.to.unit \in UnitInfo /\ Current.to.id \in STRING /\ AddsMetric(Current)
          /\ Current.to.id = NameOf(next)
      BY <2>1, CurrentFacts, GeneratedFacts DEF AddsMetric, NameOf, NewId, Current, MetricNames
    <2> HIDE DEF Current
    <2> QED BY <1>4, <2>1, <2>2, AddMetricColumns DEF GenerateCopy
  <1>5. ASSUME GenerateCalc, ~Err PROVE HasColumns' /\ HasCapacity'
    <2>1. pc = "edges" /\ next <= Len(input.generating) /\ Current.kind = "Calc"
      BY <1>5 DEF GenerateCalc, Generates
    <2>2. /\ Current.result.unit \in UnitInfo /\ Current.result.id \in STRING
          /\ AddsMetric(Current) /\ Current.result.id = NameOf(next)
      BY <2>1, CurrentFacts, GeneratedFacts DEF AddsMetric, NameOf, NewId, Current, MetricNames
    <2> HIDE DEF Current
    <2> QED BY <1>5, <2>1, <2>2, AddMetricColumns DEF GenerateCalc
  <1> QED
    BY <1>1, <1>2, <1>3, <1>4, <1>5

\* A metric that is there is at its index.
LEMMA IndexFacts ==
    ASSUME TypeOK, NEW id, HasMetric(id)
    PROVE  IdxOf(id) \in 1 .. Len(ids) /\ ids[IdxOf(id)] = id
  <1> DEFINE n == Len(ids)
             S == {i \in 1 .. n : ids[i] = id}
  <1>1. n \in Nat /\ S # {} /\ S \in SUBSET (1 .. n)
    BY InputFacts DEF HasMetric
  <1>2. \E i \in S : \A j \in S : i <= j
    <2> HIDE DEF n
    <2> DEFINE T == {n + 1 - i : i \in S}
    <2>1. T \in SUBSET (1 .. n) /\ T # {}
      BY <1>1
    <2> HIDE DEF T
    <2>2. PICK k \in T : \A j \in T : j <= k
      BY <1>1, <2>1, LastExists
    <2> USE DEF T
    <2>3. PICK i \in S : k = n + 1 - i
      OBVIOUS
    <2>4. \A j \in S : n + 1 - j <= n + 1 - i
      BY <2>2, <2>3
    <2>5. \A j \in S : i <= j
      BY <1>1, <2>4
    <2> QED BY <2>5
  <1>3. IdxOf(id) = Min(S)
    BY <1>1 DEF IdxOf, SelectInSeq
  <1>4. Min(S) \in S
    BY <1>2 DEF Min
  <1> QED
    BY <1>3, <1>4

\* Converting in place renames the one category that describes the metric.
LEMMA ConvertColumns ==
    ASSUME TypeOK, Shape, HasColumns, HasCapacity, Convert
    PROVE  HasColumns' /\ HasCapacity'
  <1>1. pc = "edges" /\ next <= Len(input.generating) /\ Current.kind = "Convert"
    BY DEF Convert, Generates
  <1>2. CASE Err
    BY <1>2 DEF Err, HasColumns, HasCapacity
  <1>3. CASE Converts /\ HasMetric(Current.from.id)
    <2> DEFINE i == IdxOf(Current.from.id)
               n == Len(ids)
               from == Current.from
               to == Current.to
    <2>1. /\ cats' = [k \in DOMAIN cats |-> Renamed(cats[k])]
          /\ units' = [units EXCEPT ![i] = to.unit]
          /\ ids' = [ids EXCEPT ![i] = to.id] /\ next' = next + 1
          /\ UNCHANGED <<input, pc>>
      BY <1>3 DEF Converts
    <2>2. /\ Current.to.unit \in UnitInfo /\ Current.to.id \in STRING
          /\ to.id = NameOf(next) /\ next \in Created
      BY <1>1, CurrentFacts, GeneratedFacts, InputFacts DEF MetricNames, NameOf, Created, Current
    <2>3. /\ n \in Nat /\ i \in 1 .. n /\ ids[i] = from.id
          /\ DOMAIN ids = 1 .. n /\ DOMAIN units = 1 .. n /\ ids \in Seq(STRING)
      BY <1>3, IndexFacts, InputFacts DEF TypeOK
    <2>4. At = next /\ At' = next + 1 /\ next \in Nat
      BY <1>1, <2>1, InputFacts DEF At
    <2> DEFINE old == MetricsOf(cats)
               new == MetricsOf(cats')
    <2>5. /\ cats \in Seq(Parsed) /\ cats' \in Seq(Parsed) /\ Len(cats') = Len(cats)
          /\ \A k \in 1 .. Len(cats) :
                cats'[k] = Renamed(cats[k]) /\ (IsMetric(cats[k]) <=> IsMetric(cats'[k]))
      <3>1. \A k \in 1 .. Len(cats) :
               Renamed(cats[k]) \in Parsed /\ (IsMetric(Renamed(cats[k])) <=> IsMetric(cats[k]))
        BY <2>2, RenamedIsParsed DEF TypeOK
      <3>2. DOMAIN cats = 1 .. Len(cats) /\ Len(cats) \in Nat /\ cats \in Seq(Parsed)
        BY DEF TypeOK
      <3> HIDE DEF Current
      <3> QED BY <2>1, <3>1, <3>2
    <2>6. PICK pos : ArePositions(pos, old, new, cats, cats', Len(cats))
      BY <2>5, MetricsHavePositions
    <2>7. /\ Len(new) = Len(old)
          /\ \A k \in 1 .. Len(old) : new[k] = Renamed(old[k]) /\ IsMetric(old[k])
      BY <2>5, <2>6 DEF ArePositions
    <2>8. Len(ids') = n
      <3> HIDE DEF i, n, Current
      <3> QED BY <2>1, <2>3
    <2>9. At \in Nat /\ At' \in Nat /\ At <= At' /\ At < At'
      BY <2>4
    <2>10. HasCapacity'
      <3>1. Len(ids) + Cardinality(Adding(At)) <= Dim
        BY <1>1 DEF HasCapacity
      <3> HIDE DEF At
      <3>2. \A m : Adding(m)' = Adding(m)
        BY <2>1, FreshUnchanged
      <3>3. /\ Cardinality(Adding(At)) \in Nat /\ Cardinality(Adding(At')) \in Nat
            /\ Cardinality(Adding(At')) <= Cardinality(Adding(At))
        BY <2>9, AddingFacts
      <3>4. Len(ids) + Cardinality(Adding(At')) <= Dim
        BY <2>3, <3>1, <3>3, GenerationAssumption
      <3>5. Adding(At)' = Adding(At')
        BY <2>1 DEF Adding
      <3> QED BY <2>8, <3>4, <3>5 DEF HasCapacity
    <2> HIDE DEF i, old, new
    <2>11. ASSUME NamesAreFresh' PROVE Columns'
      <3>1. NamesAreFresh
        BY <2>1, <2>11, FreshUnchanged
      <3>2. Columns
        BY <1>1, <3>1 DEF HasColumns
      <3>3. /\ Len(old) = n
            /\ \A k \in 1 .. n : old[k] = [kind |-> "Metric", unit |-> units[k], id |-> ids[k]]
            /\ \A j, k \in 1 .. n : j # k => ids[j] # ids[k]
            /\ \A k \in 1 .. n :
                  ids[k] \in ParsedIds \/ \E l \in Created : l < next /\ ids[k] = NameOf(l)
        BY <2>4, <3>2 DEF Columns, old
      <3> HIDE DEF n, from, to
      <3>4. /\ ids'[i] = to.id /\ units'[i] = to.unit
            /\ \A k \in 1 .. n : k # i => ids'[k] = ids[k] /\ units'[k] = units[k]
        BY <2>1, <2>3
      <3>5. ASSUME NEW k \in 1 .. n
            PROVE  new[k] = [kind |-> "Metric", unit |-> units'[k], id |-> ids'[k]]
        <4>1. /\ new[k] = Renamed(old[k]) /\ IsMetric(old[k])
              /\ old[k] = [kind |-> "Metric", unit |-> units[k], id |-> ids[k]]
          BY <2>7, <3>3
        <4>2. CASE k = i
          <5>1. old[k].id = from.id
            BY <2>3, <4>1, <4>2
          <5>2. Renamed(old[k]) = [old[k] EXCEPT !.unit = to.unit, !.id = to.id]
            BY <4>1, <5>1 DEF Renamed, from, to
          <5>3. old[k] \in [kind : {"Metric"}, unit : {units[k]}, id : {ids[k]}]
            BY <4>1
          <5> DEFINE c == old[k]
                     d == [c EXCEPT !.unit = to.unit, !.id = to.id]
          <5> HIDE DEF c
          <5>4. c \in [kind : {"Metric"}, unit : {units[k]}, id : {ids[k]}]
            BY <5>3 DEF c
          <5>5. d \in [kind : {"Metric"}, unit : {to.unit}, id : {to.id}]
            BY <5>4
          <5> HIDE DEF d
          <5>6. d = [kind |-> "Metric", unit |-> to.unit, id |-> to.id]
            BY <5>5
          <5>7. Renamed(old[k]) = [kind |-> "Metric", unit |-> to.unit, id |-> to.id]
            BY <5>2, <5>6 DEF c, d
          <5> QED BY <3>4, <4>1, <4>2, <5>7
        <4>3. CASE k # i
          <5>1. old[k].id # from.id
            BY <2>3, <3>3, <4>1, <4>3
          <5>2. Renamed(old[k]) = old[k]
            BY <5>1 DEF Renamed, from
          <5> QED BY <3>4, <4>1, <4>3, <5>2
        <4> QED BY <4>2, <4>3
      <3>6. \A k \in 1 .. n : ids[k] # to.id
        <4> SUFFICES ASSUME NEW k \in 1 .. n PROVE ids[k] # to.id
          OBVIOUS
        <4>1. CASE ids[k] \in ParsedIds
          BY <2>2, <3>1, <4>1, FreshFacts
        <4>2. ASSUME NEW l \in Created, l < next, ids[k] = NameOf(l) PROVE ids[k] # to.id
          <5>1. l # next
            BY <2>4, <4>2, InputFacts DEF Created
          <5> QED BY <2>2, <3>1, <4>2, <5>1, FreshFacts
        <4> QED BY <3>3, <4>1, <4>2
      <3>7. \A j, k \in 1 .. n : j # k => ids'[j] # ids'[k]
        BY <2>3, <3>3, <3>4, <3>6
      <3>8. \A k \in 1 .. n :
               ids'[k] \in ParsedIds \/ \E l \in Created : l < next + 1 /\ ids'[k] = NameOf(l)
        <4> SUFFICES ASSUME NEW k \in 1 .. n
                     PROVE  ids'[k] \in ParsedIds
                              \/ \E l \in Created : l < next + 1 /\ ids'[k] = NameOf(l)
          OBVIOUS
        <4>1. CASE k = i
          BY <2>2, <2>4, <3>4, <4>1
        <4>2. CASE k # i /\ ids[k] \in ParsedIds
          BY <3>4, <4>2
        <4>3. ASSUME NEW l \in Created, k # i, l < next, ids[k] = NameOf(l)
              PROVE  l < next + 1 /\ ids'[k] = NameOf(l)
          BY <2>4, <3>4, <4>3, InputFacts DEF Created
        <4> QED BY <3>3, <4>1, <4>2, <4>3
      <3>9. /\ ParsedIds' = ParsedIds /\ Created' = Created /\ \A k : NameOf(k)' = NameOf(k)
        BY <2>1, FreshUnchanged
      <3>10. \A k \in 1 .. n :
                ids'[k] \in ParsedIds' \/ \E l \in Created' : l < At' /\ ids'[k] = NameOf(l)'
        <4> HIDE DEF At, ParsedIds, Created, NameOf
        <4> SUFFICES ASSUME NEW k \in 1 .. n
                     PROVE  ids'[k] \in ParsedIds'
                              \/ \E l \in Created' : l < At' /\ ids'[k] = NameOf(l)'
          OBVIOUS
        <4>1. CASE ids'[k] \in ParsedIds
          BY <3>9, <4>1
        <4>2. ASSUME NEW l \in Created, l < next + 1, ids'[k] = NameOf(l)
              PROVE  l \in Created' /\ l < At' /\ ids'[k] = NameOf(l)'
          BY <2>4, <3>9, <4>2
        <4> QED BY <3>8, <4>1, <4>2
      <3> QED BY <2>7, <2>8, <3>3, <3>5, <3>7, <3>10 DEF Columns, new, n
    <2> QED BY <2>10, <2>11 DEF HasColumns
  <1> QED
    BY <1>2, <1>3 DEF Convert, Converts

\* Every step keeps the descriptions and the capacity.
LEMMA NextColumns ==
    ASSUME TypeOK, Shape, HasColumns, HasCapacity, [Next]_vars
    PROVE  HasColumns' /\ HasCapacity'
  <1>1. CASE UNCHANGED vars
    <2>1. UNCHANGED <<input, pc, next, cats, units, ids>>
      BY <1>1 DEF vars, cfgVars
    <2>2. /\ At' = At /\ Adding(At)' = Adding(At)
          /\ HasCapacity' = HasCapacity
      BY <2>1 DEF At, Adding, HasCapacity
    <2>3. HasColumns' = HasColumns
      BY <2>1, <2>2 DEF HasColumns, NamesAreFresh, NewId, Columns, ParsedIds, Created, NameOf, At
    <2> QED BY <2>2, <2>3
  <1> QED
    BY <1>1, ReadConfigColumns, CheckConfigColumns, OtherColumns, GenerateMetricColumns,
       ConvertColumns DEF Next, Stopped

\* The invariant is what ColumnsAgree promises.
LEMMA ColumnsDescribed ==
    ASSUME TypeOK, Shape, HasColumns, HasCapacity
    PROVE  ColumnsAgree
  <1> SUFFICES ASSUME pc = "done", NamesAreFresh
               PROVE  /\ Len(MetricsOf(cats)) = Len(ids)
                      /\ \A i \in DOMAIN ids : /\ MetricsOf(cats)[i].id = ids[i]
                                               /\ MetricsOf(cats)[i].unit = units[i]
                      /\ \A e \in DOMAIN metrics : Len(metrics[e]) = Len(ids)
                      /\ Len(ids) <= Dim
    BY DEF ColumnsAgree
  <1>1. Columns
    BY DEF HasColumns
  <1>2. DOMAIN ids = 1 .. Len(ids) /\ Len(ids) \in Nat
    BY InputFacts
  <1>3. ASSUME NEW e \in DOMAIN metrics PROVE Len(metrics[e]) = Len(ids)
    <2>1. metrics[e] = [i \in 1 .. Len(ids) |-> metrics[e][i]]
      BY InputFacts DEF Shape, IsRow
    <2> QED BY <1>2, <2>1
  <1>4. Len(ids) <= Dim
    <2>1. Len(ids) + Cardinality(Adding(At)) <= Dim
      BY DEF HasCapacity
    <2>2. Cardinality(Adding(At)) \in Nat
      <3>1. At \in Nat /\ At <= At
        BY InputFacts DEF At
      <3> HIDE DEF At
      <3> QED BY <3>1, AddingFacts
    <2> QED BY <1>2, <2>1, <2>2, GenerationAssumption
  <1>5. ASSUME NEW i \in DOMAIN ids
        PROVE  MetricsOf(cats)[i].id = ids[i] /\ MetricsOf(cats)[i].unit = units[i]
    <2>1. MetricsOf(cats)[i] = [kind |-> "Metric", unit |-> units[i], id |-> ids[i]]
      BY <1>1, <1>2 DEF Columns
    <2> QED BY <2>1
  <1>6. Len(MetricsOf(cats)) = Len(ids)
    BY <1>1 DEF Columns
  <1> QED
    BY <1>3, <1>4, <1>5, <1>6

-----------------------------------------------------------------------------
(* Units are right *)

\* Units are multiples of a meter or a second.
LEMMA FactorFacts ==
    /\ UnitInfo = {"Meters", "Kilometers", "Seconds", "Minutes", "Hours", "KilometersPerHour",
                   "LaneCount", "F64"}
    /\ \A unit \in UnitInfo : Factor[unit] \in Nat /\ Factor[unit] > 0
    /\ Factor["Kilometers"] = 1000 /\ Factor["Hours"] = 3600
  BY DEF UnitInfo, Factor

\* Lengths and speeds are positive, hence durations as well.
LEMMA EdgeFacts ==
    ASSUME NEW e \in Edges
    PROVE  /\ IsRational(e.km) /\ e.km[1] > 0 /\ IsRational(e.kmh) /\ e.kmh[1] > 0
           /\ IsRational(Over(e.km, e.kmh)) /\ Over(e.km, e.kmh)[1] > 0
  <1>1. IsRational(e.km) /\ IsRational(e.kmh) /\ Less(Zero, e.km) /\ Less(Zero, e.kmh)
    BY DEF Edges, Values, IsPositive
  <1>2. ASSUME NEW x, IsRational(x), Less(Zero, x) PROVE x[1] > 0
    <2>1. x[1] \in Int /\ x[2] \in Nat /\ 0 * x[2] < x[1] * 1
      BY <1>2, RationalHasParts DEF Less, Zero
    <2> QED BY <2>1
  <1>3. e.km[1] > 0 /\ e.kmh[1] > 0
    BY <1>1, <1>2
  <1> DEFINE a == e.km[1]
             b == e.km[2]
             c == e.kmh[1]
             d == e.kmh[2]
  <1>4. /\ Is(e.km, b, a) /\ a \in Int /\ b \in Nat /\ b > 0 /\ a > 0
        /\ Is(e.kmh, d, c) /\ c \in Int /\ d \in Nat /\ d > 0 /\ c > 0
    BY <1>1, <1>3, IsItself
  <1> HIDE DEF a, b, c, d
  <1>5. /\ Is(Over(e.km, e.kmh), b * c, a * d) /\ b * c \in Nat /\ b * c > 0 /\ a * d \in Int
        /\ a * d > 0
    BY <1>4, IsPositiveQuotient
  <1>6. Over(e.km, e.kmh)[1] > 0
    BY <1>5, SignIs
  <1> QED
    BY <1>1, <1>3, <1>5, <1>6 DEF Is

\* What a file tells of an edge is a positive fraction.
LEMMA ToldFacts ==
    ASSUME NEW e \in Edges, NEW unit \in UnitInfo
    PROVE  IsRational(Told(e, unit)) /\ Told(e, unit)[1] > 0
  <1> DEFINE f == Factor[unit]
  <1>1. f \in Nat /\ f > 0
    BY FactorFacts
  <1> HIDE DEF f
  <1>2. ASSUME NEW x, IsRational(x), x[1] > 0, NEW c \in Nat, c > 0
        PROVE  IsRational(Times(x, Ratio(c, f))) /\ Times(x, Ratio(c, f))[1] > 0
    <2> DEFINE a == x[1]
               b == x[2]
    <2>1. Is(x, b, a) /\ a \in Int /\ b \in Nat /\ b > 0 /\ a > 0
      BY <1>2, IsItself
    <2> HIDE DEF a, b
    <2>2. Is(Ratio(c, f), f, c)
      BY <1>1, <1>2, IsRatio
    <2>3. /\ Is(Times(x, Ratio(c, f)), b * f, a * c)
          /\ b * f \in Nat /\ b * f > 0 /\ a * c \in Int
      BY <1>1, <1>2, <2>1, <2>2, IsProduct
    <2>4. a * c > 0
      BY <1>2, <2>1
    <2>5. Times(x, Ratio(c, f))[1] > 0
      BY <2>3, <2>4, SignIs
    <2> QED BY <2>3, <2>5 DEF Is
  <1>3. 1000 \in Nat /\ 3600 \in Nat /\ 1000 > 0 /\ 3600 > 0
    OBVIOUS
  <1>4. CASE unit \in LengthUnits
    BY <1>2, <1>3, <1>4, EdgeFacts DEF Told, f
  <1>5. CASE unit \in TimeUnits
    BY <1>2, <1>3, <1>5, EdgeFacts DEF Told, f, LengthUnits, TimeUnits
  <1>6. CASE unit = "KilometersPerHour"
    BY <1>6, EdgeFacts DEF Told, LengthUnits, TimeUnits
  <1>7. CASE unit \notin LengthUnits \cup TimeUnits \cup {"KilometersPerHour"}
    <2>1. One[1] > 0
      BY DEF One
    <2> QED BY <1>7, <2>1, ThreeHalvesIsRational DEF Told
  <1> QED
    BY <1>4, <1>5, <1>6, <1>7

\* The metrics whose values no file tells of
Untold == {"F64", "LaneCount"}

\* A converted metric tells in its new unit what it told before in the other.
LEMMA ConvertedTells ==
    ASSUME NEW e \in Edges, NEW from \in UnitInfo, NEW to \in UnitInfo, IsConvertible(from, to),
           from # "F64" \/ to = "F64", NEW x, from \in Untold \/ x = Told(e, from)
    PROVE  to \in Untold \/ Converted(from, to, x) = Told(e, to)
  <1> SUFFICES ASSUME to \notin Untold PROVE Converted(from, to, x) = Told(e, to)
    OBVIOUS
  <1>1. from # "F64" /\ to # "F64"
    BY DEF Untold
  <1>2. from # "LaneCount"
    BY <1>1 DEF IsConvertible, Untold, LengthUnits, TimeUnits
  <1>3. x = Told(e, from) /\ Converted(from, to, x) = Times(x, Ratio(Factor[from], Factor[to]))
    BY <1>1, <1>2 DEF Untold, Converted
  <1>4. /\ Factor[from] \in Nat /\ Factor[from] > 0
        /\ Factor[to] \in Nat /\ Factor[to] > 0
    BY FactorFacts
  <1>5. 1000 \in Nat /\ 3600 \in Nat /\ 1000 > 0 /\ 3600 > 0
    OBVIOUS
  <1>6. CASE from = to
    <2>1. IsRational(x)
      BY <1>3, ToldFacts
    <2> HIDE DEF Factor
    <2> QED BY <1>3, <1>4, <1>6, <2>1, Unscaled
  <1>7. CASE {from, to} \subseteq LengthUnits
    <2>1. /\ Told(e, from) = Times(e.km, Ratio(1000, Factor[from]))
          /\ Told(e, to) = Times(e.km, Ratio(1000, Factor[to]))
      BY <1>7 DEF Told, LengthUnits, TimeUnits
    <2> QED BY <1>3, <1>4, <1>5, <2>1, EdgeFacts, Rescaled
  <1>8. CASE {from, to} \subseteq TimeUnits
    <2>1. /\ Told(e, from) = Times(Over(e.km, e.kmh), Ratio(3600, Factor[from]))
          /\ Told(e, to) = Times(Over(e.km, e.kmh), Ratio(3600, Factor[to]))
      BY <1>8 DEF Told, LengthUnits, TimeUnits
    <2> QED BY <1>3, <1>4, <1>5, <2>1, EdgeFacts, Rescaled
  <1> QED
    BY <1>1, <1>6, <1>7, <1>8 DEF IsConvertible

\* What calc reads are the length, speed and duration themselves.
LEMMA ToldInKilometers ==
    ASSUME NEW e \in Edges
    PROVE  /\ Told(e, "Kilometers") = e.km /\ Told(e, "KilometersPerHour") = e.kmh
           /\ Told(e, "Hours") = Over(e.km, e.kmh)
  <1>1. /\ Told(e, "Kilometers") = Times(e.km, Ratio(1000, Factor["Kilometers"]))
        /\ Told(e, "Hours") = Times(Over(e.km, e.kmh), Ratio(3600, Factor["Hours"]))
        /\ Told(e, "KilometersPerHour") = e.kmh
    BY DEF Told, LengthUnits, TimeUnits
  <1>2. /\ Told(e, "Kilometers") = Times(e.km, Ratio(1000, 1000))
        /\ Told(e, "Hours") = Times(Over(e.km, e.kmh), Ratio(3600, 3600))
    BY <1>1, FactorFacts
  <1>3. 1000 \in Nat /\ 3600 \in Nat /\ 1000 > 0 /\ 3600 > 0
    OBVIOUS
  <1> QED
    BY <1>1, <1>2, <1>3, EdgeFacts, Unscaled

\* A duration or speed that is calculated is that of the edge.
LEMMA CalculatedTells ==
    ASSUME NEW e \in Edges, NEW result \in UnitInfo, NEW a, NEW b, IsCalculable(result, a, b),
           NEW x, NEW y, x = Told(e, a), y = Told(e, b)
    PROVE  Calculated(result, x, y) = Told(e, result)
  <1>1. x = e.km
    BY ToldInKilometers DEF IsCalculable
  <1>2. CASE result \in TimeUnits /\ b = "KilometersPerHour"
    <2>1. y = e.kmh
      BY <1>2, ToldInKilometers
    <2>2. Calculated(result, x, y) = Times(Over(x, y), Ratio(Factor["Hours"], Factor[result]))
      BY <1>2 DEF Calculated, Converted, TimeUnits
    <2>3. Told(e, result) = Times(Over(e.km, e.kmh), Ratio(3600, Factor[result]))
      BY <1>2 DEF Told, LengthUnits, TimeUnits
    <2> QED BY <1>1, <2>1, <2>2, <2>3, FactorFacts
  <1>3. CASE result = "KilometersPerHour" /\ b = "Hours"
    <2>1. y = Over(e.km, e.kmh) /\ Told(e, result) = e.kmh /\ Calculated(result, x, y) = Over(x, y)
      BY <1>3, ToldInKilometers DEF Calculated
    <2> QED BY <1>1, <2>1, EdgeFacts, OverQuotient
  <1> QED
    BY <1>2, <1>3 DEF IsCalculable

\* What a category mentions, and all that the config mentions
Mentions(c) ==
    CASE c.kind \in {"Copy", "Convert"} -> {c.from, c.to}
      [] c.kind = "Calc" -> {c.a, c.b, c.result}
      [] c.kind \in {"Custom", "Haversine", "Metric"} -> {[unit |-> c.unit, id |-> c.id]}
      [] OTHER -> {}
Mentioned == UNION {Mentions(c) : c \in ToSet(input.categories) \cup ToSet(input.generating)}

\* What honest configs mention and convert
LEMMA HonestFacts ==
    ASSUME IsHonest
    PROVE  /\ \A m, n \in Mentioned : m.id = n.id => m.unit = n.unit
           /\ \A c \in ToSet(input.generating) :
                 /\ c.kind \in {"Copy", "Convert"} => c.from.unit # "F64" \/ c.to.unit = "F64"
                 /\ c.kind = "Custom" => c.unit = "F64"
                 /\ c.kind # "Merge"
  BY DEF IsHonest, Mentioned, Mentions

\* Each metric is one that the config mentions, and tells what the file tells.
Telling ==
    /\ \A i \in 1 .. Len(ids) : [unit |-> units[i], id |-> ids[i]] \in Mentioned
    /\ \A e \in DOMAIN metrics : \A i \in 1 .. Len(ids) :
          units[i] \in Untold \/ metrics[e][i] = Told(input.edges[e], units[i])

HasTelling == IsHonest /\ pc \in {"check", "nodes", "edges", "normalize"} => Telling

\* What the current category mentions, the config mentions.
LEMMA CurrentMentions ==
    ASSUME TypeOK, pc = "edges", next <= Len(input.generating)
    PROVE  Current \in ToSet(input.generating) /\ Mentions(Current) \subseteq Mentioned
  <1>1. Current \in ToSet(input.generating)
    BY CurrentFacts, InputFacts DEF Current, ToSet
  <1> HIDE DEF Current
  <1> QED
    BY <1>1 DEF Mentioned

\* The unit that the config mentions with an id is that of the metric.
LEMMA MentionedUnit ==
    ASSUME TypeOK, IsHonest, Telling, NEW name \in Mentioned, HasMetric(name.id)
    PROVE  /\ IdxOf(name.id) \in 1 .. Len(ids) /\ units[IdxOf(name.id)] = name.unit
           /\ \A e \in DOMAIN metrics :
                 \/ name.unit \in Untold
                 \/ metrics[e][IdxOf(name.id)] = Told(input.edges[e], name.unit)
  <1> DEFINE i == IdxOf(name.id)
             m == [unit |-> units[i], id |-> ids[i]]
  <1>1. i \in 1 .. Len(ids) /\ ids[i] = name.id
    BY IndexFacts
  <1> HIDE DEF i
  <1>2. m \in Mentioned /\ m.id = name.id /\ m.unit = units[i]
    BY <1>1 DEF Telling
  <1> HIDE DEF m
  <1>3. units[i] = name.unit
    BY <1>2, HonestFacts
  <1> QED
    BY <1>1, <1>3 DEF Telling, i

\* Whether a config is honest depends on the input only.
LEMMA MentionsUnchanged ==
    ASSUME UNCHANGED input
    PROVE  IsHonest' = IsHonest /\ Mentioned' = Mentioned
  BY DEF IsHonest, Mentioned

\* What columns tell depends on units, ids and values only.
LEMMA TellingUnchanged ==
    ASSUME UNCHANGED <<input, units, ids, metrics>>
    PROVE  Telling' = Telling /\ IsHonest' = IsHonest
  BY DEF Telling, IsHonest, Mentioned

\* A column that is added tells what the file tells if its values do.
LEMMA AddMetricTells ==
    ASSUME TypeOK, Shape, HasTelling, pc = "edges", next <= Len(input.generating),
           NEW to, to.unit \in UnitInfo, to.id \in STRING,
           [unit |-> to.unit, id |-> to.id] \in Mentioned, NEW value, AddMetric(to, value),
           IsHonest => \A e \in DOMAIN metrics :
                          to.unit \in Untold \/ value[e] = Told(input.edges[e], to.unit)
    PROVE  HasTelling'
  <1> DEFINE n == Len(ids)
  <1>1. /\ units' = Append(units, to.unit) /\ ids' = Append(ids, to.id)
        /\ metrics' = [e \in DOMAIN metrics |-> Append(metrics[e], value[e])]
        /\ UNCHANGED <<input, pc>>
    BY DEF AddMetric, AddCategory
  <1>2. /\ n \in Nat /\ Len(ids') = n + 1 /\ ids'[n + 1] = to.id /\ units'[n + 1] = to.unit
        /\ \A i \in 1 .. n : ids'[i] = ids[i] /\ units'[i] = units[i]
    BY <1>1, InputFacts, AppendProperties DEF TypeOK
  <1>3. ASSUME NEW e \in DOMAIN metrics
        PROVE  metrics'[e][n + 1] = value[e] /\ \A i \in 1 .. n : metrics'[e][i] = metrics[e][i]
    <2>1. IsRow(metrics[e], n)
      BY InputFacts DEF Shape
    <2>2. metrics'[e] = Append(metrics[e], value[e])
      BY <1>1
    <2>n. n \in Nat
      BY <1>2
    <2> HIDE DEF n
    <2> DEFINE r == metrics[e]
               v == value[e]
               t == metrics'[e]
    <2>3. IsRow(r, n) /\ Extends(t, r, v)
      BY <2>1, <2>2 DEF Extends
    <2> HIDE DEF r, v, t
    <2>4. t[n + 1] = v /\ \A i \in 1 .. n : t[i] = r[i]
      BY ONLY <2>n, <2>3, RowAppended
    <2> QED BY <2>4 DEF r, v, t
  <1> HIDE DEF n
  <1> SUFFICES ASSUME IsHonest' PROVE Telling'
    BY DEF HasTelling
  <1>4. IsHonest /\ Mentioned' = Mentioned
    BY <1>1, MentionsUnchanged
  <1>5. Telling
    BY <1>4 DEF HasTelling
  <1>6. \A i \in 1 .. n + 1 : i \in 1 .. n \/ i = n + 1
    BY <1>2
  <1>7. \A i \in 1 .. n + 1 : [unit |-> units'[i], id |-> ids'[i]] \in Mentioned
    BY <1>2, <1>5, <1>6 DEF Telling, n
  <1>8. ASSUME NEW e \in DOMAIN metrics, NEW i \in 1 .. n + 1
        PROVE  units'[i] \in Untold \/ metrics'[e][i] = Told(input.edges[e], units'[i])
    <2>1. CASE i = n + 1
      BY <1>2, <1>3, <1>4, <2>1
    <2>2. CASE i \in 1 .. n
      BY <1>2, <1>3, <1>5, <2>2 DEF Telling, n
    <2> QED BY <1>6, <2>1, <2>2
  <1>9. DOMAIN metrics' = DOMAIN metrics
    BY <1>1
  <1>10. \A i \in 1 .. Len(ids') : [unit |-> units'[i], id |-> ids'[i]] \in Mentioned'
    <2> HIDE DEF Mentioned
    <2> QED BY <1>2, <1>4, <1>7
  <1>11. \A e \in DOMAIN metrics' : \A i \in 1 .. Len(ids') :
            units'[i] \in Untold \/ metrics'[e][i] = Told(input'.edges[e], units'[i])
    <2>1. input' = input /\ Len(ids') = n + 1
      BY <1>1, <1>2
    <2> QED BY ONLY <1>8, <1>9, <2>1
  <1> QED
    BY <1>10, <1>11 DEF Telling

\* Every category that adds a metric adds one that tells what the file tells.
LEMMA GenerateMetricTells ==
    ASSUME TypeOK, Shape, HasTelling,
           GenerateCustom \/ GenerateHaversine \/ GenerateCopy \/ GenerateCalc
    PROVE  HasTelling'
  <1>1. CASE Err
    BY <1>1 DEF Err, HasTelling
  <1>0. ASSUME pc = "edges" PROVE \A e \in DOMAIN metrics : input.edges[e] \in Edges
    BY <1>0, InputFacts DEF Shape
  <1>2. ASSUME GenerateCustom PROVE HasTelling'
    <2>1. pc = "edges" /\ next <= Len(input.generating) /\ Current.kind = "Custom"
      BY <1>2 DEF GenerateCustom, Generates
    <2>2. /\ Current.unit \in UnitInfo /\ Current.id \in STRING
          /\ [unit |-> Current.unit, id |-> Current.id] \in Mentioned
          /\ IsHonest => Current.unit = "F64"
      BY <2>1, CurrentFacts, GeneratedFacts, CurrentMentions, HonestFacts DEF Mentions
    <2> HIDE DEF Current
    <2> QED BY <1>2, <2>1, <2>2, AddMetricTells DEF GenerateCustom, Untold
  <1>3. ASSUME GenerateHaversine, ~Err PROVE HasTelling'
    <2>1. /\ pc = "edges" /\ next <= Len(input.generating) /\ Current.kind = "Haversine"
          /\ Current.unit = "Kilometers"
      BY <1>3 DEF GenerateHaversine, Generates
    <2>2. /\ Current.unit \in UnitInfo /\ Current.id \in STRING
          /\ [unit |-> Current.unit, id |-> Current.id] \in Mentioned
      BY <2>1, CurrentFacts, GeneratedFacts, CurrentMentions DEF Mentions
    <2> HIDE DEF Current
    <2> DEFINE value == [e \in DOMAIN metrics |-> input.edges[e].km]
    <2>3. \A e \in DOMAIN metrics : value[e] = Told(input.edges[e], Current.unit)
      BY <1>0, <2>1, ToldInKilometers
    <2>4. AddMetric(Current, value)
      BY <1>3, <2>1 DEF GenerateHaversine
    <2> HIDE DEF value
    <2> QED BY <2>1, <2>2, <2>3, <2>4, AddMetricTells
  <1>4. ASSUME GenerateCopy, ~Err PROVE HasTelling'
    <2>1. /\ pc = "edges" /\ next <= Len(input.generating) /\ Current.kind = "Copy"
          /\ HasMetric(Current.from.id) /\ ~CannotConvert
      BY <1>4 DEF GenerateCopy, Generates
    <2>2. /\ Current.from \in MetricNames /\ Current.to \in MetricNames
          /\ Current.from \in Mentioned /\ Current.to \in Mentioned
          /\ IsHonest => Current.from.unit # "F64" \/ Current.to.unit = "F64"
      BY <2>1, CurrentFacts, GeneratedFacts, CurrentMentions, HonestFacts DEF Mentions
    <2>3. /\ Current.from.unit \in UnitInfo /\ Current.to.unit \in UnitInfo
          /\ Current.to.id \in STRING
          /\ Current.to = [unit |-> Current.to.unit, id |-> Current.to.id]
      BY <2>2 DEF MetricNames
    <2> DEFINE value == [e \in DOMAIN metrics |-> ConvertedAt(e)]
    <2>4. AddMetric(Current.to, value)
      BY <1>4, <2>1 DEF GenerateCopy
    <2>5. ASSUME IsHonest, NEW e \in DOMAIN metrics
          PROVE  \/ Current.to.unit \in Untold
                 \/ ConvertedAt(e) = Told(input.edges[e], Current.to.unit)
      <3> HIDE DEF Current
      <3>1. IsConvertible(Current.from.unit, Current.to.unit)
        BY <2>1, <2>5 DEF CannotConvert
      <3>2. Telling
        BY <2>1, <2>5 DEF HasTelling
      <3> DEFINE x == metrics[e][IdxOf(Current.from.id)]
      <3>3. Current.from.unit \in Untold \/ x = Told(input.edges[e], Current.from.unit)
        BY <2>1, <2>2, <2>5, <3>2, MentionedUnit
      <3>4. ConvertedAt(e) = Converted(Current.from.unit, Current.to.unit, x)
        BY DEF ConvertedAt
      <3> HIDE DEF x
      <3> QED BY <1>0, <2>1, <2>2, <2>3, <2>5, <3>1, <3>3, <3>4, ConvertedTells
    <2> HIDE DEF Current
    <2>6. IsHonest => \A e \in DOMAIN metrics :
             Current.to.unit \in Untold \/ value[e] = Told(input.edges[e], Current.to.unit)
      BY <2>5
    <2> HIDE DEF value
    <2> QED BY <2>1, <2>2, <2>3, <2>4, <2>6, AddMetricTells
  <1>5. ASSUME GenerateCalc, ~Err PROVE HasTelling'
    <2> DEFINE a == Current.a
               b == Current.b
               result == Current.result
               valueAt(e) ==
                  Calculated(result.unit, metrics[e][IdxOf(a.id)], metrics[e][IdxOf(b.id)])
               value == [e \in DOMAIN metrics |-> valueAt(e)]
    <2>1. /\ pc = "edges" /\ next <= Len(input.generating) /\ Current.kind = "Calc"
          /\ HasMetric(a.id) /\ HasMetric(b.id) /\ AddMetric(result, value)
          /\ metrics # <<>> => IsCalculable(result.unit, a.unit, b.unit)
      BY <1>5 DEF GenerateCalc, Generates
    <2>2. /\ result \in MetricNames
          /\ a \in Mentioned /\ b \in Mentioned /\ result \in Mentioned
      BY <2>1, CurrentFacts, GeneratedFacts, CurrentMentions DEF Mentions
    <2>3. /\ result.unit \in UnitInfo /\ result.id \in STRING
          /\ result = [unit |-> result.unit, id |-> result.id]
      BY <2>2 DEF MetricNames
    <2> HIDE DEF a, b, result, Current
    <2>5. ASSUME IsHonest, NEW e \in DOMAIN metrics
          PROVE  valueAt(e) = Told(input.edges[e], result.unit)
      <3>1. IsCalculable(result.unit, a.unit, b.unit)
        BY <2>1, <2>5
      <3>2. a.unit \notin Untold /\ b.unit \notin Untold
        BY <3>1 DEF IsCalculable, Untold
      <3>3. Telling
        BY <2>1, <2>5 DEF HasTelling
      <3> DEFINE x == metrics[e][IdxOf(a.id)]
                 y == metrics[e][IdxOf(b.id)]
      <3>4. x = Told(input.edges[e], a.unit) /\ y = Told(input.edges[e], b.unit)
        BY <2>1, <2>2, <2>5, <3>2, <3>3, MentionedUnit
      <3>5. valueAt(e) = Calculated(result.unit, x, y)
        OBVIOUS
      <3> HIDE DEF x, y
      <3>6. input.edges[e] \in Edges
        BY <1>0, <2>1
      <3> QED BY <2>3, <3>1, <3>4, <3>5, <3>6, CalculatedTells
    <2>6. IsHonest => \A e \in DOMAIN metrics :
             result.unit \in Untold \/ value[e] = Told(input.edges[e], result.unit)
      BY <2>5
    <2> HIDE DEF value
    <2> QED BY <2>1, <2>2, <2>3, <2>6, AddMetricTells
  <1> QED
    BY <1>1, <1>2, <1>3, <1>4, <1>5

\* A metric that is converted in place still tells what the file tells.
LEMMA ConvertTells ==
    ASSUME TypeOK, Shape, HasTelling, Convert
    PROVE  HasTelling'
  <1>1. pc = "edges" /\ next <= Len(input.generating) /\ Current.kind = "Convert"
    BY DEF Convert, Generates
  <1>2. CASE Err
    BY <1>2 DEF Err, HasTelling
  <1>3. ASSUME Converts, HasMetric(Current.from.id), ~CannotConvert, IsHonest'
        PROVE  Telling'
    <2> DEFINE i == IdxOf(Current.from.id)
               n == Len(ids)
               from == Current.from
               to == Current.to
    <2>1. /\ metrics' = [e \in DOMAIN metrics |-> [metrics[e] EXCEPT ![i] = ConvertedAt(e)]]
          /\ units' = [units EXCEPT ![i] = to.unit]
          /\ ids' = [ids EXCEPT ![i] = to.id]
          /\ UNCHANGED <<input, pc>>
      BY <1>3 DEF Converts
    <2>2. IsHonest /\ Mentioned' = Mentioned
      BY <1>3, <2>1, MentionsUnchanged
    <2>3. Telling
      BY <1>1, <2>2 DEF HasTelling
    <2>4. /\ from \in MetricNames /\ to \in MetricNames /\ from \in Mentioned /\ to \in Mentioned
          /\ from.unit # "F64" \/ to.unit = "F64"
      BY <1>1, <2>2, CurrentFacts, GeneratedFacts, CurrentMentions, HonestFacts DEF Mentions
    <2>5. /\ from.unit \in UnitInfo /\ to.unit \in UnitInfo
          /\ to = [unit |-> to.unit, id |-> to.id]
      <3> HIDE DEF from, to
      <3> QED BY <2>4 DEF MetricNames
    <2>6. /\ n \in Nat /\ i \in 1 .. n /\ ids[i] = from.id
          /\ DOMAIN ids = 1 .. n /\ DOMAIN units = 1 .. n /\ ids \in Seq(STRING)
      BY <1>3, IndexFacts, InputFacts DEF TypeOK
    <2>7. ASSUME NEW e \in DOMAIN metrics
          PROVE  to.unit \in Untold \/ ConvertedAt(e) = Told(input.edges[e], to.unit)
      <3> HIDE DEF Current
      <3>1. IsConvertible(from.unit, to.unit)
        BY <1>3, <2>7 DEF CannotConvert
      <3> DEFINE x == metrics[e][IdxOf(from.id)]
      <3>3. from.unit \in Untold \/ x = Told(input.edges[e], from.unit)
        BY <1>3, <2>2, <2>3, <2>4, <2>7, MentionedUnit
      <3>4. ConvertedAt(e) = Converted(from.unit, to.unit, x)
        BY DEF ConvertedAt
      <3>5. input.edges[e] \in Edges
        BY <1>1, InputFacts DEF Shape
      <3> HIDE DEF x, from, to
      <3> QED BY <2>4, <2>5, <3>1, <3>3, <3>4, <3>5, ConvertedTells
    <2>8. ASSUME NEW e \in DOMAIN metrics
          PROVE  /\ metrics'[e][i] = ConvertedAt(e)
                 /\ \A k \in 1 .. n : k # i => metrics'[e][k] = metrics[e][k]
      <3>1. IsRow(metrics[e], n)
        BY InputFacts DEF Shape
      <3>2. metrics'[e] = [metrics[e] EXCEPT ![i] = ConvertedAt(e)]
        BY <2>1
      <3> HIDE DEF i, n, Current
      <3>3. DOMAIN metrics[e] = 1 .. n
        BY <3>1 DEF IsRow
      <3> QED BY <2>6, <3>2, <3>3
    <2> HIDE DEF i, n, from, to, Current
    <2>9. /\ ids'[i] = to.id /\ units'[i] = to.unit /\ Len(ids') = n
          /\ \A k \in 1 .. n : k # i => ids'[k] = ids[k] /\ units'[k] = units[k]
      BY <2>1, <2>6 DEF n
    <2>10. \A k \in 1 .. n : [unit |-> units'[k], id |-> ids'[k]] \in Mentioned
      <3> SUFFICES ASSUME NEW k \in 1 .. n
                   PROVE  [unit |-> units'[k], id |-> ids'[k]] \in Mentioned
        OBVIOUS
      <3>1. CASE k = i
        BY <2>4, <2>5, <2>9, <3>1
      <3>2. CASE k # i
        BY <2>3, <2>9, <3>2 DEF Telling, n
      <3> QED BY <3>1, <3>2
    <2>11. ASSUME NEW e \in DOMAIN metrics, NEW k \in 1 .. n
           PROVE  units'[k] \in Untold \/ metrics'[e][k] = Told(input.edges[e], units'[k])
      <3>1. CASE k = i
        BY <2>7, <2>8, <2>9, <3>1
      <3>2. CASE k # i
        BY <2>3, <2>8, <2>9, <3>2 DEF Telling, n
      <3> QED BY <3>1, <3>2
    <2>12. DOMAIN metrics' = DOMAIN metrics /\ input' = input
      BY <2>1
    <2>13. \A k \in 1 .. Len(ids') : [unit |-> units'[k], id |-> ids'[k]] \in Mentioned'
      <3> HIDE DEF Mentioned
      <3> QED BY <2>2, <2>9, <2>10
    <2>14. \A e \in DOMAIN metrics' : \A k \in 1 .. Len(ids') :
              units'[k] \in Untold \/ metrics'[e][k] = Told(input'.edges[e], units'[k])
      BY ONLY <2>9, <2>11, <2>12
    <2> QED BY <2>13, <2>14 DEF Telling
  <1> QED
    BY <1>2, <1>3 DEF Convert, Converts, HasTelling

\* So do those that are parsed,
LEMMA ReadConfigTells ==
    ASSUME TypeOK, Shape, ReadConfig
    PROVE  HasTelling'
  <1> DEFINE cs == input.categories
             parsed == MetricsOf(cs)
  <1>1. pc' \in {"err", "check"} /\ UNCHANGED <<input, metrics>> /\ metrics = <<>>
    BY DEF ReadConfig, graphVars, Shape
  <1>2. ASSUME pc' = "check" PROVE Telling'
    <2>1. /\ units' = [k \in DOMAIN parsed |-> parsed[k].unit]
          /\ ids' = [k \in DOMAIN parsed |-> parsed[k].id]
      BY <1>2 DEF ReadConfig
    <2>2. cs \in Seq(Parsed) /\ DOMAIN cs = 1 .. Len(cs)
      BY InputFacts
    <2>3. /\ parsed \in Seq(Parsed) /\ Len(parsed) \in Nat
          /\ \A i \in 1 .. Len(parsed) :
                /\ parsed[i] \in [kind : {"Metric"}, unit : UnitInfo, id : STRING]
                /\ \E k \in 1 .. Len(cs) : parsed[i] = cs[k]
      BY <2>2, MetricsOfFacts
    <2> HIDE DEF parsed
    <2>4. /\ Len(ids') = Len(parsed)
          /\ \A i \in 1 .. Len(parsed) : units'[i] = parsed[i].unit /\ ids'[i] = parsed[i].id
      BY <2>1, <2>3
    <2>5. ASSUME NEW i \in 1 .. Len(parsed)
          PROVE  [unit |-> units'[i], id |-> ids'[i]] \in Mentioned
      <3>1. parsed[i] \in ToSet(cs) /\ parsed[i].kind = "Metric"
        BY <2>2, <2>3 DEF ToSet
      <3>2. Mentions(parsed[i]) = {[unit |-> parsed[i].unit, id |-> parsed[i].id]}
        BY <3>1 DEF Mentions
      <3>3. Mentions(parsed[i]) \subseteq Mentioned
        BY <3>1 DEF Mentioned
      <3> QED BY <2>4, <3>2, <3>3
    <2>6. Mentioned' = Mentioned
      BY <1>1, MentionsUnchanged
    <2>7. \A k \in 1 .. Len(ids') : [unit |-> units'[k], id |-> ids'[k]] \in Mentioned'
      <3> HIDE DEF Mentioned
      <3> QED BY <2>4, <2>5, <2>6
    <2>8. DOMAIN metrics' = {}
      BY <1>1
    <2> QED BY <2>7, <2>8 DEF Telling
  <1> QED
    BY <1>1, <1>2 DEF HasTelling

\* with their values,
LEMMA CheckConfigTells ==
    ASSUME TypeOK, Shape, HasTelling, CheckConfig
    PROVE  HasTelling'
  <1>1. pc = "check" /\ UNCHANGED <<input, units, ids>>
    BY DEF CheckConfig, cfgVars
  <1>2. CASE pc' = "err"
    BY <1>2 DEF HasTelling
  <1>3. ASSUME pc' # "err", IsHonest' PROVE Telling'
    <2>1. metrics' = [e \in DOMAIN input.edges |->
                         [i \in DOMAIN units |-> Told(input.edges[e], units[i])]]
      BY <1>3 DEF CheckConfig
    <2>2. IsHonest /\ Mentioned' = Mentioned
      BY <1>1, <1>3, MentionsUnchanged
    <2>3. Telling
      BY <1>1, <2>2 DEF HasTelling
    <2>4. \A k \in 1 .. Len(ids') : [unit |-> units'[k], id |-> ids'[k]] \in Mentioned'
      <3>1. \A k \in 1 .. Len(ids) : [unit |-> units[k], id |-> ids[k]] \in Mentioned
        BY <2>3 DEF Telling
      <3> HIDE DEF Mentioned
      <3> QED BY <1>1, <2>2, <3>1
    <2>5. \A e \in DOMAIN metrics' : \A k \in 1 .. Len(ids') :
             metrics'[e][k] = Told(input'.edges[e], units'[k])
      <3>1. DOMAIN units = 1 .. Len(ids) /\ input' = input /\ units' = units /\ ids' = ids
        BY <1>1, InputFacts
      <3> QED BY ONLY <2>1, <3>1
    <2> QED BY <2>4, <2>5 DEF Telling
  <1> QED
    BY <1>2, <1>3 DEF HasTelling

\* and whatever the other steps leave alone; honest configs merge nothing.
LEMMA OtherTells ==
    ASSUME TypeOK, Shape, HasTelling,
           GenerateNode \/ CheckIds \/ GenerateMeta \/ MergeLine \/ EndMerge \/ EndGenerating
             \/ Normalize
    PROVE  HasTelling'
  <1>1. CASE pc' \in {"err", "done"}
    BY <1>1 DEF HasTelling
  <1>2. CASE pc' \notin {"err", "done"} /\ ~MergeLine
    <2>1. UNCHANGED <<input, units, ids, metrics>> /\ pc \in {"nodes", "edges"}
      BY <1>2 DEF GenerateNode, CheckIds, GenerateMeta, AddCategory, EndMerge, EndGenerating,
                  Normalize, Err, Generates, cfgVars, graphVars
    <2> QED BY <2>1, TellingUnchanged DEF HasTelling
  <1>3. CASE MergeLine
    <2>1. pc = "edges" /\ next <= Len(input.generating) /\ Current.kind = "Merge"
      BY <1>3 DEF MergeLine, Generates
    <2>2. ~IsHonest
      BY <2>1, CurrentMentions, HonestFacts
    <2>3. UNCHANGED input
      BY <1>3 DEF MergeLine, Err
    <2> QED BY <2>2, <2>3, MentionsUnchanged DEF HasTelling
  <1> QED
    BY <1>1, <1>2, <1>3

\* What is not around zero is not zero.
LEMMA ZeroIsZero ==
    ASSUME NEW x, IsRational(x), ~IsZero(x)
    PROVE  x[1] # 0
  <1> SUFFICES ASSUME x[1] = 0 PROVE IsZero(x)
    OBVIOUS
  <1> DEFINE a == Accuracy[1]
             b == Accuracy[2]
             D == b * 2
  <1>1. Is(Accuracy, b, a) /\ a \in Int /\ b \in Nat /\ b > 0
    BY GenerationAssumption, IsItself
  <1>2. a > 0
    <2>1. 0 * b < a * 1
      BY GenerationAssumption DEF IsPositive, Less, Zero
    <2> HIDE DEF a, b
    <2> QED BY <1>1, <2>1
  <1> HIDE DEF a, b
  <1>3. D \in Nat /\ D > 0 /\ Is(Accuracy, D, a * 2) /\ a * 2 = 2 * a
    <2>1. 2 \in Nat /\ 2 > 0
      OBVIOUS
    <2> QED BY <1>1, <2>1, IsScaled
  <1> HIDE DEF D
  <1>4. x[2] \in Nat /\ x[2] > 0
    BY RationalHasParts
  <1>5. Is(x, D, 0) /\ Is(Zero, D, 0)
    BY <1>3, <1>4, ThreeHalvesIsRational DEF Is, Zero
  <1>6. Is(Accuracy, D, 2 * a)
    BY <1>3
  <1>7. AreClose(x, Zero, Accuracy) <=> Magnitude(0 - 0) < 3 * a
    <2> DEFINE z == 0
    <2>1. z \in Int /\ a \in Int /\ D \in Nat /\ D > 0
      BY <1>1, <1>3
    <2>2. Is(x, D, z) /\ Is(Zero, D, z) /\ Is(Accuracy, D, 2 * a)
      BY <1>5, <1>6
    <2> HIDE DEF z
    <2>3. AreClose(x, Zero, Accuracy) <=> Magnitude(z - z) < 3 * a
      BY ONLY <2>1, <2>2, IsClose
    <2> QED BY <2>3 DEF z
  <1>8. Magnitude(0 - 0) = 0
    BY DEF Magnitude
  <1> QED
    BY <1>1, <1>2, <1>7, <1>8 DEF IsZero

\* A column that is normalised is a non-empty sequence of fractions, with a mean.
LEMMA ColumnFacts ==
    ASSUME TypeOK, pc = "normalize", Shape, metrics # <<>>, NEW i,
           \A e \in DOMAIN metrics : IsRational(metrics[e][i])
    PROVE  /\ Len(input.edges) > 0 /\ DOMAIN Column(i) = 1 .. Len(input.edges)
           /\ Len(Column(i)) = Len(input.edges) /\ IsRational(Mean(i))
  <1> DEFINE n == Len(input.edges)
  <1>1. DOMAIN metrics = 1 .. n /\ n \in Nat
    BY InputFacts DEF Shape
  <1>2. n > 0
    <2>1. CASE n = 0
      <3>1. DOMAIN metrics = {}
        BY <1>1, <2>1
      <3>2. metrics = <<>>
        BY <3>1 DEF TypeOK
      <3> QED BY <3>2
    <2> HIDE DEF n
    <2> QED BY <1>1, <2>1
  <1> DEFINE R == {x \in Int \X (Nat \ {0}) : IsRational(x)}
  <1>3. \A x : IsRational(x) => x \in R
    BY DEF IsRational
  <1> HIDE DEF n, R
  <1>4. Column(i) \in Seq(R) /\ Len(Column(i)) = n /\ DOMAIN Column(i) = 1 .. n
    BY <1>1, <1>3 DEF Column
  <1>5. IsRational(MeanOf(Column(i)))
    BY <1>1, <1>2, <1>4, MeanIsRational DEF R
  <1> QED
    BY <1>2, <1>4, <1>5 DEF Mean, n

\* What is returned is right: values as they are, or quotients times their mean.
LEMMA EndTells ==
    ASSUME TypeOK, Shape, HasTelling, EndGenerating \/ Normalize
    PROVE  UnitsAreRight'
  <1> DEFINE Right(e, i) ==
                \/ units[i] \in {"F64", "LaneCount"}
                \/ means = <<>> /\ metrics[e][i] = Told(input.edges[e], units[i])
                \/ means # <<>> /\ \/ Times(metrics[e][i], means[i]) = Told(input.edges[e], units[i])
                                   \/ metrics[e][i] = Accuracy
  <1>1. UNCHANGED <<input, units>>
    BY DEF EndGenerating, Normalize, Err, cfgVars
  <1>2. IsHonest' = IsHonest
    BY <1>1, MentionsUnchanged
  <1> SUFFICES ASSUME pc' = "done", IsHonest
               PROVE  \A e \in DOMAIN metrics' : \A i \in DOMAIN units' : Right(e, i)'
    BY <1>2 DEF UnitsAreRight
  <1>3. pc \in {"edges", "normalize"} /\ means = <<>>
    BY DEF EndGenerating, Normalize, Shape
  <1>4. Telling
    BY <1>3 DEF HasTelling
  <1>5. DOMAIN units = 1 .. Len(ids)
    BY InputFacts
  <1>6. CASE EndGenerating
    <2>1. UNCHANGED <<metrics, means>>
      BY <1>6 DEF EndGenerating, graphVars
    <2> SUFFICES ASSUME NEW e \in DOMAIN metrics', NEW i \in DOMAIN units' PROVE Right(e, i)'
      OBVIOUS
    <2>2. units[i] \in Untold \/ metrics[e][i] = Told(input.edges[e], units[i])
      BY <1>1, <1>4, <1>5, <2>1 DEF Telling
    <2> QED BY <1>1, <1>3, <2>1, <2>2 DEF Untold
  <1>7. CASE Normalize
    <2>1. /\ metrics # <<>> /\ \A i \in DOMAIN units : ~IsZero(Mean(i))
          /\ means' = [i \in DOMAIN units |-> Mean(i)]
          /\ metrics' = [e \in DOMAIN metrics |->
                            [i \in DOMAIN units |-> Normalized(metrics[e][i], means'[i])]]
          /\ pc = "normalize"
      BY <1>7 DEF Normalize, Err
    <2>2. ASSUME NEW e \in DOMAIN metrics, NEW i \in DOMAIN units
          PROVE  Right(e, i)'
      <3>1. CASE units[i] \in Untold
        BY <1>1, <3>1 DEF Untold
      <3>2. CASE units[i] \notin Untold
        <4>1. \A d \in DOMAIN metrics : metrics[d][i] = Told(input.edges[d], units[i])
          BY <1>4, <1>5, <3>2 DEF Telling
        <4>2. \A d \in DOMAIN metrics : input.edges[d] \in Edges
          BY <2>1, InputFacts DEF Shape
        <4>3. units[i] \in UnitInfo
          BY InputFacts DEF TypeOK
        <4>4. \A d \in DOMAIN metrics : IsRational(metrics[d][i])
          BY <4>1, <4>2, <4>3, ToldFacts
        <4>5. IsRational(Mean(i)) /\ Mean(i)[1] # 0
          BY <2>1, <4>4, ColumnFacts, ZeroIsZero
        <4> DEFINE x == metrics[e][i]
                   m == Mean(i)
        <4>6. means'[i] = m /\ metrics'[e][i] = Normalized(x, m) /\ means' # <<>>
          BY <2>1
        <4>7. x = Told(input.edges[e], units[i]) /\ IsRational(x) /\ IsRational(m) /\ m[1] # 0
          BY <4>1, <4>4, <4>5
        <4> HIDE DEF x, m
        <4>8. CASE IsZero(Over(x, m))
          BY <4>6, <4>8 DEF Normalized
        <4>9. CASE ~IsZero(Over(x, m))
          <5>1. metrics'[e][i] = Over(x, m)
            BY <4>6, <4>9 DEF Normalized
          <5>2. Times(metrics'[e][i], means'[i]) = x
            BY <4>6, <4>7, <5>1, OverTimes
          <5> QED BY <1>1, <4>6, <4>7, <5>2
        <4> QED BY <4>8, <4>9
      <3> QED BY <3>1, <3>2
    <2>3. DOMAIN metrics' = DOMAIN metrics /\ DOMAIN units' = DOMAIN units
      BY <1>1, <2>1
    <2> QED BY <2>2, <2>3
  <1> QED
    BY <1>6, <1>7

\* Every step keeps it that metrics tell what the file tells.
LEMMA NextTells ==
    ASSUME TypeOK, Shape, HasTelling, UnitsAreRight, [Next]_vars
    PROVE  HasTelling' /\ UnitsAreRight'
  <1>1. CASE UNCHANGED vars
    BY <1>1 DEF vars, cfgVars, graphVars, HasTelling, Telling, UnitsAreRight, IsHonest, Mentioned
  <1>2. HasTelling'
    BY <1>1, ReadConfigTells, CheckConfigTells, OtherTells, GenerateMetricTells, ConvertTells
       DEF Next, Stopped
  <1>3. ASSUME EndGenerating \/ Normalize
        PROVE  UnitsAreRight'
    BY <1>3, EndTells
  <1>4. ASSUME ReadConfig \/ CheckConfig \/ GenerateNode \/ CheckIds
        PROVE  UnitsAreRight'
    <2>1. pc' # "done"
      BY <1>4 DEF ReadConfig, CheckConfig, GenerateNode, CheckIds
    <2> QED BY <2>1 DEF UnitsAreRight
  <1>5. ASSUME GenerateMeta \/ GenerateCustom \/ GenerateHaversine \/ GenerateCopy \/ GenerateCalc
        PROVE  UnitsAreRight'
    <2>1. pc' # "done"
      BY <1>5 DEF GenerateMeta, GenerateCustom, GenerateHaversine, GenerateCopy, GenerateCalc,
                  AddMetric, AddCategory, Err, Generates
    <2> QED BY <2>1 DEF UnitsAreRight
  <1>6. ASSUME Convert \/ MergeLine \/ EndMerge
        PROVE  UnitsAreRight'
    <2>1. pc' # "done"
      BY <1>6 DEF Convert, MergeLine, EndMerge, Err, Generates
    <2> QED BY <2>1 DEF UnitsAreRight
  <1> QED
    BY <1>1, <1>2, <1>3, <1>4, <1>5, <1>6 DEF Next, Stopped

-----------------------------------------------------------------------------
(* The mean of what is divided by its mean *)

\* Over one denominator, a fraction has one numerator.
LEMMA NumeratorUnique ==
    ASSUME NEW x, NEW D \in Nat, D > 0, NEW v \in Int, NEW w \in Int, Is(x, D, v), Is(x, D, w)
    PROVE  v = w
  <1> DEFINE b == x[2]
  <1>1. b \in Nat /\ b > 0
    BY RationalHasParts DEF Is
  <1>2. v * b = w * b
    BY DEF Is
  <1> HIDE DEF b
  <1>3. b * v = b * w
    BY <1>1, <1>2
  <1> QED
    BY <1>1, <1>3, Cancelled

\* A mean of n fractions over D is the sum of their numerators over D times n.
LEMMA IsMean ==
    ASSUME NEW n \in Nat, n > 0, NEW xs, DOMAIN xs = 1 .. n, Len(xs) = n,
           NEW D \in Nat, D > 0, NEW v,
           \A k \in 1 .. n : v[k] \in Int /\ Is(xs[k], D, v[k]),
           NEW t \in [0 .. n -> Int], IsSum(t, v, n)
    PROVE  Is(MeanOf(xs), D * n, t[n]) /\ D * n \in Nat /\ D * n > 0
  <1>1. Is(SumOf(xs), D, t[n]) /\ t[n] \in Int
    BY IsSumOf
  <1>2. Is(<<n, 1>>, 1, n)
    BY WholeIsRational DEF Is
  <1>3. n \in Int /\ 1 \in Nat /\ 1 > 0
    OBVIOUS
  <1>4. Is(Over(SumOf(xs), <<n, 1>>), D * n, t[n] * 1) /\ D * n \in Nat /\ D * n > 0
    BY <1>1, <1>2, <1>3, IsPositiveQuotient
  <1>5. t[n] * 1 = t[n]
    BY <1>1
  <1> QED
    BY <1>4, <1>5 DEF MeanOf

\* The numerators of the quotients by m, over the denominator D
AreQuotients(v, D, xs, m, n) == \A k \in 1 .. n : v[k] \in Int /\ Is(Over(xs[k], m), D, v[k])

\* The quotients of fractions by their mean sum up to their number.
LEMMA QuotientsSum ==
    ASSUME NEW n \in Nat, n > 0, NEW xs, DOMAIN xs = 1 .. n, Len(xs) = n,
           \A k \in 1 .. n : IsRational(xs[k]),
           NEW m, m = MeanOf(xs), IsRational(m), m[1] # 0, NEW D \in Nat, D > 0, NEW v,
           AreQuotients(v, D, xs, m, n),
           NEW t \in [0 .. n -> Int], IsSum(t, v, n)
    PROVE  t[n] = D * n
  <1> DEFINE c == m[1]
             d == m[2]
             E == D * d
             w == [k \in 1 .. n |-> v[k] * c]
             s == [k \in 0 .. n |-> t[k] * c]
  <1>1. Is(m, d, c) /\ c \in Int /\ d \in Nat /\ d > 0 /\ c # 0
    BY IsItself
  <1> HIDE DEF c, d
  <1>2. E \in Nat /\ E > 0
    BY <1>1
  <1>3. ASSUME NEW k \in 1 .. n PROVE w[k] \in Int /\ Is(xs[k], E, w[k])
    <2>1. v[k] \in Int /\ Is(Over(xs[k], m), D, v[k])
      BY DEF AreQuotients
    <2>2. Is(Times(Over(xs[k], m), m), D * d, v[k] * c) /\ v[k] * c \in Int
      BY ONLY <1>1, <2>1, IsProduct, D \in Nat, D > 0
    <2>3. Times(Over(xs[k], m), m) = xs[k]
      BY <1>1, OverTimes DEF c
    <2> QED BY <2>2, <2>3
  <1>4. s \in [0 .. n -> Int] /\ IsSum(s, w, n)
    <2>1. \A k \in 0 .. n : t[k] \in Int /\ s[k] = t[k] * c
      OBVIOUS
    <2>2. s \in [0 .. n -> Int]
      BY <1>1, <2>1
    <2>3. ASSUME NEW k \in 0 .. n PROVE s[k] = IF k = 0 THEN 0 ELSE s[k - 1] + w[k]
      <3>1. CASE k = 0
        <4>1. t[k] = 0
          BY <3>1 DEF IsSum
        <4> QED BY <1>1, <2>1, <3>1, <4>1
      <3>2. CASE k # 0
        <4>1. k \in 1 .. n /\ k - 1 \in 0 .. n /\ t[k] = t[k - 1] + v[k]
          <5>1. t[k] = t[k - 1] + v[k]
            BY <3>2 DEF IsSum
          <5>2. k \in 1 .. n /\ k - 1 \in 0 .. n
            BY <3>2
          <5> QED BY ONLY <5>1, <5>2
        <4> DEFINE p == t[k - 1]
                   q == v[k]
        <4>i. v[k] \in Int
          BY <4>1 DEF AreQuotients
        <4>2. p \in Int /\ q \in Int /\ s[k] = (p + q) * c /\ s[k - 1] = p * c /\ w[k] = q * c
          BY <2>1, <4>1, <4>i
        <4> HIDE DEF p, q, s, w
        <4>3. (p + q) * c = p * c + q * c
          BY <1>1, <4>2
        <4> QED BY <3>2, <4>2, <4>3
      <3> QED BY <3>1, <3>2
    <2> HIDE DEF s, w
    <2> QED BY <2>2, <2>3 DEF IsSum
  <1>5. s[n] = t[n] * c /\ t[n] \in Int
    OBVIOUS
  <1> HIDE DEF E, s, w
  <1>6. Is(m, E * n, s[n]) /\ E * n \in Nat /\ E * n > 0
    BY <1>2, <1>3, <1>4, IsMean
  <1>7. D * n \in Nat /\ D * n > 0
    OBVIOUS
  <1> DEFINE k == D * n
  <1>8. Is(m, d * k, c * k)
    <2>1. k \in Nat /\ k > 0
      BY <1>7
    <2> HIDE DEF k
    <2> QED BY <1>1, <2>1, IsScaled
  <1>9. d * (D * n) = (D * d) * n
    BY <1>1
  <1>10. Is(m, E * n, c * k) /\ c * k \in Int
    BY <1>1, <1>7, <1>8, <1>9 DEF E
  <1>11. t[n] * c = c * k
    <2>1. s[n] \in Int
      BY <1>4
    <2> HIDE DEF k
    <2>2. s[n] = c * k
      BY <1>6, <1>10, <2>1, NumeratorUnique
    <2> QED BY <1>5, <2>2
  <1>12. t[n] = k
    <2>1. k \in Int /\ t[n] \in Int
      BY <1>5, <1>7
    <2> HIDE DEF k
    <2> DEFINE u == t[n]
    <2>2. u * c = c * k /\ u \in Int
      BY <1>11, <2>1
    <2> HIDE DEF u
    <2>c. c \in Int /\ c # 0
      BY <1>1
    <2>3. ASSUME c > 0 PROVE u = k
      <3>1. c * u = c * k
        BY ONLY <2>1, <2>2, <2>c
      <3> QED BY ONLY <2>1, <2>2, <2>3, <2>c, <3>1, Cancelled
    <2>4. ASSUME c < 0 PROVE u = k
      <3> DEFINE b == -c
      <3>1. b \in Int /\ b > 0 /\ c = -b
        BY ONLY <2>4, <2>c
      <3> HIDE DEF b
      <3>2. u * (-b) = (-b) * k
        BY <2>2, <3>1
      <3>3. b * u = b * k
        BY ONLY <2>1, <2>2, <3>1, <3>2
      <3> QED BY ONLY <2>1, <2>2, <3>1, <3>3, Cancelled
    <2>5. u = k
      BY ONLY <2>3, <2>4, <2>c
    <2> QED BY <2>5 DEF u
  <1> QED
    BY <1>12

\* The accuracy is a positive fraction.
LEMMA AccuracyIsPositive ==
    IsRational(Accuracy) /\ Accuracy[1] \in Int /\ Accuracy[1] > 0
  <1> DEFINE a == Accuracy[1]
             b == Accuracy[2]
  <1>1. IsRational(Accuracy) /\ a \in Int /\ b \in Nat /\ 0 * b < a * 1
    BY GenerationAssumption, RationalHasParts DEF IsPositive, Less, Zero
  <1> HIDE DEF a, b
  <1>2. a > 0
    BY <1>1
  <1> QED
    BY <1>1, <1>2 DEF a

\* How many of the first k values are x
Count(ys, x, k) == Cardinality({j \in 1 .. k : ys[j] = x})

\* Counting goes on by one value at a time.
LEMMA CountFacts ==
    ASSUME NEW k \in Nat, NEW ys, NEW x
    PROVE  /\ Count(ys, x, k) \in Nat
           /\ Count(ys, x, k + 1) = Count(ys, x, k) + (IF ys[k + 1] = x THEN 1 ELSE 0)
  <1> DEFINE Z == {j \in 1 .. k : ys[j] = x}
             Y == {j \in 1 .. k + 1 : ys[j] = x}
             m == k + 1
  <1>1. m = k + 1 /\ m \notin Z /\ \A j : j \in 1 .. k + 1 <=> j \in 1 .. k \/ j = m
    OBVIOUS
  <1>2. IsFiniteSet(Z)
    <2>1. Z \in SUBSET (1 .. k) /\ IsFiniteSet(1 .. k)
      BY FS_Interval
    <2> HIDE DEF Z
    <2> QED BY <2>1, FS_Subset
  <1>3. Y = IF ys[m] = x THEN Z \cup {m} ELSE Z
    <2> HIDE DEF m
    <2> QED BY <1>1
  <1> HIDE DEF Z, Y, m
  <1>4. Cardinality(Z) \in Nat /\ Cardinality(Z \cup {m}) = Cardinality(Z) + 1
    BY <1>1, <1>2, FS_AddElement, FS_CardinalityType
  <1>5. Cardinality(Y) = Cardinality(Z) + (IF ys[m] = x THEN 1 ELSE 0)
    <2>1. CASE ys[m] = x
      BY <1>3, <1>4, <2>1
    <2>2. CASE ys[m] # x
      BY <1>3, <1>4, <2>2
    <2> QED BY <2>1, <2>2
  <1> QED
    BY <1>4, <1>5 DEF Z, Y, m, Count

\* Where two sums differ by at most b at each of the counted places, and nowhere else, they
\* differ by at most b times their number.
LEMMA SumsDiffer ==
    ASSUME NEW n \in Nat, NEW v, NEW w, NEW t \in [0 .. n -> Int], NEW u \in [0 .. n -> Int],
           IsSum(t, v, n), IsSum(u, w, n), NEW b \in Nat, NEW ys, NEW x,
           \A k \in 1 .. n : /\ v[k] \in Int /\ w[k] \in Int
                             /\ (v[k] = w[k]) \/ (ys[k] = x /\ Magnitude(w[k] - v[k]) <= b)
    PROVE  Count(ys, x, n) \in Nat /\ Magnitude(u[n] - t[n]) <= b * Count(ys, x, n)
  <1> DEFINE C(k) == Count(ys, x, k)
             N == {k \in Nat : k <= n => Magnitude(u[k] - t[k]) <= b * C(k)}
  <1>0. \A k \in Nat : /\ C(k) \in Nat
                       /\ C(k + 1) = C(k) + (IF ys[k + 1] = x THEN 1 ELSE 0)
    BY CountFacts
  <1> HIDE DEF C
  <1>1. 0 \in N
    <2>1. u[0] = 0 /\ t[0] = 0
      BY DEF IsSum
    <2>2. C(0) \in Nat
      BY <1>0
    <2> DEFINE c == C(0)
    <2> HIDE DEF c
    <2>3. b * c >= 0
      BY <2>2 DEF c
    <2> QED BY <2>1, <2>3 DEF Magnitude, c
  <1>2. ASSUME NEW k \in Nat, k \in N PROVE k + 1 \in N
    <2> SUFFICES ASSUME k + 1 <= n PROVE Magnitude(u[k + 1] - t[k + 1]) <= b * C(k + 1)
      OBVIOUS
    <2> DEFINE m == k + 1
               c == C(k)
               d == u[k] - t[k]
               e == w[m] - v[m]
    <2>1. m \in 1 .. n /\ m \in 0 .. n /\ k \in 0 .. n /\ m # 0 /\ m - 1 = k
      OBVIOUS
    <2>2. Magnitude(d) <= b * c /\ c \in Nat /\ C(m) = c + (IF ys[m] = x THEN 1 ELSE 0)
      BY <1>0, <1>2
    <2> HIDE DEF m
    <2>3. u[m] = u[k] + w[m] /\ t[m] = t[k] + v[m]
      BY <2>1 DEF IsSum
    <2>4. /\ v[m] \in Int /\ w[m] \in Int /\ u[k] \in Int /\ t[k] \in Int
          /\ v[m] = w[m] \/ (ys[m] = x /\ Magnitude(w[m] - v[m]) <= b)
      BY <2>1
    <2>5. /\ d \in Int /\ e \in Int /\ u[m] - t[m] = d + e
          /\ (e = 0) \/ (ys[m] = x /\ Magnitude(e) <= b)
      BY <2>3, <2>4
    <2> HIDE DEF c, d, e
    <2>6. b * c \in Nat /\ b * (c + 1) = b * c + b
      BY <2>2
    <2>7. Magnitude(u[m] - t[m]) <= b * C(m)
      <3> DEFINE p == b * c
      <3>1. p \in Nat /\ Magnitude(d) <= p /\ b * (c + 1) = p + b
        BY <2>2, <2>6
      <3> HIDE DEF p
      <3>2. CASE ys[m] = x
        <4>1. C(m) = c + 1
          BY <2>2, <3>2
        <4>2. Magnitude(d + e) <= p + b
          BY <2>5, <3>1 DEF Magnitude
        <4> QED BY <2>5, <3>1, <4>1, <4>2
      <3>3. CASE ys[m] # x
        <4>1. C(m) = c /\ e = 0 /\ d + e = d
          BY <2>2, <2>5, <3>3
        <4> QED BY <2>5, <3>1, <4>1 DEF p
      <3> QED BY <3>2, <3>3
    <2> QED BY <2>7 DEF m
  <1>3. n \in N
    <2> HIDE DEF N
    <2> QED BY <1>1, <1>2, NaturalsAreInductive
  <1>4. Magnitude(u[n] - t[n]) <= b * C(n) /\ C(n) \in Nat
    BY <1>0, <1>3
  <1> QED
    BY <1>4 DEF C

\* The mean of the normalised values is 1, up to what zeros add.
LEMMA NormalizedMean ==
    ASSUME NEW n \in Nat, n > 0, NEW xs, DOMAIN xs = 1 .. n, Len(xs) = n,
           \A k \in 1 .. n : IsRational(xs[k]),
           NEW m, m = MeanOf(xs), IsRational(m), m[1] # 0,
           NEW ys, DOMAIN ys = 1 .. n, Len(ys) = n, \A k \in 1 .. n : ys[k] = Normalized(xs[k], m)
    PROVE  Leq(AbsOf(Minus(MeanOf(ys), One)),
               Times(Ratio(3 * Count(ys, Accuracy, n), n), Accuracy))
  <1> DEFINE q(k) == Over(xs[k], m)
             l == n + 1
             zs == [k \in 1 .. l |-> IF k = l THEN Accuracy ELSE q(k)]
  <1>1. l \in Nat /\ l \in 1 .. l /\ \A k \in 1 .. n : k \in 1 .. l /\ k # l
    OBVIOUS
  <1>2. \A k \in 1 .. n : IsRational(q(k))
    BY OverIsRational
  <1>3. zs[l] = Accuracy /\ \A k \in 1 .. n : zs[k] = q(k)
    <2> HIDE DEF l, q
    <2> QED BY <1>1
  <1>4. \A k \in 1 .. l : IsRational(zs[k])
    <2>1. \A k \in 1 .. l : k = l \/ k \in 1 .. n
      OBVIOUS
    <2> HIDE DEF l, q, zs
    <2> QED BY <1>2, <1>3, <2>1, AccuracyIsPositive
  <1> HIDE DEF zs, q, l
  <1>5. PICK E \in Nat \ {0}, f \in [1 .. l -> Int] : \A k \in 1 .. l : Is(zs[k], E, f[k])
    BY <1>1, <1>4, SequenceDenominator
  <1> DEFINE D == E * 2
             v == [k \in 1 .. n |-> f[k] * 2]
             b == f[l]
             a == b * 2
             w == [k \in 1 .. n |-> IF IsZero(q(k)) THEN a ELSE v[k]]
  <1>6. D \in Nat /\ D > 0 /\ E \in Nat /\ E > 0
    OBVIOUS
  <1>7. \A k \in 1 .. l : Is(zs[k], D, f[k] * 2)
    <2> SUFFICES ASSUME NEW k \in 1 .. l PROVE Is(zs[k], D, f[k] * 2)
      OBVIOUS
    <2>1. f[k] \in Int /\ Is(zs[k], E, f[k]) /\ 2 \in Nat /\ 2 > 0
      BY <1>5
    <2> QED BY ONLY <1>6, <2>1, IsScaled
  <1>8. b \in Int /\ a \in Int /\ a = 2 * b /\ Is(Accuracy, D, a)
    BY <1>1, <1>3, <1>5, <1>7
  <1>9. a > 0 /\ b > 0
    <2> HIDE DEF a, b, D
    <2>1. a > 0
      BY <1>6, <1>8, SignIs, AccuracyIsPositive
    <2> QED BY <1>8, <2>1
  <1>10. \A k \in 1 .. n : v[k] \in Int /\ Is(q(k), D, v[k])
    <2> HIDE DEF D
    <2> SUFFICES ASSUME NEW k \in 1 .. n PROVE v[k] \in Int /\ Is(q(k), D, v[k])
      OBVIOUS
    <2>1. k \in 1 .. l /\ f[k] \in Int /\ zs[k] = q(k) /\ v[k] = f[k] * 2
      BY <1>1, <1>3, <1>5
    <2>2. Is(q(k), D, f[k] * 2)
      BY <1>7, <2>1
    <2> QED BY <2>1, <2>2
  <1>w. \A k \in 1 .. n : w[k] = IF IsZero(q(k)) THEN a ELSE v[k]
    <2> HIDE DEF a, v
    <2> QED OBVIOUS
  <1> HIDE DEF D, a, b, v, w
  <1>11. ASSUME NEW k \in 1 .. n
         PROVE  /\ w[k] \in Int /\ Is(ys[k], D, w[k])
                /\ v[k] = w[k] \/ (ys[k] = Accuracy /\ Magnitude(w[k] - v[k]) <= 3 * a)
    <2>1. ys[k] = IF IsZero(q(k)) THEN Accuracy ELSE q(k)
      BY DEF Normalized, q
    <2>2. v[k] \in Int /\ Is(q(k), D, v[k]) /\ w[k] = IF IsZero(q(k)) THEN a ELSE v[k]
      BY <1>10, <1>w
    <2>3. CASE ~IsZero(q(k))
      BY <2>1, <2>2, <2>3
    <2>4. CASE IsZero(q(k))
      <3> DEFINE r == v[k]
                 z == 0
      <3>1. w[k] = a /\ ys[k] = Accuracy /\ Is(ys[k], D, w[k])
        BY <1>8, <2>1, <2>2, <2>4
      <3>2. /\ r \in Int /\ z \in Int /\ b \in Int
            /\ Is(q(k), D, r) /\ Is(Zero, D, z) /\ Is(Accuracy, D, 2 * b)
        <4>1. Is(Zero, D, 0)
          BY <1>6, ThreeHalvesIsRational DEF Is, Zero
        <4> QED BY <1>8, <2>2, <4>1
      <3> HIDE DEF r, z
      <3>3. AreClose(q(k), Zero, Accuracy) <=> Magnitude(r - z) < 3 * b
        BY ONLY <1>6, <3>2, IsClose
      <3>4. Magnitude(r - z) < 3 * b
        BY <2>4, <3>3 DEF IsZero
      <3>5. Magnitude(a - r) <= 3 * a
        BY <1>8, <1>9, <3>2, <3>4 DEF Magnitude, z
      <3> QED BY <1>8, <3>1, <3>5 DEF r
    <2> QED BY <2>3, <2>4
  <1>12. PICK t \in [0 .. n -> Int] : IsSum(t, v, n)
    BY <1>10, SumExists
  <1>13. PICK u \in [0 .. n -> Int] : IsSum(u, w, n)
    BY <1>11, SumExists
  <1> DEFINE c == Count(ys, Accuracy, n)
             x == t[n]
             y == u[n]
             M == D * n
  <1>14. x = M /\ x \in Int
    <2>1. AreQuotients(v, D, xs, m, n)
      BY <1>10 DEF q, AreQuotients
    <2> HIDE DEF q
    <2>2. /\ n \in Nat /\ n > 0 /\ DOMAIN xs = 1 .. n /\ Len(xs) = n
          /\ \A k \in 1 .. n : IsRational(xs[k])
          /\ m = MeanOf(xs) /\ IsRational(m) /\ m[1] # 0
      OBVIOUS
    <2>3. x = M
      BY ONLY <1>6, <1>12, <2>1, <2>2, QuotientsSum
    <2> QED BY <1>12, <2>3
  <1>15. Is(MeanOf(ys), M, y) /\ M \in Nat /\ M > 0 /\ y \in Int
    <2>1. \A k \in 1 .. n : w[k] \in Int /\ Is(ys[k], D, w[k])
      BY <1>11
    <2>2. n \in Nat /\ n > 0 /\ DOMAIN ys = 1 .. n /\ Len(ys) = n
      OBVIOUS
    <2>3. Is(MeanOf(ys), M, y) /\ M \in Nat /\ M > 0
      BY ONLY <1>6, <1>13, <2>1, <2>2, IsMean
    <2> QED BY <1>13, <2>3
  <1>16. c \in Nat /\ Magnitude(y - x) <= (3 * a) * c
    <2>1. 3 * a \in Nat
      BY <1>8, <1>9
    <2> DEFINE d == 3 * a
    <2>2. /\ d \in Nat /\ n \in Nat
          /\ \A k \in 1 .. n :
                /\ v[k] \in Int /\ w[k] \in Int
                /\ (v[k] = w[k]) \/ (ys[k] = Accuracy /\ Magnitude(w[k] - v[k]) <= d)
      BY <1>10, <1>11, <2>1
    <2> HIDE DEF d
    <2>3. c \in Nat /\ Magnitude(y - x) <= d * c
      BY ONLY <1>12, <1>13, <2>2, SumsDiffer
    <2> QED BY <2>3 DEF d
  <1> HIDE DEF c, x, y, M
  <1>17. Is(One, M, M)
    BY <1>15, ThreeHalvesIsRational DEF Is, One
  <1>18. Is(AbsOf(Minus(MeanOf(ys), One)), M, Magnitude(y - x))
    <2>1. M \in Int /\ y - M \in Int
      BY <1>15
    <2>2. Is(Minus(MeanOf(ys), One), M, y - M)
      BY <1>15, <1>17, <2>1, IsDifference
    <2>3. Is(AbsOf(Minus(MeanOf(ys), One)), M, Magnitude(y - M))
      BY <1>15, <2>1, <2>2, IsAbs
    <2> QED BY <1>14, <2>3
  <1>19. Is(Times(Ratio(3 * c, n), Accuracy), M, (3 * a) * c) /\ (3 * a) * c \in Int
    <2>1. 3 * c \in Int
      BY <1>16
    <2>2. Is(Ratio(3 * c, n), n, 3 * c)
      BY <2>1, IsRatio
    <2> DEFINE d == 3 * c
    <2>3. d \in Int /\ Is(Ratio(d, n), n, d) /\ n \in Nat /\ n > 0
      BY <2>1, <2>2
    <2> HIDE DEF d
    <2>4. Is(Times(Ratio(d, n), Accuracy), n * D, d * a) /\ d * a \in Int
      BY ONLY <1>6, <1>8, <2>3, IsProduct
    <2>5. n * D = M
      BY <1>6 DEF M
    <2>6. d * a = (3 * a) * c
      BY <1>8, <1>16 DEF d
    <2> QED BY <2>4, <2>5, <2>6 DEF d
  <1>20. Magnitude(y - x) \in Int
    BY <1>14, <1>15 DEF Magnitude
  <1> DEFINE left == AbsOf(Minus(MeanOf(ys), One))
             right == Times(Ratio(3 * c, n), Accuracy)
             i == Magnitude(y - x)
             j == (3 * a) * c
  <1>21. Is(left, M, i) /\ Is(right, M, j) /\ i \in Int /\ j \in Int /\ i <= j
    BY <1>16, <1>18, <1>19, <1>20
  <1>22. M \in Nat /\ M > 0
    BY <1>15
  <1> HIDE DEF left, right, i, j
  <1>23. Leq(left, right)
    BY ONLY <1>21, <1>22, IsLess
  <1> QED
    BY <1>23 DEF left, right, c

-----------------------------------------------------------------------------
(* No zero is divided by *)

Calculates == \E c \in ToSet(input.generating) : c.kind = "Calc"

\* A value that is a fraction, and no zero if something is calculated
IsUsable(x) == IsRational(x) /\ (Calculates => x[1] # 0)
Usable == \A e \in DOMAIN metrics : \A i \in 1 .. Len(ids) : IsUsable(metrics[e][i])
HasUsable == DividesByNoZero /\ pc \in {"nodes", "edges", "normalize"} => Usable

\* Whether something is divided by zero depends on the input only.
LEMMA DivisionUnchanged ==
    ASSUME UNCHANGED input
    PROVE  /\ DividesByNoZero' = DividesByNoZero /\ Calculates' = Calculates
           /\ \A x : IsUsable(x)' = IsUsable(x)
  BY DEF DividesByNoZero, Calculates, IsUsable

\* What the config and its files give
LEMMA GivenIsUsable ==
    ASSUME NEW x \in Values, Calculates => x # Zero
    PROVE  IsUsable(x)
  <1>1. IsRational(x)
    BY DEF Values
  <1>2. ASSUME x[1] = 0 PROVE x = Zero
    <2>1. Zero[1] = 0 /\ Zero[2] = 1 /\ IsRational(Zero)
      BY ThreeHalvesIsRational DEF Zero
    <2>2. x[1] * Zero[2] = Zero[1] * x[2]
      BY <1>1, <1>2, <2>1, RationalHasParts
    <2> QED BY <1>1, <2>1, <2>2, RationalUnique
  <1> QED
    BY <1>1, <1>2 DEF IsUsable

\* What is converted is no zero unless it was.
LEMMA ConvertedIsUsable ==
    ASSUME NEW from \in UnitInfo, NEW to \in UnitInfo, NEW x, IsUsable(x)
    PROVE  IsUsable(Converted(from, to, x))
  <1>1. CASE "F64" \in {from, to}
    BY <1>1 DEF Converted
  <1>2. CASE "F64" \notin {from, to}
    <2> DEFINE a == x[1]
               b == x[2]
               c == Factor[from]
               d == Factor[to]
               y == Times(x, Ratio(c, d))
    <2>1. c \in Nat /\ c > 0 /\ d \in Nat /\ d > 0
      BY FactorFacts
    <2>2. Is(x, b, a) /\ a \in Int /\ b \in Nat /\ b > 0
      BY IsItself DEF IsUsable
    <2>3. Converted(from, to, x) = y
      BY <1>2 DEF Converted
    <2>4. Calculates => a # 0
      BY DEF IsUsable
    <2> HIDE DEF a, b, c, d
    <2>5. Is(Ratio(c, d), d, c)
      BY <2>1, IsRatio
    <2>6. Is(y, b * d, a * c) /\ b * d \in Nat /\ b * d > 0 /\ a * c \in Int
      BY <2>1, <2>2, <2>5, IsProduct
    <2>7. a # 0 => a * c # 0
      BY <2>1, <2>2
    <2>8. y[1] = 0 <=> a * c = 0
      BY <2>6, SignIs
    <2> HIDE DEF y
    <2> QED BY <2>3, <2>4, <2>6, <2>7, <2>8 DEF IsUsable, Is
  <1> QED
    BY <1>1, <1>2

\* Neither is a quotient,
LEMMA QuotientIsUsable ==
    ASSUME NEW x, NEW y, IsUsable(x), IsUsable(y), Calculates
    PROVE  IsUsable(Over(x, y))
  <1> DEFINE a == x[1]
             b == x[2]
             c == y[1]
             d == y[2]
             s == IF c > 0 THEN 1 ELSE -1
  <1>1. /\ Is(x, b, a) /\ a \in Int /\ b \in Nat /\ b > 0 /\ a # 0
        /\ Is(y, d, c) /\ c \in Int /\ d \in Nat /\ d > 0 /\ c # 0
    BY IsItself DEF IsUsable
  <1> HIDE DEF a, b, c, d
  <1>2. s \in {-1, 1} /\ s * c > 0
    BY <1>1
  <1> HIDE DEF s
  <1>3. /\ Is(Over(x, y), b * (s * c), a * (s * d))
        /\ b * (s * c) \in Nat /\ b * (s * c) > 0 /\ a * (s * d) \in Int
    BY <1>1, <1>2, IsQuotient
  <1>4. a * (s * d) # 0
    <2> DEFINE e == s * d
    <2>1. e \in Int /\ e # 0
      BY <1>1, <1>2
    <2> HIDE DEF e
    <2>2. a * e # 0
      BY <1>1, <2>1
    <2> QED BY <2>2 DEF e
  <1>5. Over(x, y)[1] # 0
    BY <1>3, <1>4, SignIs
  <1> QED
    BY <1>3, <1>5 DEF IsUsable, Is

\* nor what is calculated.
LEMMA CalculatedIsUsable ==
    ASSUME NEW result \in UnitInfo, NEW x, NEW y, IsUsable(x), IsUsable(y), Calculates
    PROVE  IsUsable(Calculated(result, x, y))
  BY QuotientIsUsable, ConvertedIsUsable, FactorFacts DEF Calculated

\* A column that is added is usable if its values are.
LEMMA AddMetricUsable ==
    ASSUME TypeOK, Shape, HasUsable, pc = "edges", next <= Len(input.generating),
           NEW to, to.unit \in UnitInfo, to.id \in STRING, NEW value, AddMetric(to, value),
           DividesByNoZero => \A e \in DOMAIN metrics : IsUsable(value[e])
    PROVE  HasUsable'
  <1> DEFINE n == Len(ids)
  <1>1. /\ ids' = Append(ids, to.id)
        /\ metrics' = [e \in DOMAIN metrics |-> Append(metrics[e], value[e])]
        /\ UNCHANGED <<input, pc>>
    BY DEF AddMetric, AddCategory
  <1>2. n \in Nat /\ Len(ids') = n + 1
    BY <1>1, InputFacts, AppendProperties DEF TypeOK
  <1>3. ASSUME NEW e \in DOMAIN metrics
        PROVE  metrics'[e][n + 1] = value[e] /\ \A i \in 1 .. n : metrics'[e][i] = metrics[e][i]
    <2>1. IsRow(metrics[e], n)
      BY InputFacts DEF Shape
    <2>2. metrics'[e] = Append(metrics[e], value[e])
      BY <1>1
    <2>n. n \in Nat
      BY <1>2
    <2> HIDE DEF n
    <2> DEFINE r == metrics[e]
               v == value[e]
               t == metrics'[e]
    <2>3. IsRow(r, n) /\ Extends(t, r, v)
      BY <2>1, <2>2 DEF Extends
    <2> HIDE DEF r, v, t
    <2>4. t[n + 1] = v /\ \A i \in 1 .. n : t[i] = r[i]
      BY ONLY <2>n, <2>3, RowAppended
    <2> QED BY <2>4 DEF r, v, t
  <1>d. /\ DividesByNoZero' = DividesByNoZero
        /\ \A x : IsUsable(x)' = IsUsable(x)
    BY <1>1, DivisionUnchanged
  <1> SUFFICES ASSUME DividesByNoZero PROVE Usable'
    BY <1>d DEF HasUsable
  <1>5. Usable
    BY DEF HasUsable
  <1> HIDE DEF n
  <1>6. \A i \in 1 .. n + 1 : i \in 1 .. n \/ i = n + 1
    BY <1>2
  <1>8. ASSUME NEW e \in DOMAIN metrics, NEW i \in 1 .. n + 1
        PROVE  IsUsable(metrics'[e][i])
    <2>1. CASE i = n + 1
      BY <1>3, <2>1
    <2>2. CASE i \in 1 .. n
      <3>1. IsUsable(metrics[e][i]) /\ metrics'[e][i] = metrics[e][i]
        BY <1>3, <1>5, <2>2 DEF Usable, n
      <3> QED BY <3>1
    <2> QED BY <1>6, <2>1, <2>2
  <1>9. DOMAIN metrics' = DOMAIN metrics
    BY <1>1
  <1> QED
    BY <1>2, <1>8, <1>9, <1>1 DEF Usable, IsUsable, Calculates

\* Every category that adds a metric adds usable values.
LEMMA GenerateMetricUsable ==
    ASSUME TypeOK, Shape, HasUsable,
           GenerateCustom \/ GenerateHaversine \/ GenerateCopy \/ GenerateCalc
    PROVE  HasUsable'
  <1>1. CASE Err
    BY <1>1 DEF Err, HasUsable
  <1>0. ASSUME pc = "edges" PROVE \A e \in DOMAIN metrics : input.edges[e] \in Edges
    BY <1>0, InputFacts DEF Shape
  <1>a. ASSUME pc = "edges", next <= Len(input.generating) PROVE Current \in ToSet(input.generating)
    BY <1>a, CurrentFacts, InputFacts DEF ToSet, Current
  <1>b. ASSUME pc = "edges", DividesByNoZero, NEW id, HasMetric(id), NEW e \in DOMAIN metrics
        PROVE  IsUsable(metrics[e][IdxOf(id)])
    BY <1>b, IndexFacts DEF HasUsable, Usable
  <1>2. ASSUME GenerateCustom PROVE HasUsable'
    <2>1. pc = "edges" /\ next <= Len(input.generating) /\ Current.kind = "Custom"
      BY <1>2 DEF GenerateCustom, Generates
    <2>2. Current.unit \in UnitInfo /\ Current.id \in STRING /\ Current.default \in Values
      BY <2>1, CurrentFacts, GeneratedFacts
    <2>3. DividesByNoZero /\ Calculates => Current.default # Zero
      BY <1>a, <2>1 DEF DividesByNoZero, Calculates
    <2>4. DividesByNoZero => IsUsable(Current.default)
      BY <2>2, <2>3, GivenIsUsable
    <2> HIDE DEF Current
    <2> QED BY <1>2, <2>1, <2>2, <2>4, AddMetricUsable DEF GenerateCustom
  <1>3. ASSUME GenerateHaversine, ~Err PROVE HasUsable'
    <2>1. pc = "edges" /\ next <= Len(input.generating) /\ Current.kind = "Haversine"
      BY <1>3 DEF GenerateHaversine, Generates
    <2>2. Current.unit \in UnitInfo /\ Current.id \in STRING
      BY <2>1, CurrentFacts, GeneratedFacts
    <2> HIDE DEF Current
    <2> DEFINE value == [e \in DOMAIN metrics |-> input.edges[e].km]
    <2>3. \A e \in DOMAIN metrics : IsUsable(value[e])
      <3> SUFFICES ASSUME NEW e \in DOMAIN metrics PROVE IsUsable(input.edges[e].km)
        OBVIOUS
      <3>1. IsRational(input.edges[e].km) /\ input.edges[e].km[1] > 0
        BY <1>0, <2>1, EdgeFacts
      <3> QED BY <3>1 DEF IsUsable
    <2>4. AddMetric(Current, value)
      BY <1>3, <2>1 DEF GenerateHaversine
    <2> HIDE DEF value
    <2> QED BY <2>1, <2>2, <2>3, <2>4, AddMetricUsable
  <1>4. ASSUME GenerateCopy, ~Err PROVE HasUsable'
    <2>1. /\ pc = "edges" /\ next <= Len(input.generating) /\ Current.kind = "Copy"
          /\ HasMetric(Current.from.id)
      BY <1>4 DEF GenerateCopy, Generates
    <2>2. Current.from \in MetricNames /\ Current.to \in MetricNames
      BY <2>1, CurrentFacts, GeneratedFacts
    <2> DEFINE value == [e \in DOMAIN metrics |-> ConvertedAt(e)]
    <2>4. AddMetric(Current.to, value)
      BY <1>4, <2>1 DEF GenerateCopy
    <2> HIDE DEF Current
    <2>3. /\ Current.from.unit \in UnitInfo /\ Current.to.unit \in UnitInfo
          /\ Current.to.id \in STRING
      BY <2>2 DEF MetricNames
    <2>5. ASSUME DividesByNoZero, NEW e \in DOMAIN metrics PROVE IsUsable(ConvertedAt(e))
      BY <1>b, <2>1, <2>3, <2>5, ConvertedIsUsable DEF ConvertedAt
    <2>6. DividesByNoZero => \A e \in DOMAIN metrics : IsUsable(value[e])
      BY <2>5
    <2> HIDE DEF value
    <2> QED BY <2>1, <2>3, <2>4, <2>6, AddMetricUsable
  <1>5. ASSUME GenerateCalc, ~Err PROVE HasUsable'
    <2> DEFINE a == Current.a
               b == Current.b
               result == Current.result
               valueAt(e) ==
                  Calculated(result.unit, metrics[e][IdxOf(a.id)], metrics[e][IdxOf(b.id)])
               value == [e \in DOMAIN metrics |-> valueAt(e)]
    <2>1. /\ pc = "edges" /\ next <= Len(input.generating) /\ Current.kind = "Calc"
          /\ HasMetric(a.id) /\ HasMetric(b.id) /\ AddMetric(result, value)
      BY <1>5 DEF GenerateCalc, Generates
    <2>2. result \in MetricNames
      BY <2>1, CurrentFacts, GeneratedFacts
    <2>3. Calculates
      BY <1>a, <2>1 DEF Calculates
    <2> HIDE DEF a, b, result, Current
    <2>4. result.unit \in UnitInfo /\ result.id \in STRING
      BY <2>2 DEF MetricNames
    <2>5. ASSUME DividesByNoZero, NEW e \in DOMAIN metrics PROVE IsUsable(valueAt(e))
      BY <1>b, <2>1, <2>3, <2>4, <2>5, CalculatedIsUsable
    <2>6. DividesByNoZero => \A e \in DOMAIN metrics : IsUsable(value[e])
      BY <2>5
    <2> HIDE DEF value
    <2> QED BY <2>1, <2>4, <2>6, AddMetricUsable
  <1> QED
    BY <1>1, <1>2, <1>3, <1>4, <1>5

\* Converting in place keeps values usable,
LEMMA ConvertUsable ==
    ASSUME TypeOK, Shape, HasUsable, Convert
    PROVE  HasUsable'
  <1>1. pc = "edges" /\ next <= Len(input.generating) /\ Current.kind = "Convert"
    BY DEF Convert, Generates
  <1>2. CASE Err
    BY <1>2 DEF Err, HasUsable
  <1>3. ASSUME Converts, HasMetric(Current.from.id) PROVE HasUsable'
    <2> DEFINE i == IdxOf(Current.from.id)
               n == Len(ids)
    <2>1. /\ metrics' = [e \in DOMAIN metrics |-> [metrics[e] EXCEPT ![i] = ConvertedAt(e)]]
          /\ ids' = [ids EXCEPT ![i] = Current.to.id]
          /\ UNCHANGED <<input, pc>>
      BY <1>3 DEF Converts
    <2>2. Current.from \in MetricNames /\ Current.to \in MetricNames
      BY <1>1, CurrentFacts, GeneratedFacts
    <2>3. n \in Nat /\ i \in 1 .. n /\ ids \in Seq(STRING)
      BY <1>3, IndexFacts, InputFacts DEF TypeOK
    <2> HIDE DEF Current
    <2>4. Current.from.unit \in UnitInfo /\ Current.to.unit \in UnitInfo
      BY <2>2 DEF MetricNames
    <2>5. /\ DividesByNoZero' = DividesByNoZero
          /\ \A x : IsUsable(x)' = IsUsable(x)
      BY <2>1, DivisionUnchanged
    <2> SUFFICES ASSUME DividesByNoZero PROVE Usable'
      BY <2>5 DEF HasUsable
    <2>6. Usable
      BY <1>1 DEF HasUsable
    <2>7. Len(ids') = n
      <3> HIDE DEF i
      <3> QED BY <2>1, <2>3
    <2>8. ASSUME NEW e \in DOMAIN metrics, NEW k \in 1 .. n PROVE IsUsable(metrics'[e][k])
      <3>1. IsRow(metrics[e], n)
        BY InputFacts DEF Shape
      <3>2. metrics'[e] = [metrics[e] EXCEPT ![i] = ConvertedAt(e)]
        BY <2>1
      <3>3. IsUsable(metrics[e][k]) /\ IsUsable(metrics[e][i])
        BY <2>3, <2>6 DEF Usable
      <3>4. IsUsable(ConvertedAt(e))
        BY <2>4, <3>3, ConvertedIsUsable DEF ConvertedAt
      <3> HIDE DEF i, n
      <3>5. DOMAIN metrics[e] = 1 .. n
        BY <3>1 DEF IsRow
      <3>6. metrics'[e][k] = IF k = i THEN ConvertedAt(e) ELSE metrics[e][k]
        BY <2>3, <3>2, <3>5
      <3> QED BY <3>3, <3>4, <3>6
    <2>9. DOMAIN metrics' = DOMAIN metrics /\ input' = input
      BY <2>1
    <2> HIDE DEF n, i
    <2> QED BY <2>7, <2>8, <2>9 DEF Usable, IsUsable, Calculates
  <1> QED
    BY <1>2, <1>3 DEF Convert, Converts

\* what the file tells is usable,
LEMMA CheckConfigUsable ==
    ASSUME TypeOK, Shape, CheckConfig
    PROVE  HasUsable'
  <1>1. pc = "check" /\ UNCHANGED <<input, units, ids>>
    BY DEF CheckConfig, cfgVars
  <1>2. CASE pc' = "err"
    BY <1>2 DEF HasUsable
  <1>3. ASSUME pc' # "err" PROVE Usable'
    <2>1. metrics' = [e \in DOMAIN input.edges |->
                         [i \in DOMAIN units |-> Told(input.edges[e], units[i])]]
      BY <1>3 DEF CheckConfig
    <2>2. /\ DOMAIN units = 1 .. Len(ids) /\ \A i \in 1 .. Len(ids) : units[i] \in UnitInfo
          /\ \A e \in DOMAIN input.edges : input.edges[e] \in Edges
      <3>1. units \in Seq(UnitInfo) /\ DOMAIN units = 1 .. Len(ids)
        BY InputFacts DEF TypeOK
      <3>2. \A i \in 1 .. Len(ids) : units[i] \in UnitInfo
        BY <3>1
      <3>3. \A e \in DOMAIN input.edges : input.edges[e] \in Edges
        BY InputFacts
      <3> QED BY <3>1, <3>2, <3>3
    <2>3. ASSUME NEW e \in DOMAIN metrics', NEW i \in 1 .. Len(ids)
          PROVE  IsRational(metrics'[e][i]) /\ metrics'[e][i][1] # 0
      <3>1. metrics'[e][i] = Told(input.edges[e], units[i])
        BY <2>1, <2>2
      <3>2. IsRational(Told(input.edges[e], units[i])) /\ Told(input.edges[e], units[i])[1] > 0
        BY <2>1, <2>2, ToldFacts
      <3> QED BY <3>1, <3>2
    <2> QED BY <1>1, <2>3 DEF Usable, IsUsable
  <1> QED
    BY <1>2, <1>3 DEF HasUsable

\* The last of the columns of a metric is one of them, and what it has is a number.
LEMMA MergedIsUsable ==
    ASSUME TypeOK, MergeLine, ~Err, DividesByNoZero, NEW n, NEW values, IsRow(values, n),
           NEW i \in 1 .. n, IsUsable(values[i])
    PROVE  IsUsable(Merged(values, Current.lines[line])[i])
  <1> DEFINE params == Current.lines[line]
             cols == {k \in MetricColumns : IdxOf(Current.columns[k]) = i}
             IsLast(k) == \A l \in cols : l <= k
             last == CHOOSE k \in cols : IsLast(k)
  <1>1. /\ pc = "edges" /\ next <= Len(input.generating) /\ Current.kind = "Merge"
        /\ line <= Len(Current.lines) /\ IsLineGood(params)
    BY DEF MergeLine, Generates
  <1>2. /\ Current \in Generatable /\ Current.lines \in Seq(Seq(Values \cup {Unparsable}))
        /\ Current.columns \in Seq(STRING)
    BY <1>1, CurrentFacts, GeneratedFacts
  <1>3. Current \in ToSet(input.generating)
    BY <1>1, CurrentFacts, InputFacts DEF ToSet, Current
  <1>4. Calculates => Zero \notin ToSet(params)
    <2>1. Calculates => \A k \in DOMAIN Current.lines : Zero \notin ToSet(Current.lines[k])
      BY <1>1, <1>3 DEF DividesByNoZero, Calculates
    <2> HIDE DEF Current
    <2>2. line \in DOMAIN Current.lines
      BY <1>1, <1>2 DEF TypeOK
    <2> QED BY <2>1, <2>2
  <1>5. params \in Seq(Values \cup {Unparsable})
    <2> HIDE DEF Current
    <2>1. line \in 1 .. Len(Current.lines)
      BY <1>1, <1>2 DEF TypeOK
    <2> QED BY <1>2, <2>1
  <1>6. Merged(values, params)[i] = IF cols = {} THEN values[i] ELSE params[last]
    <2>1. i \in DOMAIN values
      BY DEF IsRow
    <2> HIDE DEF params
    <2> QED BY <2>1 DEF Merged
  <1>7. ASSUME cols # {} PROVE last \in cols
    <2> DEFINE m == Len(Current.columns)
    <2>1. cols \in SUBSET (1 .. m) /\ m \in Nat
      BY <1>2 DEF MetricColumns
    <2> HIDE DEF cols, m
    <2>2. \E k \in cols : IsLast(k)
      BY <1>7, <2>1, LastExists
    <2> HIDE DEF IsLast
    <2> QED BY <2>2
  <1>8. ASSUME NEW k \in cols PROVE IsUsable(params[k])
    <2>1. k \in DOMAIN params /\ params[k] # Unparsable
      BY <1>1 DEF IsLineGood
    <2> HIDE DEF params
    <2>2. params[k] \in Values
      BY <1>5, <2>1
    <2>3. Calculates => params[k] # Zero
      BY <1>4, <1>5, <2>1 DEF ToSet
    <2> QED BY <2>2, <2>3, GivenIsUsable
  <1> HIDE DEF cols, last, params
  <1> QED
    BY <1>6, <1>7, <1>8 DEF params

\* merging puts in the numbers of the file to merge,
LEMMA MergeUsable ==
    ASSUME TypeOK, Shape, HasUsable, MergeLine
    PROVE  HasUsable'
  <1>1. CASE Err
    BY <1>1 DEF Err, HasUsable
  <1>2. CASE ~Err
    <2> DEFINE params == Current.lines[line]
               e == idToIdx[params[EdgeColumn][1]]
    <2>1. /\ metrics' = [metrics EXCEPT ![e] = Merged(metrics[e], params)]
          /\ UNCHANGED <<input, pc, ids>> /\ pc = "edges"
      BY <1>2 DEF MergeLine, Generates, cfgVars
    <2>2. /\ DividesByNoZero' = DividesByNoZero
          /\ \A x : IsUsable(x)' = IsUsable(x)
      BY <2>1, DivisionUnchanged
    <2> SUFFICES ASSUME DividesByNoZero PROVE Usable'
      BY <2>2 DEF HasUsable
    <2>3. Usable
      BY <2>1 DEF HasUsable
    <2>4. ASSUME NEW d \in DOMAIN metrics, NEW i \in 1 .. Len(ids) PROVE IsUsable(metrics'[d][i])
      <3>1. IsUsable(metrics[d][i])
        BY <2>3 DEF Usable
      <3>2. IsRow(metrics[d], Len(ids))
        BY InputFacts DEF Shape
      <3>3. CASE d = e
        <4>1. IsUsable(Merged(metrics[d], params)[i])
          BY <1>2, <3>1, <3>2, MergedIsUsable
        <4> HIDE DEF params, e
        <4> QED BY <2>1, <3>3, <4>1
      <3>4. CASE d # e
        <4> HIDE DEF params, e
        <4> QED BY <2>1, <3>1, <3>4
      <3> QED BY <3>3, <3>4
    <2> HIDE DEF params, e
    <2>5. DOMAIN metrics' = DOMAIN metrics /\ input' = input /\ ids' = ids
      BY <2>1
    <2> QED BY <2>4, <2>5 DEF Usable, IsUsable, Calculates
  <1> QED
    BY <1>1, <1>2

\* and the other steps leave values alone.
LEMMA OtherUsable ==
    ASSUME HasUsable,
           GenerateNode \/ CheckIds \/ GenerateMeta \/ EndMerge \/ EndGenerating
    PROVE  HasUsable'
  <1>1. CASE pc' \in {"err", "done"}
    BY <1>1 DEF HasUsable
  <1>2. CASE pc' \notin {"err", "done"}
    <2>1. UNCHANGED <<input, ids, metrics>> /\ pc \in {"nodes", "edges"}
      BY <1>2 DEF GenerateNode, CheckIds, GenerateMeta, AddCategory, EndMerge, EndGenerating,
                  Err, Generates, cfgVars, graphVars
    <2>2. DividesByNoZero' = DividesByNoZero
      BY <2>1, DivisionUnchanged
    <2>3. Usable' = Usable
      BY <2>1 DEF Usable, IsUsable, Calculates
    <2> QED BY <2>1, <2>2, <2>3 DEF HasUsable
  <1> QED
    BY <1>1, <1>2

\* Normalising makes the mean of a metric 1, apart from what zeros add.
LEMMA NormalizeMeans ==
    ASSUME TypeOK, Shape, HasUsable, Normalize
    PROVE  MeansAreOne'
  <1>1. UNCHANGED <<input, units>> /\ pc = "normalize"
    BY DEF Normalize, Err, cfgVars
  <1>2. DividesByNoZero' = DividesByNoZero
    BY <1>1, DivisionUnchanged
  <1> SUFFICES ASSUME pc' = "done", DividesByNoZero
               PROVE  /\ metrics' # <<>>
                      /\ \A i \in DOMAIN units :
                            Leq(AbsOf(Minus(MeanOf(Column(i)'), One)),
                                Times(Ratio(3 * Cardinality({e \in DOMAIN metrics' :
                                                                metrics'[e][i] = Accuracy}),
                                            Len(input.edges)), Accuracy))
    BY <1>1, <1>2 DEF MeansAreOne
  <1>3. /\ metrics # <<>> /\ \A i \in DOMAIN units : ~IsZero(Mean(i))
        /\ means' = [i \in DOMAIN units |-> Mean(i)]
        /\ metrics' = [e \in DOMAIN metrics |->
                          [i \in DOMAIN units |-> Normalized(metrics[e][i], means'[i])]]
    BY DEF Normalize, Err
  <1>4. Usable /\ DOMAIN units = 1 .. Len(ids)
    BY <1>1, InputFacts DEF HasUsable
  <1> DEFINE n == Len(input.edges)
  <1>5. DOMAIN metrics = 1 .. n /\ n \in Nat
    BY <1>1, InputFacts DEF Shape
  <1>6. n > 0
    <2> SUFFICES ASSUME n = 0 PROVE FALSE
      BY <1>5
    <2>1. DOMAIN metrics = {}
      BY <1>5
    <2>2. metrics = <<>>
      BY <2>1 DEF TypeOK
    <2> QED BY <1>3, <2>2
  <1> HIDE DEF n
  <1>7. metrics' # <<>>
    <2>1. DOMAIN metrics' = DOMAIN metrics /\ 1 \in DOMAIN metrics
      BY <1>3, <1>5, <1>6
    <2> QED BY <2>1
  <1>8. ASSUME NEW i \in DOMAIN units
        PROVE  Leq(AbsOf(Minus(MeanOf(Column(i)'), One)),
                   Times(Ratio(3 * Cardinality({e \in DOMAIN metrics' : metrics'[e][i] = Accuracy}),
                               n), Accuracy))
    <2> DEFINE xs == Column(i)
               ys == Column(i)'
               m == Mean(i)
    <2>1. \A e \in DOMAIN metrics : IsRational(metrics[e][i])
      BY <1>4 DEF Usable, IsUsable
    <2>2. /\ DOMAIN xs = 1 .. n /\ Len(xs) = n /\ IsRational(m) /\ ~IsZero(m)
      BY <1>1, <1>3, <2>1, ColumnFacts DEF n
    <2>3. \A k \in 1 .. n : xs[k] = metrics[k][i] /\ IsRational(xs[k])
      BY <1>5, <2>1 DEF Column
    <2>4. m = MeanOf(xs) /\ m[1] # 0
      BY <2>2, ZeroIsZero DEF Mean
    <2>5. ys = [e \in 1 .. n |-> metrics'[e][i]]
      <3>1. DOMAIN metrics' = 1 .. n
        BY <1>3, <1>5
      <3> QED BY <3>1 DEF Column
    <2>6. \A k \in 1 .. n : metrics'[k][i] = Normalized(metrics[k][i], m)
      BY <1>3, <1>5
    <2>7. {e \in DOMAIN metrics' : metrics'[e][i] = Accuracy} = {j \in 1 .. n : ys[j] = Accuracy}
      <3>1. DOMAIN metrics' = 1 .. n
        BY <1>3, <1>5
      <3>2. \A j \in 1 .. n : ys[j] = metrics'[j][i]
        BY <2>5
      <3> HIDE DEF ys
      <3> QED BY <3>1, <3>2
    <2> HIDE DEF xs, ys, m
    <2>8. DOMAIN ys = 1 .. n /\ Len(ys) = n /\ \A k \in 1 .. n : ys[k] = Normalized(xs[k], m)
      BY <1>5, <2>3, <2>5, <2>6
    <2>9. n \in Nat /\ n > 0
      BY <1>5, <1>6
    <2>10. Leq(AbsOf(Minus(MeanOf(ys), One)), Times(Ratio(3 * Count(ys, Accuracy, n), n), Accuracy))
      <3>1. \A k \in 1 .. n : IsRational(xs[k])
        BY <2>3
      <3> QED BY ONLY <2>2, <2>4, <2>8, <2>9, <3>1, NormalizedMean
    <2>11. Cardinality({e \in DOMAIN metrics' : metrics'[e][i] = Accuracy}) = Count(ys, Accuracy, n)
      BY <2>7 DEF Count
    <2> QED BY <2>10, <2>11 DEF ys
  <1> QED
    BY <1>7, <1>8 DEF n

\* Every step keeps it that values are usable, and that normalised ones have the mean 1.
LEMMA NextMeans ==
    ASSUME TypeOK, Shape, HasUsable, MeansAreOne, [Next]_vars
    PROVE  HasUsable' /\ MeansAreOne'
  <1>1. CASE UNCHANGED vars
    BY <1>1 DEF vars, cfgVars, graphVars, HasUsable, Usable, IsUsable, Calculates, MeansAreOne,
                Column, DividesByNoZero
  <1>2. ASSUME ReadConfig \/ Normalize PROVE HasUsable'
    <2>1. pc' \in {"err", "check", "done"}
      BY <1>2 DEF ReadConfig, Normalize, Err
    <2> QED BY <2>1 DEF HasUsable
  <1>3. HasUsable'
    BY <1>1, <1>2, CheckConfigUsable, GenerateMetricUsable, ConvertUsable, MergeUsable, OtherUsable
       DEF Next, Stopped
  <1>4. ASSUME ReadConfig \/ CheckConfig \/ GenerateNode \/ CheckIds
        PROVE  MeansAreOne'
    <2>1. pc' # "done"
      BY <1>4 DEF ReadConfig, CheckConfig, GenerateNode, CheckIds
    <2> QED BY <2>1 DEF MeansAreOne
  <1>5. ASSUME GenerateMeta \/ GenerateCustom \/ GenerateHaversine \/ GenerateCopy \/ GenerateCalc
        PROVE  MeansAreOne'
    <2>1. pc' # "done"
      BY <1>5 DEF GenerateMeta, GenerateCustom, GenerateHaversine, GenerateCopy, GenerateCalc,
                  AddMetric, AddCategory, Err, Generates
    <2> QED BY <2>1 DEF MeansAreOne
  <1>6. ASSUME Convert \/ MergeLine \/ EndMerge
        PROVE  MeansAreOne'
    <2>1. pc' # "done"
      BY <1>6 DEF Convert, MergeLine, EndMerge, Err, Generates
    <2> QED BY <2>1 DEF MeansAreOne
  <1>7. ASSUME EndGenerating PROVE MeansAreOne'
    <2>1. input' = input /\ pc' = IF input.normalized THEN "normalize" ELSE "done"
      BY <1>7 DEF EndGenerating
    <2> QED BY <2>1 DEF MeansAreOne
  <1> QED
    BY <1>1, <1>3, <1>4, <1>5, <1>6, <1>7, NormalizeMeans DEF Next, Stopped

-----------------------------------------------------------------------------
(* The theorems *)

IInv == TypeOK /\ Shape /\ HasColumns /\ HasCapacity /\ HasTelling /\ UnitsAreRight /\ HasUsable
          /\ MeansAreOne

\* The invariant holds initially,
LEMMA InitIInv == Init => IInv
  <1> SUFFICES ASSUME Init PROVE IInv
    OBVIOUS
  <1>1. pc = "config"
    BY DEF Init
  <1>2. HasColumns /\ HasCapacity /\ HasTelling /\ UnitsAreRight /\ HasUsable /\ MeansAreOne
    BY <1>1 DEF HasColumns, HasCapacity, HasTelling, UnitsAreRight, HasUsable, MeansAreOne
  <1> QED
    BY <1>2, InitTypeCorrect DEF IInv

\* and every step keeps it.
LEMMA NextIInv == IInv /\ [Next]_vars => IInv'
  BY NextTypeCorrect, NextColumns, NextTells, NextMeans DEF IInv

\* The inductive invariant: at each stage of the generation, what the stages before have set, and
\* what the columns are to become.
THEOREM Invariance == Spec => []IInv
  BY InitIInv, NextIInv, PTL DEF Spec

\* In every run for every config, variables keep their types: edge-ids lead to edges and each
\* edge has one value for each metric, whatever is generated, converted or merged.
THEOREM TypeCorrect == Spec => []TypeOK
  BY Invariance, PTL DEF IInv

\* For configs of any length whose names are fresh: categories, units and ids of the graph that is
\* returned describe the same columns in the same order, and they fit into the inline capacity.
THEOREM ColumnsStayAligned == Spec => []ColumnsAgree
  <1>1. IInv => ColumnsAgree
    BY ColumnsDescribed DEF IInv
  <1> QED
    BY <1>1, Invariance, PTL

\* For honest configs with chains of copies, conversions and calculations of any length: each
\* length, time and speed of the graph is that of the file, in its unit.
THEOREM UnitsStayRight == Spec => []UnitsAreRight
  BY Invariance, PTL DEF IInv

\* For any number of edges and any values: a normalised metric has the mean 1, up to three
\* accuracies for each corrected zero, unless a zero was divided by.
THEOREM MeansBecomeOne == Spec => []MeansAreOne
  BY Invariance, PTL DEF IInv
=============================================================================
