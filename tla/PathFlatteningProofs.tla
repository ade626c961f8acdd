------------------------ MODULE PathFlatteningProofs ------------------------
(***************************************************************************)
(* What flattening returns and when it fails, proved for every graph and   *)
(* every path.                                                             *)
(***************************************************************************)
EXTENDS PathFlattening, Foundations, SequenceTheorems

-----------------------------------------------------------------------------
(* Types *)

TypeInv ==
    /\ TypeOK
    /\ pc = "expand" => edgeIdx \in 1 .. Count
    /\ pc = "ok" => oldEdges = <<>>

LEMMA InputFacts ==
    ASSUME NEW in, IsInput(in)
    PROVE  /\ Len(in.halves) \in Nat /\ DOMAIN in.halves = 1 .. Len(in.halves)
           /\ in.metrics \in [1 .. Len(in.halves) -> Nat]
           /\ in.path \in Seq(1 .. Len(in.halves))
           /\ \A e \in 1 .. Len(in.halves) : in.halves[e] # <<>> =>
                 /\ in.halves[e] \in (1 .. Len(in.halves)) \X (1 .. Len(in.halves))
                 /\ in.halves[e][1] \in 1 .. Len(in.halves)
                 /\ in.halves[e][2] \in 1 .. Len(in.halves)
  <1> DEFINE n == Len(in.halves)
             D == DOMAIN in.halves
             T == {<<>>} \cup (D \X D)
  <1>1. in.halves \in Seq(T) /\ in.metrics \in [D -> Nat] /\ in.path \in Seq(D)
    BY DEF IsInput
  <1>2. n \in Nat /\ D = 1 .. n
    <2> HIDE DEF T
    <2> QED BY <1>1, LenProperties
  <1>3. \A e \in 1 .. n : in.halves[e] \in T
    <2> HIDE DEF T
    <2> QED BY <1>1, ElementOfSeq
  <1>4. ASSUME NEW e \in 1 .. n, in.halves[e] # <<>>
        PROVE  /\ in.halves[e] \in (1 .. n) \X (1 .. n)
               /\ in.halves[e][1] \in 1 .. n /\ in.halves[e][2] \in 1 .. n
    <2>1. in.halves[e] \in D \X D
      BY <1>3, <1>4
    <2> QED BY <2>1, <1>2
  <1> QED
    BY <1>1, <1>2, <1>4

LEMMA ReverseFacts ==
    ASSUME NEW S, NEW s \in Seq(S)
    PROVE  /\ Reverse(s) \in Seq(S) /\ Len(Reverse(s)) = Len(s)
           /\ \A i \in 1 .. Len(s) : Reverse(s)[i] = s[(Len(s) - i) + 1]
  <1> DEFINE n == Len(s)
  <1>1. n \in Nat /\ \A i \in 1 .. n : (n - i) + 1 \in 1 .. n /\ s[(n - i) + 1] \in S
    OBVIOUS
  <1>2. Reverse(s) = [i \in 1 .. n |-> s[(n - i) + 1]]
    BY DEF Reverse
  <1>3. Reverse(s) \in [1 .. n -> S]
    BY <1>1, <1>2
  <1> HIDE DEF n
  <1>4. Reverse(s) \in Seq(S) /\ Len(Reverse(s)) = n
    BY <1>1, <1>3
  <1> QED
    BY <1>2, <1>4 DEF n

\* A stack is its rest with its top.
LEMMA StackFacts ==
    ASSUME NEW S, NEW s \in Seq(S), s # <<>>
    PROVE  /\ Front(s) \in Seq(S) /\ Last(s) \in S
           /\ Len(Front(s)) = Len(s) - 1
           /\ s = Append(Front(s), Last(s))
           /\ \A i \in 1 .. Len(Front(s)) : Front(s)[i] = s[i]
  <1>1. PICK r \in Seq(S), e \in S : s = Append(r, e)
    BY SequenceEmptyOrAppend
  <1>2. Len(s) = Len(r) + 1 /\ Len(r) \in Nat /\ s[Len(s)] = e /\ \A i \in 1 .. Len(r) : s[i] = r[i]
    BY <1>1
  <1>3. Last(s) = e
    BY <1>2 DEF Last
  <1>4. Front(s) = r
    <2> DEFINE f == Front(s)
    <2>1. f = SubSeq(s, 1, Len(s) - 1)
      BY DEF Front
    <2>2. \A i \in 1 .. Len(s) - 1 : s[i] \in S
      OBVIOUS
    <2>3. f \in Seq(S) /\ Len(f) = Len(r) /\ \A i \in 1 .. Len(r) : f[i] = s[i]
      <3>1. Len(s) - 1 = Len(r) /\ (Len(s) - 1) - 1 + 1 = Len(r) /\ 1 \in Int /\ Len(s) - 1 \in Int
        BY <1>2
      <3>2. /\ f \in Seq(S)
            /\ Len(f) = IF 1 <= Len(s) - 1 THEN (Len(s) - 1) - 1 + 1 ELSE 0
            /\ \A i \in 1 .. (Len(s) - 1) - 1 + 1 : f[i] = s[1 + i - 1]
        BY <2>1, <2>2, <3>1, SubSeqProperties
      <3> HIDE DEF f
      <3> QED BY <1>2, <3>1, <3>2
    <2> HIDE DEF f
    <2>4. f = r
      BY <1>2, <2>3, SeqEqual
    <2> QED BY <2>4 DEF f
  <1> QED
    BY <1>1, <1>2, <1>3, <1>4

LEMMA InitTypes == Init => TypeInv
  <1> SUFFICES ASSUME Init PROVE TypeInv
    OBVIOUS
  <1>1. IsInput(input)
    BY FlatteningAssumption DEF Init
  <1>2. oldEdges \in Seq(1 .. Count)
    BY <1>1, InputFacts, ReverseFacts DEF Init, Count
  <1> QED
    BY <1>1, <1>2 DEF Init, TypeInv, TypeOK

LEMMA StepTypes == TypeInv /\ [Next]_vars => TypeInv'
  <1> SUFFICES ASSUME TypeInv, [Next]_vars PROVE TypeInv'
    OBVIOUS
  <1> USE DEF TypeInv, TypeOK
  <1>1. /\ Count \in Nat
        /\ \A e \in 1 .. Count : input.metrics[e] \in Nat
        /\ \A e \in 1 .. Count : IsShortcut(e) =>
              input.halves[e][1] \in 1 .. Count /\ input.halves[e][2] \in 1 .. Count
    BY InputFacts DEF Count, IsShortcut
  <1>2. CASE PopEdge
    <2>1. Front(oldEdges) \in Seq(1 .. Count) /\ Last(oldEdges) \in 1 .. Count
      BY <1>2, StackFacts DEF PopEdge
    <2> QED BY <1>1, <1>2, <2>1 DEF PopEdge, Count, IsShortcut
  <1>3. CASE ExpandShortcut
    <2>1. edgeIdx \in 1 .. Count /\ IsShortcut(edgeIdx)
      BY <1>3 DEF ExpandShortcut
    <2>2. WithSecondHalf(edgeIdx) \in Seq(1 .. Count)
      BY <1>1, <2>1, AppendProperties DEF WithSecondHalf
    <2> QED BY <1>1, <1>3, <2>1, <2>2 DEF ExpandShortcut, Count, IsShortcut
  <1>4. CASE PushEdge
    <2> DEFINE Edges == {e \in 1 .. Count : ~IsShortcut(e)}
    <2>1. edgeIdx \in Edges
      BY <1>4 DEF PushEdge
    <2>2. Append(flattened, edgeIdx) \in Seq(Edges)
      <3> HIDE DEF Edges
      <3>1. flattened \in Seq(Edges)
        BY DEF Edges
      <3> QED BY <2>1, <3>1, AppendProperties
    <2>3. costs + input.metrics[edgeIdx] \in Nat
      BY <1>1, <2>1
    <2> QED BY <1>4, <2>2, <2>3 DEF PushEdge, Count, IsShortcut
  <1>5. CASE Return
    BY <1>5 DEF Return, Count, IsShortcut
  <1>6. CASE UNCHANGED vars
    BY <1>6 DEF vars, Count, IsShortcut
  <1> QED
    BY <1>2, <1>3, <1>4, <1>5, <1>6 DEF Next, TryFlatten, Stopped

\* Every variable has its type; only original edges get into the path.
THEOREM FlatteningTypeCorrect == Spec => []TypeOK
  <1>1. Spec => []TypeInv
    BY InitTypes, StepTypes, PTL DEF Spec
  <1>2. TypeInv => TypeOK
    BY DEF TypeInv
  <1> QED
    BY <1>1, <1>2, PTL

-----------------------------------------------------------------------------
(* Costs *)

\* sum holds the costs of the first edges.
Accumulates(sum, graph, edges) ==
    /\ sum[0] = 0
    /\ \A i \in 1 .. Len(edges) : sum[i] = sum[i - 1] + graph.metrics[edges[i]]

LEMMA EdgesFacts ==
    ASSUME NEW graph, IsInput(graph), NEW edges \in Seq(1 .. Len(graph.halves))
    PROVE  /\ Len(edges) \in Nat /\ DOMAIN edges = 1 .. Len(edges)
           /\ \A i \in 1 .. Len(edges) : /\ edges[i] \in 1 .. Len(graph.halves)
                                         /\ graph.metrics[edges[i]] \in Nat
  BY InputFacts

LEMMA CostsExist ==
    ASSUME NEW graph, IsInput(graph), NEW edges \in Seq(1 .. Len(graph.halves))
    PROVE  \E sum \in [0 .. Len(edges) -> Int] : Accumulates(sum, graph, edges)
  <1> DEFINE n == Len(edges)
             w == [i \in 1 .. n |-> graph.metrics[edges[i]]]
  <1>1. n \in Nat /\ \A i \in 1 .. n : w[i] \in Int
    BY EdgesFacts
  <1>2. PICK sum \in [0 .. n -> Int] : IsSum(sum, w, n)
    <2> HIDE DEF n, w
    <2> QED BY <1>1, SumExists
  <1>3. \A i \in 1 .. n : i \in 0 .. n /\ i # 0 /\ w[i] = graph.metrics[edges[i]]
    OBVIOUS
  <1>4. 0 \in 0 .. n
    BY <1>1
  <1> HIDE DEF n, w
  <1>5. sum[0] = 0 /\ \A i \in 1 .. n : sum[i] = sum[i - 1] + graph.metrics[edges[i]]
    BY <1>2, <1>3, <1>4 DEF IsSum
  <1> QED
    BY <1>2, <1>5 DEF Accumulates, n

LEMMA CostsAre ==
    ASSUME NEW graph, IsInput(graph), NEW edges \in Seq(1 .. Len(graph.halves)),
           NEW sum, Accumulates(sum, graph, edges)
    PROVE  CalcCosts(graph, edges) = sum[Len(edges)]
  <1> DEFINE n == Len(edges)
             w == [i \in 1 .. n |-> graph.metrics[edges[i]]]
             step == [p \in (1 .. n) \X Int |-> p[2] + w[p[1]]]
             IsIter(f) == f = [s \in SUBSET (1 .. n) |->
                                  IF s = {} THEN 0
                                  ELSE f[s \ {Max(s)}] + graph.metrics[edges[Max(s)]]]
             iter == CHOOSE f : IsIter(f)
  <1>1. /\ n \in Nat /\ DOMAIN edges = 1 .. n
        /\ \A i \in 1 .. n : w[i] \in Int /\ w[i] = graph.metrics[edges[i]]
    BY EdgesFacts
  <1>2. CalcCosts(graph, edges) = iter[1 .. n]
    <2>1. DOMAIN edges = 1 .. n
      BY <1>1
    <2> QED
      BY <2>1 DEF CalcCosts, FoldLeft, MapThenFoldSet
  <1>3. sum[0] = 0 /\ \A i \in 1 .. n : sum[i] = sum[i - 1] + w[i]
    BY <1>1 DEF Accumulates
  <1> HIDE DEF n, w
  <1>4. step \in [(1 .. n) \X Int -> Int] /\ \A i \in 1 .. n, x \in Int : step[<<i, x>>] = x + w[i]
    BY <1>1
  <1> HIDE DEF step
  <1>5. IsIter(iter)
    <2>1. PICK f : IsSequenceFold(f, n, Int, 0, step)
      <3>1. 0 \in Int
        OBVIOUS
      <3> QED BY <1>1, <1>4, <3>1, SequenceFoldExists
    <2>2. /\ f \in [SUBSET (1 .. n) -> Int]
          /\ \A s \in SUBSET (1 .. n) :
                f[s] = IF s = {} THEN 0 ELSE step[<<Max(s), f[s \ {Max(s)}]>>]
      BY <2>1 DEF IsSequenceFold
    <2>3. ASSUME NEW s \in SUBSET (1 .. n)
          PROVE  f[s] = IF s = {} THEN 0 ELSE f[s \ {Max(s)}] + graph.metrics[edges[Max(s)]]
      <3>1. CASE s = {}
        BY <2>2, <3>1
      <3>2. CASE s # {}
        <4>1. Max(s) \in 1 .. n
          BY <3>2, <1>1, MaxFacts
        <4>2. f[s \ {Max(s)}] \in Int
          BY <2>2
        <4>3. f[s] = step[<<Max(s), f[s \ {Max(s)}]>>]
          BY <2>2, <3>2
        <4>4. step[<<Max(s), f[s \ {Max(s)}]>>] = f[s \ {Max(s)}] + w[Max(s)]
          BY <1>4, <4>1, <4>2
        <4>5. w[Max(s)] = graph.metrics[edges[Max(s)]]
          BY <1>1, <4>1
        <4> QED
          BY <3>2, <4>3, <4>4, <4>5
      <3> QED
        BY <3>1, <3>2
    <2>4. IsIter(f)
      BY <2>2, <2>3
    <2> HIDE DEF IsIter
    <2> QED
      BY <2>4
  <1> DEFINE N == {k \in Nat : k <= n => iter[1 .. k] = sum[k]}
  <1>6. 0 \in N
    <2>1. 1 .. 0 = {} /\ {} \in SUBSET (1 .. n)
      OBVIOUS
    <2>2. iter[{}] = 0
      <3> HIDE DEF iter
      <3> QED BY <1>5, <2>1
    <2> QED BY <2>1, <2>2, <1>3
  <1>7. ASSUME NEW k \in Nat, k \in N PROVE k + 1 \in N
    <2> DEFINE m == k + 1
    <2> SUFFICES ASSUME m <= n PROVE iter[1 .. m] = sum[m]
      OBVIOUS
    <2>1. iter[1 .. k] = sum[k] /\ m \in 1 .. n /\ m - 1 = k
      BY <1>1, <1>7
    <2> HIDE DEF m, iter
    <2>2. /\ Max(1 .. m) = m
          /\ 1 .. m # {} /\ 1 .. m \in SUBSET (1 .. n) /\ (1 .. m) \ {m} = 1 .. m - 1
      BY <1>1, <2>1, MaxFacts
    <2>3. iter[1 .. m] = iter[1 .. m - 1] + graph.metrics[edges[m]]
      BY <1>5, <2>2
    <2>4. graph.metrics[edges[m]] = w[m]
      BY <1>1, <2>1
    <2> QED BY <1>3, <2>1, <2>3, <2>4
  <1>8. \A k \in Nat : k \in N
    <2> HIDE DEF N
    <2> QED BY <1>6, <1>7, NaturalsAreInductive
  <1> QED
    <2>1. n \in N
      BY <1>1, <1>8
    <2> QED BY <1>1, <1>2, <2>1 DEF n

\* No edges cost nothing; another edge adds its metric; the order does not matter.
LEMMA EmptyCosts ==
    ASSUME NEW graph, IsInput(graph)
    PROVE  CalcCosts(graph, <<>>) = 0
  <1>1. <<>> \in Seq(1 .. Len(graph.halves)) /\ Len(<<>>) = 0
    OBVIOUS
  <1>2. PICK sum \in [0 .. Len(<<>>) -> Int] : Accumulates(sum, graph, <<>>)
    BY <1>1, CostsExist
  <1> QED
    BY <1>1, <1>2, CostsAre DEF Accumulates

LEMMA AppendCosts ==
    ASSUME NEW graph, IsInput(graph), NEW edges \in Seq(1 .. Len(graph.halves)),
           NEW e \in 1 .. Len(graph.halves)
    PROVE  CalcCosts(graph, Append(edges, e)) = CalcCosts(graph, edges) + graph.metrics[e]
  <1> DEFINE more == Append(edges, e)
             n == Len(edges)
  <1>1. /\ more \in Seq(1 .. Len(graph.halves)) /\ Len(more) = n + 1 /\ n \in Nat
        /\ \A i \in 1 .. n : more[i] = edges[i]
        /\ more[n + 1] = e
    BY AppendProperties
  <1> HIDE DEF more
  <1>2. PICK sum \in [0 .. Len(more) -> Int] : Accumulates(sum, graph, more)
    BY <1>1, CostsExist
  <1>3. sum[0] = 0 /\ \A i \in 1 .. n + 1 : sum[i] = sum[i - 1] + graph.metrics[more[i]]
    BY <1>1, <1>2 DEF Accumulates
  <1>4. Accumulates(sum, graph, edges)
    <2>1. \A i \in 1 .. n : i \in 1 .. n + 1
      BY <1>1
    <2> QED BY <1>1, <1>3, <2>1 DEF Accumulates
  <1>5. n + 1 \in 1 .. n + 1 /\ n + 1 - 1 = n
    BY <1>1
  <1>6. sum[n + 1] = sum[n] + graph.metrics[e]
    BY <1>1, <1>3, <1>5
  <1>7. CalcCosts(graph, more) = sum[n + 1] /\ CalcCosts(graph, edges) = sum[n]
    BY <1>1, <1>2, <1>4, CostsAre
  <1> QED
    BY <1>6, <1>7 DEF more

LEMMA CostsAreNumbers ==
    ASSUME NEW graph, IsInput(graph), NEW edges \in Seq(1 .. Len(graph.halves))
    PROVE  CalcCosts(graph, edges) \in Int
  <1>1. PICK sum \in [0 .. Len(edges) -> Int] : Accumulates(sum, graph, edges)
    BY CostsExist
  <1>2. Len(edges) \in 0 .. Len(edges)
    OBVIOUS
  <1> QED
    BY <1>1, <1>2, CostsAre

LEMMA ReverseCosts ==
    ASSUME NEW graph, IsInput(graph), NEW edges \in Seq(1 .. Len(graph.halves))
    PROVE  CalcCosts(graph, Reverse(edges)) = CalcCosts(graph, edges)
  <1> DEFINE n == Len(edges)
             q == Reverse(edges)
             w(e) == graph.metrics[e]
  <1>1. /\ q \in Seq(1 .. Len(graph.halves)) /\ Len(q) = n /\ n \in Nat
        /\ \A i \in 1 .. n : q[i] = edges[(n - i) + 1]
    BY ReverseFacts
  <1>2. PICK f \in [0 .. n -> Int] : Accumulates(f, graph, edges)
    BY CostsExist
  <1>3. f[0] = 0 /\ \A i \in 1 .. n : f[i] = f[i - 1] + w(edges[i]) /\ w(edges[i]) \in Nat
    BY <1>2, EdgesFacts DEF Accumulates
  <1> DEFINE h == [i \in 0 .. n |-> f[n] - f[n - i]]
  <1> HIDE DEF q, n, w
  <1>4. ASSUME NEW i \in 1 .. n PROVE h[i] = h[i - 1] + w(q[i])
    <2> DEFINE j == (n - i) + 1
    <2>1. /\ j \in 1 .. n /\ n - i = j - 1 /\ n - (i - 1) = j /\ i \in 0 .. n /\ i - 1 \in 0 .. n
          /\ j - 1 \in 0 .. n /\ j \in 0 .. n /\ n \in 0 .. n
      BY <1>1
    <2>2. q[i] = edges[j]
      BY <1>1
    <2>3. h[i] = f[n] - f[j - 1] /\ h[i - 1] = f[n] - f[j]
      BY <2>1
    <2>4. f[j] = f[j - 1] + w(edges[j]) /\ w(edges[j]) \in Nat
      BY <1>3, <2>1
    <2>5. f[j] \in Int /\ f[j - 1] \in Int /\ f[n] \in Int
      BY <1>2, <2>1
    <2> HIDE DEF h, j
    <2> QED BY <2>2, <2>3, <2>4, <2>5
  <1>5. h[0] = 0 /\ h[n] = f[n]
    <2>1. n \in 0 .. n /\ 0 \in 0 .. n /\ n - 0 = n /\ n - n = 0 /\ f[n] \in Int
      BY <1>1, <1>2
    <2>2. h[0] = f[n] - f[n] /\ h[n] = f[n] - f[0]
      BY <2>1
    <2> HIDE DEF h
    <2> QED BY <1>3, <2>1, <2>2
  <1> HIDE DEF h
  <1>6. Accumulates(h, graph, q)
    BY <1>1, <1>4, <1>5 DEF Accumulates, w
  <1>7. CalcCosts(graph, q) = h[n] /\ CalcCosts(graph, edges) = f[n]
    BY <1>1, <1>2, <1>6, CostsAre DEF n
  <1> QED
    BY <1>5, <1>7 DEF q

\* The costs so far are those of what is flattened, and with the edge at hand and the stack those
\* of the whole path.
AllCosts == IF pc = "expand" THEN costs + input.metrics[edgeIdx] + CalcCosts(input, oldEdges)
                             ELSE costs + CalcCosts(input, oldEdges)

CostsInv ==
    /\ TypeInv
    /\ costs = CalcCosts(input, flattened)
    /\ HalvesAddUp /\ pc # "err" => AllCosts = CalcCosts(input, input.path)

LEMMA InitCosts == Init => CostsInv
  <1> SUFFICES ASSUME Init PROVE CostsInv
    OBVIOUS
  <1>1. TypeInv /\ IsInput(input) /\ input.path \in Seq(1 .. Len(input.halves))
    BY InitTypes, InputFacts DEF TypeInv, TypeOK
  <1>2. CalcCosts(input, <<>>) = 0 /\ CalcCosts(input, Reverse(input.path)) = CalcCosts(input, input.path)
    BY <1>1, EmptyCosts, ReverseCosts
  <1>3. CalcCosts(input, input.path) \in Int
    BY <1>1, CostsAreNumbers
  <1> QED
    BY <1>1, <1>2, <1>3 DEF Init, CostsInv, AllCosts

LEMMA StepCosts == CostsInv /\ [Next]_vars => CostsInv'
  <1> SUFFICES ASSUME CostsInv, [Next]_vars PROVE CostsInv'
    OBVIOUS
  <1> DEFINE n == Len(input.halves)
             Costs(edges) == CalcCosts(input, edges)
  <1>1. TypeInv' /\ TypeInv
    BY StepTypes DEF CostsInv
  <1>2. /\ IsInput(input) /\ oldEdges \in Seq(1 .. n) /\ flattened \in Seq(1 .. n)
        /\ costs \in Nat /\ edgeIdx \in Nat
        /\ pc = "expand" => edgeIdx \in 1 .. n
    <2>1. flattened \in Seq({e \in 1 .. n : ~IsShortcut(e)})
      BY <1>1 DEF TypeInv, TypeOK, Count
    <2>2. flattened \in Seq(1 .. n)
      BY <2>1, SeqMonotonic
    <2> QED BY <1>1, <2>2 DEF TypeInv, TypeOK, Count
  <1>3. /\ n \in Nat
        /\ \A e \in 1 .. n : input.metrics[e] \in Nat
        /\ \A e \in 1 .. n : IsShortcut(e) => input.halves[e][1] \in 1 .. n /\ input.halves[e][2] \in 1 .. n
    BY <1>2, InputFacts DEF IsShortcut
  <1>4. Costs(oldEdges) \in Int /\ Costs(flattened) \in Int
    BY <1>2, CostsAreNumbers
  <1>5. input' = input
    BY DEF Next, TryFlatten, PopEdge, ExpandShortcut, PushEdge, Return, Stopped, vars
  <1>6. HalvesAddUp' <=> HalvesAddUp
    BY <1>5 DEF HalvesAddUp, IsShortcut
  <1>7. costs = Costs(flattened) /\ (HalvesAddUp /\ pc # "err" => AllCosts = Costs(input.path))
    BY DEF CostsInv
  <1> SUFFICES /\ costs' = Costs(flattened')
               /\ HalvesAddUp /\ pc' # "err" =>
                     Costs(input.path) = costs' + (IF pc' = "expand" THEN input.metrics[edgeIdx'] ELSE 0)
                                           + Costs(oldEdges')
    <2>1. /\ costs' = Costs(flattened')
          /\ HalvesAddUp /\ pc' # "err" =>
                Costs(input.path) = costs' + (IF pc' = "expand" THEN input.metrics[edgeIdx'] ELSE 0)
                                      + Costs(oldEdges')
      OBVIOUS
    <2>2. costs' \in Int /\ Costs(oldEdges') \in Int
      <3>1. oldEdges' \in Seq(1 .. n) /\ costs' \in Nat
        BY <1>1, <1>5 DEF TypeInv, TypeOK, Count
      <3> QED BY <1>2, <3>1, CostsAreNumbers
    <2>3. AllCosts' = IF pc' = "expand" THEN costs' + input.metrics[edgeIdx'] + Costs(oldEdges')
                                        ELSE costs' + Costs(oldEdges')
      BY <1>5 DEF AllCosts
    <2>4. CalcCosts(input, flattened)' = Costs(flattened') /\ CalcCosts(input, input.path)' = Costs(input.path)
      BY <1>5
    <2> QED BY <1>1, <1>6, <2>1, <2>2, <2>3, <2>4 DEF CostsInv
  <1>8. CASE PopEdge
    <2> DEFINE rest == Front(oldEdges)
               top == Last(oldEdges)
    <2>1. /\ rest \in Seq(1 .. n) /\ top \in 1 .. n /\ oldEdges = Append(rest, top)
      BY <1>2, <1>8, StackFacts DEF PopEdge
    <2>2. pc = "pop" /\ edgeIdx' = top /\ oldEdges' = rest /\ costs' = costs /\ flattened' = flattened
          /\ pc' = "expand"
      BY <1>8 DEF PopEdge
    <2> HIDE DEF rest, top
    <2>3. Costs(oldEdges) = Costs(rest) + input.metrics[top]
      BY <1>2, <2>1, AppendCosts
    <2>4. Costs(rest) \in Int /\ input.metrics[top] \in Int
      BY <1>2, <1>3, <2>1, CostsAreNumbers
    <2> HIDE DEF Costs, n
    <2> QED BY <1>2, <1>7, <2>2, <2>3, <2>4 DEF AllCosts, Costs
  <1>9. CASE ExpandShortcut
    <2> DEFINE first == input.halves[edgeIdx][1]
               second == input.halves[edgeIdx][2]
    <2>1. /\ pc = "expand" /\ IsShortcut(edgeIdx) /\ costs' = costs /\ flattened' = flattened
          /\ edgeIdx' = first /\ oldEdges' = Append(oldEdges, second)
          /\ pc' = "err" \/ pc' = "expand"
      BY <1>9 DEF ExpandShortcut, WithSecondHalf
    <2>2. first \in 1 .. n /\ second \in 1 .. n /\ edgeIdx \in 1 .. n
      BY <1>2, <1>3, <2>1
    <2>3. HalvesAddUp => input.metrics[edgeIdx] = input.metrics[first] + input.metrics[second]
      <3>1. DOMAIN input.halves = 1 .. n
        BY <1>2, InputFacts
      <3> QED BY <2>1, <2>2, <3>1 DEF HalvesAddUp
    <2> HIDE DEF first, second
    <2>4. Costs(oldEdges') = Costs(oldEdges) + input.metrics[second]
      BY <1>2, <2>1, <2>2, AppendCosts
    <2>5. input.metrics[first] \in Int /\ input.metrics[second] \in Int
      BY <1>3, <2>2
    <2> HIDE DEF Costs, n
    <2> QED BY <1>2, <1>4, <1>7, <2>1, <2>3, <2>4, <2>5 DEF AllCosts, Costs
  <1>10. CASE PushEdge
    <2>1. /\ pc = "expand" /\ costs' = costs + input.metrics[edgeIdx]
          /\ flattened' = Append(flattened, edgeIdx) /\ pc' = "pop" /\ oldEdges' = oldEdges
      BY <1>10 DEF PushEdge
    <2>2. Costs(flattened') = Costs(flattened) + input.metrics[edgeIdx]
      BY <1>2, <2>1, AppendCosts
    <2>3. input.metrics[edgeIdx] \in Int
      BY <1>2, <1>3, <2>1
    <2> HIDE DEF Costs, n
    <2> QED BY <1>2, <1>4, <1>7, <2>1, <2>2, <2>3 DEF AllCosts, Costs
  <1>11. CASE Return
    <2>1. /\ pc = "pop" /\ pc' = "ok" /\ costs' = costs /\ flattened' = flattened /\ oldEdges' = oldEdges
      BY <1>11 DEF Return
    <2> HIDE DEF Costs, n
    <2> QED BY <1>2, <1>4, <1>7, <2>1 DEF AllCosts, Costs
  <1>12. CASE UNCHANGED vars
    <2>1. pc' = pc /\ costs' = costs /\ flattened' = flattened /\ oldEdges' = oldEdges /\ edgeIdx' = edgeIdx
      BY <1>12 DEF vars
    <2>2. pc = "expand" => input.metrics[edgeIdx] \in Int
      BY <1>2, <1>3
    <2> HIDE DEF Costs, n
    <2> QED BY <1>2, <1>4, <1>7, <2>1, <2>2 DEF AllCosts, Costs
  <1> QED
    BY <1>8, <1>9, <1>10, <1>11, <1>12 DEF Next, TryFlatten, Stopped

\* Flattening counts the costs of the edges it returns, and, when a shortcut's metric is the sum
\* of its halves' metrics, the costs of the path that was given.
THEOREM CostsAgreeSafe == Spec => []CostsAgree
  <1>1. Spec => []CostsInv
    BY InitCosts, StepCosts, PTL DEF Spec
  <1>2. CostsInv => CostsAgree
    <2> SUFFICES ASSUME CostsInv, pc = "ok"
                 PROVE  /\ costs = CalcCosts(input, flattened)
                        /\ HalvesAddUp => costs = CalcCosts(input, input.path)
      BY DEF CostsAgree
    <2>1. oldEdges = <<>> /\ IsInput(input) /\ costs \in Nat
      BY DEF CostsInv, TypeInv, TypeOK
    <2>2. CalcCosts(input, oldEdges) = 0
      BY <2>1, EmptyCosts
    <2> QED BY <2>1, <2>2 DEF CostsInv, AllCosts
  <1> QED
    BY <1>1, <1>2, PTL

-----------------------------------------------------------------------------
(* Flattening sequences *)

\* parts holds the first sequences of ss, one after the other.
Joins(parts, ss) ==
    /\ parts[1] = ss[1]
    /\ \A i \in 2 .. Len(ss) : parts[i] = parts[i - 1] \o ss[i]

LEMMA FlattenExists ==
    ASSUME NEW S, NEW ss \in Seq(Seq(S)), ss # <<>>
    PROVE  \E parts \in [1 .. Len(ss) -> Seq(S)] : Joins(parts, ss)
  <1> DEFINE n == Len(ss)
             T == Seq(S)
             step == [p \in (0 .. n) \X T |-> IF p[1] = 0 THEN <<>> ELSE p[2] \o ss[p[1]]]
  <1>1. n \in Nat /\ \A i \in 1 .. n : ss[i] \in T
    BY LenProperties, ElementOfSeq
  <1>2. <<>> \in T /\ \A s, t \in T : s \o t \in T /\ <<>> \o s = s
    BY EmptySeq, ConcatProperties, ConcatEmptySeq
  <1> HIDE DEF n, T
  <1>3. step \in [(0 .. n) \X T -> T]
    <2> SUFFICES ASSUME NEW i \in 0 .. n, NEW s \in T
                 PROVE  (IF i = 0 THEN <<>> ELSE s \o ss[i]) \in T
      OBVIOUS
    <2>1. i # 0 => i \in 1 .. n
      BY <1>1
    <2> QED BY <1>1, <1>2, <2>1
  <1>4. \A i \in 1 .. n, s \in T : step[<<i, s>>] = s \o ss[i]
    <2> SUFFICES ASSUME NEW i \in 1 .. n, NEW s \in T PROVE step[<<i, s>>] = s \o ss[i]
      OBVIOUS
    <2>1. i \in 0 .. n /\ i # 0
      BY <1>1
    <2> QED BY <2>1
  <1> HIDE DEF step
  <1>5. PICK f \in [0 .. n -> T] : Iterates(f, n, <<>>, step)
    BY <1>1, <1>2, <1>3, IterationExists
  <1>6. \A i \in 1 .. n : i \in 0 .. n /\ i - 1 \in 0 .. n /\ f[i] \in T /\ f[i - 1] \in T
    BY <1>1, <1>5
  <1>7. \A i \in 1 .. n : f[i] = f[i - 1] \o ss[i]
    BY <1>4, <1>5, <1>6 DEF Iterates
  <1> DEFINE parts == [i \in 1 .. n |-> f[i]]
  <1>8. parts \in [1 .. n -> T]
    BY <1>6
  <1>9. ASSUME NEW i \in 2 .. n PROVE parts[i] = parts[i - 1] \o ss[i]
    <2>1. i \in 1 .. n /\ i - 1 \in 1 .. n
      BY <1>1
    <2> QED BY <1>7, <2>1
  <1>10. parts[1] = ss[1]
    <2>1. 1 \in 1 .. n /\ 1 - 1 = 0
      BY <1>1
    <2>2. f[1] = f[0] \o ss[1] /\ f[0] = <<>> /\ ss[1] \in T
      BY <1>1, <1>5, <1>7, <2>1 DEF Iterates
    <2> QED BY <1>2, <2>1, <2>2
  <1> HIDE DEF parts
  <1>11. Joins(parts, ss)
    BY <1>9, <1>10 DEF Joins, n
  <1> QED
    BY <1>8, <1>11 DEF n, T

LEMMA FlattenIs ==
    ASSUME NEW S, NEW ss \in Seq(Seq(S)), ss # <<>>,
           NEW parts \in [1 .. Len(ss) -> Seq(S)], Joins(parts, ss)
    PROVE  FlattenSeq(ss) = parts[Len(ss)] /\ FlattenSeq(ss) \in Seq(S)
  <1> DEFINE n == Len(ss)
             IsFlat(f) == f = [i \in 1 .. n |-> IF i = 1 THEN ss[i] ELSE f[i - 1] \o ss[i]]
             flat == CHOOSE f : IsFlat(f)
  <1>1. n \in Nat /\ n # 0
    BY LenProperties, EmptySeq
  <1>2. FlattenSeq(ss) = flat[n]
    BY <1>1 DEF FlattenSeq
  <1>3. \A i \in 1 .. n : parts[i] = IF i = 1 THEN ss[i] ELSE parts[i - 1] \o ss[i]
    <2> SUFFICES ASSUME NEW i \in 1 .. n
                 PROVE  parts[i] = IF i = 1 THEN ss[i] ELSE parts[i - 1] \o ss[i]
      OBVIOUS
    <2>1. i # 1 => i \in 2 .. n
      BY <1>1
    <2> QED BY <2>1 DEF Joins
  <1>4. IsFlat(parts)
    <2>1. parts = [i \in 1 .. n |-> parts[i]]
      OBVIOUS
    <2> QED BY <1>3, <2>1
  <1>5. IsFlat(flat)
    <2> HIDE DEF IsFlat
    <2> QED BY <1>4
  <1> HIDE DEF n
  <1>6. \A i \in 1 .. n : flat[i] = IF i = 1 THEN ss[i] ELSE flat[i - 1] \o ss[i]
    <2> HIDE DEF flat
    <2> QED BY <1>5
  <1> HIDE DEF flat
  <1> DEFINE N == {k \in Nat : k + 1 <= n => flat[k + 1] = parts[k + 1]}
  <1>7. 0 \in N
    <2>1. 1 \in 1 .. n
      BY <1>1
    <2> QED BY <1>3, <1>6, <2>1
  <1>8. ASSUME NEW k \in Nat, k \in N PROVE k + 1 \in N
    <2> SUFFICES ASSUME (k + 1) + 1 <= n PROVE flat[(k + 1) + 1] = parts[(k + 1) + 1]
      OBVIOUS
    <2> DEFINE m == (k + 1) + 1
    <2>1. m \in 1 .. n /\ m # 1 /\ m - 1 = k + 1 /\ flat[k + 1] = parts[k + 1]
      BY <1>1, <1>8
    <2> HIDE DEF m
    <2>2. flat[m] = parts[m]
      BY <1>3, <1>6, <2>1
    <2> QED BY <2>2 DEF m
  <1>9. \A k \in Nat : k \in N
    <2> HIDE DEF N
    <2> QED BY <1>7, <1>8, NaturalsAreInductive
  <1>10. flat[n] = parts[n]
    <2>1. n - 1 \in Nat /\ (n - 1) + 1 = n
      BY <1>1
    <2>2. n - 1 \in N
      <3> HIDE DEF N
      <3> QED BY <1>9, <2>1
    <2>3. (n - 1) + 1 <= n => flat[(n - 1) + 1] = parts[(n - 1) + 1]
      BY <2>2
    <2> QED BY <1>1, <2>1, <2>3
  <1>11. parts[n] \in Seq(S)
    <2>1. n \in 1 .. n
      BY <1>1
    <2> QED BY <2>1 DEF n
  <1> QED
    BY <1>2, <1>10, <1>11 DEF n

LEMMA ConsFacts ==
    ASSUME NEW T, NEW t \in T, NEW ss \in Seq(T)
    PROVE  /\ <<t>> \o ss \in Seq(T) /\ <<t>> \o ss # <<>>
           /\ Len(<<t>> \o ss) = Len(ss) + 1 /\ Len(ss) \in Nat
           /\ (<<t>> \o ss)[1] = t
           /\ \A i \in 2 .. Len(ss) + 1 : (<<t>> \o ss)[i] = ss[i - 1] /\ i - 1 \in 1 .. Len(ss)
  <1>1. <<t>> \in Seq(T) /\ Len(<<t>>) = 1 /\ <<t>>[1] = t
    OBVIOUS
  <1>2. /\ <<t>> \o ss \in Seq(T) /\ Len(<<t>> \o ss) = 1 + Len(ss)
        /\ \A i \in 1 .. 1 + Len(ss) :
              (<<t>> \o ss)[i] = IF i <= 1 THEN <<t>>[i] ELSE ss[i - 1]
    BY <1>1, ConcatProperties
  <1>3. Len(ss) \in Nat
    BY LenProperties
  <1>4. \A i \in 2 .. Len(ss) + 1 : i \in 1 .. 1 + Len(ss) /\ ~(i <= 1) /\ i - 1 \in 1 .. Len(ss)
    BY <1>3
  <1>5. 1 \in 1 .. 1 + Len(ss)
    BY <1>3
  <1>6. <<t>> \o ss # <<>>
    BY <1>2, <1>3, EmptySeq
  <1> QED
    BY <1>1, <1>2, <1>3, <1>4, <1>5, <1>6

\* What is flattened begins with the first sequence.
LEMMA FlattenCons ==
    ASSUME NEW S, NEW t \in Seq(S), NEW ss \in Seq(Seq(S))
    PROVE  FlattenSeq(<<t>> \o ss) = t \o FlattenSeq(ss) /\ FlattenSeq(ss) \in Seq(S)
  <1> DEFINE T == Seq(S)
             n == Len(ss)
             tt == <<t>> \o ss
  <1>1. /\ tt \in Seq(T) /\ tt # <<>> /\ Len(tt) = n + 1 /\ n \in Nat /\ tt[1] = t
        /\ \A i \in 2 .. n + 1 : tt[i] = ss[i - 1] /\ i - 1 \in 1 .. n
    <2> HIDE DEF T
    <2>1. t \in T /\ ss \in Seq(T)
      BY DEF T
    <2> QED BY <2>1, ConsFacts
  <1>2. CASE ss = <<>>
    <2> DEFINE parts == [i \in 1 .. 1 |-> t]
    <2>1. n = 0 /\ Len(tt) = 1
      BY <1>1, <1>2
    <2>2. parts \in [1 .. 1 -> T] /\ parts[1] = t
      OBVIOUS
    <2> HIDE DEF tt, parts, n
    <2>3. Joins(parts, tt)
      BY <1>1, <2>1, <2>2 DEF Joins
    <2>4. FlattenSeq(tt) = t
      BY <1>1, <2>1, <2>2, <2>3, FlattenIs
    <2>5. FlattenSeq(ss) = <<>>
      BY <1>2, EmptySeq DEF FlattenSeq
    <2>6. t \o <<>> = t /\ <<>> \in Seq(S)
      BY ConcatEmptySeq, EmptySeq
    <2> QED BY <2>4, <2>5, <2>6 DEF tt
  <1>3. CASE ss # <<>>
    <2>1. PICK parts \in [1 .. n -> T] : Joins(parts, ss)
      BY <1>3, FlattenExists
    <2>2. FlattenSeq(ss) = parts[n] /\ FlattenSeq(ss) \in Seq(S)
      BY <1>3, <2>1, FlattenIs
    <2>3. n # 0
      BY <1>3, EmptySeq
    <2>4. \A i \in 1 .. n : ss[i] \in T
      BY ElementOfSeq
    <2>5. parts[1] = ss[1] /\ \A i \in 2 .. n : parts[i] = parts[i - 1] \o ss[i]
      BY <2>1 DEF Joins
    <2>6. \A a, b \in T : a \o b \in T
      BY ConcatProperties
    <2>7. \A a, b, c \in T : (a \o b) \o c = a \o (b \o c)
      BY ConcatAssociative
    <2> DEFINE more == [i \in 1 .. n + 1 |-> IF i = 1 THEN t ELSE t \o parts[i - 1]]
    <2>8. t \in T
      OBVIOUS
    <2>d. T = Seq(S)
      OBVIOUS
    <2> HIDE DEF T, n, tt
    <2>9. more \in [1 .. n + 1 -> T]
      <3> SUFFICES ASSUME NEW i \in 1 .. n + 1, i # 1 PROVE t \o parts[i - 1] \in T
        BY <2>8
      <3>1. i - 1 \in 1 .. n
        BY <1>1
      <3> QED BY <2>1, <2>6, <2>8, <3>1
    <2>10. ASSUME NEW i \in 2 .. n + 1 PROVE more[i] = more[i - 1] \o tt[i]
      <3>1. i \in 1 .. n + 1 /\ i # 1 /\ i - 1 \in 1 .. n + 1 /\ i - 1 \in 1 .. n
        BY <1>1
      <3>2. more[i] = t \o parts[i - 1] /\ tt[i] = ss[i - 1]
        BY <1>1, <3>1
      <3>3. CASE i = 2
        <4>1. i - 1 = 1
          BY <3>3
        <4>2. more[i - 1] = t
          BY <3>1, <4>1
        <4> QED BY <2>5, <3>2, <4>1, <4>2
      <3>4. CASE i # 2
        <4>1. i - 1 \in 2 .. n /\ i - 1 # 1 /\ (i - 1) - 1 \in 1 .. n
          BY <1>1, <3>4
        <4>2. more[i - 1] = t \o parts[(i - 1) - 1]
          BY <3>1, <4>1
        <4>3. parts[i - 1] = parts[(i - 1) - 1] \o ss[i - 1]
          BY <2>5, <4>1
        <4>4. ss[i - 1] \in T /\ parts[(i - 1) - 1] \in T
          BY <2>1, <2>4, <3>1, <4>1
        <4>5. (t \o parts[(i - 1) - 1]) \o ss[i - 1] = t \o (parts[(i - 1) - 1] \o ss[i - 1])
          BY <2>7, <2>8, <4>4
        <4> QED BY <3>2, <4>2, <4>3, <4>5
      <3> QED BY <3>3, <3>4
    <2>11. more[1] = t /\ more[n + 1] = t \o parts[n]
      <3>1. 1 \in 1 .. n + 1 /\ n + 1 \in 1 .. n + 1 /\ n + 1 # 1 /\ n + 1 - 1 = n
        BY <1>1, <2>3
      <3>2. more[1] = t
        BY <3>1
      <3>3. more[n + 1] = t \o parts[(n + 1) - 1]
        BY <3>1
      <3>4. (n + 1) - 1 = n
        BY <1>1
      <3> QED BY <3>2, <3>3, <3>4
    <2> HIDE DEF more
    <2>12. Joins(more, tt)
      BY <1>1, <2>10, <2>11 DEF Joins
    <2>13. FlattenSeq(tt) = more[n + 1]
      BY <1>1, <2>9, <2>12, <2>d, FlattenIs
    <2> QED BY <2>2, <2>11, <2>13 DEF tt
  <1> QED
    BY <1>2, <1>3

LEMMA ReverseAppend ==
    ASSUME NEW S, NEW s \in Seq(S), NEW e \in S
    PROVE  Reverse(Append(s, e)) = <<e>> \o Reverse(s)
  <1> DEFINE n == Len(s)
             a == Append(s, e)
             r == Reverse(s)
             left == Reverse(a)
             right == <<e>> \o r
  <1>1. /\ a \in Seq(S) /\ Len(a) = n + 1 /\ n \in Nat
        /\ \A i \in 1 .. n : a[i] = s[i]
        /\ a[n + 1] = e
    BY AppendProperties
  <1>2. r \in Seq(S) /\ Len(r) = n /\ \A i \in 1 .. n : r[i] = s[(n - i) + 1]
    BY ReverseFacts
  <1>3. /\ left \in Seq(S) /\ Len(left) = n + 1
        /\ \A i \in 1 .. n + 1 : left[i] = a[((n + 1) - i) + 1]
    <2> HIDE DEF a
    <2> QED BY <1>1, ReverseFacts
  <1>4. /\ right \in Seq(S) /\ Len(right) = n + 1 /\ right[1] = e
        /\ \A i \in 2 .. n + 1 : right[i] = r[i - 1] /\ i - 1 \in 1 .. n
    <2> HIDE DEF r
    <2> QED BY <1>2, ConsFacts
  <1> HIDE DEF n, a, r, left, right
  <1>5. ASSUME NEW i \in 1 .. n + 1 PROVE left[i] = right[i]
    <2>1. CASE i = 1
      <3>1. ((n + 1) - i) + 1 = n + 1
        BY <1>1, <2>1
      <3>2. left[i] = a[n + 1]
        BY <1>3, <3>1
      <3> QED BY <1>1, <1>4, <2>1, <3>2
    <2>2. CASE i # 1
      <3> DEFINE k == (n - (i - 1)) + 1
      <3>1. i \in 2 .. n + 1 /\ i - 1 \in 1 .. n /\ k \in 1 .. n /\ ((n + 1) - i) + 1 = k
        BY <1>1, <2>2
      <3> HIDE DEF k
      <3>2. left[i] = a[k] /\ a[k] = s[k]
        BY <1>1, <1>3, <3>1
      <3>3. right[i] = r[i - 1] /\ r[i - 1] = s[k]
        BY <1>2, <1>4, <3>1 DEF k
      <3> QED BY <3>2, <3>3
    <2> QED BY <2>1, <2>2
  <1>6. left = right
    BY <1>3, <1>4, <1>5, SeqEqual
  <1> QED
    BY <1>6 DEF left, right, a, r

-----------------------------------------------------------------------------
(* Leaves *)

LeavesUpTo(leaves, graph) ==
    leaves = [depth \in 0 .. Len(graph.halves) |->
                [f \in DOMAIN graph.halves |->
                    IF graph.halves[f] = <<>> THEN <<f>>
                    ELSE IF depth = 0 THEN <<>>
                    ELSE leaves[depth - 1][graph.halves[f][1]] \o leaves[depth - 1][graph.halves[f][2]]]]

\* What the reference computes for every depth.
AreLeaves(leaves, graph) ==
    \A f \in 1 .. Len(graph.halves) :
        /\ \A depth \in 0 .. Len(graph.halves) :
              /\ leaves[depth][f] \in Seq(1 .. Len(graph.halves))
              /\ graph.halves[f] = <<>> => leaves[depth][f] = <<f>>
        /\ \A depth \in 1 .. Len(graph.halves) : graph.halves[f] # <<>> =>
              leaves[depth][f]
                = leaves[depth - 1][graph.halves[f][1]] \o leaves[depth - 1][graph.halves[f][2]]

LEMMA LeavesExist ==
    ASSUME NEW graph, IsInput(graph)
    PROVE  \E leaves : LeavesUpTo(leaves, graph)
  <1> DEFINE n == Len(graph.halves)
             E == 1 .. n
             T == [E -> Seq(E)]
             base == [f \in E |-> IF graph.halves[f] = <<>> THEN <<f>> ELSE <<>>]
             step == [p \in (0 .. n) \X T |->
                        [f \in E |-> IF graph.halves[f] = <<>> THEN <<f>>
                                     ELSE p[2][graph.halves[f][1]] \o p[2][graph.halves[f][2]]]]
  <1>1. /\ n \in Nat /\ DOMAIN graph.halves = E
        /\ \A f \in E : graph.halves[f] # <<>> => graph.halves[f][1] \in E /\ graph.halves[f][2] \in E
    BY InputFacts
  <1>2. /\ \A f \in E : <<f>> \in Seq(E)
        /\ <<>> \in Seq(E)
        /\ \A s, t \in Seq(E) : s \o t \in Seq(E)
    BY EmptySeq, ConcatProperties
  <1> HIDE DEF n, E
  <1>3. base \in T
    BY <1>2
  <1>4. step \in [(0 .. n) \X T -> T]
    <2> SUFFICES ASSUME NEW g \in T, NEW f \in E
                 PROVE  (IF graph.halves[f] = <<>> THEN <<f>>
                         ELSE g[graph.halves[f][1]] \o g[graph.halves[f][2]]) \in Seq(E)
      OBVIOUS
    <2> QED BY <1>1, <1>2
  <1>5. \A i \in 1 .. n, g \in T : step[<<i, g>>] =
                        [f \in E |-> IF graph.halves[f] = <<>> THEN <<f>>
                                     ELSE g[graph.halves[f][1]] \o g[graph.halves[f][2]]]
    <2> SUFFICES ASSUME NEW i \in 1 .. n, NEW g \in T
                 PROVE step[<<i, g>>] =
                        [f \in E |-> IF graph.halves[f] = <<>> THEN <<f>>
                                     ELSE g[graph.halves[f][1]] \o g[graph.halves[f][2]]]
      OBVIOUS
    <2>1. i \in 0 .. n
      BY <1>1
    <2> HIDE DEF T
    <2> QED BY <2>1
  <1>d. T = [E -> Seq(E)] /\ base = [f \in E |-> IF graph.halves[f] = <<>> THEN <<f>> ELSE <<>>]
    OBVIOUS
  <1> HIDE DEF T, base, step
  <1>6. PICK leaves \in [0 .. n -> T] : Iterates(leaves, n, base, step)
    BY <1>1, <1>3, <1>4, IterationExists
  <1>7. ASSUME NEW depth \in 0 .. n
        PROVE  leaves[depth] =
                  [f \in E |-> IF graph.halves[f] = <<>> THEN <<f>>
                               ELSE IF depth = 0 THEN <<>>
                               ELSE leaves[depth - 1][graph.halves[f][1]]
                                      \o leaves[depth - 1][graph.halves[f][2]]]
    <2>1. CASE depth = 0
      <3>1. leaves[depth] = base
        BY <1>6, <2>1 DEF Iterates
      <3> QED BY <1>d, <2>1, <3>1
    <2>2. CASE depth # 0
      <3>1. depth \in 1 .. n /\ depth - 1 \in 0 .. n /\ leaves[depth - 1] \in T
        BY <1>1, <1>6, <2>2
      <3>2. leaves[depth] = step[<<depth, leaves[depth - 1]>>]
        BY <1>6, <3>1 DEF Iterates
      <3>3. step[<<depth, leaves[depth - 1]>>] =
                  [f \in E |-> IF graph.halves[f] = <<>> THEN <<f>>
                               ELSE leaves[depth - 1][graph.halves[f][1]]
                                      \o leaves[depth - 1][graph.halves[f][2]]]
        BY <1>5, <3>1
      <3> QED BY <2>2, <3>2, <3>3
    <2> QED BY <2>1, <2>2
  <1>8. leaves = [depth \in 0 .. n |->
                  [f \in E |-> IF graph.halves[f] = <<>> THEN <<f>>
                               ELSE IF depth = 0 THEN <<>>
                               ELSE leaves[depth - 1][graph.halves[f][1]]
                                      \o leaves[depth - 1][graph.halves[f][2]]]]
    <2>1. leaves = [depth \in 0 .. n |-> leaves[depth]]
      BY <1>6
    <2> QED BY <1>7, <2>1
  <1> QED
    BY <1>1, <1>8 DEF LeavesUpTo, n

LEMMA LeavesAre ==
    ASSUME NEW graph, IsInput(graph)
    PROVE  \E leaves : /\ AreLeaves(leaves, graph)
                       /\ \A e \in 1 .. Len(graph.halves) :
                             Leaves(graph, e) = leaves[Len(graph.halves)][e]
  <1> DEFINE n == Len(graph.halves)
             Solves(f) == LeavesUpTo(f, graph)
             leaves == CHOOSE f : Solves(f)
  <1>1. Solves(leaves)
    <2>1. \E f : Solves(f)
      BY LeavesExist
    <2> HIDE DEF Solves
    <2> QED BY <2>1
  <1>2. \A e \in 1 .. n : Leaves(graph, e) = leaves[n][e]
    BY DEF Leaves, LeavesUpTo
  <1>3. /\ n \in Nat /\ DOMAIN graph.halves = 1 .. n
        /\ \A f \in 1 .. n : graph.halves[f] # <<>> =>
              graph.halves[f][1] \in 1 .. n /\ graph.halves[f][2] \in 1 .. n
    BY InputFacts
  <1> HIDE DEF leaves, n
  <1>4. \A depth \in 0 .. n : leaves[depth] =
                [f \in 1 .. n |->
                    IF graph.halves[f] = <<>> THEN <<f>>
                    ELSE IF depth = 0 THEN <<>>
                    ELSE leaves[depth - 1][graph.halves[f][1]] \o leaves[depth - 1][graph.halves[f][2]]]
    BY <1>1, <1>3 DEF LeavesUpTo, n
  <1>5. \A depth \in 0 .. n, f \in 1 .. n : leaves[depth][f] =
                    IF graph.halves[f] = <<>> THEN <<f>>
                    ELSE IF depth = 0 THEN <<>>
                    ELSE leaves[depth - 1][graph.halves[f][1]] \o leaves[depth - 1][graph.halves[f][2]]
    BY <1>4
  <1>6. /\ \A f \in 1 .. n : <<f>> \in Seq(1 .. n)
        /\ <<>> \in Seq(1 .. n)
        /\ \A s, t \in Seq(1 .. n) : s \o t \in Seq(1 .. n)
    BY EmptySeq, ConcatProperties
  <1> DEFINE N == {k \in Nat : k <= n => \A f \in 1 .. n : leaves[k][f] \in Seq(1 .. n)}
  <1>7. 0 \in N
    <2>1. 0 \in 0 .. n
      BY <1>3
    <2> QED BY <1>5, <1>6, <2>1
  <1>8. ASSUME NEW k \in Nat, k \in N PROVE k + 1 \in N
    <2> SUFFICES ASSUME k + 1 <= n, NEW f \in 1 .. n PROVE leaves[k + 1][f] \in Seq(1 .. n)
      OBVIOUS
    <2>1. k + 1 \in 0 .. n /\ k + 1 # 0 /\ (k + 1) - 1 = k
      BY <1>3
    <2>2. \A g \in 1 .. n : leaves[k][g] \in Seq(1 .. n)
      BY <1>3, <1>8
    <2>3. leaves[k + 1][f] = IF graph.halves[f] = <<>> THEN <<f>>
                             ELSE leaves[k][graph.halves[f][1]] \o leaves[k][graph.halves[f][2]]
      BY <1>5, <2>1
    <2> QED BY <1>3, <1>6, <2>2, <2>3
  <1>9. \A k \in Nat : k \in N
    <2> HIDE DEF N
    <2> QED BY <1>7, <1>8, NaturalsAreInductive
  <1>10. ASSUME NEW f \in 1 .. n, NEW depth \in 0 .. n
         PROVE  /\ leaves[depth][f] \in Seq(1 .. n)
                /\ graph.halves[f] = <<>> => leaves[depth][f] = <<f>>
    <2>1. depth \in Nat /\ depth <= n
      BY <1>3
    <2> QED BY <1>5, <1>9, <2>1
  <1>11. ASSUME NEW f \in 1 .. n, NEW depth \in 1 .. n, graph.halves[f] # <<>>
         PROVE  leaves[depth][f]
                  = leaves[depth - 1][graph.halves[f][1]] \o leaves[depth - 1][graph.halves[f][2]]
    <2>1. depth \in 0 .. n /\ depth # 0
      BY <1>3
    <2> QED BY <1>5, <1>11, <2>1
  <1>12. AreLeaves(leaves, graph)
    BY <1>10, <1>11 DEF AreLeaves, n
  <1> QED
    BY <1>2, <1>12 DEF n

LEMMA LeavesFacts ==
    ASSUME NEW graph, IsInput(graph), NEW e \in 1 .. Len(graph.halves)
    PROVE  /\ Leaves(graph, e) \in Seq(1 .. Len(graph.halves))
           /\ graph.halves[e] = <<>> => Leaves(graph, e) = <<e>>
  <1>1. Len(graph.halves) \in 0 .. Len(graph.halves)
    BY InputFacts
  <1> QED
    BY <1>1, LeavesAre DEF AreLeaves

\* The leaves of edges, in their order.
LEMMA PartsFacts ==
    ASSUME NEW graph, IsInput(graph), NEW edges \in Seq(1 .. Len(graph.halves)),
           NEW parts, parts = [i \in DOMAIN edges |-> Leaves(graph, edges[i])]
    PROVE  /\ parts \in Seq(Seq(1 .. Len(graph.halves))) /\ Len(parts) = Len(edges)
           /\ \A i \in 1 .. Len(edges) : parts[i] = Leaves(graph, edges[i])
  <1> DEFINE E == 1 .. Len(graph.halves)
             T == Seq(E)
             n == Len(edges)
  <1>1. \A f \in E : Leaves(graph, f) \in T
    BY LeavesFacts
  <1>2. n \in Nat /\ DOMAIN edges = 1 .. n /\ \A i \in 1 .. n : edges[i] \in E
    BY LenProperties, ElementOfSeq
  <1> HIDE DEF T, n
  <1>3. parts \in [1 .. n -> T] /\ DOMAIN parts = 1 .. n /\ \A i \in 1 .. n : parts[i] = Leaves(graph, edges[i])
    BY <1>1, <1>2
  <1>4. parts \in Seq(T) /\ Len(parts) = n
    BY <1>2, <1>3
  <1> QED
    BY <1>3, <1>4 DEF T, n

LEMMA UnfoldedType ==
    ASSUME NEW graph, IsInput(graph), NEW edges \in Seq(1 .. Len(graph.halves))
    PROVE  Unfolded(graph, <<>>) = <<>> /\ Unfolded(graph, edges) \in Seq(1 .. Len(graph.halves))
  <1>1. Unfolded(graph, <<>>) = <<>>
    <2> DEFINE none == [i \in DOMAIN <<>> |-> Leaves(graph, <<>>[i])]
    <2>1. none = <<>>
      OBVIOUS
    <2>2. Unfolded(graph, <<>>) = FlattenSeq(none)
      BY DEF Unfolded
    <2>3. FlattenSeq(<<>>) = <<>>
      BY EmptySeq DEF FlattenSeq
    <2> QED BY <2>1, <2>2, <2>3
  <1>2. Unfolded(graph, edges) \in Seq(1 .. Len(graph.halves))
    <2> DEFINE parts == [i \in DOMAIN edges |-> Leaves(graph, edges[i])]
               E == 1 .. Len(graph.halves)
    <2>1. Unfolded(graph, edges) = FlattenSeq(parts)
      BY DEF Unfolded
    <2>2. parts \in Seq(Seq(E)) /\ <<>> \in Seq(E)
      <3>1. parts = [i \in DOMAIN edges |-> Leaves(graph, edges[i])]
        OBVIOUS
      <3> HIDE DEF parts
      <3>2. parts \in Seq(Seq(1 .. Len(graph.halves)))
        BY <3>1, PartsFacts
      <3> QED BY <3>2, EmptySeq
    <2> HIDE DEF parts, E
    <2>3. FlattenSeq(parts) \in Seq(E)
      BY <2>2, FlattenCons
    <2> QED BY <2>1, <2>3 DEF E
  <1> QED
    BY <1>1, <1>2

LEMMA UnfoldedCons ==
    ASSUME NEW graph, IsInput(graph), NEW edges \in Seq(1 .. Len(graph.halves)),
           NEW e \in 1 .. Len(graph.halves)
    PROVE  Unfolded(graph, <<e>> \o edges) = Leaves(graph, e) \o Unfolded(graph, edges)
  <1> DEFINE E == 1 .. Len(graph.halves)
             T == Seq(E)
             n == Len(edges)
             parts == [i \in DOMAIN edges |-> Leaves(graph, edges[i])]
             more == <<e>> \o edges
             left == [i \in DOMAIN more |-> Leaves(graph, more[i])]
             right == <<Leaves(graph, e)>> \o parts
  <1>1. \A f \in E : Leaves(graph, f) \in T
    BY LeavesFacts
  <1>2. n \in Nat /\ DOMAIN edges = 1 .. n /\ \A i \in 1 .. n : edges[i] \in E
    BY LenProperties, ElementOfSeq
  <1>3. parts \in Seq(T) /\ Len(parts) = n /\ \A i \in 1 .. n : parts[i] = Leaves(graph, edges[i])
    <2>1. parts = [i \in DOMAIN edges |-> Leaves(graph, edges[i])]
      OBVIOUS
    <2> HIDE DEF parts
    <2> QED BY <2>1, PartsFacts
  <1>4. /\ more \in Seq(E) /\ Len(more) = n + 1 /\ more[1] = e /\ DOMAIN more = 1 .. n + 1
        /\ \A i \in 2 .. n + 1 : more[i] = edges[i - 1] /\ i - 1 \in 1 .. n
    <2>1. /\ more \in Seq(E) /\ Len(more) = n + 1 /\ more[1] = e
          /\ \A i \in 2 .. n + 1 : more[i] = edges[i - 1] /\ i - 1 \in 1 .. n
      BY ConsFacts
    <2>2. DOMAIN more = 1 .. Len(more)
      BY <2>1, LenProperties
    <2> QED BY <2>1, <2>2
  <1>5. /\ right \in Seq(T) /\ Len(right) = n + 1 /\ right[1] = Leaves(graph, e)
        /\ \A i \in 2 .. n + 1 : right[i] = parts[i - 1]
    <2>1. Leaves(graph, e) \in T /\ parts \in Seq(T) /\ Len(parts) = n
      BY <1>1, <1>3
    <2> HIDE DEF parts, T
    <2> QED BY <2>1, ConsFacts
  <1>6. left = right
    <2>1. \A i \in 1 .. n + 1 : left[i] = Leaves(graph, more[i])
      BY <1>4
    <2>2. left \in Seq(T) /\ Len(left) = n + 1
      <3>1. \A i \in 1 .. n + 1 : more[i] \in E
        <4> HIDE DEF more, n
        <4> QED BY <1>4, ElementOfSeq
      <3>2. left \in [1 .. n + 1 -> T]
        <4> HIDE DEF more, T
        <4> QED BY <1>1, <1>4, <3>1
      <3>3. DOMAIN left = 1 .. n + 1
        BY <1>4
      <3> HIDE DEF left, T, n
      <3> QED BY <1>2, <3>2, <3>3
    <2> HIDE DEF left, right, parts, more, n, T
    <2>3. ASSUME NEW i \in 1 .. n + 1 PROVE left[i] = right[i]
      <3>1. CASE i = 1
        BY <1>4, <1>5, <2>1, <3>1
      <3>2. CASE i # 1
        <4>1. i \in 2 .. n + 1
          BY <1>2, <3>2
        <4>2. right[i] = parts[i - 1] /\ more[i] = edges[i - 1] /\ i - 1 \in 1 .. n
          BY <1>4, <1>5, <4>1
        <4> QED BY <1>3, <2>1, <4>2
      <3> QED BY <3>1, <3>2
    <2> QED BY <1>5, <2>2, <2>3, SeqEqual
  <1>7. FlattenSeq(right) = Leaves(graph, e) \o FlattenSeq(parts)
    <2>1. Leaves(graph, e) \in Seq(E) /\ parts \in Seq(Seq(E))
      BY <1>1, <1>3
    <2> HIDE DEF parts, E
    <2> QED BY <2>1, FlattenCons
  <1>8. Unfolded(graph, more) = FlattenSeq(left) /\ Unfolded(graph, edges) = FlattenSeq(parts)
    BY DEF Unfolded
  <1> QED
    BY <1>6, <1>7, <1>8

-----------------------------------------------------------------------------
(* The edges below an edge *)

\* Nothing below the edges of S is missing.
IsClosed(graph, S) == \A f \in S : ToSet(graph.halves[f]) \subseteq S

Halves(graph, S) == UNION {ToSet(graph.halves[f]) : f \in S}

\* below[k] is what e stands for over at most k + 1 shortcuts.
IsBelow(below, graph, e) ==
    /\ \A k \in 0 .. Len(graph.halves) : below[k] \in SUBSET (1 .. Len(graph.halves))
    /\ below[0] = ToSet(graph.halves[e])
    /\ \A k \in 1 .. Len(graph.halves) :
          below[k] = below[k - 1] \cup Halves(graph, below[k - 1])

LEMMA HalvesFacts ==
    ASSUME NEW graph, IsInput(graph), NEW e \in 1 .. Len(graph.halves)
    PROVE  /\ ToSet(graph.halves[e]) \subseteq 1 .. Len(graph.halves)
           /\ graph.halves[e] = <<>> <=> ToSet(graph.halves[e]) = {}
           /\ graph.halves[e] # <<>> =>
                 ToSet(graph.halves[e]) = {graph.halves[e][1], graph.halves[e][2]}
  <1> DEFINE n == Len(graph.halves)
             h == graph.halves[e]
  <1>1. CASE h = <<>>
    BY <1>1 DEF ToSet
  <1>2. CASE h # <<>>
    <2>1. h \in (1 .. n) \X (1 .. n)
      BY <1>2, InputFacts
    <2>2. PICK a \in 1 .. n, b \in 1 .. n : h = <<a, b>>
      BY <2>1
    <2>3. ToSet(<<a, b>>) = {a, b}
      BY DEF ToSet
    <2>4. h[1] = a /\ h[2] = b
      BY <2>2
    <2> HIDE DEF h
    <2> QED BY <1>2, <2>2, <2>3, <2>4 DEF h
  <1> QED
    BY <1>1, <1>2

BelowUpTo(below, graph, e) ==
    below = [k \in 0 .. Len(graph.halves) |->
                IF k = 0 THEN ToSet(graph.halves[e])
                ELSE LET upper == below[k - 1]
                     IN  upper \cup UNION {ToSet(graph.halves[f]) : f \in upper}]

LEMMA BelowIs ==
    ASSUME NEW graph, IsInput(graph), NEW e \in 1 .. Len(graph.halves)
    PROVE  \E below : /\ IsBelow(below, graph, e)
                      /\ Below(graph, e) = below[Len(graph.halves)]
  <1> DEFINE n == Len(graph.halves)
             T == SUBSET (1 .. n)
             base == ToSet(graph.halves[e])
             step == [p \in (0 .. n) \X T |-> p[2] \cup Halves(graph, p[2])]
             Solves(f) == BelowUpTo(f, graph, e)
             below == CHOOSE f : Solves(f)
  <1>1. Below(graph, e) = below[n]
    BY DEF Below, BelowUpTo
  <1>2. n \in Nat /\ base \in T /\ \A S \in T : S \cup Halves(graph, S) \in T
    <2>1. \A f \in 1 .. n : ToSet(graph.halves[f]) \subseteq 1 .. n
      BY HalvesFacts
    <2>2. n \in Nat
      BY InputFacts
    <2> QED BY <2>1, <2>2 DEF Halves
  <1>3. step \in [(0 .. n) \X T -> T]
    BY <1>2
  <1>4. \A i \in 1 .. n, S \in T : step[<<i, S>>] = S \cup Halves(graph, S)
    <2> SUFFICES ASSUME NEW i \in 1 .. n, NEW S \in T PROVE step[<<i, S>>] = S \cup Halves(graph, S)
      OBVIOUS
    <2>1. i \in 0 .. n
      BY <1>2
    <2> HIDE DEF T
    <2> QED BY <2>1
  <1>d. T = SUBSET (1 .. n)
    OBVIOUS
  <1>5. \E f : Solves(f)
    <2> HIDE DEF T, base, step, n
    <2>1. PICK f \in [0 .. n -> T] : Iterates(f, n, base, step)
      BY <1>2, <1>3, IterationExists
    <2>2. f[0] = base
      BY <2>1 DEF Iterates
    <2>3. ASSUME NEW i \in 1 .. n PROVE f[i] = f[i - 1] \cup Halves(graph, f[i - 1])
      <3>1. i - 1 \in 0 .. n
        BY <1>2
      <3>2. f[i - 1] \in T
        BY <2>1, <3>1
      <3> QED BY <1>4, <2>1, <3>2 DEF Iterates
    <2>4. ASSUME NEW k \in 0 .. n
          PROVE  f[k] = IF k = 0 THEN base ELSE f[k - 1] \cup Halves(graph, f[k - 1])
      <3>1. k = 0 \/ k \in 1 .. n
        BY <1>2
      <3> QED BY <2>2, <2>3, <3>1
    <2>5. f = [k \in 0 .. n |-> IF k = 0 THEN base ELSE f[k - 1] \cup Halves(graph, f[k - 1])]
      <3>1. f = [k \in 0 .. n |-> f[k]]
        BY <2>1
      <3> QED BY <2>4, <3>1
    <2>6. Solves(f)
      BY <2>5 DEF BelowUpTo, Halves, n, base
    <2> QED BY <2>6
  <1>6. Solves(below)
    <2> HIDE DEF Solves
    <2> QED BY <1>5
  <1> HIDE DEF below, n, T, base
  <1>7. \A k \in 0 .. n : below[k] = IF k = 0 THEN base ELSE below[k - 1] \cup Halves(graph, below[k - 1])
    BY <1>6 DEF BelowUpTo, Halves, n, base
  <1>8. below[0] = base
    <2>1. 0 \in 0 .. n
      BY <1>2
    <2> QED BY <1>7, <2>1
  <1>9. ASSUME NEW k \in 1 .. n PROVE below[k] = below[k - 1] \cup Halves(graph, below[k - 1])
    <2>1. k \in 0 .. n /\ k # 0
      BY <1>2
    <2> QED BY <1>7, <2>1
  <1> DEFINE N == {k \in Nat : k <= n => below[k] \in T}
  <1>10. 0 \in N
    BY <1>2, <1>8
  <1>11. ASSUME NEW k \in Nat, k \in N PROVE k + 1 \in N
    <2> SUFFICES ASSUME k + 1 <= n PROVE below[k + 1] \in T
      OBVIOUS
    <2>1. k + 1 \in 1 .. n /\ (k + 1) - 1 = k /\ below[k] \in T
      BY <1>2, <1>11
    <2> QED BY <1>2, <1>9, <2>1
  <1>12. \A k \in Nat : k \in N
    <2> HIDE DEF N
    <2> QED BY <1>10, <1>11, NaturalsAreInductive
  <1>13. \A k \in 0 .. n : below[k] \in SUBSET (1 .. n)
    BY <1>12, <1>2, <1>d
  <1>14. IsBelow(below, graph, e)
    BY <1>8, <1>9, <1>13 DEF IsBelow, n, base
  <1> QED
    BY <1>1, <1>14 DEF n

\* A chain of growing subsets of 1 .. n has stopped to grow by its end.
LEMMA GrowthEnds ==
    ASSUME NEW n \in Nat, NEW chain, \A k \in 0 .. n : chain[k] \in SUBSET (1 .. n),
           chain[0] # {},
           \A k \in 1 .. n : chain[k - 1] \subseteq chain[k]
    PROVE  \E k \in 1 .. n : chain[k] = chain[k - 1]
  <1> SUFFICES ASSUME \A k \in 1 .. n : chain[k] # chain[k - 1]
               PROVE  FALSE
    OBVIOUS
  <1>1. IsFiniteSet(1 .. n) /\ Cardinality(1 .. n) = n
    BY FS_Interval
  <1>2. \A k \in 0 .. n : IsFiniteSet(chain[k]) /\ Cardinality(chain[k]) \in Nat /\ Cardinality(chain[k]) <= n
    BY <1>1, FS_Subset, FS_CardinalityType
  <1> DEFINE N == {k \in Nat : k <= n => Cardinality(chain[k]) > k}
  <1>3. 0 \in N
    <2>1. 0 \in 0 .. n
      OBVIOUS
    <2>2. Cardinality(chain[0]) # 0
      BY <1>2, <2>1, FS_EmptySet
    <2> QED BY <1>2, <2>1, <2>2
  <1>4. ASSUME NEW k \in Nat, k \in N PROVE k + 1 \in N
    <2> SUFFICES ASSUME k + 1 <= n PROVE Cardinality(chain[k + 1]) > k + 1
      OBVIOUS
    <2>1. k + 1 \in 1 .. n /\ (k + 1) - 1 = k /\ k \in 0 .. n /\ k + 1 \in 0 .. n
      OBVIOUS
    <2>2. chain[k] \subseteq chain[k + 1] /\ chain[k] # chain[k + 1]
      BY <2>1
    <2>3. Cardinality(chain[k]) < Cardinality(chain[k + 1])
      <3>1. IsFiniteSet(chain[k + 1]) /\ chain[k] \in SUBSET chain[k + 1]
        BY <1>2, <2>1, <2>2
      <3>2. /\ Cardinality(chain[k]) <= Cardinality(chain[k + 1])
            /\ Cardinality(chain[k]) = Cardinality(chain[k + 1]) => chain[k] = chain[k + 1]
        BY <3>1, FS_Subset
      <3> QED BY <1>2, <2>1, <2>2, <3>2
    <2>4. Cardinality(chain[k]) > k
      BY <1>4
    <2> QED BY <1>2, <2>1, <2>3, <2>4
  <1>5. \A k \in Nat : k \in N
    <2> HIDE DEF N
    <2> QED BY <1>3, <1>4, NaturalsAreInductive
  <1>6. Cardinality(chain[n]) > n /\ n \in 0 .. n
    BY <1>5
  <1> QED
    BY <1>2, <1>6

\* What is below an edge is closed, and the least such set that holds its halves.
LEMMA BelowFacts ==
    ASSUME NEW graph, IsInput(graph), NEW e \in 1 .. Len(graph.halves)
    PROVE  /\ Below(graph, e) \in SUBSET (1 .. Len(graph.halves))
           /\ ToSet(graph.halves[e]) \subseteq Below(graph, e)
           /\ IsClosed(graph, Below(graph, e))
           /\ \A S : ToSet(graph.halves[e]) \subseteq S /\ IsClosed(graph, S)
                        => Below(graph, e) \subseteq S
  <1> DEFINE n == Len(graph.halves)
  <1>1. PICK below : IsBelow(below, graph, e) /\ Below(graph, e) = below[n]
    BY BelowIs
  <1>2. n \in Nat
    BY InputFacts
  <1> HIDE DEF n
  <1>3. /\ \A k \in 0 .. n : below[k] \in SUBSET (1 .. n)
        /\ below[0] = ToSet(graph.halves[e])
        /\ \A k \in 1 .. n : below[k] = below[k - 1] \cup Halves(graph, below[k - 1])
    BY <1>1 DEF IsBelow, n
  <1>4. n \in 0 .. n /\ below[n] \in SUBSET (1 .. n)
    BY <1>2, <1>3
  <1>5. \A k \in 0 .. n : below[0] \subseteq below[k]
    <2> DEFINE N == {k \in Nat : k <= n => below[0] \subseteq below[k]}
    <2>1. 0 \in N
      OBVIOUS
    <2>2. ASSUME NEW k \in Nat, k \in N PROVE k + 1 \in N
      <3> SUFFICES ASSUME k + 1 <= n PROVE below[0] \subseteq below[k + 1]
        OBVIOUS
      <3>1. k + 1 \in 1 .. n /\ (k + 1) - 1 = k /\ below[0] \subseteq below[k]
        BY <1>2, <2>2
      <3> QED BY <1>3, <3>1
    <2>3. \A k \in Nat : k \in N
      <3> HIDE DEF N
      <3> QED BY <2>1, <2>2, NaturalsAreInductive
    <2> QED BY <1>2, <2>3
  <1>6. ASSUME NEW S, ToSet(graph.halves[e]) \subseteq S, IsClosed(graph, S)
        PROVE  below[n] \subseteq S
    <2> DEFINE N == {k \in Nat : k <= n => below[k] \subseteq S}
    <2>1. 0 \in N
      BY <1>3, <1>6
    <2>2. ASSUME NEW k \in Nat, k \in N PROVE k + 1 \in N
      <3> SUFFICES ASSUME k + 1 <= n PROVE below[k + 1] \subseteq S
        OBVIOUS
      <3>1. k + 1 \in 1 .. n /\ (k + 1) - 1 = k /\ below[k] \subseteq S
        BY <1>2, <2>2
      <3>2. Halves(graph, below[k]) \subseteq S
        BY <1>6, <3>1 DEF Halves, IsClosed
      <3> QED BY <1>3, <3>1, <3>2
    <2>3. \A k \in Nat : k \in N
      <3> HIDE DEF N
      <3> QED BY <2>1, <2>2, NaturalsAreInductive
    <2> QED BY <1>2, <2>3
  <1>7. IsClosed(graph, below[n])
    <2>1. CASE below[0] = {}
      <3>1. IsClosed(graph, {}) /\ ToSet(graph.halves[e]) \subseteq {}
        BY <1>3, <2>1 DEF IsClosed
      <3>2. below[n] \subseteq {}
        BY <1>6, <3>1
      <3> QED BY <3>2 DEF IsClosed
    <2>2. CASE below[0] # {}
      <3>1. \A k \in 1 .. n : below[k - 1] \subseteq below[k]
        BY <1>3
      <3>2. PICK k \in 1 .. n : below[k] = below[k - 1]
        BY <1>2, <1>3, <2>2, <3>1, GrowthEnds
      <3>3. IsClosed(graph, below[k - 1])
        <4>1. Halves(graph, below[k - 1]) \subseteq below[k - 1]
          BY <1>3, <3>2
        <4> QED BY <4>1 DEF Halves, IsClosed
      <3>4. ToSet(graph.halves[e]) \subseteq below[k - 1]
        <4>1. k - 1 \in 0 .. n
          BY <1>2
        <4> QED BY <1>3, <1>5, <4>1
      <3>5. below[n] \subseteq below[k - 1]
        BY <1>6, <3>3, <3>4
      <3>6. below[k - 1] \subseteq below[n]
        <4> DEFINE N == {j \in Nat : k - 1 + j <= n => below[k - 1] \subseteq below[k - 1 + j]}
        <4>0. k - 1 \in Nat
          BY <1>2
        <4>1. 0 \in N
          BY <4>0
        <4>2. ASSUME NEW j \in Nat, j \in N PROVE j + 1 \in N
          <5> SUFFICES ASSUME k - 1 + (j + 1) <= n PROVE below[k - 1] \subseteq below[k - 1 + (j + 1)]
            OBVIOUS
          <5> DEFINE m == k - 1 + (j + 1)
          <5>1. m \in 1 .. n /\ m - 1 = k - 1 + j /\ below[k - 1] \subseteq below[k - 1 + j]
            BY <1>2, <4>0, <4>2
          <5> HIDE DEF m
          <5>2. below[k - 1] \subseteq below[m]
            BY <3>1, <5>1
          <5> QED BY <5>2 DEF m
        <4>3. \A j \in Nat : j \in N
          <5> HIDE DEF N
          <5> QED BY <4>1, <4>2, NaturalsAreInductive
        <4> DEFINE d == n - (k - 1)
        <4>4. d \in Nat /\ k - 1 + d = n
          BY <1>2, <4>0
        <4>5. d \in N
          <5> HIDE DEF N, d
          <5> QED BY <4>3, <4>4
        <4> HIDE DEF d
        <4>6. below[k - 1] \subseteq below[k - 1 + d]
          BY <1>2, <4>4, <4>5
        <4> QED BY <4>4, <4>6
      <3>7. below[n] = below[k - 1]
        BY <3>5, <3>6
      <3> QED BY <3>3, <3>7
    <2> QED BY <2>1, <2>2
  <1> QED
    BY <1>1, <1>3, <1>4, <1>5, <1>6, <1>7 DEF n

-----------------------------------------------------------------------------
(* Edges without cycles *)

\* R is a set of edges with all below them, and none of them is below itself.
IsAcyclic(graph, R) ==
    /\ R \subseteq 1 .. Len(graph.halves)
    /\ IsClosed(graph, R)
    /\ \A f \in R : f \notin Below(graph, f)

\* A height of the edges: that of a half is lower.
Height(graph, f) == Cardinality(Below(graph, f))

LEMMA HeightFacts ==
    ASSUME NEW graph, IsInput(graph), NEW R, IsAcyclic(graph, R), NEW f \in R
    PROVE  /\ Height(graph, f) \in 0 .. Len(graph.halves)
           /\ f \in 1 .. Len(graph.halves)
           /\ \A h \in ToSet(graph.halves[f]) : h \in R /\ Height(graph, h) < Height(graph, f)
  <1> DEFINE n == Len(graph.halves)
  <1>1. f \in 1 .. n /\ n \in Nat
    BY InputFacts DEF IsAcyclic
  <1>2. IsFiniteSet(1 .. n) /\ Cardinality(1 .. n) = n
    <2>1. 1 \in Int /\ n \in Int /\ n - 1 + 1 = n /\ 1 <= n + 1
      BY <1>1
    <2> HIDE DEF n
    <2> QED BY <1>1, <2>1, FS_Interval
  <1>3. ASSUME NEW g \in 1 .. n
        PROVE  /\ IsFiniteSet(Below(graph, g)) /\ Height(graph, g) \in Nat
               /\ Height(graph, g) <= n
    <2>1. Below(graph, g) \in SUBSET (1 .. n)
      BY BelowFacts
    <2> QED BY <1>2, <2>1, FS_Subset, FS_CardinalityType DEF Height
  <1>4. ASSUME NEW h \in ToSet(graph.halves[f]) PROVE h \in R /\ Height(graph, h) < Height(graph, f)
    <2>1. h \in R /\ h \in 1 .. n
      BY <1>1 DEF IsAcyclic, IsClosed
    <2>2. h \in Below(graph, f) /\ IsClosed(graph, Below(graph, f))
      BY <1>1, BelowFacts
    <2>3. ToSet(graph.halves[h]) \subseteq Below(graph, f)
      BY <2>2 DEF IsClosed
    <2>4. Below(graph, h) \subseteq Below(graph, f)
      BY <2>1, <2>2, <2>3, BelowFacts
    <2>5. h \notin Below(graph, h)
      BY <2>1 DEF IsAcyclic
    <2>6. Height(graph, h) < Height(graph, f)
      <3> DEFINE low == Below(graph, h)
                 high == Below(graph, f)
      <3>1. IsFiniteSet(high) /\ low \in SUBSET high /\ low # high
        BY <1>1, <1>3, <2>2, <2>4, <2>5
      <3> HIDE DEF low, high
      <3>2. Cardinality(low) <= Cardinality(high) /\ Cardinality(low) # Cardinality(high)
        BY <3>1, FS_Subset
      <3>3. Cardinality(low) \in Nat /\ Cardinality(high) \in Nat
        BY <3>1, FS_Subset, FS_CardinalityType
      <3> QED BY <3>2, <3>3 DEF low, high, Height
    <2> QED BY <2>1, <2>6
  <1> QED
    BY <1>1, <1>3, <1>4

\* Without cycles the leaves of a shortcut are those of its halves.
LEMMA LeavesSplit ==
    ASSUME NEW graph, IsInput(graph), NEW R, IsAcyclic(graph, R), NEW f \in R,
           graph.halves[f] # <<>>
    PROVE  Leaves(graph, f) = Leaves(graph, graph.halves[f][1]) \o Leaves(graph, graph.halves[f][2])
  <1> DEFINE n == Len(graph.halves)
             first(g) == graph.halves[g][1]
             second(g) == graph.halves[g][2]
             height(g) == Height(graph, g)
  <1>1. PICK leaves : /\ AreLeaves(leaves, graph)
                      /\ \A e \in 1 .. n : Leaves(graph, e) = leaves[n][e]
    BY LeavesAre
  <1>2. \A g \in R : /\ g \in 1 .. n /\ height(g) \in 0 .. n
                     /\ graph.halves[g] # <<>> =>
                          /\ first(g) \in R /\ height(first(g)) < height(g)
                          /\ second(g) \in R /\ height(second(g)) < height(g)
    <2> SUFFICES ASSUME NEW g \in R
                 PROVE  /\ g \in 1 .. n /\ height(g) \in 0 .. n
                        /\ graph.halves[g] # <<>> =>
                             /\ first(g) \in R /\ height(first(g)) < height(g)
                             /\ second(g) \in R /\ height(second(g)) < height(g)
      OBVIOUS
    <2>1. /\ height(g) \in 0 .. n /\ g \in 1 .. n
          /\ \A h \in ToSet(graph.halves[g]) : h \in R /\ height(h) < height(g)
      BY HeightFacts
    <2>2. graph.halves[g] # <<>> => ToSet(graph.halves[g]) = {first(g), second(g)}
      BY <2>1, HalvesFacts
    <2> QED BY <2>1, <2>2
  <1>3. n \in Nat
    BY InputFacts
  <1>4. \A g \in 1 .. n :
          /\ \A depth \in 0 .. n : graph.halves[g] = <<>> => leaves[depth][g] = <<g>>
          /\ \A depth \in 1 .. n : graph.halves[g] # <<>> =>
                leaves[depth][g] = leaves[depth - 1][first(g)] \o leaves[depth - 1][second(g)]
    BY <1>1 DEF AreLeaves
  <1> HIDE DEF n, first, second, height
  <1> DEFINE N == {k \in Nat : \A g \in R : height(g) <= k =>
                                  \A depth \in 0 .. n : k <= depth => leaves[depth][g] = leaves[n][g]}
  <1>5. 0 \in N
    <2> SUFFICES ASSUME NEW g \in R, height(g) <= 0, NEW depth \in 0 .. n
                 PROVE  leaves[depth][g] = leaves[n][g]
      OBVIOUS
    <2>1. graph.halves[g] = <<>>
      <3> SUFFICES ASSUME graph.halves[g] # <<>> PROVE FALSE
        OBVIOUS
      <3>1. first(g) \in R /\ height(first(g)) < height(g)
        BY <1>2
      <3>2. height(first(g)) \in 0 .. n /\ height(g) \in 0 .. n
        BY <1>2, <3>1
      <3> QED BY <1>3, <3>1, <3>2
    <2>2. n \in 0 .. n /\ g \in 1 .. n
      BY <1>2, <1>3
    <2> QED BY <1>4, <2>1, <2>2
  <1>6. ASSUME NEW k \in Nat, k \in N PROVE k + 1 \in N
    <2> SUFFICES ASSUME NEW g \in R, height(g) <= k + 1, NEW depth \in 0 .. n, k + 1 <= depth
                 PROVE  leaves[depth][g] = leaves[n][g]
      OBVIOUS
    <2>1. g \in 1 .. n /\ n \in 0 .. n /\ height(g) \in 0 .. n
      BY <1>2, <1>3
    <2>2. CASE graph.halves[g] = <<>>
      BY <1>4, <2>1, <2>2
    <2>3. CASE graph.halves[g] # <<>>
      <3>1. depth \in 1 .. n /\ n \in 1 .. n /\ depth - 1 \in 0 .. n /\ n - 1 \in 0 .. n
            /\ k <= depth - 1 /\ k <= n - 1
        BY <1>3
      <3>2. /\ first(g) \in R /\ height(first(g)) < height(g) /\ height(first(g)) \in 0 .. n
            /\ second(g) \in R /\ height(second(g)) < height(g) /\ height(second(g)) \in 0 .. n
        BY <1>2, <2>3
      <3>3. height(first(g)) <= k /\ height(second(g)) <= k
        BY <1>3, <2>1, <3>2
      <3>4. /\ leaves[depth - 1][first(g)] = leaves[n][first(g)]
            /\ leaves[n - 1][first(g)] = leaves[n][first(g)]
            /\ leaves[depth - 1][second(g)] = leaves[n][second(g)]
            /\ leaves[n - 1][second(g)] = leaves[n][second(g)]
        BY <1>6, <3>1, <3>2, <3>3
      <3>5. /\ leaves[depth][g] = leaves[depth - 1][first(g)] \o leaves[depth - 1][second(g)]
            /\ leaves[n][g] = leaves[n - 1][first(g)] \o leaves[n - 1][second(g)]
        BY <1>4, <2>1, <2>3, <3>1
      <3> QED BY <3>4, <3>5
    <2> QED BY <2>2, <2>3
  <1>7. \A k \in Nat : k \in N
    <2> HIDE DEF N
    <2> QED BY <1>5, <1>6, NaturalsAreInductive
  <1>8. /\ f \in 1 .. n /\ height(f) \in 0 .. n
        /\ first(f) \in R /\ height(first(f)) < height(f)
        /\ second(f) \in R /\ height(second(f)) < height(f)
    BY <1>2
  <1>9. /\ height(first(f)) \in 0 .. n /\ height(second(f)) \in 0 .. n
        /\ first(f) \in 1 .. n /\ second(f) \in 1 .. n
    BY <1>2, <1>8
  <1>10. n \in 1 .. n /\ n - 1 \in Nat /\ n - 1 \in 0 .. n /\ n - 1 <= n - 1
         /\ height(first(f)) <= n - 1 /\ height(second(f)) <= n - 1
    BY <1>3, <1>8, <1>9
  <1>11. n - 1 \in N
    <2> HIDE DEF N
    <2> QED BY <1>7, <1>10
  <1>12. leaves[n - 1][first(f)] = leaves[n][first(f)] /\ leaves[n - 1][second(f)] = leaves[n][second(f)]
    BY <1>8, <1>10, <1>11
  <1>13. leaves[n][f] = leaves[n - 1][first(f)] \o leaves[n - 1][second(f)]
    BY <1>4, <1>8, <1>10
  <1> QED
    BY <1>1, <1>8, <1>9, <1>12, <1>13 DEF first, second, n

LEMMA LeavesNotEmpty ==
    ASSUME NEW graph, IsInput(graph), NEW R, IsAcyclic(graph, R)
    PROVE  \A f \in R : Leaves(graph, f) # <<>>
  <1> DEFINE n == Len(graph.halves)
             N == {k \in Nat : \A f \in R : Height(graph, f) <= k => Leaves(graph, f) # <<>>}
  <1>1. n \in Nat
    BY InputFacts
  <1>2. ASSUME NEW f \in R, graph.halves[f] = <<>> PROVE Leaves(graph, f) # <<>>
    <2>1. f \in 1 .. n
      BY HeightFacts
    <2>2. Leaves(graph, f) = <<f>> /\ Len(<<f>>) = 1 /\ Len(<<>>) = 0
      BY <1>2, <2>1, LeavesFacts
    <2> QED BY <2>2
  <1>3. ASSUME NEW f \in R, graph.halves[f] # <<>>
        PROVE  /\ graph.halves[f][1] \in R
               /\ Height(graph, graph.halves[f][1]) < Height(graph, f)
               /\ Height(graph, graph.halves[f][1]) \in 0 .. n /\ Height(graph, f) \in 0 .. n
               /\ Leaves(graph, graph.halves[f][1]) # <<>> => Leaves(graph, f) # <<>>
    <2> DEFINE a == graph.halves[f][1]
               b == graph.halves[f][2]
    <2>1. /\ f \in 1 .. n /\ Height(graph, f) \in 0 .. n
          /\ \A h \in ToSet(graph.halves[f]) : h \in R /\ Height(graph, h) < Height(graph, f)
      BY HeightFacts
    <2>2. ToSet(graph.halves[f]) = {a, b}
      BY <1>3, <2>1, HalvesFacts
    <2>3. a \in R /\ b \in R /\ Height(graph, a) < Height(graph, f)
      BY <2>1, <2>2
    <2>4. a \in 1 .. n /\ b \in 1 .. n /\ Height(graph, a) \in 0 .. n
      BY <2>3, HeightFacts
    <2>5. Leaves(graph, f) = Leaves(graph, a) \o Leaves(graph, b)
      BY <1>3, LeavesSplit
    <2>6. Leaves(graph, a) \in Seq(1 .. n) /\ Leaves(graph, b) \in Seq(1 .. n)
      BY <2>4, LeavesFacts
    <2> HIDE DEF a, b
    <2>7. Leaves(graph, a) # <<>> => Leaves(graph, a) \o Leaves(graph, b) # <<>>
      BY <2>6, ConcatEqualIffEmpty
    <2> QED BY <2>1, <2>3, <2>4, <2>5, <2>7 DEF a
  <1> HIDE DEF n
  <1>4. 0 \in N
    <2> SUFFICES ASSUME NEW f \in R, Height(graph, f) <= 0 PROVE Leaves(graph, f) # <<>>
      OBVIOUS
    <2>1. graph.halves[f] = <<>>
      BY <1>1, <1>3
    <2> QED BY <1>2, <2>1
  <1>5. ASSUME NEW k \in Nat, k \in N PROVE k + 1 \in N
    <2> SUFFICES ASSUME NEW f \in R, Height(graph, f) <= k + 1 PROVE Leaves(graph, f) # <<>>
      OBVIOUS
    <2>1. CASE graph.halves[f] = <<>>
      BY <1>2, <2>1
    <2>2. CASE graph.halves[f] # <<>>
      <3> DEFINE a == graph.halves[f][1]
      <3>1. a \in R /\ Height(graph, a) < Height(graph, f)
            /\ Height(graph, a) \in 0 .. n /\ Height(graph, f) \in 0 .. n
            /\ (Leaves(graph, a) # <<>> => Leaves(graph, f) # <<>>)
        BY <1>3, <2>2
      <3> HIDE DEF a
      <3>2. Height(graph, a) <= k
        BY <1>1, <3>1
      <3> QED BY <1>5, <3>1, <3>2
    <2> QED BY <2>1, <2>2
  <1>6. \A k \in Nat : k \in N
    <2> HIDE DEF N
    <2> QED BY <1>4, <1>5, NaturalsAreInductive
  <1>7. \A f \in R : Height(graph, f) \in Nat
    <2> SUFFICES ASSUME NEW f \in R PROVE Height(graph, f) \in Nat
      OBVIOUS
    <2>1. Height(graph, f) \in 0 .. Len(graph.halves)
      BY HeightFacts
    <2> QED BY <2>1
  <1> QED
    BY <1>6, <1>7

-----------------------------------------------------------------------------
(* Edges that no path takes twice *)

LEMMA UnCons ==
    ASSUME NEW S, NEW s \in Seq(S), s # <<>>
    PROVE  /\ Head(s) \in S /\ Tail(s) \in Seq(S) /\ Len(Tail(s)) = Len(s) - 1 /\ Len(s) \in Nat \ {0}
           /\ s = <<Head(s)>> \o Tail(s)
           /\ s[1] = Head(s)
           /\ \A i \in 2 .. Len(s) : s[i] = Tail(s)[i - 1] /\ i - 1 \in 1 .. Len(Tail(s))
  <1> DEFINE h == Head(s)
             t == Tail(s)
             n == Len(s)
             u == <<h>> \o t
  <1>1. /\ h \in S /\ t \in Seq(S) /\ Len(t) = n - 1 /\ n \in Nat \ {0} /\ h = s[1]
        /\ \A i \in 1 .. Len(t) : t[i] = s[i + 1]
    BY HeadTailProperties, EmptySeq
  <1>2. /\ u \in Seq(S) /\ Len(u) = Len(t) + 1 /\ u[1] = h
        /\ \A i \in 2 .. Len(t) + 1 : u[i] = t[i - 1] /\ i - 1 \in 1 .. Len(t)
    <2> HIDE DEF h, t
    <2> QED BY <1>1, ConsFacts
  <1> HIDE DEF h, t, n, u
  <1>3. \A i \in 2 .. n : s[i] = t[i - 1] /\ i - 1 \in 1 .. Len(t)
    <2> SUFFICES ASSUME NEW i \in 2 .. n PROVE s[i] = t[i - 1] /\ i - 1 \in 1 .. Len(t)
      OBVIOUS
    <2>1. i - 1 \in 1 .. Len(t) /\ (i - 1) + 1 = i
      BY <1>1
    <2> QED BY <1>1, <2>1
  <1>4. ASSUME NEW i \in 1 .. n PROVE s[i] = u[i]
    <2>1. i = 1 \/ i \in 2 .. n
      BY <1>1
    <2>2. Len(t) + 1 = n
      BY <1>1
    <2> QED BY <1>1, <1>2, <1>3, <2>1, <2>2
  <1>5. s = u
    <2>1. Len(u) = Len(s)
      BY <1>1, <1>2 DEF n
    <2> QED BY <1>2, <1>4, <2>1, SeqEqual DEF n
  <1> QED
    BY <1>1, <1>3, <1>5 DEF h, t, n, u

LEMMA InjectiveParts ==
    ASSUME NEW S, NEW s \in Seq(S), NEW t \in Seq(S), IsInjective(s \o t)
    PROVE  /\ IsInjective(t)
           /\ \A i \in 1 .. Len(s), j \in 1 .. Len(t) : s[i] # t[j]
  <1> DEFINE m == Len(s)
             n == Len(t)
             c == s \o t
  <1>1. m \in Nat /\ n \in Nat /\ DOMAIN t = 1 .. n /\ DOMAIN s = 1 .. m
    BY LenProperties
  <1>2. /\ c \in Seq(S) /\ Len(c) = m + n
        /\ \A i \in 1 .. m + n : c[i] = IF i <= m THEN s[i] ELSE t[i - m]
    BY ConcatProperties
  <1>3. DOMAIN c = 1 .. m + n
    <2> HIDE DEF c, m, n
    <2> QED BY <1>2, LenProperties
  <1>4. \A i, j \in 1 .. m + n : c[i] = c[j] => i = j
    BY <1>3 DEF IsInjective
  <1> HIDE DEF m, n, c
  <1>5. \A j \in 1 .. n : m + j \in 1 .. m + n /\ c[m + j] = t[j]
    <2> SUFFICES ASSUME NEW j \in 1 .. n PROVE m + j \in 1 .. m + n /\ c[m + j] = t[j]
      OBVIOUS
    <2>1. m + j \in 1 .. m + n /\ ~(m + j <= m) /\ (m + j) - m = j
      BY <1>1
    <2> QED BY <1>2, <2>1
  <1>6. \A i \in 1 .. m : i \in 1 .. m + n /\ c[i] = s[i]
    <2> SUFFICES ASSUME NEW i \in 1 .. m PROVE i \in 1 .. m + n /\ c[i] = s[i]
      OBVIOUS
    <2>1. i \in 1 .. m + n /\ i <= m
      BY <1>1
    <2> QED BY <1>2, <2>1
  <1>7. ASSUME NEW a \in 1 .. n, NEW b \in 1 .. n, t[a] = t[b] PROVE a = b
    <2>1. m + a = m + b
      BY <1>4, <1>5, <1>7
    <2> QED BY <1>1, <2>1
  <1>8. ASSUME NEW i \in 1 .. m, NEW j \in 1 .. n PROVE s[i] # t[j]
    <2> SUFFICES ASSUME s[i] = t[j] PROVE FALSE
      OBVIOUS
    <2>1. i = m + j
      BY <1>4, <1>5, <1>6
    <2> QED BY <1>1, <2>1
  <1> QED
    BY <1>1, <1>7, <1>8 DEF IsInjective, m, n

\* Edges whose leaves are all different are different themselves: the first leaf of each is one
\* of the leaves.
LEMMA DistinctEdges ==
    ASSUME NEW graph, IsInput(graph), NEW R \in SUBSET (1 .. Len(graph.halves)),
           \A f \in R : Leaves(graph, f) # <<>>,
           NEW edges \in Seq(R), IsInjective(Unfolded(graph, edges))
    PROVE  IsInjective(edges)
  <1> DEFINE E == 1 .. Len(graph.halves)
             unfolded(s) == Unfolded(graph, s)
             first(f) == Leaves(graph, f)[1]
             Shown(s) == \A i \in 1 .. Len(s) : \E p \in 1 .. Len(unfolded(s)) :
                             unfolded(s)[p] = first(s[i])
             Distinct(s) == IsInjective(unfolded(s)) => IsInjective(s)
             N == {k \in Nat : \A s \in Seq(R) : Len(s) = k => Shown(s) /\ Distinct(s)}
  <1>1. 0 \in N
    <2> SUFFICES ASSUME NEW s \in Seq(R), Len(s) = 0 PROVE Shown(s) /\ Distinct(s)
      OBVIOUS
    <2>1. DOMAIN s = {}
      OBVIOUS
    <2>2. 1 .. Len(s) = {}
      OBVIOUS
    <2>3. IsInjective(s)
      BY <2>1 DEF IsInjective
    <2> QED BY <2>2, <2>3
  <1>2. ASSUME NEW k \in Nat, k \in N PROVE k + 1 \in N
    <2> SUFFICES ASSUME NEW s \in Seq(R), Len(s) = k + 1 PROVE Shown(s) /\ Distinct(s)
      OBVIOUS
    <2> DEFINE h == Head(s)
               t == Tail(s)
               lh == Leaves(graph, h)
               lt == unfolded(t)
    <2>1. /\ h \in R /\ t \in Seq(R) /\ Len(t) = k /\ s = <<h>> \o t /\ s[1] = h
          /\ \A i \in 2 .. k + 1 : s[i] = t[i - 1] /\ i - 1 \in 1 .. k
          /\ DOMAIN s = 1 .. k + 1
      <3>1. s # <<>>
        BY EmptySeq
      <3>2. DOMAIN s = 1 .. k + 1 /\ Len(s) - 1 = k
        BY LenProperties
      <3> QED BY <3>1, <3>2, UnCons
    <2>2. Shown(t) /\ Distinct(t)
      <3> HIDE DEF Shown, Distinct, t
      <3> QED BY <1>2, <2>1
    <2>3. h \in E /\ t \in Seq(E)
      BY <2>1, SeqMonotonic
    <2>4. unfolded(s) = lh \o lt /\ lt \in Seq(E) /\ lh \in Seq(E) /\ lh # <<>>
      <3> HIDE DEF h, t
      <3>1. unfolded(<<h>> \o t) = lh \o lt /\ lt \in Seq(E) /\ lh \in Seq(E)
        BY <2>3, UnfoldedCons, UnfoldedType, LeavesFacts
      <3> QED BY <2>1, <3>1
    <2> DEFINE m == Len(lh)
               l == Len(lt)
    <2>5. m \in Nat /\ m # 0 /\ l \in Nat /\ lh[1] = first(h)
      <3> HIDE DEF lh, lt
      <3>1. m \in Nat /\ m # 0 /\ l \in Nat
        BY <2>4, EmptySeq, LenProperties
      <3> QED BY <3>1 DEF lh
    <2>6. /\ Len(unfolded(s)) = m + l
          /\ \A p \in 1 .. m + l : unfolded(s)[p] = IF p <= m THEN lh[p] ELSE lt[p - m]
      <3> HIDE DEF lh, lt, unfolded
      <3>1. /\ Len(lh \o lt) = m + l
            /\ \A p \in 1 .. m + l : (lh \o lt)[p] = IF p <= m THEN lh[p] ELSE lt[p - m]
        BY <2>4, ConcatProperties
      <3> QED BY <2>4, <3>1
    <2>7. \A i \in 1 .. k : \E p \in 1 .. l : lt[p] = first(t[i])
      BY <2>1, <2>2
    <2> HIDE DEF h, t, lh, lt, m, l, unfolded, first
    <2>8. Shown(s)
      <3> SUFFICES ASSUME NEW i \in 1 .. k + 1
                   PROVE  \E p \in 1 .. m + l : unfolded(s)[p] = first(s[i])
        BY <2>6
      <3>1. CASE i = 1
        <4>1. 1 \in 1 .. m + l /\ 1 <= m
          BY <2>5
        <4>2. unfolded(s)[1] = first(s[i])
          BY <2>1, <2>5, <2>6, <3>1, <4>1
        <4> QED BY <4>1, <4>2
      <3>2. CASE i # 1
        <4>1. i \in 2 .. k + 1
          BY <3>2
        <4>2. s[i] = t[i - 1] /\ i - 1 \in 1 .. k
          BY <2>1, <4>1
        <4>3. PICK p \in 1 .. l : lt[p] = first(s[i])
          BY <2>7, <4>2
        <4>4. m + p \in 1 .. m + l /\ ~(m + p <= m) /\ (m + p) - m = p
          BY <2>5
        <4>5. unfolded(s)[m + p] = first(s[i])
          BY <2>6, <4>3, <4>4
        <4> QED BY <4>4, <4>5
      <3> QED BY <3>1, <3>2
    <2>9. ASSUME IsInjective(unfolded(s)) PROVE IsInjective(s)
      <3>1. IsInjective(lt) /\ \A i \in 1 .. m, j \in 1 .. l : lh[i] # lt[j]
        <4>1. IsInjective(lh \o lt)
          BY <2>4, <2>9
        <4> HIDE DEF E
        <4> QED BY <2>4, <4>1, InjectiveParts DEF m, l
      <3>2. IsInjective(t)
        BY <2>2, <3>1 DEF lt
      <3>3. \A i \in 1 .. k : t[i] # h
        <4> SUFFICES ASSUME NEW i \in 1 .. k, t[i] = h PROVE FALSE
          OBVIOUS
        <4>1. PICK p \in 1 .. l : lt[p] = first(h)
          BY <2>7
        <4>2. 1 \in 1 .. m
          BY <2>5
        <4> QED BY <2>5, <3>1, <4>1, <4>2
      <3>4. DOMAIN t = 1 .. k
        BY <2>1, LenProperties
      <3>5. ASSUME NEW a \in 1 .. k + 1, NEW b \in 1 .. k + 1, s[a] = s[b] PROVE a = b
        <4>1. CASE a = 1
          <5>1. b # 1 => b \in 2 .. k + 1
            OBVIOUS
          <5>2. b # 1 => s[b] = t[b - 1] /\ b - 1 \in 1 .. k
            BY <2>1, <5>1
          <5> QED BY <2>1, <3>3, <3>5, <4>1, <5>2
        <4>2. CASE b = 1
          <5>1. a # 1 => a \in 2 .. k + 1
            OBVIOUS
          <5>2. a # 1 => s[a] = t[a - 1] /\ a - 1 \in 1 .. k
            BY <2>1, <5>1
          <5> QED BY <2>1, <3>3, <3>5, <4>2, <5>2
        <4>3. CASE a # 1 /\ b # 1
          <5>1. a \in 2 .. k + 1 /\ b \in 2 .. k + 1
            BY <4>3
          <5>2. t[a - 1] = t[b - 1] /\ a - 1 \in 1 .. k /\ b - 1 \in 1 .. k
            BY <2>1, <3>5, <5>1
          <5>3. a - 1 = b - 1
            BY <3>2, <3>4, <5>2 DEF IsInjective
          <5> QED BY <5>3
        <4> QED BY <4>1, <4>2, <4>3
      <3> QED BY <2>1, <3>5 DEF IsInjective
    <2> QED BY <2>8, <2>9
  <1>3. \A k \in Nat : k \in N
    <2> HIDE DEF N
    <2> QED BY <1>1, <1>2, NaturalsAreInductive
  <1>4. Len(edges) \in Nat
    BY LenProperties
  <1>5. Distinct(edges)
    <2> HIDE DEF Shown, Distinct
    <2> QED BY <1>3, <1>4
  <1> QED
    BY <1>5

LEMMA FewDistinct ==
    ASSUME NEW n \in Nat, NEW s \in Seq(1 .. n), IsInjective(s)
    PROVE  Len(s) <= n
  <1>1. Len(s) \in Nat /\ s \in [1 .. Len(s) -> 1 .. n]
    BY LenProperties
  <1>2. s \in Injection(1 .. Len(s), 1 .. n)
    BY <1>1 DEF Injection
  <1>3. /\ IsFiniteSet(1 .. n) /\ Cardinality(1 .. n) = n
        /\ IsFiniteSet(1 .. Len(s)) /\ Cardinality(1 .. Len(s)) = Len(s)
    <2>1. 1 \in Int /\ n \in Int /\ n - 1 + 1 = n /\ 1 <= n + 1
      OBVIOUS
    <2> DEFINE m == Len(s)
    <2>2. m \in Nat /\ m \in Int /\ m - 1 + 1 = m /\ 1 <= m + 1
      BY <1>1
    <2> HIDE DEF m
    <2>3. IsFiniteSet(1 .. m) /\ Cardinality(1 .. m) = m
      BY <2>1, <2>2, FS_Interval
    <2> QED BY <2>1, <2>3, FS_Interval DEF m
  <1> QED
    BY <1>2, <1>3, FS_Injection

-----------------------------------------------------------------------------
(* Nothing is lost or swapped, and only cycles are refused *)

\* The edge at hand and the stack are in the path, or below it; they and what is flattened stand
\* for the original edges of the whole path.
AtHand == IF pc \in {"expand", "err"} THEN Leaves(input, edgeIdx) ELSE <<>>

UnfoldInv ==
    /\ TypeInv
    /\ oldEdges \in Seq(InPath)
    /\ pc \in {"expand", "err"} => edgeIdx \in InPath
    /\ pc = "err" => IsTooLong(oldEdges)
    /\ ~HasCycle =>
          Unfolded(input, input.path)
            = (flattened \o AtHand) \o Unfolded(input, Reverse(oldEdges))

LEMMA InPathFacts ==
    ASSUME IsInput(input)
    PROVE  /\ InPath \subseteq 1 .. Count
           /\ input.path \in Seq(InPath)
           /\ IsClosed(input, InPath)
           /\ ~HasCycle => IsAcyclic(input, InPath)
  <1>1. /\ Count \in Nat /\ input.path \in Seq(1 .. Count)
        /\ DOMAIN input.path = 1 .. Len(input.path)
        /\ \A i \in 1 .. Len(input.path) : input.path[i] \in 1 .. Count
    BY InputFacts, LenProperties, ElementOfSeq DEF Count
  <1>2. ToSet(input.path) = {input.path[i] : i \in 1 .. Len(input.path)}
    BY <1>1 DEF ToSet
  <1>3. ASSUME NEW e \in ToSet(input.path)
        PROVE  /\ e \in 1 .. Count /\ Below(input, e) \in SUBSET (1 .. Count)
               /\ ToSet(input.halves[e]) \subseteq Below(input, e)
               /\ IsClosed(input, Below(input, e))
    <2>1. e \in 1 .. Count
      BY <1>1, <1>2
    <2> QED BY <2>1, BelowFacts DEF Count
  <1>4. InPath \subseteq 1 .. Count
    BY <1>3 DEF InPath
  <1>5. IsClosed(input, InPath)
    <2> SUFFICES ASSUME NEW f \in InPath PROVE ToSet(input.halves[f]) \subseteq InPath
      BY DEF IsClosed
    <2>1. PICK e \in ToSet(input.path) : f \in {e} \cup Below(input, e)
      BY DEF InPath
    <2>2. ToSet(input.halves[f]) \subseteq Below(input, e)
      BY <1>3, <2>1 DEF IsClosed
    <2> QED BY <2>1, <2>2 DEF InPath
  <1>6. input.path \in Seq(InPath)
    <2>1. \A i \in 1 .. Len(input.path) : input.path[i] \in InPath
      BY <1>2 DEF InPath
    <2> DEFINE n == Len(input.path)
    <2>2. n \in Nat /\ input.path \in [1 .. n -> 1 .. Count]
      BY <1>1, LenProperties
    <2>3. input.path \in [1 .. n -> InPath]
      BY <2>1, <2>2
    <2> HIDE DEF n
    <2> QED BY <2>2, <2>3
  <1>7. ~HasCycle => IsAcyclic(input, InPath)
    BY <1>4, <1>5 DEF HasCycle, IsAcyclic, Count
  <1> QED
    BY <1>4, <1>5, <1>6, <1>7

LEMMA InitUnfold == Init => UnfoldInv
  <1> SUFFICES ASSUME Init PROVE UnfoldInv
    OBVIOUS
  <1>1. TypeInv /\ IsInput(input) /\ input.path \in Seq(1 .. Count)
    BY InitTypes, InputFacts DEF TypeInv, TypeOK, Count
  <1>2. input.path \in Seq(InPath)
    BY <1>1, InPathFacts
  <1>3. oldEdges = Reverse(input.path) /\ pc = "pop" /\ flattened = <<>>
    BY DEF Init
  <1>4. oldEdges \in Seq(InPath)
    BY <1>2, <1>3, ReverseFacts
  <1>5. Reverse(oldEdges) = input.path
    <2> DEFINE p == input.path
               n == Len(p)
               r == Reverse(p)
    <2>1. r \in Seq(InPath) /\ Len(r) = n /\ n \in Nat /\ \A i \in 1 .. n : r[i] = p[(n - i) + 1]
      BY <1>2, ReverseFacts, LenProperties
    <2>2. /\ Reverse(r) \in Seq(InPath) /\ Len(Reverse(r)) = n
          /\ \A i \in 1 .. n : Reverse(r)[i] = r[(n - i) + 1]
      <3> HIDE DEF r
      <3> QED BY <2>1, ReverseFacts
    <2> HIDE DEF r, n
    <2>3. ASSUME NEW i \in 1 .. n PROVE Reverse(r)[i] = p[i]
      <3>1. (n - i) + 1 \in 1 .. n /\ (n - ((n - i) + 1)) + 1 = i
        BY <2>1
      <3> QED BY <2>1, <2>2, <3>1
    <2>4. Reverse(r) = p
      BY <1>2, <2>1, <2>2, <2>3, SeqEqual DEF n
    <2> QED BY <1>3, <2>4 DEF r
  <1>6. Unfolded(input, input.path) = (<<>> \o <<>>) \o Unfolded(input, input.path)
    <2> DEFINE u == Unfolded(input, input.path)
    <2>1. u \in Seq(1 .. Count)
      BY <1>1, UnfoldedType DEF Count
    <2> HIDE DEF u
    <2>2. <<>> \o <<>> = <<>> /\ <<>> \o u = u
      BY <2>1, ConcatEmptySeq, EmptySeq
    <2> QED BY <2>2 DEF u
  <1> QED
    BY <1>1, <1>3, <1>4, <1>5, <1>6 DEF UnfoldInv, AtHand

\* Concatenation under a name of its own, for it to stay folded when it is regrouped.
Join(a, b) == a \o b

LEMMA JoinFacts ==
    ASSUME NEW S
    PROVE  /\ \A a, b \in Seq(S) : Join(a, b) \in Seq(S)
           /\ \A a, b, c \in Seq(S) : Join(Join(a, b), c) = Join(a, Join(b, c))
  <1>1. ASSUME NEW a \in Seq(S), NEW b \in Seq(S) PROVE Join(a, b) \in Seq(S)
    BY ConcatProperties DEF Join
  <1>2. ASSUME NEW a \in Seq(S), NEW b \in Seq(S), NEW c \in Seq(S)
        PROVE  Join(Join(a, b), c) = Join(a, Join(b, c))
    BY ConcatAssociative DEF Join
  <1> QED
    BY <1>1, <1>2

LEMMA Regroup ==
    ASSUME NEW S, NEW a \in Seq(S), NEW b \in Seq(S), NEW c \in Seq(S), NEW d \in Seq(S)
    PROVE  Join(Join(a, Join(b, c)), d) = Join(Join(a, b), Join(c, d))
  <1>1. Join(a, Join(b, c)) = Join(Join(a, b), c) /\ Join(a, b) \in Seq(S)
    BY JoinFacts
  <1>2. Join(Join(Join(a, b), c), d) = Join(Join(a, b), Join(c, d))
    BY <1>1, JoinFacts
  <1> QED
    BY <1>1, <1>2

LEMMA StepUnfold == UnfoldInv /\ [Next]_vars => UnfoldInv'
  <1> SUFFICES ASSUME UnfoldInv, [Next]_vars PROVE UnfoldInv'
    OBVIOUS
  <1> DEFINE n == Count
             E == 1 .. n
             P == Unfolded(input, input.path)
             U(stack) == Unfolded(input, Reverse(stack))
             L(e) == Leaves(input, e)
             R == InPath
  <1>1. TypeInv /\ TypeInv' /\ IsInput(input)
    BY StepTypes DEF UnfoldInv, TypeInv, TypeOK
  <1>2. input' = input
    BY DEF Next, TryFlatten, PopEdge, ExpandShortcut, PushEdge, Return, Stopped, vars
  <1>3. InPath' = R /\ (HasCycle' <=> HasCycle)
    BY <1>2 DEF InPath, HasCycle
  <1>4. /\ R \subseteq E /\ E = 1 .. Len(input.halves) /\ n \in Nat
        /\ IsClosed(input, R)
        /\ ~HasCycle => IsAcyclic(input, R)
    BY <1>1, InPathFacts, InputFacts DEF Count
  <1>5. /\ oldEdges \in Seq(R) /\ flattened \in Seq(E)
        /\ pc \in {"expand", "err"} => edgeIdx \in R
        /\ pc = "err" => IsTooLong(oldEdges)
        /\ ~HasCycle => P = (flattened \o AtHand) \o U(oldEdges)
    <2>1. flattened \in Seq({e \in E : ~IsShortcut(e)})
      BY <1>1 DEF TypeInv, TypeOK
    <2>2. flattened \in Seq(E)
      BY <2>1, SeqMonotonic
    <2> QED BY <2>2 DEF UnfoldInv
  <1>6. ASSUME NEW e \in R
        PROVE  /\ L(e) \in Seq(E) /\ (~IsShortcut(e) => L(e) = <<e>>)
               /\ IsShortcut(e) => input.halves[e][1] \in R /\ input.halves[e][2] \in R
    <2>1. e \in E
      BY <1>4
    <2>2. L(e) \in Seq(E) /\ (~IsShortcut(e) => L(e) = <<e>>)
      BY <1>1, <1>4, <2>1, LeavesFacts DEF IsShortcut
    <2>3. IsShortcut(e) => ToSet(input.halves[e]) = {input.halves[e][1], input.halves[e][2]}
      BY <1>1, <1>4, <2>1, HalvesFacts DEF IsShortcut
    <2>4. ToSet(input.halves[e]) \subseteq R
      BY <1>4 DEF IsClosed
    <2> QED BY <2>2, <2>3, <2>4
  <1>7. ASSUME NEW stack \in Seq(R)
        PROVE  /\ U(stack) \in Seq(E)
               /\ \A e \in R : U(Append(stack, e)) = L(e) \o U(stack)
    <2>1. Reverse(stack) \in Seq(R)
      BY ReverseFacts
    <2>2. Reverse(stack) \in Seq(E)
      BY <1>4, <2>1, SeqMonotonic
    <2>3. U(stack) \in Seq(E)
      BY <1>1, <1>4, <2>2, UnfoldedType
    <2>4. ASSUME NEW e \in R PROVE U(Append(stack, e)) = L(e) \o U(stack)
      <3>1. Reverse(Append(stack, e)) = <<e>> \o Reverse(stack)
        BY ReverseAppend
      <3>2. e \in E
        BY <1>4
      <3>3. Unfolded(input, <<e>> \o Reverse(stack)) = L(e) \o Unfolded(input, Reverse(stack))
        BY <1>1, <1>4, <2>2, <3>2, UnfoldedCons
      <3> QED BY <3>1, <3>3
    <2> QED BY <2>3, <2>4
  <1> DEFINE Hand == IF pc' \in {"expand", "err"} THEN L(edgeIdx') ELSE <<>>
  <1> SUFFICES /\ oldEdges' \in Seq(R)
               /\ pc' \in {"expand", "err"} => edgeIdx' \in R
               /\ pc' = "err" => IsTooLong(oldEdges')
               /\ ~HasCycle => P = (flattened' \o Hand) \o U(oldEdges')
    <2>1. AtHand' = Hand /\ Unfolded(input, input.path)' = P
      BY <1>2 DEF AtHand
    <2>2. Unfolded(input, Reverse(oldEdges))' = U(oldEdges')
      BY <1>2
    <2>3. IsTooLong(oldEdges)' <=> IsTooLong(oldEdges')
      BY <1>2 DEF IsTooLong, Count
    <2> HIDE DEF P, U, L, R, Hand, E, n
    <2> QED BY <1>1, <1>3, <2>1, <2>2, <2>3 DEF UnfoldInv
  <1> HIDE DEF n, E, P, U, L, R
  <1>8. CASE PopEdge
    <2> DEFINE rest == Front(oldEdges)
               top == Last(oldEdges)
    <2>1. rest \in Seq(R) /\ top \in R /\ oldEdges = Append(rest, top)
      BY <1>5, <1>8, StackFacts DEF PopEdge
    <2>2. pc = "pop" /\ edgeIdx' = top /\ oldEdges' = rest /\ flattened' = flattened /\ pc' = "expand"
      BY <1>8 DEF PopEdge
    <2> HIDE DEF rest, top
    <2>3. U(oldEdges) = L(top) \o U(rest)
      BY <1>7, <2>1
    <2>4. L(top) \in Seq(E) /\ U(rest) \in Seq(E)
      BY <1>6, <1>7, <2>1
    <2>5. (flattened \o <<>>) \o (L(top) \o U(rest)) = (flattened \o L(top)) \o U(rest)
      <3>1. flattened \o <<>> = flattened
        BY <1>5, ConcatEmptySeq
      <3>2. Join(Join(flattened, L(top)), U(rest)) = Join(flattened, Join(L(top), U(rest)))
        BY <1>5, <2>4, JoinFacts
      <3> QED BY <3>1, <3>2 DEF Join
    <2>6. AtHand = <<>> /\ Hand = L(top)
      BY <2>2 DEF AtHand
    <2> QED BY <1>5, <2>1, <2>2, <2>3, <2>5, <2>6
  <1>9. CASE ExpandShortcut
    <2> DEFINE first == input.halves[edgeIdx][1]
               second == input.halves[edgeIdx][2]
    <2>1. /\ pc = "expand" /\ IsShortcut(edgeIdx) /\ flattened' = flattened
          /\ edgeIdx' = first /\ oldEdges' = Append(oldEdges, second)
          /\ pc' = IF IsTooLong(oldEdges') THEN "err" ELSE "expand"
      BY <1>9 DEF ExpandShortcut, WithSecondHalf
    <2>2. edgeIdx \in R /\ first \in R /\ second \in R
      BY <1>5, <1>6, <2>1
    <2>3. ~HasCycle => L(edgeIdx) = L(first) \o L(second)
      <3> SUFFICES ASSUME ~HasCycle PROVE L(edgeIdx) = L(first) \o L(second)
        OBVIOUS
      <3>1. IsAcyclic(input, R) /\ input.halves[edgeIdx] # <<>>
        BY <1>4, <2>1 DEF IsShortcut
      <3> QED BY <1>1, <2>2, <3>1, LeavesSplit DEF L
    <2> HIDE DEF first, second
    <2>4. U(oldEdges') = L(second) \o U(oldEdges) /\ oldEdges' \in Seq(R)
      <3>1. Append(oldEdges, second) \in Seq(R)
        BY <1>5, <2>2, AppendProperties
      <3> QED BY <1>5, <1>7, <2>1, <2>2, <3>1
    <2>5. L(first) \in Seq(E) /\ L(second) \in Seq(E) /\ U(oldEdges) \in Seq(E)
      BY <1>5, <1>6, <1>7, <2>2
    <2>6. (flattened \o (L(first) \o L(second))) \o U(oldEdges)
            = (flattened \o L(first)) \o (L(second) \o U(oldEdges))
      <3>1. flattened \in Seq(E)
        BY <1>5
      <3>2. Join(Join(flattened, Join(L(first), L(second))), U(oldEdges))
              = Join(Join(flattened, L(first)), Join(L(second), U(oldEdges)))
        BY <2>5, <3>1, Regroup
      <3> QED BY <3>2 DEF Join
    <2>7. AtHand = L(edgeIdx) /\ Hand = L(first)
      BY <2>1 DEF AtHand, L
    <2>8. pc' = "err" => IsTooLong(oldEdges')
      BY <2>1
    <2> QED BY <1>5, <2>1, <2>2, <2>3, <2>4, <2>6, <2>7, <2>8
  <1>10. CASE PushEdge
    <2>1. /\ pc = "expand" /\ ~IsShortcut(edgeIdx)
          /\ flattened' = Append(flattened, edgeIdx) /\ pc' = "pop" /\ oldEdges' = oldEdges
      BY <1>10 DEF PushEdge
    <2>2. edgeIdx \in R /\ edgeIdx \in E /\ L(edgeIdx) = <<edgeIdx>> /\ L(edgeIdx) \in Seq(E)
      BY <1>4, <1>5, <1>6, <2>1
    <2>3. flattened' = flattened \o <<edgeIdx>> /\ flattened' \in Seq(E)
      BY <1>5, <2>1, <2>2, AppendIsConcat, AppendProperties
    <2>4. U(oldEdges) \in Seq(E)
      BY <1>5, <1>7
    <2>5. (flattened' \o <<>>) \o U(oldEdges) = flattened' \o U(oldEdges)
      <3>1. flattened' \o <<>> = flattened'
        BY <2>3, ConcatEmptySeq
      <3> QED BY <3>1
    <2>6. AtHand = <<edgeIdx>> /\ Hand = <<>>
      BY <2>1, <2>2 DEF AtHand, L
    <2> QED BY <1>5, <2>1, <2>3, <2>5, <2>6
  <1>11. CASE Return
    <2>1. pc = "pop" /\ pc' = "ok" /\ flattened' = flattened /\ oldEdges' = oldEdges
      BY <1>11 DEF Return
    <2>2. AtHand = <<>> /\ Hand = <<>>
      BY <2>1 DEF AtHand
    <2> QED BY <1>5, <2>1, <2>2
  <1>12. CASE UNCHANGED vars
    <2>1. pc' = pc /\ flattened' = flattened /\ oldEdges' = oldEdges /\ edgeIdx' = edgeIdx
      BY <1>12 DEF vars
    <2>2. Hand = AtHand
      BY <2>1 DEF AtHand, L
    <2> QED BY <1>5, <2>1, <2>2
  <1> QED
    BY <1>8, <1>9, <1>10, <1>11, <1>12 DEF Next, TryFlatten, Stopped

THEOREM UnfoldInvariant == Spec => []UnfoldInv
  BY InitUnfold, StepUnfold, PTL DEF Spec

\* Unless there is a cycle, what is flattened, the edge at hand and the stack always stand for the
\* original edges of the whole path, in their order: nothing is lost or swapped.
THEOREM NothingLostOrSwappedSafe == Spec => []NothingLostOrSwapped
  <1>1. UnfoldInv => NothingLostOrSwapped
    BY DEF UnfoldInv, AtHand, NothingLostOrSwapped
  <1> QED
    BY <1>1, UnfoldInvariant, PTL

\* Without a cycle the stack never outgrows the graph, since all that waits on it is different.
THEOREM FailsOnlyOnCyclesSafe == Spec => []FailsOnlyOnCycles
  <1>1. UnfoldInv => FailsOnlyOnCycles
    <2> SUFFICES ASSUME UnfoldInv, pc = "err", ~HasCycle,
                        IsInjective(Unfolded(input, input.path))
                 PROVE  FALSE
      BY DEF FailsOnlyOnCycles
    <2> DEFINE R == InPath
               E == 1 .. Count
               stack == Reverse(oldEdges)
               done == flattened \o AtHand
    <2>1. IsInput(input) /\ flattened \in Seq({e \in E : ~IsShortcut(e)}) /\ edgeIdx \in R
          /\ oldEdges \in Seq(R) /\ IsTooLong(oldEdges)
          /\ Unfolded(input, input.path) = done \o Unfolded(input, stack)
      BY DEF UnfoldInv, TypeInv, TypeOK
    <2>2. R \subseteq E /\ E = 1 .. Len(input.halves) /\ Count \in Nat /\ IsAcyclic(input, R)
      BY <2>1, InPathFacts, InputFacts DEF Count
    <2>3. stack \in Seq(R) /\ Len(stack) = Len(oldEdges)
      BY <2>1, ReverseFacts
    <2>4. stack \in Seq(E)
      BY <2>2, <2>3, SeqMonotonic
    <2>5. done \in Seq(E) /\ Unfolded(input, stack) \in Seq(E)
      <3>1. flattened \in Seq(E)
        BY <2>1, SeqMonotonic
      <3>2. edgeIdx \in E
        BY <2>1, <2>2
      <3>3. AtHand \in Seq(E)
        BY <2>1, <2>2, <3>2, LeavesFacts DEF AtHand
      <3>4. Unfolded(input, stack) \in Seq(E)
        BY <2>1, <2>2, <2>4, UnfoldedType
      <3> QED BY <3>1, <3>3, <3>4, ConcatProperties
    <2> HIDE DEF stack, done, R, E
    <2>6. IsInjective(Unfolded(input, stack))
      BY <2>1, <2>5, InjectiveParts
    <2>7. IsInjective(stack)
      <3>1. \A f \in R : Leaves(input, f) # <<>>
        BY <2>1, <2>2, LeavesNotEmpty
      <3>2. R \in SUBSET (1 .. Len(input.halves))
        BY <2>2
      <3> QED BY <2>1, <2>3, <2>6, <3>1, <3>2, DistinctEdges
    <2>8. Len(stack) <= Count
      BY <2>2, <2>4, <2>7, FewDistinct DEF E
    <2>9. Len(oldEdges) \in Nat /\ Len(oldEdges) > Count
      BY <2>1, LenProperties DEF IsTooLong
    <2> QED BY <2>2, <2>3, <2>8, <2>9
  <1> QED
    BY <1>1, UnfoldInvariant, PTL

=============================================================================
