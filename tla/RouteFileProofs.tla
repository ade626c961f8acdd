--------------------------- MODULE RouteFileProofs ---------------------------
(***************************************************************************)
(* What is parsed from generated route-pairs, proved for every graph and   *)
(* every number of requested routes.                                       *)
(***************************************************************************)
EXTENDS RouteFile, FiniteSetTheorems, SequenceTheorems, TLAPS

-----------------------------------------------------------------------------
(* The inductive invariant *)

\* A pair of nodes that a route-pair is written for, and this route-pair.
IsRoute(pair) == pair[1] # pair[2] /\ HasPath(pair[1], pair[2])
RouteOf(pair) == <<request.ids[pair[1] + 1], request.ids[pair[2] + 1]>>

PairAt(a) == <<a \div NumNodes, a % NumNodes>>

\* What has been found is what has been processed and is a route, each once.
FoundInv ==
    /\ request \in Requests
    /\ attempts \in Nat /\ attempts <= NumPossible
    /\ processed \in SUBSET (Indices \X Indices)
    /\ IsEnumerating => \A a \in Nat : a < attempts => PairAt(a) \in processed
    /\ found \in Seq(ToSet(request.ids) \X ToSet(request.ids))
    /\ Len(found) <= attempts /\ Len(found) <= MaxCount
    /\ \A k \in DOMAIN found : \E pair \in processed : IsRoute(pair) /\ found[k] = RouteOf(pair)
    /\ \A pair \in processed : IsRoute(pair) => \E k \in DOMAIN found : found[k] = RouteOf(pair)
    /\ IsInjective(found)

\* Generating ends with enough routes or enough attempts.
EnoughInv == pc # "search" /\ attempts > 0 => Len(found) >= MaxCount \/ attempts >= NumPossible

\* The file has lines of those that are written, but for the last line, which may be too short.
IsLeft(k) == file[k] = Lines[k] \/ (k = Len(file) /\ Len(file[k]) \in {1, 2})

FileInv ==
    pc \notin {"search", "write"} /\ attempts > 0 =>
        /\ Len(file) \in 0 .. Len(found) + 1 /\ DOMAIN file = 1 .. Len(file)
        /\ 1 \in DOMAIN file => Len(file[1]) = 1
        /\ \A k \in 2 .. Len(file) : IsLeft(k)

\* The demand is the routes before the line at hand, unless the first line of a route has lost so
\* much that it is taken for a count, and nothing follows.
DemandInv ==
    /\ pc \in {"search", "write", "preprocess"} => demand = <<>>
    /\ pc \in {"parse", "done"} /\ attempts > 0 =>
          \E m \in 0 .. Len(found) :
             /\ demand = [k \in 1 .. m |-> [src |-> found[k][1], dst |-> found[k][2], n |-> 1]]
             /\ pos = m + 2 \/ (pos = 3 /\ Len(file) = 2)
             /\ file = Lines => pos = m + 2 /\ behind = Len(found) + 2
             /\ pc = "done" /\ file = Lines => m = Len(found)

RouteInv == FoundInv /\ EnoughInv /\ FileInv /\ DemandInv

-----------------------------------------------------------------------------
(* Graphs and pairs of their nodes *)

LEMMA ProductIsNat == \A a, b \in Nat : a * b \in Nat
  OBVIOUS

LEMMA RequestFacts ==
    ASSUME request \in Requests
    PROVE  /\ request.ids \in Seq(Int) /\ NumNodes \in Nat \ {0}
           /\ DOMAIN request.ids = 1 .. NumNodes
           /\ \A i \in Indices : i + 1 \in 1 .. NumNodes /\ request.ids[i + 1] \in ToSet(request.ids)
           /\ \A i, j \in Indices : request.ids[i + 1] = request.ids[j + 1] => i = j
           /\ NumPossible \in Nat /\ request.maxCount \in Nat
           /\ MaxCount \in Nat /\ MaxCount <= NumPossible /\ MaxCount <= request.maxCount
           /\ MaxCount = NumPossible \/ MaxCount = request.maxCount
  <1> DEFINE ids == request.ids
             n == Len(ids)
  <1>1. /\ ids \in Seq(Int) /\ ids # <<>> /\ request.maxCount \in Nat
        /\ \A j, k \in DOMAIN ids : j < k => ids[j] < ids[k]
    BY RouteFileAssumption
  <1>2. n \in Nat \ {0} /\ DOMAIN ids = 1 .. n /\ \A k \in 1 .. n : ids[k] \in Int
    BY <1>1
  <1>3. NumNodes = n /\ Indices = 0 .. n - 1
    BY DEF NumNodes, Indices
  <1> HIDE DEF ids, n
  <1>4. \A i \in Indices : i + 1 \in 1 .. n /\ ids[i + 1] \in ToSet(ids)
    <2>1. \A i \in Indices : i + 1 \in 1 .. n
      BY <1>2, <1>3
    <2> QED BY <1>2, <2>1 DEF ToSet
  <1>5. ASSUME NEW i \in Indices, NEW j \in Indices, ids[i + 1] = ids[j + 1] PROVE i = j
    <2>1. i \in Int /\ j \in Int /\ i + 1 \in 1 .. n /\ j + 1 \in 1 .. n
      BY <1>2, <1>3
    <2>2. ids[i + 1] \in Int /\ ids[j + 1] \in Int
      BY <1>2, <2>1
    <2>3. ~(i + 1 < j + 1) /\ ~(j + 1 < i + 1)
      BY <1>1, <1>2, <1>5, <2>1, <2>2
    <2> QED BY <2>1, <2>3
  <1>6. NumPossible \in Nat
    BY <1>2, <1>3, ProductIsNat DEF NumPossible
  <1> DEFINE S == {NumPossible, request.maxCount}
  <1>7. \E x \in S : \A y \in S : x <= y
    BY <1>1, <1>6
  <1>8. MaxCount \in S /\ \A y \in S : MaxCount <= y
    BY <1>7 DEF MaxCount, Min
  <1>9. MaxCount = NumPossible \/ MaxCount = request.maxCount
    BY <1>8
  <1> QED
    BY <1>1, <1>2, <1>3, <1>4, <1>5, <1>6, <1>8, <1>9 DEF ids

\* Different pairs are different route-pairs.
LEMMA RoutesDiffer ==
    ASSUME request \in Requests, NEW p \in Indices \X Indices, NEW q \in Indices \X Indices,
           RouteOf(p) = RouteOf(q)
    PROVE  p = q
  <1>1. p = <<p[1], p[2]>> /\ q = <<q[1], q[2]>>
    OBVIOUS
  <1>2. p[1] = q[1] /\ p[2] = q[2]
    BY RequestFacts DEF RouteOf
  <1> QED
    BY <1>1, <1>2

\* Enumerating all pairs.
LEMMA PairsAreEnumerated ==
    ASSUME request \in Requests
    PROVE  /\ \A a \in Nat : a < NumPossible => PairAt(a) \in Indices \X Indices
           /\ \A p \in Indices \X Indices : \E a \in Nat : a < NumPossible /\ PairAt(a) = p
  <1> DEFINE n == NumNodes
  <1>1. n \in Nat /\ n > 0 /\ NumPossible = n * n /\ Indices = 0 .. n - 1
    BY RequestFacts DEF NumPossible, Indices
  <1> HIDE DEF n
  <1>2. ASSUME NEW a \in Nat, a < n * n PROVE a \div n \in 0 .. n - 1 /\ a % n \in 0 .. n - 1
    <2> DEFINE q == a \div n
               r == a % n
    <2>1. q \in Int /\ r \in 0 .. n - 1 /\ a = n * q + r
      BY <1>1
    <2>2. n * n \in Int /\ n * q \in Int
      BY <1>1, <2>1
    <2> HIDE DEF q, r
    <2>3. q < n
      <3> SUFFICES ASSUME q >= n PROVE FALSE
        BY <1>1, <2>1
      <3>1. n * q >= n * n
        BY <1>1, <2>1
      <3> QED BY <1>1, <1>2, <2>1, <2>2, <3>1
    <2>4. q >= 0
      <3> SUFFICES ASSUME q <= -1 PROVE FALSE
        BY <2>1
      <3>1. n * q <= n * (-1)
        BY <1>1, <2>1
      <3>2. n * (-1) = -n
        BY <1>1
      <3> QED BY <1>1, <1>2, <2>1, <2>2, <3>1, <3>2
    <2> QED BY <1>1, <2>1, <2>3, <2>4 DEF q, r
  <1>3. ASSUME NEW s \in 0 .. n - 1, NEW d \in 0 .. n - 1
        PROVE  /\ s * n + d \in Nat /\ s * n + d < n * n
               /\ (s * n + d) \div n = s /\ (s * n + d) % n = d
    <2>1. s \in Int /\ d \in Int /\ s >= 0 /\ d >= 0 /\ s <= n - 1 /\ d <= n - 1
      BY <1>1
    <2>2. s * n \in Int /\ n * n \in Int /\ s * n >= 0 /\ s * n <= (n - 1) * n
      BY <1>1, <2>1
    <2>3. (n - 1) * n = n * n - n
      BY <1>1
    <2>4. s * n + d \in Nat /\ s * n + d < n * n
      BY <1>1, <2>1, <2>2, <2>3
    <2>5. (s * n + d) \div n = s /\ (s * n + d) % n = d
      BY <1>1, <2>1
    <2> QED BY <2>4, <2>5
  <1>4. ASSUME NEW p \in Indices \X Indices
        PROVE  \E a \in Nat : a < NumPossible /\ PairAt(a) = p
    <2>1. p[1] \in 0 .. n - 1 /\ p[2] \in 0 .. n - 1 /\ p = <<p[1], p[2]>>
      BY <1>1
    <2>2. PairAt(p[1] * n + p[2]) = <<p[1], p[2]>>
      BY <1>3, <2>1 DEF PairAt, n
    <2> QED BY <1>1, <1>3, <2>1, <2>2
  <1>5. \A a \in Nat : a < NumPossible => PairAt(a) \in Indices \X Indices
    BY <1>1, <1>2 DEF PairAt, n
  <1> QED
    BY <1>4, <1>5

\* All that depends on the request alone stays.
LEMMA SameRequest ==
    ASSUME UNCHANGED request
    PROVE  /\ NumNodes' = NumNodes /\ NumPossible' = NumPossible /\ Indices' = Indices
           /\ MaxCount' = MaxCount /\ (IsEnumerating' <=> IsEnumerating)
           /\ \A s, d : HasPath(s, d)' <=> HasPath(s, d)
           /\ \A p : IsRoute(p)' <=> IsRoute(p)
           /\ \A p : RouteOf(p)' = RouteOf(p)
           /\ \A a : PairAt(a)' = PairAt(a)
           /\ UNCHANGED found => Lines' = Lines
  BY DEF Lines, NumNodes, NumPossible, Indices, MaxCount, IsEnumerating, HasPath, IsRoute, RouteOf, PairAt

-----------------------------------------------------------------------------
(* Writing *)

LEMMA SearchKeeps ==
    ASSUME RouteInv, Search
    PROVE  RouteInv'
  <1>1. /\ pc = "search" /\ pc' = "search" /\ Len(found) < MaxCount /\ attempts < NumPossible
        /\ attempts' = attempts + 1 /\ UNCHANGED <<request, file, pos, behind, demand>>
        /\ FoundInv
    BY DEF Search, RouteInv
  <1>2. PICK pair \in NextPairs :
          /\ found' = IF IsNewRoute(pair[1], pair[2]) THEN Append(found, RouteOf(pair)) ELSE found
          /\ processed' = processed \cup {pair}
    BY DEF Search, RouteOf
  <1>3. /\ request \in Requests /\ attempts \in Nat /\ NumPossible \in Nat
        /\ found \in Seq(ToSet(request.ids) \X ToSet(request.ids))
        /\ Len(found) \in Nat /\ DOMAIN found = 1 .. Len(found)
        /\ Len(found) <= attempts
        /\ processed \in SUBSET (Indices \X Indices)
        /\ MaxCount \in Nat
    BY <1>1, RequestFacts DEF FoundInv
  <1>4. /\ NumPossible' = NumPossible /\ Indices' = Indices
        /\ MaxCount' = MaxCount /\ (IsEnumerating' <=> IsEnumerating)
        /\ \A p : IsRoute(p)' <=> IsRoute(p)
        /\ \A p : RouteOf(p)' = RouteOf(p)
        /\ \A a : PairAt(a)' = PairAt(a)
    BY <1>1, SameRequest
  <1>5. pair \in Indices \X Indices /\ (IsEnumerating => pair = PairAt(attempts))
    BY <1>1, <1>3, PairsAreEnumerated DEF NextPairs, PairAt
  <1>6. pair = <<pair[1], pair[2]>> /\ pair[1] \in Indices /\ pair[2] \in Indices
    BY <1>5
  <1>7. IsNewRoute(pair[1], pair[2]) <=> pair \notin processed /\ IsRoute(pair)
    BY <1>6 DEF IsNewRoute, IsRoute
  <1>8. RouteOf(pair) \in ToSet(request.ids) \X ToSet(request.ids)
    BY <1>3, <1>6, RequestFacts DEF RouteOf
  <1>9. IsEnumerating => \A a \in Nat : a < attempts + 1 => PairAt(a) \in processed'
    <2> SUFFICES ASSUME IsEnumerating, NEW a \in Nat, a < attempts + 1
                 PROVE  PairAt(a) \in processed'
      OBVIOUS
    <2>1. CASE a < attempts
      BY <1>1, <1>2, <2>1 DEF FoundInv
    <2>2. CASE a = attempts
      BY <1>2, <1>5, <2>2
    <2> QED BY <1>3, <2>1, <2>2
  <1>10. processed' \in SUBSET (Indices \X Indices) /\ processed \subseteq processed'
    BY <1>2, <1>3, <1>5
  <1>11. CASE IsNewRoute(pair[1], pair[2])
    <2> DEFINE n == Len(found)
    <2>1. /\ found' = Append(found, RouteOf(pair)) /\ Len(found') = n + 1
          /\ DOMAIN found' = 1 .. n + 1
          /\ found'[n + 1] = RouteOf(pair) /\ \A k \in 1 .. n : found'[k] = found[k]
          /\ found' \in Seq(ToSet(request.ids) \X ToSet(request.ids))
      BY <1>2, <1>3, <1>8, <1>11
    <2>2. \A k \in 1 .. n + 1 : k \in 1 .. n \/ k = n + 1
      BY <1>3
    <2>3. pair \notin processed /\ IsRoute(pair) /\ pair \in processed'
      BY <1>2, <1>7, <1>11
    <2>4. \A k \in 1 .. n : \E q \in processed : IsRoute(q) /\ found[k] = RouteOf(q)
      BY <1>1, <1>3 DEF FoundInv
    <2>5. \A k \in DOMAIN found' : \E q \in processed' : IsRoute(q) /\ found'[k] = RouteOf(q)
      <3> SUFFICES ASSUME NEW k \in 1 .. n + 1
                   PROVE  \E q \in processed' : IsRoute(q) /\ found'[k] = RouteOf(q)
        BY <2>1
      <3>1. CASE k \in 1 .. n
        BY <1>10, <2>1, <2>4, <3>1
      <3>2. CASE k = n + 1
        BY <2>1, <2>3, <3>2
      <3> QED BY <2>2, <3>1, <3>2
    <2>6. ASSUME NEW q \in processed', IsRoute(q)
          PROVE  \E k \in DOMAIN found' : found'[k] = RouteOf(q)
      <3>1. CASE q = pair
        <4>1. n + 1 \in DOMAIN found'
          BY <1>3, <2>1
        <4> QED BY <2>1, <3>1, <4>1
      <3>2. CASE q \in processed
        <4>1. PICK k \in 1 .. n : found[k] = RouteOf(q)
          BY <1>1, <1>3, <2>6, <3>2 DEF FoundInv
        <4>2. k \in DOMAIN found'
          BY <1>3, <2>1
        <4> QED BY <2>1, <4>1, <4>2
      <3> QED BY <1>2, <3>1, <3>2
    <2>7. \A k \in 1 .. n : found[k] # RouteOf(pair)
      <3> SUFFICES ASSUME NEW k \in 1 .. n, found[k] = RouteOf(pair) PROVE FALSE
        OBVIOUS
      <3>1. PICK q \in processed : found[k] = RouteOf(q)
        BY <2>4
      <3>2. q = pair
        BY <1>3, <1>5, <3>1, RoutesDiffer
      <3> QED BY <2>3, <3>2
    <2>8. IsInjective(found')
      <3>1. \A k, l \in 1 .. n : found[k] = found[l] => k = l
        BY <1>1, <1>3 DEF FoundInv, IsInjective
      <3> SUFFICES ASSUME NEW k \in 1 .. n + 1, NEW l \in 1 .. n + 1, found'[k] = found'[l]
                   PROVE  k = l
        BY <2>1 DEF IsInjective
      <3> HIDE DEF n
      <3> QED BY <2>1, <2>2, <2>7, <3>1
    <2>9. Len(found') <= attempts + 1 /\ Len(found') <= MaxCount
      BY <1>1, <1>3, <2>1
    <2>10. FoundInv'
      <3>1. attempts + 1 \in Nat /\ attempts + 1 <= NumPossible
        BY <1>1, <1>3
      <3> QED BY <1>1, <1>3, <1>4, <1>9, <1>10, <2>1, <2>5, <2>6, <2>8, <2>9, <3>1 DEF FoundInv
    <2> QED BY <1>1, <2>10 DEF RouteInv, EnoughInv, FileInv, DemandInv
  <1>12. CASE ~IsNewRoute(pair[1], pair[2])
    <2>1. found' = found
      BY <1>2, <1>12
    <2>2. \A q \in processed' : IsRoute(q) => q \in processed
      BY <1>2, <1>7, <1>12
    <2>3. FoundInv'
      <3>1. attempts + 1 \in Nat /\ attempts + 1 <= NumPossible /\ Len(found) <= attempts + 1
        BY <1>1, <1>3
      <3>2. \A k \in DOMAIN found : \E q \in processed' : IsRoute(q) /\ found[k] = RouteOf(q)
        BY <1>1, <1>10 DEF FoundInv
      <3>3. \A q \in processed' : IsRoute(q) => \E k \in DOMAIN found : found[k] = RouteOf(q)
        BY <1>1, <2>2 DEF FoundInv
      <3> QED BY <1>1, <1>4, <1>9, <1>10, <2>1, <3>1, <3>2, <3>3 DEF FoundInv
    <2> QED BY <1>1, <2>3 DEF RouteInv, EnoughInv, FileInv, DemandInv
  <1> QED
    BY <1>11, <1>12

LEMMA EndSearchKeeps ==
    ASSUME RouteInv, EndSearch
    PROVE  RouteInv'
  <1>1. /\ pc = "search" /\ pc' = "write" /\ FoundInv
        /\ Len(found) >= MaxCount \/ attempts >= NumPossible
        /\ UNCHANGED <<request, processed, attempts, file, pos, behind, demand>>
    BY DEF EndSearch, RouteInv
  <1>2. PICK p \in Bijection(DOMAIN found, DOMAIN found) :
            found' = [k \in DOMAIN found |-> found[p[k]]]
    BY DEF EndSearch
  <1> DEFINE n == Len(found)
             S == ToSet(request.ids) \X ToSet(request.ids)
  <1>3. n \in Nat /\ DOMAIN found = 1 .. n /\ found \in [1 .. n -> S]
    <2> HIDE DEF S
    <2>1. found \in Seq(S)
      BY <1>1 DEF FoundInv, S
    <2> QED BY <2>1
  <1>4. /\ p \in [1 .. n -> 1 .. n]
        /\ \A k, l \in 1 .. n : p[k] = p[l] => k = l
        /\ \A l \in 1 .. n : \E k \in 1 .. n : p[k] = l
    BY <1>2, <1>3 DEF Bijection, Injection, Surjection, IsInjective
  <1> HIDE DEF n, S
  <1>5. /\ found' = [k \in 1 .. n |-> found[p[k]]] /\ found' \in [1 .. n -> S]
        /\ \A k \in 1 .. n : found'[k] = found[p[k]] /\ p[k] \in 1 .. n
    BY <1>2, <1>3, <1>4
  <1>6. found' \in Seq(S) /\ Len(found') = n /\ DOMAIN found' = 1 .. n
    BY <1>3, <1>5
  <1>7. /\ MaxCount' = MaxCount /\ (IsEnumerating' <=> IsEnumerating)
        /\ NumPossible' = NumPossible /\ Indices' = Indices
        /\ \A q : IsRoute(q)' <=> IsRoute(q)
        /\ \A q : RouteOf(q)' = RouteOf(q)
        /\ \A a : PairAt(a)' = PairAt(a)
    BY <1>1, SameRequest
  <1>8. \A k \in 1 .. n : \E q \in processed : IsRoute(q) /\ found'[k] = RouteOf(q)
    BY <1>1, <1>3, <1>5 DEF FoundInv
  <1>9. ASSUME NEW q \in processed, IsRoute(q) PROVE \E k \in 1 .. n : found'[k] = RouteOf(q)
    <2>1. PICK l \in 1 .. n : found[l] = RouteOf(q)
      BY <1>1, <1>3, <1>9 DEF FoundInv
    <2>2. PICK k \in 1 .. n : p[k] = l
      BY <1>4
    <2> QED BY <1>5, <2>1, <2>2
  <1>10. IsInjective(found')
    <2>1. \A k, l \in 1 .. n : found[k] = found[l] => k = l
      BY <1>1, <1>3 DEF FoundInv, IsInjective
    <2> SUFFICES ASSUME NEW k \in 1 .. n, NEW l \in 1 .. n, found'[k] = found'[l] PROVE k = l
      BY <1>6 DEF IsInjective
    <2>2. found[p[k]] = found[p[l]] /\ p[k] \in 1 .. n /\ p[l] \in 1 .. n
      BY <1>5
    <2> QED BY <1>4, <2>1, <2>2
  <1>11. FoundInv'
    <2>1. n <= attempts /\ n <= MaxCount
      BY <1>1 DEF FoundInv, n
    <2> QED BY <1>1, <1>6, <1>7, <1>8, <1>9, <1>10, <2>1 DEF FoundInv, S
  <1>12. EnoughInv'
    BY <1>1, <1>6, <1>7 DEF EnoughInv, n
  <1> QED
    BY <1>1, <1>11, <1>12 DEF RouteInv, FileInv, DemandInv

\* The count of the routes comes first, then a line of three params for each of them.
LEMMA LinesFacts ==
    ASSUME FoundInv
    PROVE  /\ Len(found) \in Nat /\ DOMAIN found = 1 .. Len(found)
           /\ Lines \in Seq(Seq(Int)) /\ Len(Lines) = Len(found) + 1
           /\ Lines[1] = <<Len(found)>>
           /\ \A k \in 1 .. Len(found) : Lines[k + 1] = <<found[k][1], found[k][2], 1>>
           /\ \A k \in 1 .. Len(found) : Len(Lines[k + 1]) = 3
  <1> DEFINE n == Len(found)
             head == << <<n>> >>
             tail == [k \in 1 .. n |-> <<found[k][1], found[k][2], 1>>]
  <1>1. /\ n \in Nat /\ DOMAIN found = 1 .. n
        /\ \A k \in 1 .. n : found[k] \in ToSet(request.ids) \X ToSet(request.ids)
    BY DEF FoundInv
  <1>2. \A k \in 1 .. n : found[k][1] \in Int /\ found[k][2] \in Int
    <2>1. request.ids \in Seq(Int)
      BY RouteFileAssumption DEF FoundInv
    <2>2. ToSet(request.ids) \subseteq Int
      BY <2>1 DEF ToSet
    <2> QED BY <1>1, <2>2
  <1>3. Lines = head \o tail
    BY <1>1 DEF Lines
  <1> HIDE DEF n
  <1>4. /\ head \in Seq(Seq(Int)) /\ Len(head) = 1 /\ head[1] = <<n>>
        /\ tail \in Seq(Seq(Int)) /\ Len(tail) = n
        /\ \A k \in 1 .. n : tail[k] = <<found[k][1], found[k][2], 1>>
    <2>1. <<n>> \in Seq(Int)
      BY <1>1
    <2>2. \A k \in 1 .. n : <<found[k][1], found[k][2], 1>> \in Seq(Int)
      BY <1>2
    <2>3. tail \in [1 .. n -> Seq(Int)]
      BY <2>2
    <2> QED BY <1>1, <2>1, <2>3
  <1> HIDE DEF head, tail
  <1>5. /\ Lines \in Seq(Seq(Int)) /\ Len(Lines) = n + 1 /\ Lines[1] = head[1]
        /\ \A k \in 1 .. n : Lines[k + 1] = tail[k]
    <2>1. /\ Lines \in Seq(Seq(Int)) /\ Len(Lines) = Len(head) + Len(tail)
          /\ \A i \in 1 .. Len(head) + Len(tail) :
                Lines[i] = IF i <= Len(head) THEN head[i] ELSE tail[i - Len(head)]
      <3> DEFINE both == head \o tail
      <3>1. /\ both \in Seq(Seq(Int)) /\ Len(both) = Len(head) + Len(tail)
            /\ \A i \in 1 .. Len(head) + Len(tail) :
                  both[i] = IF i <= Len(head) THEN head[i] ELSE tail[i - Len(head)]
        BY <1>4, ConcatProperties
      <3> HIDE DEF both
      <3> QED BY <1>3, <3>1 DEF both
    <2>2. Len(Lines) = n + 1 /\ Lines[1] = head[1]
      BY <1>1, <1>4, <2>1
    <2>3. ASSUME NEW k \in 1 .. n PROVE Lines[k + 1] = tail[k]
      <3>1. k + 1 \in 1 .. 1 + n /\ ~(k + 1 <= 1) /\ k + 1 - 1 = k
        BY <1>1
      <3> QED BY <1>4, <2>1, <3>1
    <2> QED BY <2>1, <2>2, <2>3
  <1>6. \A a, b, c : Len(<<a, b, c>>) = 3
    OBVIOUS
  <1>7. \A k \in 1 .. n : Lines[k + 1] = <<found[k][1], found[k][2], 1>>
    BY <1>4, <1>5
  <1>8. \A k \in 1 .. n : Len(Lines[k + 1]) = 3
    BY <1>6, <1>7
  <1> QED
    BY <1>1, <1>4, <1>5, <1>7, <1>8 DEF n

\* A number that has lost digits is a number; the last param of a route, 1, has none to lose.
LEMMA ShortenedFacts == Shortened(1) = {} /\ \A n \in Int : Shortened(n) \subseteq Int
  <1>1. \A n \in Int : Heads(n) \subseteq Int
    BY DEF Heads
  <1>2. Heads(1) = {}
    BY DEF Heads
  <1>3. \A n \in Int : -n \in Int
    OBVIOUS
  <1> QED
    BY <1>1, <1>2, <1>3 DEF Shortened

\* What is left of a line is not longer, and as long only if its last param was shortened.
LEMMA FragmentFacts ==
    ASSUME NEW line \in Seq(Int), NEW shortened,
           \A k \in DOMAIN line : shortened[line[k]] = Shortened(line[k]),
           NEW rest \in Fragments(line, shortened)
    PROVE  /\ Len(rest) \in 1 .. Len(line)
           /\ Len(rest) = Len(line) => Shortened(line[Len(line)]) # {}
  <1> DEFINE n == Len(line)
  <1>1. n \in Nat /\ DOMAIN line = 1 .. n /\ \A k \in 1 .. n : line[k] \in Int
    OBVIOUS
  <1>2. \/ \E k \in 1 .. n - 1 : rest = SubSeq(line, 1, k)
        \/ \E k \in 1 .. n : \E param \in shortened[line[k]] :
              rest = Append(SubSeq(line, 1, k - 1), param)
    BY <1>1 DEF Fragments
  <1>3. \A k \in 0 .. n : SubSeq(line, 1, k) \in Seq(Int) /\ Len(SubSeq(line, 1, k)) = k
    BY <1>1
  <1>4. CASE \E k \in 1 .. n - 1 : rest = SubSeq(line, 1, k)
    <2>1. PICK k \in 1 .. n - 1 : rest = SubSeq(line, 1, k)
      BY <1>4
    <2>2. k \in 0 .. n /\ k \in 1 .. n - 1
      BY <1>1
    <2> DEFINE l == Len(rest)
    <2>3. l = k
      BY <1>3, <2>1, <2>2
    <2> HIDE DEF n, l
    <2>4. l \in 1 .. n /\ l # n
      BY <1>1, <2>2, <2>3
    <2> QED BY <2>4 DEF n, l
  <1>5. ASSUME NEW k \in 1 .. n, NEW param \in shortened[line[k]],
               rest = Append(SubSeq(line, 1, k - 1), param)
        PROVE  Len(rest) = k
    <2>1. param \in Int
      BY <1>1, ShortenedFacts
    <2> DEFINE front == SubSeq(line, 1, k - 1)
    <2>2. front \in Seq(Int) /\ Len(front) = k - 1
      BY <1>1, <1>3
    <2> HIDE DEF front
    <2>3. Len(Append(front, param)) = k - 1 + 1
      BY <2>1, <2>2
    <2> QED BY <1>1, <1>5, <2>3 DEF front
  <1> QED
    BY <1>1, <1>2, <1>4, <1>5

\* What is left of a file are its first lines, and maybe a fragment of the next one.
LEMMA LeftOfFacts ==
    ASSUME NEW lines \in Seq(Seq(Int)), NEW shortened, NEW left \in LeftOf(lines, shortened)
    PROVE  /\ Len(left) \in 0 .. Len(lines) /\ DOMAIN left = 1 .. Len(left)
           /\ \A k \in 1 .. Len(left) :
                 left[k] = lines[k] \/ (k = Len(left) /\ left[k] \in Fragments(lines[k], shortened))
  <1> DEFINE n == Len(lines)
             rests(m) == Fragments(lines[m], shortened)
  <1>1. n \in Nat /\ DOMAIN lines = 1 .. n
    OBVIOUS
  <1>2. \/ \E m \in 0 .. n : left = SubSeq(lines, 1, m)
        \/ \E m \in 1 .. n : \E rest \in rests(m) : left = Append(SubSeq(lines, 1, m - 1), rest)
    BY <1>1 DEF LeftOf
  <1> HIDE DEF rests
  <1>3. ASSUME NEW m \in 0 .. n
        PROVE  /\ SubSeq(lines, 1, m) \in Seq(Seq(Int)) /\ Len(SubSeq(lines, 1, m)) = m
               /\ DOMAIN SubSeq(lines, 1, m) = 1 .. m
               /\ \A k \in 1 .. m : SubSeq(lines, 1, m)[k] = lines[k]
    BY <1>1, <1>3
  <1>4. CASE \E m \in 0 .. n : left = SubSeq(lines, 1, m)
    BY <1>1, <1>3, <1>4
  <1>5. ASSUME NEW m \in 1 .. n, NEW rest \in rests(m), left = Append(SubSeq(lines, 1, m - 1), rest)
        PROVE  /\ Len(left) = m /\ DOMAIN left = 1 .. m /\ left[m] = rest
               /\ \A k \in 1 .. m - 1 : left[k] = lines[k]
    <2> DEFINE front == SubSeq(lines, 1, m - 1)
    <2>1. /\ front \in Seq(Seq(Int)) /\ Len(front) = m - 1
          /\ \A k \in 1 .. m - 1 : front[k] = lines[k]
      BY <1>1, <1>3
    <2>2. left = Append(front, rest)
      BY <1>5
    <2> HIDE DEF front
    <2> DEFINE S == Seq(Int) \cup {rest}
    <2>3. front \in Seq(S) /\ rest \in S
      BY <2>1
    <2> HIDE DEF S
    <2> QED BY <1>1, <2>1, <2>2, <2>3
  <1>6. CASE \E m \in 1 .. n : \E rest \in rests(m) : left = Append(SubSeq(lines, 1, m - 1), rest)
    <2>1. PICK m \in 1 .. n : \E rest \in rests(m) : left = Append(SubSeq(lines, 1, m - 1), rest)
      BY <1>6
    <2>2. PICK rest \in rests(m) : left = Append(SubSeq(lines, 1, m - 1), rest)
      BY <2>1
    <2>3. /\ Len(left) = m /\ DOMAIN left = 1 .. m /\ left[m] = rest
          /\ \A k \in 1 .. m - 1 : left[k] = lines[k]
      BY <1>5, <2>2
    <2>4. \A k \in 1 .. m : k = m \/ k \in 1 .. m - 1
      BY <1>1
    <2> QED BY <1>1, <2>2, <2>3, <2>4 DEF rests
  <1> QED
    BY <1>2, <1>4, <1>6

LEMMA WriteKeeps ==
    ASSUME RouteInv, Write
    PROVE  RouteInv'
  <1>1. /\ pc = "write" /\ pc' = "preprocess" /\ FoundInv /\ EnoughInv /\ DemandInv
        /\ file' \in LeftOf(Lines, [param \in Params(Lines) |-> Shortened(param)])
        /\ UNCHANGED <<request, processed, attempts, found, pos, behind, demand>>
    BY DEF Write, RouteInv, writeVars
  <1> DEFINE n == Len(found)
             left == file'
             shortened == [param \in Params(Lines) |-> Shortened(param)]
  <1>2. /\ n \in Nat /\ Lines \in Seq(Seq(Int)) /\ Len(Lines) = n + 1 /\ Lines[1] = <<n>>
        /\ \A k \in 1 .. n : Lines[k + 1] = <<found[k][1], found[k][2], 1>>
        /\ \A k \in 1 .. n : Len(Lines[k + 1]) = 3
    BY <1>1, LinesFacts
  <1>3. /\ Len(left) \in 0 .. n + 1 /\ DOMAIN left = 1 .. Len(left)
        /\ \A k \in 1 .. Len(left) :
              left[k] = Lines[k] \/ (k = Len(left) /\ left[k] \in Fragments(Lines[k], shortened))
    BY <1>1, <1>2, LeftOfFacts
  <1> HIDE DEF n, left
  <1>4. ASSUME NEW k \in 1 .. n + 1
        PROVE  /\ Lines[k] \in Seq(Int)
               /\ \A j \in DOMAIN Lines[k] : shortened[Lines[k][j]] = Shortened(Lines[k][j])
    <2>1. Lines[k] \in Seq(Int) /\ DOMAIN Lines = 1 .. n + 1
      BY <1>2
    <2>2. \A j \in DOMAIN Lines[k] : Lines[k][j] \in Params(Lines)
      BY <2>1 DEF Params, ToSet
    <2> QED BY <2>1, <2>2
  <1> HIDE DEF shortened
  <1>5. 1 \in DOMAIN left => Len(left[1]) = 1
    <2> SUFFICES ASSUME 1 \in DOMAIN left PROVE Len(left[1]) = 1
      OBVIOUS
    <2>1. Len(Lines[1]) = 1 /\ 1 \in 1 .. n + 1
      BY <1>2
    <2>2. PICK k \in 1 .. Len(left) : k = 1
      BY <1>3
    <2>3. /\ Lines[k] \in Seq(Int) /\ Len(Lines[k]) = 1
          /\ \A j \in DOMAIN Lines[k] : shortened[Lines[k][j]] = Shortened(Lines[k][j])
      <3>1. k \in 1 .. n + 1
        BY <2>1, <2>2
      <3> QED BY <1>4, <2>1, <2>2, <3>1
    <2>4. left[k] \in Fragments(Lines[k], shortened) => Len(left[k]) \in 1 .. 1
      BY <2>3, FragmentFacts
    <2>5. left[k] = Lines[k] \/ left[k] \in Fragments(Lines[k], shortened)
      BY <1>3
    <2>6. Len(left[k]) = 1
      <3>1. CASE left[k] = Lines[k]
        BY <2>3, <3>1
      <3>2. CASE left[k] \in Fragments(Lines[k], shortened)
        <4> DEFINE length == Len(left[k])
        <4>1. length \in 1 .. 1
          BY <2>4, <3>2
        <4> HIDE DEF length
        <4>2. length = 1
          BY <4>1
        <4> QED BY <4>2 DEF length
      <3> QED BY <2>5, <3>1, <3>2
    <2> QED BY <2>2, <2>6
  <1>6. ASSUME NEW k \in 2 .. Len(left)
        PROVE  left[k] = Lines[k] \/ (k = Len(left) /\ Len(left[k]) \in {1, 2})
    <2> DEFINE l == Len(left)
    <2>0. n \in Nat /\ l \in 0 .. n + 1 /\ k \in 2 .. l
      BY <1>2, <1>3
    <2> HIDE DEF l
    <2>1. k \in 1 .. n + 1 /\ k - 1 \in 1 .. n /\ (k - 1) + 1 = k /\ k \in 1 .. l
      BY <2>0
    <2>2. Len(Lines[k]) = 3 /\ Lines[k][3] = 1
      <3>1. /\ Lines[(k - 1) + 1] = <<found[k - 1][1], found[k - 1][2], 1>>
            /\ Len(Lines[(k - 1) + 1]) = 3
        BY <1>2, <2>1
      <3>2. <<found[k - 1][1], found[k - 1][2], 1>>[3] = 1
        OBVIOUS
      <3> QED BY <2>1, <3>1, <3>2
    <2>3. ASSUME left[k] \in Fragments(Lines[k], shortened) PROVE Len(left[k]) \in {1, 2}
      <3>1. Len(left[k]) \in 1 .. 3 /\ (Len(left[k]) = 3 => Shortened(1) # {})
        BY <1>4, <2>1, <2>2, <2>3, FragmentFacts
      <3> QED BY <3>1, ShortenedFacts
    <2> QED BY <1>3, <2>1, <2>3 DEF l
  <1>7. FileInv'
    <2>1. Lines' = Lines
      BY <1>1, SameRequest
    <2> QED BY <1>1, <1>3, <1>5, <1>6, <2>1 DEF FileInv, IsLeft, n, left
  <1>8. FoundInv' /\ EnoughInv'
    BY <1>1, SameRequest DEF FoundInv, EnoughInv
  <1> QED
    BY <1>1, <1>7, <1>8 DEF RouteInv, DemandInv

-----------------------------------------------------------------------------
(* Parsing *)

\* What is found stays while a file is parsed.
LEMMA FoundStays ==
    ASSUME RouteInv, UNCHANGED <<writeVars, file>>,
           pc \in {"preprocess", "parse", "done", "err"},
           pc' \in {"preprocess", "parse", "done", "err"}
    PROVE  FoundInv' /\ EnoughInv' /\ FileInv'
  <1>1. FoundInv /\ EnoughInv /\ FileInv /\ UNCHANGED <<request, processed, attempts, found, file>>
    BY DEF RouteInv, writeVars
  <1>2. FoundInv'
    BY <1>1, SameRequest DEF FoundInv
  <1>3. EnoughInv' /\ FileInv'
    BY <1>1, SameRequest DEF EnoughInv, FileInv, IsLeft
  <1> QED
    BY <1>2, <1>3

\* Only the first line of a file has one param, its count, unless the second is the last one and
\* has lost all but its first param.
LEMMA GeneratedCount ==
    ASSUME NEW lines, NEW n \in Nat \ {0}, DOMAIN lines = 1 .. n, Len(lines) = n,
           Len(lines[1]) = 1, \A k \in 2 .. n - 1 : Len(lines[k]) # 1
    PROVE  /\ n = 2 /\ Len(lines[2]) = 1 => BehindCounts(lines) = 3
           /\ ~(n = 2 /\ Len(lines[2]) = 1) => BehindCounts(lines) = 2 /\ SingleLines(lines) = {1}
  <1> DEFINE single == {k \in DOMAIN lines : Len(lines[k]) = 1}
             later == {k \in DOMAIN lines : k \notin single /\ \E j \in single : j < k}
             firsts == later \cup {Len(lines) + 1}
             b == BehindCounts(lines)
  <1>1. \A k \in 1 .. n : k \in single <=> Len(lines[k]) = 1
    OBVIOUS
  <1>2. 1 \in single /\ single \subseteq 1 .. n
    BY <1>1
  <1> HIDE DEF single
  <1>3. \A k \in 1 .. n : k \in later <=> k \notin single /\ k # 1
    <2> SUFFICES ASSUME NEW k \in 1 .. n PROVE k \in later <=> k \notin single /\ k # 1
      OBVIOUS
    <2>1. k # 1 => 1 < k
      OBVIOUS
    <2> QED BY <1>2, <2>1
  <1>4. later \subseteq 1 .. n
    OBVIOUS
  <1> HIDE DEF later
  <1>5. b = CHOOSE x \in firsts : \A y \in firsts : x <= y
    BY DEF BehindCounts, Min, later, single
  <1>6. firsts = later \cup {n + 1}
    OBVIOUS
  <1> HIDE DEF firsts, b
  <1>7. ASSUME n = 2, Len(lines[2]) = 1 PROVE b = 3
    <2>1. 2 \in single
      BY <1>1, <1>7
    <2>2. \A k \in 1 .. n : k = 1 \/ k = 2
      BY <1>7
    <2>3. later = {}
      BY <1>3, <1>4, <2>1, <2>2
    <2>4. firsts = {3}
      BY <1>6, <1>7, <2>3
    <2> QED BY <1>5, <2>4
  <1>8. ASSUME ~(n = 2 /\ Len(lines[2]) = 1) PROVE b = 2
    <2>1. n # 1 => 2 \in later
      <3> SUFFICES ASSUME n # 1 PROVE 2 \in later
        OBVIOUS
      <3>1. 2 \in 1 .. n /\ (n # 2 => 2 \in 2 .. n - 1)
        OBVIOUS
      <3>2. 2 \notin single
        BY <1>1, <1>8, <3>1
      <3> QED BY <1>3, <3>1, <3>2
    <2>2. 2 \in firsts
      BY <1>6, <2>1
    <2>3. 1 \notin later
      BY <1>3
    <2>4. \A y \in firsts : y \in Int /\ 2 <= y
      BY <1>4, <1>6, <2>3
    <2>5. \A x \in firsts : (\A y \in firsts : x <= y) => x = 2
      BY <2>2, <2>4
    <2> QED BY <1>5, <2>2, <2>4, <2>5
  <1>9. ASSUME b = 2 PROVE SingleLines(lines) = {1}
    <2>1. SingleLines(lines) = {k \in 1 .. 2 - 1 : Len(lines[k]) = 1}
      BY <1>9 DEF SingleLines, b
    <2> QED BY <2>1
  <1> QED
    BY <1>7, <1>8, <1>9 DEF b

\* A file of which nothing is left has no count.
LEMMA NoCount ==
    ASSUME NEW lines, DOMAIN lines = {}, Len(lines) = 0
    PROVE  SingleLines(lines) = {}
  <1>1. BehindCounts(lines) = Min({1})
    BY DEF BehindCounts
  <1>2. Min({1}) = 1
    BY DEF Min
  <1> QED
    BY <1>1, <1>2 DEF SingleLines

\* What the lines of a generated file are.
LEMMA FileFacts ==
    ASSUME FoundInv, FileInv, pc \notin {"search", "write"}, attempts > 0
    PROVE  /\ Len(found) \in Nat
           /\ Len(file) \in 0 .. Len(found) + 1 /\ DOMAIN file = 1 .. Len(file)
           /\ 1 \in DOMAIN file => Len(file[1]) = 1
           /\ \A k \in 2 .. Len(file) : Len(file[k]) = 3 =>
                 file[k] = <<found[k - 1][1], found[k - 1][2], 1>>
           /\ \A k \in 2 .. Len(file) - 1 : Len(file[k]) = 3
           /\ file = Lines =>
                 /\ Len(file) = Len(found) + 1 /\ file[1] = <<Len(found)>>
                 /\ \A k \in 2 .. Len(file) : Len(file[k]) = 3
  <1> DEFINE n == Len(found)
             l == Len(file)
  <1>1. /\ n \in Nat /\ Len(Lines) = n + 1 /\ Lines[1] = <<n>>
        /\ \A k \in 1 .. n : Lines[k + 1] = <<found[k][1], found[k][2], 1>>
        /\ \A k \in 1 .. n : Len(Lines[k + 1]) = 3
    BY LinesFacts
  <1>2. /\ l \in 0 .. n + 1 /\ DOMAIN file = 1 .. l /\ (1 \in DOMAIN file => Len(file[1]) = 1)
        /\ \A k \in 2 .. l : file[k] = Lines[k] \/ (k = l /\ Len(file[k]) \in {1, 2})
    BY DEF FileInv, IsLeft
  <1>3. file = Lines => l = n + 1 /\ file[1] = <<n>>
    BY <1>1
  <1> HIDE DEF n, l
  <1>4. ASSUME NEW k \in 2 .. l
        PROVE  /\ Lines[k] = <<found[k - 1][1], found[k - 1][2], 1>> /\ Len(Lines[k]) = 3
    <2>1. k - 1 \in 1 .. n /\ (k - 1) + 1 = k
      BY <1>1, <1>2
    <2> DEFINE j == k - 1
    <2>2. j \in 1 .. n /\ j + 1 = k
      BY <2>1
    <2> HIDE DEF j
    <2>3. Lines[j + 1] = <<found[j][1], found[j][2], 1>> /\ Len(Lines[j + 1]) = 3
      BY <1>1, <2>2
    <2> QED BY <2>2, <2>3 DEF j
  <1>5. ASSUME NEW k \in 2 .. l, Len(file[k]) = 3 PROVE file[k] = Lines[k]
    <2>1. Len(file[k]) \notin {1, 2}
      BY <1>5
    <2> QED BY <1>2, <2>1
  <1>6. ASSUME NEW k \in 2 .. l - 1 PROVE Len(file[k]) = 3
    <2>1. k \in 2 .. l /\ k # l
      BY <1>1, <1>2
    <2> QED BY <1>2, <1>4, <2>1
  <1> QED
    BY <1>1, <1>2, <1>3, <1>4, <1>5, <1>6 DEF n, l

LEMMA PreprocessKeeps ==
    ASSUME RouteInv, Preprocess
    PROVE  RouteInv'
  <1> DEFINE counts == {k \in SingleLines(file) : IsUsize(file[k][1])}
  <1>1. /\ pc = "preprocess" /\ UNCHANGED <<writeVars, file, demand>>
        /\ pc' = "err" \/ (pc' = "parse" /\ counts # {})
        /\ counts # {} => /\ pos' = BehindCounts(file)
                          /\ behind' = pos' + file[Max(counts)][1]
    BY DEF Preprocess
  <1>2. FoundInv' /\ EnoughInv' /\ FileInv' /\ UNCHANGED <<request, attempts, found, file>>
    BY <1>1, FoundStays DEF writeVars
  <1>3. Lines' = Lines
    BY <1>2, SameRequest
  <1>4. CASE ~(attempts > 0 /\ pc' = "parse")
    BY <1>1, <1>2, <1>4 DEF RouteInv, DemandInv
  <1>5. CASE attempts > 0 /\ pc' = "parse"
    <2> DEFINE n == Len(found)
               l == Len(file)
    <2>1. /\ n \in Nat /\ l \in 0 .. n + 1 /\ DOMAIN file = 1 .. l
          /\ 1 \in DOMAIN file => Len(file[1]) = 1
          /\ \A k \in 2 .. l - 1 : Len(file[k]) = 3
          /\ file = Lines => /\ l = n + 1 /\ file[1] = <<n>>
                             /\ \A k \in 2 .. l : Len(file[k]) = 3
      BY <1>1, <1>5, FileFacts DEF RouteInv
    <2>2. l # 0
      <3> SUFFICES ASSUME l = 0 PROVE FALSE
        OBVIOUS
      <3>1. DOMAIN file = {} /\ Len(file) = 0
        BY <2>1
      <3>2. counts = {}
        BY <3>1, NoCount
      <3> QED BY <1>1, <1>5, <3>2
    <2> HIDE DEF n
    <2> HIDE DEF l
    <2>3. /\ Len(file[1]) = 1 /\ l \in Nat \ {0}
          /\ \A k \in 2 .. l - 1 : Len(file[k]) # 1
      <3>1. l \in Nat \ {0} /\ 1 \in 1 .. l
        BY <2>1, <2>2
      <3> QED BY <2>1, <3>1
    <2>4. /\ l = 2 /\ Len(file[2]) = 1 => BehindCounts(file) = 3
          /\ ~(l = 2 /\ Len(file[2]) = 1) => BehindCounts(file) = 2 /\ SingleLines(file) = {1}
      BY <2>1, <2>3, GeneratedCount DEF l
    <2>5. pos' = 0 + 2 \/ (pos' = 3 /\ l = 2)
      BY <1>1, <1>5, <2>4
    <2>6. file = Lines => pos' = 0 + 2 /\ behind' = n + 2
      <3> SUFFICES ASSUME file = Lines PROVE pos' = 0 + 2 /\ behind' = n + 2
        OBVIOUS
      <3>1. l = 2 => Len(file[2]) = 3
        BY <2>1
      <3>2. pos' = 2 /\ SingleLines(file) = {1} /\ file[1][1] = n
        BY <1>1, <1>5, <2>1, <2>4, <3>1
      <3>3. counts = {1}
        BY <2>1, <3>2 DEF IsUsize
      <3> HIDE DEF counts
      <3>4. Max(counts) = 1
        BY <3>3 DEF Max
      <3> QED BY <1>1, <1>5, <2>1, <3>2, <3>4
    <2>7. demand' = [k \in 1 .. 0 |-> [src |-> found[k][1], dst |-> found[k][2], n |-> 1]]
      <3>1. demand' = <<>>
        BY <1>1 DEF RouteInv, DemandInv
      <3>2. \A f : f = [k \in 1 .. 0 |-> [src |-> found[k][1], dst |-> found[k][2], n |-> 1]]
                      => f = <<>>
        OBVIOUS
      <3> QED BY <3>1, <3>2
    <2>8. 0 \in 0 .. n
      BY <2>1
    <2>9. DemandInv'
      <3>1. pc' = "parse" /\ n = Len(found') /\ l = Len(file')
        BY <1>2, <1>5 DEF n, l
      <3>2. /\ demand' = [k \in 1 .. 0 |-> [src |-> found'[k][1], dst |-> found'[k][2], n |-> 1]]
            /\ file' = Lines' => pos' = 0 + 2 /\ behind' = n + 2
        BY <1>2, <1>3, <2>6, <2>7
      <3> QED BY <2>5, <2>8, <3>1, <3>2 DEF DemandInv
    <2> QED BY <1>2, <2>9 DEF RouteInv
  <1> QED
    BY <1>4, <1>5

LEMMA ParseRouteKeeps ==
    ASSUME RouteInv, ParseRoute
    PROVE  RouteInv'
  <1> DEFINE params == file[pos]
  <1>1. /\ pc = "parse" /\ pos \in DOMAIN file /\ UNCHANGED <<writeVars, file, behind>>
        /\ pc' \in {"parse", "err"}
        /\ pc' = "parse" =>
              /\ Len(params) = 3
              /\ demand' = Append(demand, [src |-> params[1], dst |-> params[2], n |-> params[3]])
              /\ pos' = pos + 1
    BY DEF ParseRoute
  <1>2. FoundInv' /\ EnoughInv' /\ FileInv' /\ UNCHANGED <<request, attempts, found, file>>
    BY <1>1, FoundStays DEF writeVars
  <1>3. Lines' = Lines
    BY <1>2, SameRequest
  <1>4. CASE ~(attempts > 0 /\ pc' = "parse")
    BY <1>1, <1>2, <1>4 DEF RouteInv, DemandInv
  <1>5. CASE attempts > 0 /\ pc' = "parse"
    <2> DEFINE n == Len(found)
               l == Len(file)
               RouteAt(k) == [src |-> found[k][1], dst |-> found[k][2], n |-> 1]
    <2>1. /\ n \in Nat /\ l \in 0 .. n + 1 /\ DOMAIN file = 1 .. l
          /\ \A k \in 2 .. l : Len(file[k]) = 3 =>
                file[k] = <<found[k - 1][1], found[k - 1][2], 1>>
      BY <1>1, <1>5, FileFacts DEF RouteInv
    <2>2. PICK m \in 0 .. n :
              /\ demand = [k \in 1 .. m |-> RouteAt(k)]
              /\ pos = m + 2 \/ (pos = 3 /\ l = 2)
              /\ file = Lines => pos = m + 2 /\ behind = n + 2
      BY <1>1, <1>5 DEF RouteInv, DemandInv
    <2> HIDE DEF n, l
    <2> DEFINE j == m + 1
    <2>3. pos = m + 2 /\ pos \in 2 .. l /\ pos - 1 = j /\ m \in Nat
      <3>1. pos \in 1 .. l
        BY <1>1, <2>1
      <3> QED BY <2>1, <2>2, <3>1
    <2>4. j \in 1 .. n /\ j \in Nat /\ j = m + 1 /\ pos + 1 = j + 2
      BY <2>1, <2>3
    <2> HIDE DEF j
    <2>5. params = <<found[j][1], found[j][2], 1>>
      BY <1>1, <1>5, <2>1, <2>3
    <2>6. demand' = Append(demand, RouteAt(j)) /\ pos' = j + 2
      BY <1>1, <1>5, <2>4, <2>5
    <2> HIDE DEF RouteAt
    <2>7. demand' = [k \in 1 .. j |-> RouteAt(k)]
      <3> DEFINE S == {RouteAt(k) : k \in 1 .. j}
      <3>1. demand \in Seq(S) /\ Len(demand) = m /\ RouteAt(j) \in S
        BY <2>2, <2>3, <2>4
      <3> HIDE DEF S
      <3>2. /\ DOMAIN demand' = 1 .. j /\ demand'[j] = RouteAt(j)
            /\ \A k \in 1 .. m : demand'[k] = RouteAt(k)
        BY <2>2, <2>3, <2>4, <2>6, <3>1
      <3>3. \A k \in 1 .. j : k \in 1 .. m \/ k = j
        BY <2>3, <2>4
      <3>4. demand' \in [1 .. j -> S]
        <4>1. demand' \in Seq(S) /\ Len(demand') = j
          BY <2>3, <2>4, <2>6, <3>1
        <4> QED BY <4>1
      <3>5. \A k \in 1 .. j : demand'[k] = RouteAt(k)
        BY <3>2, <3>3
      <3> QED BY <3>4, <3>5
    <2>8. DemandInv'
      <3>1. pc' = "parse" /\ j \in 0 .. Len(found')
        BY <1>2, <1>5, <2>1, <2>4 DEF n
      <3>2. demand' = [k \in 1 .. j |-> [src |-> found'[k][1], dst |-> found'[k][2], n |-> 1]]
        BY <1>2, <2>7 DEF RouteAt
      <3>3. file' = Lines' => behind' = Len(found') + 2
        BY <1>1, <1>2, <1>3, <2>2 DEF n
      <3> QED BY <2>6, <3>1, <3>2, <3>3 DEF DemandInv
    <2> QED BY <1>2, <2>8 DEF RouteInv
  <1> QED
    BY <1>4, <1>5

LEMMA EndParsingKeeps ==
    ASSUME RouteInv, EndParsing
    PROVE  RouteInv'
  <1>1. /\ pc = "parse" /\ pc' = "done" /\ UNCHANGED <<writeVars, file, pos, behind, demand>>
        /\ pos >= behind \/ pos \notin DOMAIN file
    BY DEF EndParsing
  <1>2. FoundInv' /\ EnoughInv' /\ FileInv' /\ UNCHANGED <<request, attempts, found, file>>
    BY <1>1, FoundStays DEF writeVars
  <1>3. Lines' = Lines
    BY <1>2, SameRequest
  <1>4. ASSUME attempts > 0 PROVE DemandInv'
    <2> DEFINE n == Len(found)
    <2>1. /\ n \in Nat /\ DOMAIN file = 1 .. Len(file)
          /\ file = Lines => Len(file) = n + 1
      BY <1>1, <1>4, FileFacts DEF RouteInv
    <2>2. PICK m \in 0 .. n :
              /\ demand = [k \in 1 .. m |-> [src |-> found[k][1], dst |-> found[k][2], n |-> 1]]
              /\ pos = m + 2 \/ (pos = 3 /\ Len(file) = 2)
              /\ file = Lines => pos = m + 2 /\ behind = n + 2
      BY <1>1, <1>4 DEF RouteInv, DemandInv
    <2> HIDE DEF n
    <2>3. file = Lines => m = n
      <3> SUFFICES ASSUME file = Lines PROVE m = n
        OBVIOUS
      <3>1. DOMAIN file = 1 .. n + 1 /\ pos = m + 2 /\ behind = n + 2
        BY <2>1, <2>2
      <3> QED BY <1>1, <2>1, <2>2, <3>1
    <2>4. m \in 0 .. Len(found') /\ Len(found') = n
      BY <1>2 DEF n
    <2> QED BY <1>1, <1>2, <1>3, <2>2, <2>3, <2>4 DEF DemandInv
  <1> QED
    BY <1>1, <1>2, <1>4 DEF RouteInv, DemandInv

-----------------------------------------------------------------------------
(* The invariant and what it means *)

\* Generating ends with enough routes or enough attempts, the file has the routes that were
\* found, and the demand has those of the lines parsed so far.
THEOREM RouteInvariant == Spec => []RouteInv
  <1>1. ASSUME Init PROVE RouteInv
    <2>1. /\ request \in Requests /\ processed = {} /\ attempts = 0 /\ found = <<>>
          /\ demand = <<>> /\ pc \in {"search", "preprocess"}
      BY <1>1 DEF Init
    <2>2. NumPossible \in Nat /\ MaxCount \in Nat
      BY <2>1, RequestFacts
    <2>3. FoundInv
      BY <2>1, <2>2 DEF FoundInv, IsInjective
    <2> QED BY <2>1, <2>3 DEF RouteInv, EnoughInv, FileInv, DemandInv
  <1>2. ASSUME RouteInv, [Next]_vars PROVE RouteInv'
    <2>1. CASE Search
      BY <1>2, <2>1, SearchKeeps
    <2>2. CASE EndSearch
      BY <1>2, <2>2, EndSearchKeeps
    <2>3. CASE Write
      BY <1>2, <2>3, WriteKeeps
    <2>4. CASE Preprocess
      BY <1>2, <2>4, PreprocessKeeps
    <2>5. CASE ParseRoute
      BY <1>2, <2>5, ParseRouteKeeps
    <2>6. CASE EndParsing
      BY <1>2, <2>6, EndParsingKeeps
    <2>7. CASE UNCHANGED vars
      <3>1. /\ UNCHANGED <<request, processed, attempts, found>>
            /\ UNCHANGED <<pc, file, pos, behind, demand>>
        BY <2>7 DEF vars, writeVars
      <3>2. FoundInv'
        BY <1>2, <3>1, SameRequest DEF RouteInv, FoundInv
      <3>3. EnoughInv' /\ FileInv' /\ DemandInv'
        BY <1>2, <3>1, SameRequest DEF RouteInv, EnoughInv, FileInv, IsLeft, DemandInv
      <3> QED BY <3>2, <3>3 DEF RouteInv
    <2>8. CASE Stopped
      BY <2>7, <2>8 DEF Stopped
    <2> QED
      BY <1>2, <2>1, <2>2, <2>3, <2>4, <2>5, <2>6, <2>7, <2>8 DEF Next
  <1> QED
    BY <1>1, <1>2, PTL DEF Spec

\* RoutePair::into_idx inverts the ids.
LEMMA IdxOfId ==
    ASSUME request \in Requests, NEW i \in Indices
    PROVE  IdxOf(request.ids[i + 1]) = i
  <1> DEFINE ids == request.ids
             same == {j \in 1 .. Len(ids) : ids[j] = ids[i + 1]}
  <1>1. /\ DOMAIN ids = 1 .. Len(ids) /\ Len(ids) \in Nat /\ Indices = 0 .. Len(ids) - 1
        /\ i + 1 \in 1 .. Len(ids)
        /\ \A k, l \in Indices : ids[k + 1] = ids[l + 1] => k = l
    BY RequestFacts DEF NumNodes, Indices
  <1>2. same = {i + 1}
    <2>1. ASSUME NEW j \in same PROVE j = i + 1
      <3>1. j - 1 \in Indices /\ (j - 1) + 1 = j
        BY <1>1, <2>1
      <3>2. j - 1 = i
        BY <1>1, <2>1, <3>1
      <3> QED BY <1>1, <3>1, <3>2
    <2> QED BY <1>1, <2>1
  <1> HIDE DEF same
  <1>3. Min(same) = i + 1
    BY <1>1, <1>2 DEF Min
  <1>4. SelectInSeq(ids, LAMBDA other : other = ids[i + 1]) = i + 1
    BY <1>2, <1>3 DEF SelectInSeq, same
  <1> QED
    BY <1>1, <1>4 DEF IdxOf

\* Parsing a generated file ends with routes that were found, with all of them unless the file has
\* lost its end.
LEMMA DemandIsFound ==
    ASSUME RouteInv, IsGenerated
    PROVE  /\ Len(found) \in Nat /\ DOMAIN found = 1 .. Len(found)
           /\ Len(demand) \in 0 .. Len(found) /\ DOMAIN demand = 1 .. Len(demand)
           /\ \A k \in 1 .. Len(demand) :
                 demand[k] = [src |-> found[k][1], dst |-> found[k][2], n |-> 1]
           /\ file = Lines => Len(demand) = Len(found)
  <1> DEFINE n == Len(found)
             RouteAt(k) == [src |-> found[k][1], dst |-> found[k][2], n |-> 1]
  <1>1. n \in Nat /\ DOMAIN found = 1 .. n
    BY DEF RouteInv, FoundInv
  <1>2. PICK m \in 0 .. n :
            /\ demand = [k \in 1 .. m |-> RouteAt(k)]
            /\ file = Lines => m = n
    BY DEF RouteInv, DemandInv, IsGenerated
  <1> HIDE DEF n, RouteAt
  <1>3. m \in Nat /\ m \in 0 .. n
    BY <1>1
  <1>4. DOMAIN demand = 1 .. m /\ Len(demand) = m /\ \A k \in 1 .. m : demand[k] = RouteAt(k)
    <2> DEFINE S == {RouteAt(k) : k \in 1 .. m}
    <2>1. demand \in [1 .. m -> S]
      BY <1>2
    <2> HIDE DEF S
    <2>2. demand \in Seq(S) /\ Len(demand) = m
      BY <1>3, <2>1
    <2>3. \A k \in 1 .. m : demand[k] = RouteAt(k)
      BY <1>2
    <2> QED BY <2>1, <2>2, <2>3
  <1>5. \A k \in 1 .. m : demand[k] = [src |-> found[k][1], dst |-> found[k][2], n |-> 1]
    BY <1>4 DEF RouteAt
  <1>6. file = Lines => Len(demand) = n
    BY <1>2, <1>4
  <1>7. Len(demand) \in 0 .. n /\ DOMAIN demand = 1 .. Len(demand)
    BY <1>3, <1>4
  <1> QED
    BY <1>1, <1>4, <1>5, <1>6, <1>7 DEF n

\* A simulation can serve what is parsed from a generated file, also from one that has lost its
\* end: existing routes between different nodes of the graph, each once, and not more than requested.
THEOREM DemandIsServableSafe == Spec => []DemandIsServable
  <1>1. ASSUME RouteInv PROVE DemandIsServable
    <2> SUFFICES ASSUME IsGenerated
                 PROVE  /\ Len(demand) <= request.maxCount
                        /\ \A k \in DOMAIN demand :
                              /\ {demand[k].src, demand[k].dst} \subseteq ToSet(request.ids)
                              /\ demand[k].src # demand[k].dst
                              /\ HasPath(IdxOf(demand[k].src), IdxOf(demand[k].dst))
                              /\ demand[k].n = 1
                        /\ IsInjective(demand)
      BY DEF DemandIsServable
    <2> DEFINE n == Len(demand)
    <2>1. /\ n \in 0 .. Len(found) /\ Len(found) \in Nat /\ DOMAIN demand = 1 .. n
          /\ \A k \in 1 .. n : demand[k] = [src |-> found[k][1], dst |-> found[k][2], n |-> 1]
      BY <1>1, DemandIsFound
    <2>2. /\ request \in Requests /\ Len(found) <= MaxCount
          /\ processed \subseteq Indices \X Indices /\ 1 .. n \subseteq DOMAIN found
      BY <1>1, <2>1, DemandIsFound DEF RouteInv, FoundInv
    <2>3. \A k \in 1 .. n : \E pair \in processed : IsRoute(pair) /\ found[k] = RouteOf(pair)
      BY <1>1, <2>2 DEF RouteInv, FoundInv
    <2>4. \A k, l \in 1 .. n : found[k] = found[l] => k = l
      BY <1>1, <2>2 DEF RouteInv, FoundInv, IsInjective
    <2>5. \A k \in 1 .. n : /\ demand[k].src = found[k][1] /\ demand[k].dst = found[k][2]
                            /\ demand[k].n = 1
      BY <2>1
    <2>6. Len(demand) <= request.maxCount
      BY <2>1, <2>2, RequestFacts
    <2> HIDE DEF n
    <2>7. ASSUME NEW k \in 1 .. n
          PROVE  /\ {demand[k].src, demand[k].dst} \subseteq ToSet(request.ids)
                 /\ demand[k].src # demand[k].dst
                 /\ HasPath(IdxOf(demand[k].src), IdxOf(demand[k].dst))
      <3>1. PICK pair \in processed : IsRoute(pair) /\ found[k] = RouteOf(pair)
        BY <2>3
      <3>2. pair[1] \in Indices /\ pair[2] \in Indices /\ pair[1] # pair[2]
            /\ HasPath(pair[1], pair[2])
        BY <2>2, <3>1 DEF IsRoute
      <3>3. demand[k].src = request.ids[pair[1] + 1] /\ demand[k].dst = request.ids[pair[2] + 1]
        BY <2>5, <3>1 DEF RouteOf
      <3>4. IdxOf(demand[k].src) = pair[1] /\ IdxOf(demand[k].dst) = pair[2]
        BY <2>2, <3>2, <3>3, IdxOfId
      <3>5. demand[k].src \in ToSet(request.ids) /\ demand[k].dst \in ToSet(request.ids)
        BY <2>2, <3>2, <3>3, RequestFacts
      <3> QED BY <3>2, <3>4, <3>5
    <2>8. IsInjective(demand)
      <3> SUFFICES ASSUME NEW k \in 1 .. n, NEW l \in 1 .. n, demand[k] = demand[l]
                   PROVE  k = l
        BY <2>1 DEF IsInjective
      <3>1. \A j \in 1 .. n : found[j] = <<found[j][1], found[j][2]>>
        BY <2>3 DEF RouteOf
      <3>2. found[k][1] = found[l][1] /\ found[k][2] = found[l][2]
        BY <2>5
      <3>3. found[k] = found[l]
        BY <3>1, <3>2
      <3> QED BY <2>4, <3>3
    <2> QED BY <2>1, <2>5, <2>6, <2>7, <2>8
  <1> QED
    BY <1>1, RouteInvariant, PTL

\* Who requests as many routes as there may be gets all that exist; who requests fewer gets fewer
\* only after as many attempts as there are pairs, or from a file that has lost its end.
THEOREM AllOrEnoughSafe == Spec => []AllOrEnough
  <1>1. ASSUME RouteInv PROVE AllOrEnough
    <2> DEFINE routes == {pair \in Indices \X Indices :
                             pair[1] # pair[2] /\ HasPath(pair[1], pair[2])}
               n == Len(found)
    <2> SUFFICES ASSUME IsGenerated, file = Lines
                 PROVE  IF request.maxCount >= NumPossible
                        THEN Len(demand) = Cardinality(routes)
                        ELSE Len(demand) = request.maxCount \/ attempts = NumPossible
      BY DEF AllOrEnough
    <2>1. n \in Nat /\ DOMAIN found = 1 .. n /\ Len(demand) = n
      BY <1>1, DemandIsFound
    <2>2. /\ request \in Requests /\ n <= MaxCount /\ processed \subseteq Indices \X Indices
          /\ attempts \in Nat /\ attempts <= NumPossible /\ n <= attempts
          /\ n >= MaxCount \/ attempts >= NumPossible
      BY <1>1 DEF RouteInv, FoundInv, EnoughInv, IsGenerated
    <2>3. /\ NumPossible \in Nat /\ MaxCount \in Nat /\ request.maxCount \in Nat
          /\ MaxCount = NumPossible \/ MaxCount = request.maxCount
          /\ MaxCount <= request.maxCount /\ MaxCount <= NumPossible
      BY <2>2, RequestFacts
    <2> HIDE DEF n, routes
    <2>4. CASE request.maxCount < NumPossible
      BY <2>1, <2>2, <2>3, <2>4
    <2>5. CASE request.maxCount >= NumPossible
      <3>1. attempts = NumPossible /\ IsEnumerating
        BY <2>1, <2>2, <2>3, <2>5 DEF IsEnumerating
      <3>2. processed = Indices \X Indices
        <4>1. \A a \in Nat : a < NumPossible => PairAt(a) \in processed
          BY <1>1, <3>1 DEF RouteInv, FoundInv
        <4> QED BY <2>2, <4>1, PairsAreEnumerated
      <3>3. \A pair \in processed : pair \in routes <=> IsRoute(pair)
        BY <2>2, <3>2 DEF routes, IsRoute
      <3>4. routes \subseteq processed
        BY <3>2 DEF routes
      <3>5. /\ \A k \in 1 .. n : \E pair \in routes : found[k] = RouteOf(pair)
            /\ \A pair \in routes : \E k \in 1 .. n : found[k] = RouteOf(pair)
            /\ \A k, l \in 1 .. n : found[k] = found[l] => k = l
        BY <1>1, <2>1, <3>3, <3>4 DEF RouteInv, FoundInv, IsInjective
      <3> DEFINE RouteFound(k) == CHOOSE pair \in routes : found[k] = RouteOf(pair)
                 f == [k \in 1 .. n |-> RouteFound(k)]
      <3>6. \A k \in 1 .. n : RouteFound(k) \in routes /\ found[k] = RouteOf(RouteFound(k))
        BY <3>5
      <3> HIDE DEF RouteFound
      <3>7. f \in [1 .. n -> routes] /\ \A k \in 1 .. n : f[k] \in routes /\ found[k] = RouteOf(f[k])
        BY <3>6
      <3> HIDE DEF f
      <3>8. \A k, l \in 1 .. n : f[k] = f[l] => k = l
        BY <3>5, <3>7
      <3>9. ASSUME NEW pair \in routes PROVE \E k \in 1 .. n : f[k] = pair
        <4>1. PICK k \in 1 .. n : found[k] = RouteOf(pair)
          BY <3>5
        <4>2. f[k] = pair
          BY <2>2, <3>2, <3>4, <3>7, <4>1, RoutesDiffer
        <4> QED BY <4>2
      <3>10. Cardinality(routes) = n
        <4>1. ExistsBijection(1 .. n, routes)
          BY <3>7, <3>8, <3>9 DEF ExistsBijection, Bijection, Injection, Surjection, IsInjective
        <4> QED BY <2>1, <4>1, FS_CountingElements
      <3> QED BY <2>1, <2>5, <3>10
    <2> QED
      BY <2>3, <2>4, <2>5 DEF routes
  <1> QED
    BY <1>1, RouteInvariant, PTL
===============================================================================
