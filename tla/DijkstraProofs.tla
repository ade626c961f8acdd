--------------------------- MODULE DijkstraProofs ---------------------------
(***************************************************************************)
(* Theorems about Dijkstra, for every set of graphs and every number of    *)
(* queries: what the searches never do (from SearchInv), and that their    *)
(* answer is a best path.                                                  *)
(*                                                                         *)
(* For the latter, Ways is the reference: the rounds of Bellman and Ford   *)
(* converge, so that it holds the costs of best walks, and no walk is      *)
(* cheaper, over shortcuts neither.  BestInv is the inductive invariant,   *)
(* next to SearchInv: what the searches have finished with has been        *)
(* relaxed, what is still missing waits in the queue, and what is known is *)
(* never better than the best walk.                                        *)
(***************************************************************************)
EXTENDS Dijkstra, Foundations, SequenceTheorems

-----------------------------------------------------------------------------
(* The inductive invariant *)

Cost == Nat \cup {Inf}
Vector(S) == [Nodes -> S] \cup [{} -> S]
InSearch == pc \in {"search", "path"}

\* Where the search of a direction begins.
Origin(dir) == IF dir = "FWD" THEN query.src ELSE query.dst

\* The types of the variables, and that no index into a vector is out of bounds while a query is
\* answered.
ShapeInv ==
    /\ net \in Networks
    /\ pc \in {"idle", "search", "path", "panicked"}
    /\ query \in [src : Nodes, dst : Nodes, alphas : Alphas, algo : {"Dijkstra", "CHDijkstra"}]
    /\ costs \in [Dirs -> Vector(Cost)]
    /\ predecessors \in [Dirs -> Vector({None} \cup DOMAIN net.edges)]
    /\ isVisited \in [Dirs -> Vector(BOOLEAN)]
    /\ foundBest \in [Dirs -> BOOLEAN]
    /\ touched \in [Dirs -> SUBSET Nodes]
    /\ queue \in SUBSET [cost : Nat, idx : Nodes, dir : Dirs]
    /\ bestMeeting \in [idx : Nodes \cup {None}, cost : Cost]
    /\ result \in [found : BOOLEAN, path : Seq(DOMAIN net.edges)]
    /\ asked \in 0 .. MaxQueries(net)
    /\ \A dir \in Dirs : DOMAIN predecessors[dir] = DOMAIN costs[dir]
    /\ InSearch => /\ \A dir \in Dirs : DOMAIN costs[dir] = Nodes
                   /\ ~IsCh => \A dir \in Dirs : DOMAIN isVisited[dir] = Nodes
                   /\ query.alphas[1] >= 0 /\ query.alphas[2] >= 0

\* The costs of an entry have been written to its node, and have only been improved since.
QueueInv ==
    pc = "search" => \A c \in queue : costs[c.dir][c.idx] # Inf /\ costs[c.dir][c.idx] <= c.cost

\* Bidirectional Dijkstra visits only nodes that it has reached.
VisitedInv ==
    InSearch /\ ~IsCh =>
        \A dir \in Dirs : \A v \in Nodes : isVisited[dir][v] => costs[dir][v] # Inf

\* A node that has been reached, and the edge it has been reached by.
ReachedBy(dir, e, v) ==
    /\ Target(dir, e) = v
    /\ costs[dir][Source(dir, e)] # Inf /\ costs[dir][v] # Inf
    /\ costs[dir][Source(dir, e)] + Weight(query.alphas, net.edges[e]) <= costs[dir][v]

\* The predecessors make a tree, which grows from the origin: its root.
Tree(dir) ==
    /\ costs[dir][Origin(dir)] = 0
    /\ \A v \in Nodes : predecessors[dir][v] = None /\ costs[dir][v] # Inf <=> v = Origin(dir)
    /\ \A v \in Nodes : predecessors[dir][v] # None => ReachedBy(dir, predecessors[dir][v], v)

\* Edges may weigh nothing, so that costs alone do not order the tree: along the edges with the
\* same costs, the rank grows.
Ranks(dir, rank, b) ==
    /\ rank \in [Nodes -> 0 .. b]
    /\ \A v \in Nodes :
          predecessors[dir][v] # None =>
              LET u == Source(dir, predecessors[dir][v])
              IN  costs[dir][u] < costs[dir][v] \/ rank[u] < rank[v]
Ranked(dir) == \E b \in Nat : \E rank \in [Nodes -> 0 .. b] : Ranks(dir, rank, b)

TreeInv == InSearch => \A dir \in Dirs : Tree(dir) /\ Ranked(dir)

\* The meeting node has been reached from both sides, for no more than its remembered cost.
MeetingInv ==
    InSearch /\ bestMeeting.idx # None =>
        /\ bestMeeting.cost # Inf
        /\ \A dir \in Dirs : costs[dir][bestMeeting.idx] # Inf
        /\ costs["FWD"][bestMeeting.idx] + costs["BWD"][bestMeeting.idx] <= bestMeeting.cost

SearchInv ==
    /\ ShapeInv
    /\ TouchedCoversVectors
    /\ QueueInv
    /\ VisitedInv
    /\ TreeInv
    /\ MeetingInv

-----------------------------------------------------------------------------
(* Graphs *)

\* What a graph is.
LEMMA NetworkFacts ==
    ASSUME net \in Networks
    PROVE  /\ net.n \in Nat /\ net.n > 0 /\ Nodes = 0 .. net.n - 1
           /\ Len(net.edges) \in Nat /\ DOMAIN net.edges = 1 .. Len(net.edges)
           /\ \A e \in DOMAIN net.edges :
                 /\ net.edges[e].src \in Nodes /\ net.edges[e].dst \in Nodes
                 /\ net.edges[e].metrics[1] \in Nat /\ net.edges[e].metrics[2] \in Nat
           /\ MaxQueries(net) \in Nat
           /\ None \notin Nodes /\ None \notin DOMAIN net.edges
  <1>1. IsNetwork(net) /\ MaxQueries(net) \in Nat
    BY DijkstraAssumption
  <1>2. /\ net.n \in Nat /\ net.n > 0 /\ Nodes = 0 .. net.n - 1
        /\ net.edges \in Seq([src : Nodes, dst : Nodes, metrics : Nat \X Nat])
    BY <1>1 DEF IsNetwork, Nodes, NodesOf
  <1>3. Len(net.edges) \in Nat /\ DOMAIN net.edges = 1 .. Len(net.edges)
    BY <1>2
  <1> DEFINE Edge == [src : Nodes, dst : Nodes, metrics : Nat \X Nat]
  <1>4. \A e \in DOMAIN net.edges : net.edges[e] \in Edge
    <2> HIDE DEF Edge
    <2> QED BY <1>2, <1>3, ElementOfSeq DEF Edge
  <1>5. None \notin Nodes /\ None \notin DOMAIN net.edges
    BY <1>2, <1>3 DEF None
  <1> QED
    BY <1>1, <1>2, <1>3, <1>4, <1>5

\* The ends of an edge, in both directions.
LEMMA EndsAreNodes ==
    ASSUME net \in Networks, NEW dir \in Dirs, NEW e \in DOMAIN net.edges
    PROVE  /\ Target(dir, e) \in Nodes /\ Source(dir, e) \in Nodes
           /\ Source(dir, e) = IF dir = "FWD" THEN net.edges[e].src ELSE net.edges[e].dst
  BY NetworkFacts DEF Target, Source, Opp, Dirs, HeadOf, TailOf

\* The leaving edges are all that leave, those to higher levels first.
LEMMA LeavingList ==
    ASSUME net \in Networks, NEW dir \in Dirs, NEW v \in Nodes
    PROVE  LET leaving == net.leaving[dir][v]
           IN  /\ leaving \in Seq(DOMAIN net.edges)
               /\ DOMAIN leaving = 1 .. Len(leaving) /\ Len(leaving) \in Nat
               /\ {leaving[i] : i \in DOMAIN leaving} = {e \in DOMAIN net.edges : Source(dir, e) = v}
               /\ \A i, j \in DOMAIN leaving : i < j =>
                     net.level[Target(dir, leaving[i])] >= net.level[Target(dir, leaving[j])]
  <1>1. IsNetwork(net) /\ v \in NodesOf(net)
    BY DijkstraAssumption DEF Nodes
  <1> DEFINE leaving == net.leaving[dir][v]
  <1>2. leaving \in Seq(DOMAIN net.edges)
    BY <1>1 DEF IsNetwork
  <1>3. /\ ToSet(leaving) = {e \in DOMAIN net.edges : Source(dir, e) = v}
        /\ \A i, j \in DOMAIN leaving : i < j =>
              net.level[Target(dir, leaving[i])] >= net.level[Target(dir, leaving[j])]
    BY <1>1 DEF IsNetwork, Source, Target
  <1>4. DOMAIN leaving = 1 .. Len(leaving) /\ Len(leaving) \in Nat
    <2> HIDE DEF leaving
    <2> QED BY <1>2, LenProperties
  <1> QED
    BY <1>2, <1>3, <1>4 DEF ToSet

LEMMA LeavingFacts ==
    ASSUME net \in Networks, NEW dir \in Dirs, NEW v \in Nodes,
           NEW i \in DOMAIN net.leaving[dir][v]
    PROVE  /\ net.leaving[dir][v][i] \in DOMAIN net.edges
           /\ Source(dir, net.leaving[dir][v][i]) = v
  BY LeavingList

LEMMA ProductIsNat == \A a, b \in Nat : a * b \in Nat
  OBVIOUS

\* With the alphas of a query that is answered, edges weigh something or nothing.
LEMMA WeightIsNat ==
    ASSUME net \in Networks, query.alphas \in Alphas,
           query.alphas[1] >= 0, query.alphas[2] >= 0, NEW e \in DOMAIN net.edges
    PROVE  Weight(query.alphas, net.edges[e]) \in Nat
  <1>1. query.alphas[1] \in Nat /\ query.alphas[2] \in Nat
    BY DijkstraAssumption
  <1>2. net.edges[e].metrics[1] \in Nat /\ net.edges[e].metrics[2] \in Nat
    BY NetworkFacts
  <1>3. /\ query.alphas[1] * net.edges[e].metrics[1] \in Nat
        /\ query.alphas[2] * net.edges[e].metrics[2] \in Nat
    BY <1>1, <1>2, ProductIsNat
  <1> QED
    BY <1>3 DEF Weight

-----------------------------------------------------------------------------
(* The steps that leave the trees alone *)

LEMMA TreesUnchanged ==
    ASSUME UNCHANGED <<net, query, costs, predecessors>>, NEW dir \in Dirs, Tree(dir), Ranked(dir)
    PROVE  Tree(dir)' /\ Ranked(dir)'
  <1>1. Nodes' = Nodes /\ Origin(dir)' = Origin(dir)
    BY DEF Nodes, Origin, NodesOf
  <1>2. \A e : Target(dir, e)' = Target(dir, e) /\ Source(dir, e)' = Source(dir, e)
    BY DEF Target, Source, HeadOf, TailOf
  <1>3. \A e, v : ReachedBy(dir, e, v) => ReachedBy(dir, e, v)'
    BY <1>2 DEF ReachedBy, Weight
  <1>4. Tree(dir)'
    BY <1>1, <1>3 DEF Tree
  <1>5. PICK b \in Nat : \E rank \in [Nodes -> 0 .. b] : Ranks(dir, rank, b)
    BY DEF Ranked
  <1>6. PICK rank \in [Nodes -> 0 .. b] : Ranks(dir, rank, b)
    BY <1>5
  <1>7. Ranks(dir, rank, b)'
    BY <1>1, <1>2, <1>6 DEF Ranks
  <1>8. Ranked(dir)'
    BY <1>1, <1>7 DEF Ranked
  <1> QED
    BY <1>4, <1>8

LEMMA InitSearch == Init => SearchInv
  <1> SUFFICES ASSUME Init PROVE SearchInv
    OBVIOUS
  <1> USE DEF Init
  <1>1. /\ net \in Networks /\ 0 \in Nodes /\ MaxQueries(net) \in Nat
    BY NetworkFacts
  <1>2. \A S : <<>> \in [{} -> S] /\ <<>> \in Vector(S)
    BY DEF Vector
  <1>3. ShapeInv
    <2>1. /\ costs \in [Dirs -> Vector(Cost)]
          /\ predecessors \in [Dirs -> Vector({None} \cup DOMAIN net.edges)]
          /\ isVisited \in [Dirs -> Vector(BOOLEAN)]
          /\ foundBest \in [Dirs -> BOOLEAN]
          /\ touched \in [Dirs -> SUBSET Nodes]
      BY <1>2
    <2>2. query \in [src : Nodes, dst : Nodes, alphas : Alphas, algo : {"Dijkstra", "CHDijkstra"}]
      BY <1>1
    <2>3. /\ bestMeeting \in [idx : Nodes \cup {None}, cost : Cost]
          /\ result \in [found : BOOLEAN, path : Seq(DOMAIN net.edges)]
      BY DEF NoMeeting, NoPath, Cost
    <2>4. \A dir \in Dirs : DOMAIN predecessors[dir] = DOMAIN costs[dir]
      OBVIOUS
    <2>5. /\ pc \in {"idle", "search", "path", "panicked"} /\ ~InSearch
          /\ queue \in SUBSET [cost : Nat, idx : Nodes, dir : Dirs]
      BY DEF InSearch
    <2>6. asked \in 0 .. MaxQueries(net)
      BY <1>1
    <2> HIDE DEF Init
    <2> QED
      BY <1>1, <2>1, <2>2, <2>3, <2>4, <2>5, <2>6 DEF ShapeInv
  <1>4. TouchedCoversVectors
    <2>1. \A dir \in Dirs : DOMAIN costs[dir] = {}
      OBVIOUS
    <2> QED BY <2>1 DEF TouchedCoversVectors
  <1> QED
    BY <1>3, <1>4 DEF SearchInv, QueueInv, VisitedInv, TreeInv, MeetingInv, InSearch

LEMMA RefuseKeeps ==
    ASSUME SearchInv, NEW q \in Query, Refuse(q)
    PROVE  SearchInv'
  <1>1. /\ pc = "idle" /\ asked < MaxQueries(net)
        /\ query' = q /\ result' = NoPath /\ asked' = asked + 1
        /\ UNCHANGED <<net, pc, costs, predecessors, isVisited, foundBest, touched, queue,
                       bestMeeting>>
    BY DEF Refuse, searchVars, resetVars
  <1>2. q \in [src : Nodes, dst : Nodes, alphas : Alphas, algo : {"Dijkstra", "CHDijkstra"}]
    BY DijkstraAssumption DEF Query
  <1>3. result' \in [found : BOOLEAN, path : Seq(DOMAIN net.edges)]
    BY <1>1 DEF NoPath
  <1>4. asked' \in 0 .. MaxQueries(net)
    BY <1>1, NetworkFacts DEF SearchInv, ShapeInv
  <1>5. ShapeInv'
    BY <1>1, <1>2, <1>3, <1>4 DEF SearchInv, ShapeInv, InSearch, Nodes, Vector, NodesOf
  <1>6. TouchedCoversVectors'
    BY <1>1 DEF SearchInv, TouchedCoversVectors
  <1> QED
    BY <1>1, <1>5, <1>6 DEF SearchInv, QueueInv, VisitedInv, TreeInv, MeetingInv, InSearch

LEMMA StartPanicsKeeps ==
    ASSUME SearchInv, NEW q \in Query, StartPanics(q)
    PROVE  SearchInv'
  <1>1. /\ pc = "idle" /\ asked < MaxQueries(net) /\ pc' = "panicked"
        /\ query' = q /\ asked' = asked + 1
        /\ UNCHANGED <<net, costs, predecessors, isVisited, foundBest, touched, queue,
                       bestMeeting, result>>
    BY DEF StartPanics, searchVars, resetVars
  <1>2. q \in [src : Nodes, dst : Nodes, alphas : Alphas, algo : {"Dijkstra", "CHDijkstra"}]
    BY DijkstraAssumption DEF Query
  <1>3. asked' \in 0 .. MaxQueries(net)
    BY <1>1, NetworkFacts DEF SearchInv, ShapeInv
  <1>4. ShapeInv'
    BY <1>1, <1>2, <1>3 DEF SearchInv, ShapeInv, InSearch, Nodes, Vector, NodesOf
  <1>5. TouchedCoversVectors'
    BY <1>1 DEF SearchInv, TouchedCoversVectors
  <1> QED
    BY <1>1, <1>4, <1>5 DEF SearchInv, QueueInv, VisitedInv, TreeInv, MeetingInv, InSearch

\* Taking an entry from the queue changes nothing else.
LEMMA PoppingKeeps ==
    ASSUME SearchInv, pc = "search", pc' \in {"search", "path"}, queue' \subseteq queue,
           UNCHANGED <<net, query, costs, predecessors, resetVars, bestMeeting, result, asked>>
    PROVE  SearchInv'
  <1>1. UNCHANGED <<net, query, costs, predecessors, isVisited, foundBest, touched,
                    bestMeeting, result, asked>>
    BY DEF resetVars
  <1>2. ShapeInv'
    BY <1>1 DEF SearchInv, ShapeInv, InSearch, IsCh, Nodes, Vector, NodesOf
  <1>3. TouchedCoversVectors' /\ QueueInv'
    BY <1>1 DEF SearchInv, TouchedCoversVectors, QueueInv
  <1>4. VisitedInv' /\ MeetingInv'
    BY <1>1 DEF SearchInv, VisitedInv, MeetingInv, InSearch, IsCh, Nodes, NodesOf
  <1>5. TreeInv'
    BY <1>1, TreesUnchanged DEF SearchInv, TreeInv, InSearch
  <1> QED
    BY <1>2, <1>3, <1>4, <1>5 DEF SearchInv

LEMMA EndSearchKeeps ==
    ASSUME SearchInv, EndSearch
    PROVE  SearchInv'
  <1>1. queue' \subseteq queue
    BY DEF EndSearch
  <1> QED
    BY <1>1, PoppingKeeps DEF EndSearch

LEMMA SkipStaleKeeps ==
    ASSUME SearchInv, NEW c \in queue, SkipStale(c)
    PROVE  SearchInv'
  BY PoppingKeeps DEF SkipStale

LEMMA StutteringSearch ==
    ASSUME SearchInv, UNCHANGED vars
    PROVE  SearchInv'
  <1>1. UNCHANGED <<net, pc, query, costs, predecessors, isVisited, foundBest, touched,
                    queue, bestMeeting, result, asked>>
    BY DEF vars, searchVars, resetVars
  <1>2. ShapeInv'
    BY <1>1 DEF SearchInv, ShapeInv, InSearch, IsCh, Nodes, Vector, NodesOf
  <1>3. TouchedCoversVectors' /\ QueueInv'
    BY <1>1 DEF SearchInv, TouchedCoversVectors, QueueInv
  <1>4. VisitedInv' /\ MeetingInv'
    BY <1>1 DEF SearchInv, VisitedInv, MeetingInv, InSearch, IsCh, Nodes, NodesOf
  <1>5. TreeInv'
    BY <1>1, TreesUnchanged DEF SearchInv, TreeInv, InSearch
  <1> QED
    BY <1>2, <1>3, <1>4, <1>5 DEF SearchInv

LEMMA VisitFacts ==
    ASSUME SearchInv, pc = "search", NEW c \in queue
    PROVE  /\ c.dir \in Dirs /\ c.idx \in Nodes /\ c.cost \in Nat
           /\ Visit(c) \in [Dirs -> Vector(BOOLEAN)]
           /\ \A dir \in Dirs : DOMAIN Visit(c)[dir] = DOMAIN isVisited[dir]
           /\ ~IsCh => \A dir \in Dirs : \A v \in Nodes :
                  Visit(c)[dir][v] => isVisited[dir][v] \/ (dir = c.dir /\ v = c.idx)
  <1>1. c.dir \in Dirs /\ c.idx \in Nodes /\ c.cost \in Nat
    BY DEF SearchInv, ShapeInv
  <1>2. isVisited \in [Dirs -> Vector(BOOLEAN)]
    BY DEF SearchInv, ShapeInv
  <1>3. CASE IsCh
    BY <1>1, <1>2, <1>3 DEF Visit
  <1>4. CASE ~IsCh
    <2>1. \A dir \in Dirs : isVisited[dir] \in [Nodes -> BOOLEAN]
      BY <1>1, <1>2, <1>4 DEF SearchInv, ShapeInv, InSearch, Vector
    <2>2. Visit(c) = [isVisited EXCEPT ![c.dir] = [isVisited[c.dir] EXCEPT ![c.idx] = TRUE]]
      BY <1>4 DEF Visit
    <2>3. [isVisited[c.dir] EXCEPT ![c.idx] = TRUE] \in [Nodes -> BOOLEAN]
      BY <1>1, <2>1
    <2>4. Visit(c) \in [Dirs -> [Nodes -> BOOLEAN]]
      BY <1>1, <1>2, <2>1, <2>2, <2>3
    <2>5. \A dir \in Dirs : dir # c.dir => Visit(c)[dir] = isVisited[dir]
      BY <1>2, <2>2
    <2>6. Visit(c)[c.dir] = [isVisited[c.dir] EXCEPT ![c.idx] = TRUE]
      BY <1>1, <1>2, <2>2
    <2>7. \A dir \in Dirs : \A v \in Nodes :
              Visit(c)[dir][v] => isVisited[dir][v] \/ (dir = c.dir /\ v = c.idx)
      BY <2>1, <2>5, <2>6
    <2> QED
      BY <1>1, <2>1, <2>4, <2>7 DEF Vector
  <1> QED BY <1>3, <1>4

LEMMA CloseDirectionKeeps ==
    ASSUME SearchInv, NEW c \in queue, CloseDirection(c)
    PROVE  SearchInv'
  <1>1. /\ pc = "search" /\ isVisited' = Visit(c)
        /\ foundBest' = [foundBest EXCEPT ![c.dir] = TRUE]
        /\ queue' = queue \ {c}
        /\ UNCHANGED <<net, pc, query, costs, predecessors, touched, bestMeeting, result, asked>>
    BY DEF CloseDirection
  <1>2. ShapeInv'
    <2>1. foundBest' \in [Dirs -> BOOLEAN]
      BY <1>1 DEF SearchInv, ShapeInv
    <2>2. isVisited' \in [Dirs -> Vector(BOOLEAN)]
      BY <1>1, VisitFacts
    <2>3. \A dir \in Dirs : DOMAIN isVisited'[dir] = DOMAIN isVisited[dir]
      BY <1>1, VisitFacts
    <2> QED
      BY <1>1, <2>1, <2>2, <2>3 DEF SearchInv, ShapeInv, InSearch, IsCh, Nodes, Vector, NodesOf
  <1>3. TouchedCoversVectors' /\ QueueInv'
    BY <1>1 DEF SearchInv, TouchedCoversVectors, QueueInv
  <1>4. VisitedInv'
    <2>1. costs[c.dir][c.idx] # Inf
      BY <1>1 DEF SearchInv, QueueInv
    <2> QED
      BY <1>1, <2>1, VisitFacts DEF SearchInv, VisitedInv, InSearch, IsCh, Nodes, NodesOf
  <1>5. MeetingInv'
    BY <1>1 DEF SearchInv, MeetingInv, InSearch
  <1>6. TreeInv'
    BY <1>1, TreesUnchanged DEF SearchInv, TreeInv, InSearch
  <1> QED
    BY <1>2, <1>3, <1>4, <1>5, <1>6 DEF SearchInv

-----------------------------------------------------------------------------
(* The start of a query *)

\* Draining the touched nodes leaves nothing of an earlier query.
LEMMA VectorsAreReset ==
    ASSUME SearchInv, NEW q \in Query, Start(q), NEW dir \in Dirs
    PROVE  LET origin == IF dir = "FWD" THEN q.src ELSE q.dst
           IN  /\ costs'[dir] = [v \in Nodes |-> IF v = origin THEN 0 ELSE Inf]
               /\ predecessors'[dir] = [v \in Nodes |-> None]
  <1> DEFINE origin == IF dir = "FWD" THEN q.src ELSE q.dst
             cs == Resized(costs[dir], Inf)
             ps == Resized(predecessors[dir], None)
  <1>1. /\ touched[dir] \subseteq DOMAIN cs
        /\ origin \in DOMAIN cs
    BY DEF Start, OutOfBounds, Dirs
  <1>2. /\ costs'[dir] = [Drained(cs, dir, Inf) EXCEPT ![origin] = 0]
        /\ predecessors'[dir] = Drained(ps, dir, None)
    BY DEF Start
  <1>3. /\ DOMAIN costs[dir] \in {{}, Nodes}
        /\ DOMAIN predecessors[dir] = DOMAIN costs[dir]
    BY DEF SearchInv, ShapeInv, Vector
  <1>4. DOMAIN cs = Nodes /\ DOMAIN ps = Nodes
    <2>1. CASE CostsLen # net.n
      BY <2>1 DEF Resized, Resize, Nodes, NodesOf
    <2>2. CASE CostsLen = net.n
      <3>1. cs = costs[dir] /\ ps = predecessors[dir]
        BY <2>2 DEF Resized
      <3> QED BY <3>1, <1>1, <1>3
    <2> QED BY <2>1, <2>2
  <1>5. \A v \in Nodes : v \notin touched[dir] => cs[v] = Inf /\ ps[v] = None
    <2>1. \A v \in DOMAIN costs[dir] :
              v \notin touched[dir] => costs[dir][v] = Inf /\ predecessors[dir][v] = None
      BY DEF SearchInv, TouchedCoversVectors
    <2>2. CASE CostsLen # net.n
      BY <2>1, <2>2, <1>3 DEF Resized, Resize, Nodes, NodesOf
    <2>3. CASE CostsLen = net.n
      BY <2>1, <2>3, <1>4 DEF Resized
    <2> QED BY <2>2, <2>3
  <1> HIDE DEF cs, ps
  <1>6. Drained(cs, dir, Inf) = [v \in Nodes |-> Inf] /\ Drained(ps, dir, None) = [v \in Nodes |-> None]
    BY <1>4, <1>5 DEF Drained
  <1> QED
    BY <1>2, <1>6

LEMMA StartKeeps ==
    ASSUME SearchInv, NEW q \in Query, Start(q)
    PROVE  SearchInv'
  <1> DEFINE origin(dir) == IF dir = "FWD" THEN q.src ELSE q.dst
  <1>1. /\ asked < MaxQueries(net)
        /\ q.alphas[1] >= 0 /\ q.alphas[2] >= 0
        /\ pc' = "search" /\ query' = q /\ asked' = asked + 1
        /\ isVisited' = IF q.algo = "CHDijkstra" THEN isVisited
                        ELSE [dir \in Dirs |-> [i \in Nodes |-> FALSE]]
        /\ foundBest' = [dir \in Dirs |-> FALSE]
        /\ touched' = [dir \in Dirs |-> {origin(dir)}]
        /\ queue' = {[cost |-> 0, idx |-> origin(dir), dir |-> dir] : dir \in Dirs}
        /\ bestMeeting' = NoMeeting
        /\ UNCHANGED <<net, result>>
    BY DEF Start
  <1>2. \A dir \in Dirs : /\ costs'[dir] = [v \in Nodes |-> IF v = origin(dir) THEN 0 ELSE Inf]
                          /\ predecessors'[dir] = [v \in Nodes |-> None]
    BY VectorsAreReset
  <1>3. Nodes' = Nodes /\ \A dir \in Dirs : Origin(dir)' = origin(dir)
    BY <1>1 DEF Nodes, Origin, NodesOf
  <1>4. q \in [src : Nodes, dst : Nodes, alphas : Alphas, algo : {"Dijkstra", "CHDijkstra"}]
    BY DijkstraAssumption DEF Query
  <1>5. \A dir \in Dirs : origin(dir) \in Nodes
    BY <1>4
  <1>6. InSearch' /\ ~(pc' = "path")
    BY <1>1 DEF InSearch
  <1>7. costs' = [dir \in Dirs |-> costs'[dir]] /\ predecessors' = [dir \in Dirs |-> predecessors'[dir]]
    BY DEF Start
  <1> HIDE DEF origin
  <1>8. ShapeInv'
    <2>1. costs' \in [Dirs -> Vector(Cost)']
      <3>1. \A dir \in Dirs : costs'[dir] \in [Nodes -> Cost]
        <4> SUFFICES ASSUME NEW dir \in Dirs PROVE costs'[dir] \in [Nodes -> Cost]
          OBVIOUS
        <4>1. \A v \in Nodes : (IF v = origin(dir) THEN 0 ELSE Inf) \in Cost
          BY DEF Cost
        <4> QED BY <4>1, <1>2
      <3>2. \A dir \in Dirs : costs'[dir] \in Vector(Cost)'
        BY <3>1, <1>3 DEF Vector, Cost
      <3> QED BY <3>2, <1>7
    <2>2. predecessors' \in [Dirs -> Vector({None} \cup DOMAIN net.edges)']
      <3>1. \A dir \in Dirs : predecessors'[dir] \in [Nodes -> {None} \cup DOMAIN net.edges]
        BY <1>2
      <3>2. \A dir \in Dirs : predecessors'[dir] \in Vector({None} \cup DOMAIN net.edges)'
        BY <3>1, <1>1, <1>3 DEF Vector
      <3> QED BY <3>2, <1>7
    <2>3. /\ isVisited' \in [Dirs -> Vector(BOOLEAN)']
          /\ ~IsCh' => \A dir \in Dirs : DOMAIN isVisited'[dir] = Nodes'
      BY <1>1, <1>3 DEF SearchInv, ShapeInv, IsCh, Vector
    <2>4. /\ foundBest' \in [Dirs -> BOOLEAN]
          /\ touched' \in [Dirs -> SUBSET Nodes']
          /\ queue' \in SUBSET [cost : Nat, idx : Nodes', dir : Dirs]
      BY <1>1, <1>3, <1>5
    <2>5. bestMeeting' \in [idx : Nodes' \cup {None}, cost : Cost']
      BY <1>1 DEF NoMeeting, Cost
    <2>6. asked' \in 0 .. MaxQueries(net')
      BY <1>1, NetworkFacts DEF SearchInv, ShapeInv
    <2>7. \A dir \in Dirs : DOMAIN costs'[dir] = Nodes' /\ DOMAIN predecessors'[dir] = Nodes'
      BY <1>2, <1>3
    <2>8. /\ net' \in Networks
          /\ query' \in [src : Nodes', dst : Nodes', alphas : Alphas, algo : {"Dijkstra", "CHDijkstra"}]
          /\ result' \in [found : BOOLEAN, path : Seq(DOMAIN net'.edges)]
      BY <1>1, <1>3, <1>4 DEF SearchInv, ShapeInv
    <2>9. query'.alphas[1] >= 0 /\ query'.alphas[2] >= 0
      BY <1>1
    <2> QED
      BY <1>1, <2>1, <2>2, <2>3, <2>4, <2>5, <2>6, <2>7, <2>8, <2>9 DEF ShapeInv
  <1>9. TouchedCoversVectors'
    <2> SUFFICES ASSUME NEW dir \in Dirs, NEW v \in DOMAIN costs'[dir],
                        costs'[dir][v] # Inf \/ predecessors'[dir][v] # None
                 PROVE  v \in touched'[dir]
      BY DEF TouchedCoversVectors
    <2>1. v \in Nodes /\ v = origin(dir)
      BY <1>2
    <2> QED BY <2>1, <1>1
  <1>10. QueueInv'
    <2> SUFFICES ASSUME NEW c \in queue'
                 PROVE  costs'[c.dir][c.idx] # Inf /\ costs'[c.dir][c.idx] <= c.cost
      BY DEF QueueInv
    <2>1. c.dir \in Dirs /\ c.idx = origin(c.dir) /\ c.cost = 0
      BY <1>1
    <2>2. costs'[c.dir][c.idx] = 0
      BY <2>1, <1>2, <1>5
    <2> QED BY <2>1, <2>2 DEF Inf
  <1>11. VisitedInv'
    <2> SUFFICES ASSUME ~IsCh', NEW dir \in Dirs, NEW v \in Nodes' PROVE ~isVisited'[dir][v]
      BY DEF VisitedInv
    <2> QED BY <1>1, <1>3 DEF IsCh
  <1>12. TreeInv'
    <2> SUFFICES ASSUME NEW dir \in Dirs PROVE Tree(dir)' /\ Ranked(dir)'
      BY DEF TreeInv
    <2>1. \A v \in Nodes : predecessors'[dir][v] = None
      BY <1>2
    <2>2. Tree(dir)'
      <3>1. \A v \in Nodes : costs'[dir][v] = IF v = origin(dir) THEN 0 ELSE Inf
        BY <1>2
      <3>2. 0 # Inf
        BY DEF Inf
      <3> QED
        BY <3>1, <3>2, <1>3, <1>5, <2>1 DEF Tree
    <2>3. Ranked(dir)'
      <3>1. PICK b \in Nat : b = 0
        OBVIOUS
      <3>2. PICK rank \in [Nodes' -> 0 .. b] : TRUE
        <4>1. [v \in Nodes' |-> 0] \in [Nodes' -> 0 .. b]
          BY <3>1
        <4> QED BY <4>1
      <3>3. Ranks(dir, rank, b)'
        BY <2>1, <1>3 DEF Ranks
      <3> QED BY <3>3 DEF Ranked
    <2> QED BY <2>2, <2>3
  <1>13. MeetingInv'
    BY <1>1 DEF MeetingInv, NoMeeting
  <1> QED
    BY <1>8, <1>9, <1>10, <1>11, <1>12, <1>13 DEF SearchInv

-----------------------------------------------------------------------------
(* Relaxing the edges that leave a node *)

\* The entry that is expanded has the costs of its node, and so have its edges.
LEMMA ScannedFacts ==
    ASSUME SearchInv, pc = "search", NEW c \in queue, HasImproved(c)
    PROVE  /\ c.dir \in Dirs /\ c.idx \in Nodes /\ c.cost \in Nat
           /\ costs[c.dir][c.idx] = c.cost
           /\ \A i \in Scanned(c) :
                 /\ i \in 1 .. Len(net.leaving[c.dir][c.idx])
                 /\ EdgeAt(c, i) \in DOMAIN net.edges
                 /\ Source(c.dir, EdgeAt(c, i)) = c.idx
                 /\ TargetAt(c, i) \in Nodes
                 /\ CostAt(c, i) \in Nat /\ c.cost <= CostAt(c, i)
           /\ Len(net.leaving[c.dir][c.idx]) \in Nat
  <1>1. c.dir \in Dirs /\ c.idx \in Nodes /\ c.cost \in Nat
    BY DEF SearchInv, ShapeInv
  <1>2. costs[c.dir][c.idx] = c.cost
    <2>1. costs[c.dir][c.idx] # Inf /\ costs[c.dir][c.idx] <= c.cost
      BY DEF SearchInv, QueueInv
    <2>2. costs[c.dir][c.idx] \in Cost
      BY <1>1 DEF SearchInv, ShapeInv, InSearch, Vector
    <2>3. costs[c.dir][c.idx] \in Nat
      BY <2>1, <2>2 DEF Cost
    <2>4. ~(costs[c.dir][c.idx] < c.cost)
      BY <2>1 DEF HasImproved, Cheaper
    <2> QED BY <1>1, <2>1, <2>3, <2>4
  <1>3. net \in Networks /\ query.alphas \in Alphas /\ query.alphas[1] >= 0 /\ query.alphas[2] >= 0
    BY DEF SearchInv, ShapeInv, InSearch
  <1>4. net.leaving[c.dir][c.idx] \in Seq(DOMAIN net.edges)
    <2>1. net.leaving \in [Dirs -> [Nodes -> Seq(DOMAIN net.edges)]]
      BY <1>3, DijkstraAssumption DEF IsNetwork, Nodes, NodesOf
    <2> QED BY <1>1, <2>1
  <1>5. /\ Len(net.leaving[c.dir][c.idx]) \in Nat
        /\ DOMAIN net.leaving[c.dir][c.idx] = 1 .. Len(net.leaving[c.dir][c.idx])
    BY <1>4
  <1>6. ASSUME NEW i \in Scanned(c)
        PROVE  /\ i \in 1 .. Len(net.leaving[c.dir][c.idx])
               /\ EdgeAt(c, i) \in DOMAIN net.edges
               /\ Source(c.dir, EdgeAt(c, i)) = c.idx
               /\ TargetAt(c, i) \in Nodes
               /\ CostAt(c, i) \in Nat /\ c.cost <= CostAt(c, i)
    <2>1. i \in DOMAIN net.leaving[c.dir][c.idx]
      BY DEF Scanned
    <2>2. EdgeAt(c, i) \in DOMAIN net.edges /\ Source(c.dir, EdgeAt(c, i)) = c.idx
      BY <1>1, <1>3, <2>1, LeavingFacts DEF EdgeAt
    <2>3. TargetAt(c, i) \in Nodes
      BY <1>1, <1>3, <2>2, EndsAreNodes DEF TargetAt
    <2>4. Weight(query.alphas, net.edges[EdgeAt(c, i)]) \in Nat
      BY <1>3, <2>2, WeightIsNat
    <2>5. CostAt(c, i) \in Nat /\ c.cost <= CostAt(c, i)
      BY <1>1, <2>4 DEF CostAt
    <2> QED BY <1>5, <2>1, <2>2, <2>3, <2>5
  <1> QED
    BY <1>1, <1>2, <1>5, <1>6

\* A node that is reached is reached by the last of the edges that improve it, which is the
\* cheapest; the node the edges come from is not improved itself.
LEMMA ReachedFacts ==
    ASSUME SearchInv, pc = "search", NEW c \in queue, HasImproved(c)
    PROVE  /\ \A v \in Reached(c) :
                 /\ LastTo(c, v) \in Improving(c) /\ TargetAt(c, LastTo(c, v)) = v
                 /\ v \in Nodes
                 /\ Cheaper(CostAt(c, LastTo(c, v)), costs[c.dir][v])
                 /\ \A i \in Improving(c) :
                       TargetAt(c, i) = v => CostAt(c, LastTo(c, v)) <= CostAt(c, i)
           /\ c.idx \notin Reached(c)
           /\ Improving(c) \subseteq Scanned(c)
  <1>1. Improving(c) \subseteq Scanned(c)
    BY DEF Improving
  <1>2. ASSUME NEW v \in Reached(c)
        PROVE  /\ LastTo(c, v) \in Improving(c) /\ TargetAt(c, LastTo(c, v)) = v
               /\ \A j \in Improving(c) : TargetAt(c, j) = v => j <= LastTo(c, v)
    <2> DEFINE n == Len(net.leaving[c.dir][c.idx])
               S == {i \in Improving(c) : TargetAt(c, i) = v}
    <2>1. n \in Nat /\ S \in SUBSET (1 .. n)
      BY <1>1, ScannedFacts
    <2>2. S # {}
      BY DEF Reached
    <2>3. \E k \in S : \A j \in S : j <= k
      <3> HIDE DEF n, S
      <3> QED BY <2>1, <2>2, LastExists
    <2>4. \E i \in Improving(c) : /\ TargetAt(c, i) = v
                                  /\ \A j \in Improving(c) : TargetAt(c, j) = v => j <= i
      BY <2>3
    <2> QED BY <2>4 DEF LastTo
  <1>3. ASSUME NEW v \in Reached(c)
        PROVE  /\ v \in Nodes
               /\ Cheaper(CostAt(c, LastTo(c, v)), costs[c.dir][v])
               /\ \A i \in Improving(c) :
                     TargetAt(c, i) = v => CostAt(c, LastTo(c, v)) <= CostAt(c, i)
    <2> DEFINE k == LastTo(c, v)
    <2>1. k \in Improving(c) /\ TargetAt(c, k) = v
      BY <1>2
    <2>2. v \in Nodes
      BY <2>1, <1>1, ScannedFacts
    <2>3. Cheaper(CostAt(c, k), costs[c.dir][v])
      BY <2>1 DEF Improving
    <2>4. ASSUME NEW i \in Improving(c), TargetAt(c, i) = v
          PROVE  CostAt(c, k) <= CostAt(c, i)
      <3>1. i <= k /\ i \in Int /\ k \in Int
        BY <1>1, <1>2, <2>1, <2>4, ScannedFacts
      <3>2. CostAt(c, i) \in Nat /\ CostAt(c, k) \in Nat
        BY <1>1, <2>1, ScannedFacts
      <3>3. i < k => CostAt(c, k) < CostAt(c, i)
        BY <1>1, <2>1, <2>4 DEF Improving
      <3> HIDE DEF k
      <3> QED BY <3>1, <3>2, <3>3
    <2> QED BY <2>2, <2>3, <2>4
  <1>4. c.idx \notin Reached(c)
    <2> SUFFICES ASSUME c.idx \in Reached(c) PROVE FALSE
      OBVIOUS
    <2> DEFINE x == CostAt(c, LastTo(c, c.idx))
    <2>1. Cheaper(x, c.cost)
      BY <1>3, ScannedFacts
    <2>2. x \in Nat /\ c.cost <= x /\ c.cost \in Nat
      BY <1>1, <1>2, ScannedFacts
    <2> HIDE DEF x
    <2> QED BY <2>1, <2>2 DEF Cheaper, Inf
  <1> QED
    BY <1>1, <1>2, <1>3, <1>4

\* The vectors after the edges have been relaxed.
LEMMA RelaxedVectors ==
    ASSUME SearchInv, NEW c \in queue, Expand(c)
    PROVE  /\ costs' \in [Dirs -> [Nodes -> Cost]]
           /\ predecessors' \in [Dirs -> [Nodes -> {None} \cup DOMAIN net.edges]]
           /\ \A dir \in Dirs : dir # c.dir =>
                 costs'[dir] = costs[dir] /\ predecessors'[dir] = predecessors[dir]
           /\ \A v \in Nodes : v \notin Reached(c) =>
                 /\ costs'[c.dir][v] = costs[c.dir][v]
                 /\ predecessors'[c.dir][v] = predecessors[c.dir][v]
           /\ \A v \in Reached(c) :
                 /\ v \in Nodes
                 /\ costs'[c.dir][v] = CostAt(c, LastTo(c, v))
                 /\ predecessors'[c.dir][v] = EdgeAt(c, LastTo(c, v))
                 /\ LastTo(c, v) \in Scanned(c)
                 /\ costs'[c.dir][v] \in Nat
                 /\ Cheaper(costs'[c.dir][v], costs[c.dir][v])
           /\ \A dir \in Dirs, v \in Nodes :
                 costs[dir][v] # Inf => costs'[dir][v] # Inf /\ costs'[dir][v] <= costs[dir][v]
  <1> DEFINE d == c.dir
  <1>1. pc = "search" /\ HasImproved(c)
    BY DEF Expand
  <1>2. d \in Dirs /\ c.idx \in Nodes
    BY <1>1, ScannedFacts
  <1>3. /\ costs \in [Dirs -> [Nodes -> Cost]]
        /\ predecessors \in [Dirs -> [Nodes -> {None} \cup DOMAIN net.edges]]
    <2>1. InSearch
      BY <1>1 DEF InSearch
    <2>2. \A dir \in Dirs : DOMAIN costs[dir] = Nodes /\ DOMAIN predecessors[dir] = Nodes
      BY <2>1 DEF SearchInv, ShapeInv
    <2>3. \A dir \in Dirs : costs[dir] \in Vector(Cost)
      BY DEF SearchInv, ShapeInv
    <2>4. \A dir \in Dirs : predecessors[dir] \in Vector({None} \cup DOMAIN net.edges)
      BY DEF SearchInv, ShapeInv
    <2>5. \A dir \in Dirs : costs[dir] \in [Nodes -> Cost]
      BY <2>2, <2>3 DEF Vector
    <2>6. \A dir \in Dirs : predecessors[dir] \in [Nodes -> {None} \cup DOMAIN net.edges]
      BY <2>2, <2>4 DEF Vector
    <2>7. /\ costs = [dir \in Dirs |-> costs[dir]]
          /\ predecessors = [dir \in Dirs |-> predecessors[dir]]
      BY DEF SearchInv, ShapeInv
    <2> QED BY <2>5, <2>6, <2>7
  <1> DEFINE cs == [v \in Nodes |-> IF v \in Reached(c) THEN CostAt(c, LastTo(c, v)) ELSE costs[d][v]]
             ps == [v \in Nodes |-> IF v \in Reached(c) THEN EdgeAt(c, LastTo(c, v))
                                                        ELSE predecessors[d][v]]
  <1>4. DOMAIN costs[d] = Nodes /\ DOMAIN predecessors[d] = Nodes
    BY <1>2, <1>3
  <1>5. costs' = [costs EXCEPT ![d] = cs] /\ predecessors' = [predecessors EXCEPT ![d] = ps]
    BY <1>4 DEF Expand
  <1>6. ASSUME NEW v \in Reached(c)
        PROVE  /\ v \in Nodes /\ LastTo(c, v) \in Scanned(c)
               /\ CostAt(c, LastTo(c, v)) \in Nat
               /\ EdgeAt(c, LastTo(c, v)) \in DOMAIN net.edges
               /\ Cheaper(CostAt(c, LastTo(c, v)), costs[d][v])
    <2>1. LastTo(c, v) \in Scanned(c)
      BY <1>1, ReachedFacts
    <2> QED BY <1>1, <2>1, ReachedFacts, ScannedFacts
  <1>7. cs \in [Nodes -> Cost]
    BY <1>2, <1>3, <1>6 DEF Cost
  <1>8. ps \in [Nodes -> {None} \cup DOMAIN net.edges]
    BY <1>2, <1>3, <1>6
  <1>9. costs'[d] = cs /\ predecessors'[d] = ps
    BY <1>2, <1>3, <1>5
  <1>10. \A dir \in Dirs : dir # d =>
                 costs'[dir] = costs[dir] /\ predecessors'[dir] = predecessors[dir]
    BY <1>3, <1>5
  <1>11. /\ costs' \in [Dirs -> [Nodes -> Cost]]
         /\ predecessors' \in [Dirs -> [Nodes -> {None} \cup DOMAIN net.edges]]
    <2> HIDE DEF cs, ps
    <2> QED BY <1>2, <1>3, <1>5, <1>7, <1>8
  <1>12. \A v \in Nodes : v \notin Reached(c) =>
                 costs'[d][v] = costs[d][v] /\ predecessors'[d][v] = predecessors[d][v]
    BY <1>9
  <1>13. \A v \in Reached(c) : /\ costs'[d][v] = CostAt(c, LastTo(c, v))
                               /\ predecessors'[d][v] = EdgeAt(c, LastTo(c, v))
    BY <1>6, <1>9
  <1>14. \A v \in Reached(c) : /\ costs'[d][v] \in Nat
                               /\ Cheaper(costs'[d][v], costs[d][v])
    BY <1>6, <1>13
  <1>15. ASSUME NEW dir \in Dirs, NEW v \in Nodes, costs[dir][v] # Inf
         PROVE  costs'[dir][v] # Inf /\ costs'[dir][v] <= costs[dir][v]
    <2>1. costs[dir][v] \in Nat
      BY <1>3, <1>15 DEF Cost
    <2>2. CASE dir = d /\ v \in Reached(c)
      <3>1. Cheaper(costs'[dir][v], costs[dir][v]) /\ costs'[dir][v] \in Nat
        BY <2>2, <1>14
      <3> QED BY <2>1, <3>1, <1>15 DEF Cheaper, Inf
    <2>3. CASE ~(dir = d /\ v \in Reached(c))
      <3>1. costs'[dir][v] = costs[dir][v]
        BY <2>3, <1>10, <1>12
      <3> QED BY <2>1, <3>1, <1>15
    <2> QED BY <2>2, <2>3
  <1> QED
    BY <1>6, <1>10, <1>11, <1>12, <1>13, <1>14, <1>15

\* Expanding a node lets its tree grow, and hangs nodes of it elsewhere, closer to the origin.
LEMMA TreeGrows ==
    ASSUME SearchInv, NEW c \in queue, Expand(c), NEW dir \in Dirs
    PROVE  Tree(dir)' /\ Ranked(dir)'
  <1> DEFINE d == c.dir
  <1>1. /\ pc = "search" /\ HasImproved(c) /\ InSearch
        /\ UNCHANGED <<net, query>>
    BY DEF Expand, InSearch
  <1>2. Tree(dir) /\ Ranked(dir)
    BY <1>1 DEF SearchInv, TreeInv
  <1>3. Nodes' = Nodes /\ Origin(dir)' = Origin(dir)
    BY <1>1 DEF Nodes, Origin, NodesOf
  <1>4. \A e : Target(dir, e)' = Target(dir, e) /\ Source(dir, e)' = Source(dir, e)
    BY <1>1 DEF Target, Source, HeadOf, TailOf
  <1>5. Weight(query.alphas, net.edges[0])' = Weight(query.alphas, net.edges[0])
    BY <1>1 DEF Weight
  <1>6. /\ net \in Networks /\ query.alphas \in Alphas
        /\ query.alphas[1] >= 0 /\ query.alphas[2] >= 0
        /\ Origin(dir) \in Nodes
        /\ predecessors[dir] \in [Nodes -> {None} \cup DOMAIN net.edges]
        /\ costs[dir] \in [Nodes -> Cost]
    BY <1>1 DEF SearchInv, ShapeInv, InSearch, Vector, Origin
  <1>7. CASE dir # d
    <2>1. costs'[dir] = costs[dir] /\ predecessors'[dir] = predecessors[dir]
      BY <1>7, RelaxedVectors
    <2>2. \A e, v : ReachedBy(dir, e, v) => ReachedBy(dir, e, v)'
      BY <1>1, <1>4, <2>1 DEF ReachedBy, Weight
    <2>3. Tree(dir)'
      BY <1>2, <1>3, <2>1, <2>2 DEF Tree
    <2>4. PICK b \in Nat : \E rank \in [Nodes -> 0 .. b] : Ranks(dir, rank, b)
      BY <1>2 DEF Ranked
    <2>5. PICK rank \in [Nodes -> 0 .. b] : Ranks(dir, rank, b)
      BY <2>4
    <2>6. Ranks(dir, rank, b)'
      BY <1>3, <1>4, <2>1, <2>5 DEF Ranks
    <2>7. Ranked(dir)'
      BY <1>3, <2>6 DEF Ranked
    <2> QED BY <2>3, <2>7
  <1>8. CASE dir = d
    <2>1. c.idx \in Nodes /\ c.cost \in Nat /\ costs[dir][c.idx] = c.cost /\ c.idx \notin Reached(c)
      BY <1>1, <1>8, ScannedFacts, ReachedFacts
    <2>2. \A v \in Nodes : costs[dir][v] # Inf => /\ costs'[dir][v] # Inf
                                                  /\ costs'[dir][v] <= costs[dir][v]
      BY RelaxedVectors
    <2>3. \A v \in Nodes : costs'[dir][v] \in Cost /\ costs[dir][v] \in Cost
      BY <1>6, RelaxedVectors
    <2>4. costs'[dir][c.idx] = c.cost /\ c.cost # Inf
      BY <1>8, <2>1, RelaxedVectors DEF Inf
    \* The new edges of the tree.
    <2>5. ASSUME NEW v \in Reached(c), NEW e, e = predecessors'[dir][v]
          PROVE  /\ v \in Nodes /\ e \in DOMAIN net.edges /\ e # None
                 /\ Source(dir, e) = c.idx
                 /\ ReachedBy(dir, e, v)'
                 /\ v # Origin(dir)
      <3> DEFINE k == LastTo(c, v)
      <3>1. /\ v \in Nodes /\ k \in Scanned(c)
            /\ e = EdgeAt(c, k) /\ costs'[dir][v] = CostAt(c, k)
            /\ costs'[dir][v] \in Nat
            /\ Cheaper(costs'[dir][v], costs[dir][v])
        BY <1>8, <2>5, RelaxedVectors
      <3>2. e \in DOMAIN net.edges /\ Source(dir, e) = c.idx /\ TargetAt(c, k) = v
        BY <1>1, <1>8, <3>1, ScannedFacts, ReachedFacts
      <3>3. Target(dir, e) = v /\ CostAt(c, k) = c.cost + Weight(query.alphas, net.edges[e])
        BY <1>8, <3>1, <3>2 DEF TargetAt, CostAt
      <3>4. Weight(query.alphas, net.edges[e]) \in Nat /\ e # None
        BY <1>6, <3>2, WeightIsNat, NetworkFacts
      <3>5. ReachedBy(dir, e, v)'
        <4>1. Target(dir, e)' = v /\ Source(dir, e)' = c.idx
          BY <1>4, <3>2, <3>3
        <4>2. Weight(query'.alphas, net'.edges[e]) = Weight(query.alphas, net.edges[e])
          BY <1>1
        <4>3. costs'[dir][v] # Inf
          BY <3>1 DEF Inf
        <4>4. c.cost + Weight(query.alphas, net.edges[e]) <= costs'[dir][v]
          BY <2>1, <3>1, <3>3, <3>4
        <4> QED BY <4>1, <4>2, <4>3, <4>4, <2>4 DEF ReachedBy
      <3>6. v # Origin(dir)
        <4>1. costs[dir][Origin(dir)] = 0
          BY <1>2 DEF Tree
        <4> QED BY <4>1, <3>1 DEF Cheaper, Inf
      <3> QED BY <3>1, <3>2, <3>4, <3>5, <3>6
    <2>6. \A v \in Nodes : v \notin Reached(c) => /\ predecessors'[dir][v] = predecessors[dir][v]
                                                  /\ costs'[dir][v] = costs[dir][v]
      BY <1>8, RelaxedVectors
    \* The edges that remain.
    <2>7. ASSUME NEW v \in Nodes, v \notin Reached(c), NEW e, e = predecessors[dir][v], e # None
          PROVE  ReachedBy(dir, e, v)'
      <3>1. ReachedBy(dir, e, v)
        BY <1>2, <2>7 DEF Tree
      <3>2. e \in DOMAIN net.edges
        BY <1>6, <2>7
      <3>3. Source(dir, e) \in Nodes
        BY <1>6, <3>2, EndsAreNodes
      <3>4. /\ costs'[dir][Source(dir, e)] # Inf
            /\ costs'[dir][Source(dir, e)] <= costs[dir][Source(dir, e)]
            /\ costs[dir][Source(dir, e)] # Inf
        BY <2>2, <3>1, <3>3 DEF ReachedBy
      <3>5. costs'[dir][v] = costs[dir][v] /\ costs[dir][v] # Inf
        BY <2>6, <2>7, <3>1 DEF ReachedBy
      <3>6. /\ costs'[dir][Source(dir, e)] \in Nat /\ costs[dir][Source(dir, e)] \in Nat
            /\ costs[dir][v] \in Nat
        BY <2>3, <3>3, <3>4, <3>5 DEF Cost
      <3>7. Weight(query.alphas, net.edges[e]) \in Nat
        BY <1>6, <3>2, WeightIsNat
      <3>8. costs[dir][Source(dir, e)] + Weight(query.alphas, net.edges[e]) <= costs[dir][v]
        BY <3>1 DEF ReachedBy
      <3>9. costs'[dir][Source(dir, e)] + Weight(query.alphas, net.edges[e]) <= costs'[dir][v]
        BY <3>4, <3>5, <3>6, <3>7, <3>8
      <3>10. Target(dir, e)' = v /\ Source(dir, e)' = Source(dir, e)
        BY <1>4, <3>1 DEF ReachedBy
      <3>11. Weight(query'.alphas, net'.edges[e]) = Weight(query.alphas, net.edges[e])
        BY <1>1
      <3> QED BY <3>4, <3>5, <3>9, <3>10, <3>11 DEF ReachedBy
    <2>8. Tree(dir)'
      <3>1. costs'[dir][Origin(dir)] = 0
        BY <1>2, <1>6, <2>5, <2>6 DEF Tree
      <3>2. ASSUME NEW v \in Nodes
            PROVE  predecessors'[dir][v] = None /\ costs'[dir][v] # Inf <=> v = Origin(dir)
        BY <1>2, <2>5, <2>6 DEF Tree
      <3>3. ASSUME NEW v \in Nodes, predecessors'[dir][v] # None
            PROVE  ReachedBy(dir, predecessors[dir][v], v)'
        <4>1. PICK e : e = predecessors'[dir][v]
          OBVIOUS
        <4>2. ReachedBy(dir, e, v)'
          BY <2>5, <2>6, <2>7, <3>3, <4>1
        <4> QED BY <4>1, <4>2
      <3> QED BY <1>3, <3>1, <3>2, <3>3 DEF Tree
    \* A child of a node whose costs have been improved costs more than it, a new child ranks
    \* above the node that has been expanded.
    <2>9. Ranked(dir)'
      <3>1. PICK b \in Nat : \E rank \in [Nodes -> 0 .. b] : Ranks(dir, rank, b)
        BY <1>2 DEF Ranked
      <3>2. PICK rank \in [Nodes -> 0 .. b] : Ranks(dir, rank, b)
        BY <3>1
      <3>3. PICK top \in Nat : top = b + 1
        BY <3>1
      <3>4. PICK new \in [Nodes -> 0 .. top] :
                \A v \in Nodes : new[v] = IF v \in Reached(c) THEN rank[c.idx] + 1 ELSE rank[v]
        <4> DEFINE nn == [v \in Nodes |-> IF v \in Reached(c) THEN rank[c.idx] + 1 ELSE rank[v]]
        <4>1. nn \in [Nodes -> 0 .. top]
          BY <2>1, <3>1, <3>2, <3>3
        <4> QED BY <4>1
      <3>5. ASSUME NEW v \in Nodes, predecessors'[dir][v] # None
            PROVE  \/ costs'[dir][Source(dir, predecessors'[dir][v])] < costs'[dir][v]
                   \/ new[Source(dir, predecessors'[dir][v])] < new[v]
        <4>1. CASE v \in Reached(c)
          <5>1. Source(dir, predecessors'[dir][v]) = c.idx
            BY <2>5, <4>1
          <5>2. new[c.idx] = rank[c.idx] /\ new[v] = rank[c.idx] + 1 /\ rank[c.idx] \in Int
            BY <2>1, <3>2, <3>4, <4>1
          <5> QED BY <5>1, <5>2
        <4>2. CASE v \notin Reached(c)
          <5> DEFINE e == predecessors[dir][v]
                     u == Source(dir, e)
          <5>1. /\ predecessors'[dir][v] = e /\ e # None /\ costs'[dir][v] = costs[dir][v]
                /\ ReachedBy(dir, e, v) /\ e \in DOMAIN net.edges
            BY <1>2, <1>6, <2>6, <3>5, <4>2 DEF Tree
          <5>2. u \in Nodes
            BY <1>6, <5>1, EndsAreNodes
          <5>3. costs[dir][u] < costs[dir][v] \/ rank[u] < rank[v]
            BY <3>2, <5>1 DEF Ranks
          <5>4. /\ costs[dir][u] # Inf /\ costs[dir][v] # Inf
                /\ costs[dir][u] + Weight(query.alphas, net.edges[e]) <= costs[dir][v]
            BY <5>1 DEF ReachedBy
          <5>5. Weight(query.alphas, net.edges[e]) \in Nat
            BY <1>6, <5>1, WeightIsNat
          <5>6. costs[dir][u] \in Nat /\ costs[dir][v] \in Nat /\ costs'[dir][u] <= costs[dir][u]
                /\ costs'[dir][u] \in Nat
            BY <2>2, <2>3, <5>2, <5>4 DEF Cost
          <5>7. CASE u \in Reached(c)
            <6>1. Cheaper(costs'[dir][u], costs[dir][u])
              BY <1>8, <5>7, RelaxedVectors
            <6>2. costs'[dir][u] < costs[dir][u]
              BY <6>1, <5>4 DEF Cheaper
            <6> HIDE DEF u, e
            <6>3. costs'[dir][u] < costs[dir][v]
              BY <6>2, <5>4, <5>5, <5>6
            <6> QED BY <6>3, <5>1 DEF u
          <5>8. CASE u \notin Reached(c)
            <6>1. costs'[dir][u] = costs[dir][u] /\ new[u] = rank[u] /\ new[v] = rank[v]
              BY <2>6, <3>4, <4>2, <5>2, <5>8
            <6> QED BY <6>1, <5>1, <5>3
          <5> QED BY <5>7, <5>8
        <4> QED BY <4>1, <4>2
      <3>6. Ranks(dir, new, top)'
        BY <1>3, <1>4, <3>4, <3>5 DEF Ranks
      <3> QED BY <1>3, <3>3, <3>4, <3>6 DEF Ranked
    <2> QED BY <2>8, <2>9
  <1> QED
    BY <1>7, <1>8

\* The entries that are pushed have the costs their nodes have then, or more.
LEMMA PushedFacts ==
    ASSUME SearchInv, NEW c \in queue, Expand(c), NEW p \in Pushed(c)
    PROVE  /\ p \in [cost : Nat, idx : Nodes, dir : Dirs]
           /\ costs'[p.dir][p.idx] # Inf /\ costs'[p.dir][p.idx] <= p.cost
  <1>1. pc = "search" /\ HasImproved(c)
    BY DEF Expand
  <1>2. PICK i \in Improving(c) : p = [cost |-> CostAt(c, i), idx |-> TargetAt(c, i), dir |-> c.dir]
    BY DEF Pushed
  <1>3. i \in Scanned(c) /\ CostAt(c, i) \in Nat /\ TargetAt(c, i) \in Nodes /\ c.dir \in Dirs
    BY <1>1, ReachedFacts, ScannedFacts
  <1>4. TargetAt(c, i) \in Reached(c)
    BY DEF Reached
  <1>5. costs'[c.dir][TargetAt(c, i)] <= CostAt(c, i)
    BY <1>1, <1>4, ReachedFacts, RelaxedVectors
  <1>6. costs'[c.dir][TargetAt(c, i)] # Inf
    BY <1>4, RelaxedVectors DEF Inf
  <1> QED
    BY <1>2, <1>3, <1>5, <1>6

\* The meeting node is reached from both sides.
LEMMA MeetingFacts ==
    ASSUME SearchInv, NEW c \in queue, Expand(c), bestMeeting'.idx # None
    PROVE  /\ bestMeeting'.idx \in Nodes /\ bestMeeting'.cost \in Nat
           /\ \A dir \in Dirs : costs[dir][bestMeeting'.idx] # Inf
           /\ costs["FWD"][bestMeeting'.idx] + costs["BWD"][bestMeeting'.idx] <= bestMeeting'.cost
  <1>1. /\ pc = "search" /\ HasImproved(c) /\ InSearch
        /\ bestMeeting' = NextMeeting(c) /\ bestMeeting.cost \in Cost
    BY DEF Expand, InSearch, SearchInv, ShapeInv
  <1>2. c.dir \in Dirs /\ c.idx \in Nodes /\ costs[c.dir][c.idx] # Inf
    BY <1>1, ScannedFacts DEF Inf
  <1>3. \A dir \in Dirs, v \in Nodes : costs[dir][v] \in Cost
    BY <1>1 DEF SearchInv, ShapeInv, Vector
  <1>4. CASE bestMeeting' = bestMeeting
    BY <1>1, <1>4 DEF SearchInv, ShapeInv, MeetingInv, Cost
  <1>5. CASE bestMeeting' # bestMeeting
    <2>1. /\ bestMeeting' = [idx |-> c.idx, cost |-> TotalCost(c.idx)]
          /\ \/ bestMeeting.idx # None /\ Cheaper(TotalCost(c.idx), bestMeeting.cost)
             \/ bestMeeting.idx = None /\ IsMeeting(c)
      BY <1>1, <1>5 DEF NextMeeting
    <2>2. \A dir \in Dirs : costs[dir][c.idx] # Inf
      <3>1. CASE Cheaper(TotalCost(c.idx), bestMeeting.cost)
        BY <3>1 DEF Cheaper, TotalCost, CostSum, Dirs
      <3>2. CASE IsMeeting(c)
        <4>1. costs[Opp(c.dir)][c.idx] # Inf
          <5>1. CASE IsCh
            BY <3>2, <5>1 DEF IsMeeting
          <5>2. CASE ~IsCh
            BY <1>1, <1>2, <3>2, <5>2 DEF IsMeeting, SearchInv, VisitedInv, Opp, Dirs
          <5> QED BY <5>1, <5>2
        <4> QED BY <1>2, <4>1 DEF Opp, Dirs
      <3> QED BY <2>1, <3>1, <3>2
    <2>3. costs["FWD"][c.idx] \in Nat /\ costs["BWD"][c.idx] \in Nat
      BY <1>2, <1>3, <2>2 DEF Cost, Dirs
    <2>4. TotalCost(c.idx) = costs["FWD"][c.idx] + costs["BWD"][c.idx]
      BY <2>2 DEF TotalCost, CostSum, Dirs
    <2> QED BY <1>2, <2>1, <2>2, <2>3, <2>4
  <1> QED BY <1>4, <1>5

LEMMA ExpandKeeps ==
    ASSUME SearchInv, NEW c \in queue, Expand(c)
    PROVE  SearchInv'
  <1>1. /\ pc = "search" /\ HasImproved(c) /\ InSearch /\ InSearch'
        /\ isVisited' = Visit(c) /\ bestMeeting' = NextMeeting(c)
        /\ touched' = [touched EXCEPT ![c.dir] = @ \cup Touched(c)]
        /\ queue' = (queue \ {c}) \cup Pushed(c)
        /\ UNCHANGED <<net, pc, query, foundBest, result, asked>>
    BY DEF Expand, InSearch
  <1>2. /\ c.dir \in Dirs /\ c.idx \in Nodes /\ c.cost \in Nat
        /\ c.idx \notin Reached(c) /\ \A v \in Reached(c) : v \in Nodes
    BY <1>1, ScannedFacts, ReachedFacts
  <1>3. Nodes' = Nodes
    BY <1>1 DEF Nodes, NodesOf
  <1>4. \A dir \in Dirs, v \in Nodes :
            costs[dir][v] # Inf => costs'[dir][v] # Inf /\ costs'[dir][v] <= costs[dir][v]
    BY RelaxedVectors
  <1>5. bestMeeting' \in [idx : Nodes \cup {None}, cost : Cost]
    <2>1. CASE bestMeeting'.idx = None
      <3>1. bestMeeting' = bestMeeting
        BY <1>1, <1>2, <2>1, NetworkFacts DEF NextMeeting, SearchInv, ShapeInv
      <3> QED BY <3>1 DEF SearchInv, ShapeInv
    <2>2. CASE bestMeeting'.idx # None
      <3>1. bestMeeting'.idx \in Nodes /\ bestMeeting'.cost \in Nat
        BY <2>2, MeetingFacts
      <3>2. bestMeeting' = [idx |-> bestMeeting'.idx, cost |-> bestMeeting'.cost]
        BY <1>1 DEF NextMeeting, SearchInv, ShapeInv
      <3> QED BY <3>1, <3>2 DEF Cost
    <2> QED BY <2>1, <2>2
  <1>6. ShapeInv'
    <2>1. /\ costs' \in [Dirs -> Vector(Cost)']
          /\ predecessors' \in [Dirs -> Vector({None} \cup DOMAIN net.edges)']
          /\ \A dir \in Dirs : DOMAIN costs'[dir] = Nodes /\ DOMAIN predecessors'[dir] = Nodes
      <3>1. /\ costs' \in [Dirs -> [Nodes -> Cost]]
            /\ predecessors' \in [Dirs -> [Nodes -> {None} \cup DOMAIN net.edges]]
        BY RelaxedVectors
      <3>2. [Nodes -> Cost] \subseteq Vector(Cost)'
        BY <1>3 DEF Vector, Cost
      <3>3. [Nodes -> {None} \cup DOMAIN net.edges] \subseteq Vector({None} \cup DOMAIN net.edges)'
        BY <1>1, <1>3 DEF Vector
      <3> QED BY <3>1, <3>2, <3>3
    <2>2. /\ isVisited' \in [Dirs -> Vector(BOOLEAN)']
          /\ \A dir \in Dirs : DOMAIN isVisited'[dir] = DOMAIN isVisited[dir]
      <3>1. Vector(BOOLEAN)' = Vector(BOOLEAN)
        BY <1>3 DEF Vector
      <3> QED BY <1>1, <3>1, VisitFacts
    <2>3. touched' \in [Dirs -> SUBSET Nodes]
      BY <1>1, <1>2 DEF SearchInv, ShapeInv, Touched
    <2>4. queue' \in SUBSET [cost : Nat, idx : Nodes, dir : Dirs]
      <3>1. \A p \in Pushed(c) : p \in [cost : Nat, idx : Nodes, dir : Dirs]
        BY PushedFacts
      <3> QED BY <1>1, <3>1 DEF SearchInv, ShapeInv
    <2>5. ~IsCh' => \A dir \in Dirs : DOMAIN isVisited'[dir] = Nodes
      BY <1>1, <2>2 DEF SearchInv, ShapeInv, IsCh
    <2>6. Cost' = Cost
      BY DEF Cost
    <2>7. /\ net \in Networks /\ pc \in {"idle", "search", "path", "panicked"}
          /\ query \in [src : Nodes, dst : Nodes, alphas : Alphas, algo : {"Dijkstra", "CHDijkstra"}]
          /\ foundBest \in [Dirs -> BOOLEAN]
          /\ result \in [found : BOOLEAN, path : Seq(DOMAIN net.edges)]
          /\ asked \in 0 .. MaxQueries(net)
          /\ query.alphas[1] >= 0 /\ query.alphas[2] >= 0
      BY <1>1 DEF SearchInv, ShapeInv
    <2> QED
      BY <1>1, <1>3, <1>5, <2>1, <2>2, <2>3, <2>4, <2>5, <2>6, <2>7 DEF ShapeInv
  <1>7. TouchedCoversVectors'
    <2> SUFFICES ASSUME NEW dir \in Dirs, NEW v \in DOMAIN costs'[dir],
                        costs'[dir][v] # Inf \/ predecessors'[dir][v] # None
                 PROVE  v \in touched'[dir]
      BY DEF TouchedCoversVectors
    <2>1. v \in Nodes /\ DOMAIN costs[dir] = Nodes
      <3>1. costs'[dir] \in [Nodes -> Cost]
        BY RelaxedVectors
      <3>2. DOMAIN costs[dir] = Nodes
        BY <1>1 DEF SearchInv, ShapeInv
      <3> QED BY <3>1, <3>2
    <2>2. touched \in [Dirs -> SUBSET Nodes]
      BY DEF SearchInv, ShapeInv
    <2>3. CASE dir = c.dir /\ v \in Reached(c)
      BY <1>1, <2>2, <2>3 DEF Touched
    <2>4. CASE ~(dir = c.dir /\ v \in Reached(c))
      <3>1. costs'[dir][v] = costs[dir][v] /\ predecessors'[dir][v] = predecessors[dir][v]
        BY <2>1, <2>4, RelaxedVectors
      <3>2. v \in touched[dir]
        BY <2>1, <3>1 DEF SearchInv, TouchedCoversVectors
      <3> QED BY <1>1, <2>2, <3>2
    <2> QED BY <2>3, <2>4
  <1>8. QueueInv'
    <2> SUFFICES ASSUME NEW p \in queue'
                 PROVE  costs'[p.dir][p.idx] # Inf /\ costs'[p.dir][p.idx] <= p.cost
      BY DEF QueueInv
    <2>1. CASE p \in Pushed(c)
      BY <2>1, PushedFacts
    <2>2. CASE p \in queue
      <3>1. p.dir \in Dirs /\ p.idx \in Nodes /\ p.cost \in Nat
        BY <2>2 DEF SearchInv, ShapeInv
      <3>2. costs[p.dir][p.idx] # Inf /\ costs[p.dir][p.idx] <= p.cost
        BY <1>1, <2>2 DEF SearchInv, QueueInv
      <3>3. costs'[p.dir][p.idx] # Inf /\ costs'[p.dir][p.idx] <= costs[p.dir][p.idx]
        BY <1>4, <3>1, <3>2
      <3>4. costs[p.dir][p.idx] \in Nat /\ costs'[p.dir][p.idx] \in Nat
        <4>1. costs[p.dir][p.idx] \in Cost
          BY <1>1, <3>1 DEF SearchInv, ShapeInv, Vector
        <4>2. costs'[p.dir][p.idx] \in Cost
          BY <3>1, RelaxedVectors
        <4> QED BY <3>2, <3>3, <4>1, <4>2 DEF Cost
      <3> QED BY <3>1, <3>2, <3>3, <3>4
    <2> QED BY <1>1, <2>1, <2>2
  <1>9. VisitedInv'
    <2> SUFFICES ASSUME ~IsCh', NEW dir \in Dirs, NEW v \in Nodes, isVisited'[dir][v]
                 PROVE  costs'[dir][v] # Inf
      BY <1>3 DEF VisitedInv
    <2>1. ~IsCh
      BY <1>1 DEF IsCh
    <2>2. isVisited[dir][v] \/ (dir = c.dir /\ v = c.idx)
      BY <1>1, <2>1, VisitFacts
    <2>3. costs[dir][v] # Inf
      <3>1. costs[c.dir][c.idx] # Inf
        BY <1>1 DEF SearchInv, QueueInv
      <3> QED BY <1>1, <2>1, <2>2, <3>1 DEF SearchInv, VisitedInv
    <2> QED BY <1>4, <2>3
  <1>10. TreeInv'
    BY TreeGrows DEF TreeInv
  <1>11. MeetingInv'
    <2> SUFFICES ASSUME bestMeeting'.idx # None
                 PROVE  /\ bestMeeting'.cost # Inf
                        /\ \A dir \in Dirs : costs'[dir][bestMeeting'.idx] # Inf
                        /\ costs'["FWD"][bestMeeting'.idx] + costs'["BWD"][bestMeeting'.idx]
                              <= bestMeeting'.cost
      BY DEF MeetingInv
    <2>1. PICK v \in Nodes : v = bestMeeting'.idx
      BY MeetingFacts
    <2>2. /\ bestMeeting'.cost \in Nat /\ \A dir \in Dirs : costs[dir][v] # Inf
          /\ costs["FWD"][v] + costs["BWD"][v] <= bestMeeting'.cost
      BY <2>1, MeetingFacts
    <2>3. \A dir \in Dirs : costs'[dir][v] # Inf /\ costs'[dir][v] <= costs[dir][v]
      BY <1>4, <2>2
    <2>4. \A dir \in Dirs : costs'[dir][v] \in Nat /\ costs[dir][v] \in Nat
      <3> SUFFICES ASSUME NEW dir \in Dirs PROVE costs'[dir][v] \in Nat /\ costs[dir][v] \in Nat
        OBVIOUS
      <3>1. costs[dir][v] \in Cost
        BY <1>1 DEF SearchInv, ShapeInv, Vector
      <3>2. costs'[dir][v] \in Cost
        BY RelaxedVectors
      <3> QED BY <2>2, <2>3, <3>1, <3>2 DEF Cost
    <2>5. "FWD" \in Dirs /\ "BWD" \in Dirs
      BY DEF Dirs
    <2>6. costs'["FWD"][v] + costs'["BWD"][v] <= bestMeeting'.cost
      BY <2>2, <2>3, <2>4, <2>5
    <2> QED BY <2>1, <2>2, <2>3, <2>6 DEF Inf
  <1> QED
    BY <1>6, <1>7, <1>8, <1>9, <1>10, <1>11 DEF SearchInv

-----------------------------------------------------------------------------
(* Walks, and what they cost *)

\* A walk in direction dir from s to t: IsWalk is one forwards.
DirWalk(dir, p, s, t) ==
    IF p = <<>>
    THEN s = t
    ELSE /\ Source(dir, p[1]) = s
         /\ Target(dir, p[Len(p)]) = t
         /\ \A i \in 1 .. Len(p) - 1 : Target(dir, p[i]) = Source(dir, p[i + 1])

LEMMA WalkForwards ==
    ASSUME NEW p, NEW s, NEW t, DirWalk("FWD", p, s, t)
    PROVE  IsWalk(p, s, t)
  BY DEF DirWalk, IsWalk, Source, Target, Opp, HeadOf, TailOf

LEMMA WalkAppend ==
    ASSUME NEW dir, NEW E, NEW p \in Seq(E), NEW s, NEW t, DirWalk(dir, p, s, t),
           NEW e \in E, Source(dir, e) = t
    PROVE  DirWalk(dir, Append(p, e), s, Target(dir, e))
  <1> DEFINE q == Append(p, e)
             n == Len(p)
  <1>1. /\ n \in Nat /\ Len(q) = n + 1 /\ q # <<>> /\ q[n + 1] = e
        /\ \A i \in 1 .. n : q[i] = p[i]
        /\ p = <<>> <=> n = 0
    OBVIOUS
  <1> HIDE DEF q, n
  <1>2. CASE n = 0
    BY <1>1, <1>2 DEF DirWalk, q
  <1>3. CASE n # 0
    <2>1. /\ Source(dir, p[1]) = s /\ Target(dir, p[n]) = t
          /\ \A i \in 1 .. n - 1 : Target(dir, p[i]) = Source(dir, p[i + 1])
      BY <1>1, <1>3 DEF DirWalk, n
    <2>2. Source(dir, q[1]) = s /\ Target(dir, q[n + 1]) = Target(dir, e)
      BY <1>1, <1>3, <2>1
    <2>3. ASSUME NEW i \in 1 .. n + 1 - 1 PROVE Target(dir, q[i]) = Source(dir, q[i + 1])
      <3>1. CASE i = n
        BY <1>1, <2>1, <3>1
      <3>2. CASE i # n
        <4>1. i \in 1 .. n - 1 /\ i \in 1 .. n /\ i + 1 \in 1 .. n
          BY <1>1, <3>2
        <4> QED BY <1>1, <2>1, <4>1
      <3> QED BY <3>1, <3>2
    <2>4. DirWalk(dir, q, s, Target(dir, e))
      BY <1>1, <2>2, <2>3 DEF DirWalk
    <2> QED BY <2>4 DEF q
  <1> QED BY <1>2, <1>3

LEMMA WalkReverse ==
    ASSUME NEW dir \in Dirs, NEW E, NEW p \in Seq(E), NEW s, NEW t, DirWalk(dir, p, s, t)
    PROVE  DirWalk(Opp(dir), Reverse(p), t, s)
  <1> DEFINE q == Reverse(p)
             n == Len(p)
  <1>1. n \in Nat /\ (p = <<>> <=> n = 0) /\ Len(q) = n /\ (q = <<>> <=> n = 0)
    BY DEF Reverse
  <1>2. \A i \in 1 .. n : q[i] = p[n - i + 1]
    BY DEF Reverse
  <1>3. \A e : Source(Opp(dir), e) = Target(dir, e) /\ Target(Opp(dir), e) = Source(dir, e)
    BY DEF Source, Target, Opp, Dirs, HeadOf, TailOf
  <1> HIDE DEF q, n
  <1>4. CASE n = 0
    BY <1>1, <1>4 DEF DirWalk, q
  <1>5. CASE n # 0
    <2>1. /\ Source(dir, p[1]) = s /\ Target(dir, p[n]) = t
          /\ \A i \in 1 .. n - 1 : Target(dir, p[i]) = Source(dir, p[i + 1])
      BY <1>1, <1>5 DEF DirWalk, n
    <2>2. q[1] = p[n] /\ q[n] = p[1]
      <3>1. 1 \in 1 .. n /\ n \in 1 .. n /\ n - 1 + 1 = n /\ n - n + 1 = 1
        BY <1>1, <1>5
      <3> QED BY <1>2, <3>1
    <2>3. ASSUME NEW i \in 1 .. n - 1 PROVE Target(Opp(dir), q[i]) = Source(Opp(dir), q[i + 1])
      <3>1. /\ i \in 1 .. n /\ i + 1 \in 1 .. n /\ n - i \in 1 .. n - 1
            /\ n - (i + 1) + 1 = n - i
        BY <1>1
      <3>2. q[i] = p[n - i + 1] /\ q[i + 1] = p[n - i]
        BY <1>2, <3>1
      <3> QED BY <1>3, <2>1, <3>1, <3>2
    <2>4. DirWalk(Opp(dir), q, t, s)
      BY <1>1, <1>3, <1>5, <2>1, <2>2, <2>3 DEF DirWalk
    <2> QED BY <2>4 DEF q
  <1> QED BY <1>4, <1>5

LEMMA WalkConcat ==
    ASSUME NEW dir, NEW E, NEW p \in Seq(E), NEW q \in Seq(E), NEW s, NEW t, NEW u,
           DirWalk(dir, p, s, t), DirWalk(dir, q, t, u)
    PROVE  DirWalk(dir, p \o q, s, u)
  <1> DEFINE r == p \o q
             m == Len(p)
             n == Len(q)
  <1>1. /\ m \in Nat /\ n \in Nat /\ (p = <<>> <=> m = 0) /\ (q = <<>> <=> n = 0)
        /\ Len(r) = m + n /\ (r = <<>> <=> m + n = 0)
    OBVIOUS
  <1>2. /\ \A i \in 1 .. m : r[i] = p[i]
        /\ \A i \in 1 .. n : r[m + i] = q[i]
    OBVIOUS
  <1>3. CASE m = 0
    <2>1. p = <<>> /\ r = q /\ s = t
      BY <1>1, <1>3 DEF DirWalk
    <2> QED BY <2>1
  <1>4. CASE n = 0
    <2>1. q = <<>> /\ r = p /\ u = t
      BY <1>1, <1>4 DEF DirWalk
    <2> QED BY <2>1
  <1> HIDE DEF r, m, n
  <1>5. CASE m # 0 /\ n # 0
    <2>1. /\ Source(dir, p[1]) = s /\ Target(dir, p[m]) = t
          /\ \A i \in 1 .. m - 1 : Target(dir, p[i]) = Source(dir, p[i + 1])
      BY <1>1, <1>5 DEF DirWalk, m
    <2>2. /\ Source(dir, q[1]) = t /\ Target(dir, q[n]) = u
          /\ \A i \in 1 .. n - 1 : Target(dir, q[i]) = Source(dir, q[i + 1])
      BY <1>1, <1>5 DEF DirWalk, n
    <2>3. r[1] = p[1] /\ r[m] = p[m] /\ r[m + 1] = q[1] /\ r[m + n] = q[n]
      BY <1>1, <1>2, <1>5
    <2>4. ASSUME NEW i \in 1 .. m + n - 1 PROVE Target(dir, r[i]) = Source(dir, r[i + 1])
      <3>1. CASE i < m
        <4>1. i \in 1 .. m /\ i + 1 \in 1 .. m /\ i \in 1 .. m - 1
          BY <1>1, <3>1
        <4> QED BY <1>2, <2>1, <4>1
      <3>2. CASE i = m
        BY <2>1, <2>2, <2>3, <3>2
      <3>3. CASE i > m
        <4>1. PICK j \in 1 .. n - 1 : i = m + j
          <5>1. i - m \in 1 .. n - 1 /\ i = m + (i - m)
            BY <1>1, <3>3
          <5> QED BY <5>1
        <4>2. j \in 1 .. n /\ j + 1 \in 1 .. n /\ i + 1 = m + (j + 1)
          BY <1>1, <4>1
        <4>3. r[i] = q[j] /\ r[i + 1] = q[j + 1]
          BY <1>2, <4>1, <4>2
        <4> QED BY <2>2, <4>1, <4>3
      <3> QED BY <1>1, <3>1, <3>2, <3>3
    <2>5. DirWalk(dir, r, s, u)
      <3>1. r # <<>> /\ Len(r) = m + n
        BY <1>1, <1>5
      <3>2. Source(dir, r[1]) = s /\ Target(dir, r[Len(r)]) = u
        BY <2>1, <2>2, <2>3, <3>1
      <3>3. ASSUME NEW i \in 1 .. Len(r) - 1 PROVE Target(dir, r[i]) = Source(dir, r[i + 1])
        <4>1. i \in 1 .. m + n - 1
          BY <1>1, <3>1
        <4> QED BY <2>4, <4>1
      <3> QED BY <3>1, <3>2, <3>3 DEF DirWalk
    <2> QED BY <2>5 DEF r
  <1> QED BY <1>3, <1>4, <1>5

\* A function that holds the costs of a path's first edges holds the path's costs.
LEMMA PathCostIs ==
    ASSUME NEW path, Len(path) \in Nat, NEW sum,
           \A i \in 1 .. Len(path) : Weight(query.alphas, net.edges[path[i]]) \in Int,
           IsSum(sum, [i \in 1 .. Len(path) |-> Weight(query.alphas, net.edges[path[i]])], Len(path))
    PROVE  PathCost(path) = sum[Len(path)]
  <1> DEFINE n == Len(path)
             w == [i \in 1 .. n |-> Weight(query.alphas, net.edges[path[i]])]
             IsCost(f) == f = [i \in 0 .. n |-> IF i = 0 THEN 0
                                  ELSE f[i - 1] + Weight(query.alphas, net.edges[path[i]])]
             Costs == CHOOSE f : IsCost(f)
  <1>1. PathCost(path) = Costs[n]
    BY DEF PathCost
  <1>2. \A i \in 1 .. n : w[i] = Weight(query.alphas, net.edges[path[i]]) /\ w[i] \in Int
    OBVIOUS
  <1>3. \E f : IsCost(f)
    <2>1. PICK f \in [0 .. n -> Int] : IsSum(f, w, n)
      <3> HIDE DEF w, n
      <3> QED BY <1>2, SumExists DEF n
    <2>2. \A i \in 0 .. n : f[i] = IF i = 0 THEN 0
                                   ELSE f[i - 1] + Weight(query.alphas, net.edges[path[i]])
      <3> SUFFICES ASSUME NEW i \in 0 .. n
                   PROVE  f[i] = IF i = 0 THEN 0
                                 ELSE f[i - 1] + Weight(query.alphas, net.edges[path[i]])
        OBVIOUS
      <3>1. i # 0 => i \in 1 .. n
        OBVIOUS
      <3> HIDE DEF w, n
      <3> QED BY <1>2, <2>1, <3>1 DEF IsSum
    <2>3. IsCost(f)
      <3>1. f = [i \in 0 .. n |-> f[i]]
        BY <2>1
      <3> QED BY <2>2, <3>1
    <2> QED BY <2>3
  <1>4. IsCost(Costs)
    <2> HIDE DEF IsCost
    <2> QED BY <1>3
  <1>5. IsSum(Costs, w, n)
    <2> DEFINE f == Costs
    <2>1. IsCost(f)
      BY <1>4
    <2> HIDE DEF f
    <2>2. \A i \in 0 .. n : f[i] = IF i = 0 THEN 0
                                   ELSE f[i - 1] + Weight(query.alphas, net.edges[path[i]])
      BY <2>1
    <2>3. IsSum(f, w, n)
      <3> SUFFICES ASSUME NEW i \in 0 .. n PROVE f[i] = IF i = 0 THEN 0 ELSE f[i - 1] + w[i]
        BY DEF IsSum
      <3>1. i # 0 => i \in 1 .. n
        OBVIOUS
      <3> HIDE DEF w, n
      <3> QED BY <1>2, <2>2, <3>1
    <2> QED BY <2>3 DEF f
  <1>6. IsSum(sum, w, n) /\ n \in Nat
    OBVIOUS
  <1> HIDE DEF n, w, Costs
  <1>7. \A i \in 0 .. n : Costs[i] = sum[i]
    BY <1>5, <1>6, SumUnique
  <1>8. n \in 0 .. n
    BY <1>6
  <1> QED BY <1>1, <1>7, <1>8 DEF n

\* The weights of the edges, for the query.
WeightsAreNat == \A e \in DOMAIN net.edges : Weight(query.alphas, net.edges[e]) \in Nat

\* sum holds the costs of the first edges of a path.
Accumulates(sum, path) ==
    /\ sum[0] = 0
    /\ \A i \in 1 .. Len(path) :
          sum[i] = sum[i - 1] + Weight(query.alphas, net.edges[path[i]])

LEMMA PathFacts ==
    ASSUME WeightsAreNat, NEW path \in Seq(DOMAIN net.edges)
    PROVE  /\ Len(path) \in Nat
           /\ \A i \in 1 .. Len(path) : /\ path[i] \in DOMAIN net.edges
                                        /\ Weight(query.alphas, net.edges[path[i]]) \in Nat
  BY DEF WeightsAreNat

LEMMA CostIs ==
    ASSUME WeightsAreNat, NEW path \in Seq(DOMAIN net.edges), NEW sum, Accumulates(sum, path)
    PROVE  PathCost(path) = sum[Len(path)]
  <1> DEFINE n == Len(path)
             w == [i \in 1 .. n |-> Weight(query.alphas, net.edges[path[i]])]
  <1>1. n \in Nat /\ \A i \in 1 .. n : Weight(query.alphas, net.edges[path[i]]) \in Int
    BY PathFacts
  <1>2. IsSum(sum, w, n)
    <2> SUFFICES ASSUME NEW i \in 0 .. n PROVE sum[i] = IF i = 0 THEN 0 ELSE sum[i - 1] + w[i]
      BY DEF IsSum
    <2>1. i # 0 => i \in 1 .. n
      OBVIOUS
    <2> QED BY <2>1 DEF Accumulates
  <1> QED
    BY <1>1, <1>2, PathCostIs

LEMMA CostExists ==
    ASSUME WeightsAreNat, NEW path \in Seq(DOMAIN net.edges)
    PROVE  \E sum \in [0 .. Len(path) -> Int] : Accumulates(sum, path)
  <1> DEFINE n == Len(path)
             w == [i \in 1 .. n |-> Weight(query.alphas, net.edges[path[i]])]
  <1>1. n \in Nat /\ \A i \in 1 .. n : w[i] \in Int
    BY PathFacts
  <1>2. PICK sum \in [0 .. n -> Int] : IsSum(sum, w, n)
    <2> HIDE DEF n, w
    <2> QED BY <1>1, SumExists
  <1>3. ASSUME NEW i \in 1 .. n
        PROVE  sum[i] = sum[i - 1] + Weight(query.alphas, net.edges[path[i]])
    <2>1. i \in 0 .. n /\ i # 0 /\ w[i] = Weight(query.alphas, net.edges[path[i]])
      OBVIOUS
    <2> HIDE DEF n, w
    <2> QED BY <1>2, <2>1 DEF IsSum
  <1>4. sum[0] = 0
    <2>1. 0 \in 0 .. n
      BY <1>1
    <2> HIDE DEF n, w
    <2> QED BY <1>2, <2>1 DEF IsSum
  <1> QED
    BY <1>2, <1>3, <1>4 DEF Accumulates

LEMMA CostIsNat ==
    ASSUME WeightsAreNat, NEW path \in Seq(DOMAIN net.edges)
    PROVE  PathCost(path) \in Nat
  <1> DEFINE n == Len(path)
  <1>1. PICK sum \in [0 .. n -> Int] : Accumulates(sum, path)
    BY CostExists
  <1>2. n \in Nat /\ \A i \in 1 .. n : Weight(query.alphas, net.edges[path[i]]) \in Nat
    BY PathFacts
  <1>3. sum[0] = 0 /\ \A i \in 1 .. n : sum[i] = sum[i - 1] + Weight(query.alphas, net.edges[path[i]])
    BY <1>1 DEF Accumulates
  <1>4. PathCost(path) = sum[n]
    BY <1>1, CostIs
  <1> HIDE DEF n
  <1> DEFINE N == {k \in Nat : k <= n => sum[k] \in Nat}
  <1>5. 0 \in N
    BY <1>3
  <1>6. ASSUME NEW k \in Nat, k \in N PROVE k + 1 \in N
    <2> SUFFICES ASSUME k + 1 <= n PROVE sum[k + 1] \in Nat
      OBVIOUS
    <2>1. k + 1 \in 1 .. n /\ k + 1 - 1 = k /\ sum[k] \in Nat
      BY <1>2, <1>6
    <2>2. /\ sum[k + 1] = sum[k] + Weight(query.alphas, net.edges[path[k + 1]])
          /\ Weight(query.alphas, net.edges[path[k + 1]]) \in Nat
      BY <1>2, <1>3, <2>1
    <2> QED BY <2>1, <2>2
  <1>7. \A k \in Nat : k \in N
    <2> HIDE DEF N
    <2> QED BY <1>5, <1>6, NaturalsAreInductive
  <1> QED
    BY <1>2, <1>4, <1>7

\* Nothing costs nothing.
LEMMA EmptyCost ==
    ASSUME WeightsAreNat
    PROVE  PathCost(<<>>) = 0
  <1>1. <<>> \in Seq(DOMAIN net.edges) /\ Len(<<>>) = 0
    OBVIOUS
  <1>2. PICK sum \in [0 .. Len(<<>>) -> Int] : Accumulates(sum, <<>>)
    BY <1>1, CostExists
  <1> QED
    BY <1>1, <1>2, CostIs DEF Accumulates

LEMMA ConcatCost ==
    ASSUME WeightsAreNat, NEW p \in Seq(DOMAIN net.edges), NEW q \in Seq(DOMAIN net.edges)
    PROVE  PathCost(p \o q) = PathCost(p) + PathCost(q)
  <1> DEFINE r == p \o q
             m == Len(p)
             n == Len(q)
             weight(e) == Weight(query.alphas, net.edges[e])
  <1>1. /\ m \in Nat /\ n \in Nat /\ Len(r) = m + n /\ r \in Seq(DOMAIN net.edges)
        /\ \A i \in 1 .. m : r[i] = p[i]
        /\ \A i \in 1 .. n : r[m + i] = q[i]
    OBVIOUS
  <1>2. PICK f \in [0 .. m -> Int] : Accumulates(f, p)
    BY CostExists
  <1>3. PICK g \in [0 .. n -> Int] : Accumulates(g, q)
    BY CostExists
  <1>4. PathCost(p) = f[m] /\ PathCost(q) = g[n]
    BY <1>2, <1>3, CostIs
  <1> DEFINE h == [i \in 0 .. m + n |-> IF i <= m THEN f[i] ELSE f[m] + g[i - m]]
  <1>5. /\ f[0] = 0 /\ \A i \in 1 .. m : f[i] = f[i - 1] + weight(p[i])
        /\ g[0] = 0 /\ \A i \in 1 .. n : g[i] = g[i - 1] + weight(q[i])
    BY <1>2, <1>3 DEF Accumulates
  <1>6. \A i \in 1 .. m + n : weight(r[i]) \in Nat
    BY <1>1, PathFacts
  <1> HIDE DEF r, m, n, weight
  <1>7. ASSUME NEW i \in 1 .. m + n PROVE h[i] = h[i - 1] + weight(r[i])
    <2>1. CASE i <= m
      <3>1. i \in 1 .. m /\ i - 1 <= m /\ i - 1 \in 0 .. m + n /\ i \in 0 .. m + n
        BY <1>1, <2>1
      <3>2. h[i] = f[i] /\ h[i - 1] = f[i - 1]
        BY <2>1, <3>1
      <3> HIDE DEF h
      <3> QED BY <1>1, <1>5, <3>1, <3>2
    <2>2. CASE i > m
      <3> DEFINE j == i - m
      <3>1. /\ j \in 1 .. n /\ i = m + j /\ i - 1 \in 0 .. m + n /\ i \in 0 .. m + n
            /\ j - 1 \in 0 .. n /\ j \in 0 .. n
        BY <1>1, <2>2
      <3>2. h[i] = f[m] + g[j]
        <4>1. ~(i <= m)
          BY <1>1, <2>2
        <4> QED BY <3>1, <4>1
      <3>3. h[i - 1] = f[m] + g[j - 1]
        <4>1. CASE j = 1
          <5>1. i - 1 = m /\ j - 1 = 0 /\ m \in 0 .. m
            BY <1>1, <3>1, <4>1
          <5>2. f[m] \in Int /\ g[j - 1] = 0
            BY <1>2, <1>5, <5>1
          <5>3. h[i - 1] = f[m]
            BY <3>1, <5>1
          <5> QED BY <5>2, <5>3
        <4>2. CASE j # 1
          <5>1. ~(i - 1 <= m) /\ i - 1 - m = j - 1
            BY <1>1, <3>1, <4>2
          <5> QED BY <3>1, <5>1
        <4> QED BY <4>1, <4>2
      <3>4. g[j] = g[j - 1] + weight(q[j]) /\ r[i] = q[j]
        BY <1>1, <1>5, <3>1
      <3>5. f[m] \in Int /\ g[j - 1] \in Int /\ weight(r[i]) \in Int
        BY <1>1, <1>2, <1>3, <1>6, <3>1
      <3> HIDE DEF h, j
      <3> QED BY <3>2, <3>3, <3>4, <3>5
    <2> QED BY <1>1, <2>1, <2>2
  <1>8. h[0] = 0
    BY <1>1, <1>5
  <1>9. h[m + n] = f[m] + g[n]
    <2>1. CASE n = 0
      <3>1. g[n] = 0 /\ f[m] \in Int /\ m + n = m /\ h[m + n] = f[m]
        BY <1>1, <1>2, <1>5, <2>1
      <3> QED BY <3>1
    <2>2. CASE n # 0
      BY <1>1, <2>2
    <2> QED BY <2>1, <2>2
  <1> HIDE DEF h
  <1>10. Accumulates(h, r)
    BY <1>1, <1>7, <1>8 DEF Accumulates, weight
  <1>11. PathCost(r) = h[m + n]
    BY <1>1, <1>10, CostIs
  <1> QED
    BY <1>4, <1>9, <1>11 DEF r

LEMMA Singleton ==
    ASSUME NEW S, NEW e \in S
    PROVE  <<e>> \in Seq(S) /\ Len(<<e>>) = 1 /\ <<e>>[1] = e
  OBVIOUS

LEMMA SingleCost ==
    ASSUME WeightsAreNat, NEW e \in DOMAIN net.edges
    PROVE  PathCost(<<e>>) = Weight(query.alphas, net.edges[e])
  <1> DEFINE p == <<e>>
             w == Weight(query.alphas, net.edges[e])
  <1>1. /\ p \in Seq(DOMAIN net.edges) /\ Len(p) = 1 /\ p[1] = e
        /\ w \in Nat
    <2>1. p \in Seq(DOMAIN net.edges) /\ Len(p) = 1 /\ p[1] = e
      BY Singleton
    <2>2. w \in Nat
      BY DEF WeightsAreNat
    <2> QED BY <2>1, <2>2
  <1> DEFINE f == [i \in 0 .. 1 |-> IF i = 0 THEN 0 ELSE w]
  <1>2. f[0] = 0 /\ f[1] = w
    OBVIOUS
  <1>3. Accumulates(f, p)
    <2> SUFFICES ASSUME NEW i \in 1 .. Len(p)
                 PROVE  f[i] = f[i - 1] + Weight(query.alphas, net.edges[p[i]])
      BY <1>2 DEF Accumulates
    <2>1. i = 1 /\ i - 1 = 0 /\ p[i] = e
      BY <1>1
    <2> HIDE DEF f, p
    <2> QED BY <1>1, <1>2, <2>1
  <1> HIDE DEF f, p
  <1>4. PathCost(p) = f[1]
    BY <1>1, <1>3, CostIs
  <1> QED BY <1>2, <1>4 DEF p

LEMMA AppendCost ==
    ASSUME WeightsAreNat, NEW p \in Seq(DOMAIN net.edges), NEW e \in DOMAIN net.edges
    PROVE  PathCost(Append(p, e)) = PathCost(p) + Weight(query.alphas, net.edges[e])
  <1>1. <<e>> \in Seq(DOMAIN net.edges)
    BY Singleton
  <1>2. Append(p, e) = p \o <<e>>
    BY AppendIsConcat
  <1> QED BY <1>1, <1>2, ConcatCost, SingleCost

LEMMA ReverseCost ==
    ASSUME WeightsAreNat, NEW p \in Seq(DOMAIN net.edges)
    PROVE  Reverse(p) \in Seq(DOMAIN net.edges) /\ PathCost(Reverse(p)) = PathCost(p)
  <1> DEFINE q == Reverse(p)
             n == Len(p)
             weight(e) == Weight(query.alphas, net.edges[e])
  <1>1. n \in Nat /\ \A i \in 1 .. n : n - i + 1 \in 1 .. n /\ p[n - i + 1] \in DOMAIN net.edges
    BY PathFacts
  <1>2. q = [i \in 1 .. n |-> p[n - i + 1]]
    BY DEF Reverse
  <1>3. q \in [1 .. n -> DOMAIN net.edges]
    BY <1>1, <1>2
  <1>4. q \in Seq(DOMAIN net.edges) /\ Len(q) = n
    <2> HIDE DEF q, n
    <2> QED BY <1>1, <1>3
  <1>5. PICK f \in [0 .. n -> Int] : Accumulates(f, p)
    BY CostExists
  <1>6. PathCost(p) = f[n]
    BY <1>5, CostIs
  <1>7. f[0] = 0 /\ \A i \in 1 .. n : f[i] = f[i - 1] + weight(p[i]) /\ weight(p[i]) \in Nat
    BY <1>5, PathFacts DEF Accumulates
  <1> DEFINE h == [i \in 0 .. n |-> f[n] - f[n - i]]
  <1> HIDE DEF q, n, weight
  <1>8. ASSUME NEW i \in 1 .. n PROVE h[i] = h[i - 1] + weight(q[i])
    <2> DEFINE j == n - i + 1
    <2>1. /\ j \in 1 .. n /\ n - i = j - 1 /\ n - (i - 1) = j /\ i \in 0 .. n /\ i - 1 \in 0 .. n
          /\ j - 1 \in 0 .. n /\ j \in 0 .. n /\ n \in 0 .. n
      BY <1>1
    <2>2. q[i] = p[j]
      BY <1>2
    <2>3. h[i] = f[n] - f[j - 1] /\ h[i - 1] = f[n] - f[j]
      BY <2>1
    <2>4. f[j] = f[j - 1] + weight(p[j]) /\ weight(p[j]) \in Nat
      BY <1>7, <2>1
    <2>5. f[j] \in Int /\ f[j - 1] \in Int /\ f[n] \in Int
      BY <1>5, <2>1
    <2> HIDE DEF h, j
    <2> QED BY <2>2, <2>3, <2>4, <2>5
  <1>9. h[0] = 0 /\ h[n] = f[n]
    <2>1. n \in 0 .. n /\ 0 \in 0 .. n /\ n - 0 = n /\ n - n = 0 /\ f[n] \in Int
      BY <1>1, <1>5
    <2>2. h[0] = f[n] - f[n] /\ h[n] = f[n] - f[0]
      BY <2>1
    <2> HIDE DEF h
    <2> QED BY <1>7, <2>1, <2>2
  <1> HIDE DEF h
  <1>10. Accumulates(h, q)
    BY <1>4, <1>8, <1>9 DEF Accumulates, weight
  <1>11. PathCost(q) = h[n]
    BY <1>4, <1>10, CostIs
  <1> QED
    BY <1>4, <1>6, <1>9, <1>11 DEF q

-----------------------------------------------------------------------------
(* The path of the predecessors *)

LEMMA LexicographicHeight ==
    ASSUME NEW b \in Nat, NEW x \in Nat, NEW y \in Nat, NEW i \in 0 .. b, NEW j \in 0 .. b,
           x < y \/ (x = y /\ i < j)
    PROVE  x * (b + 1) + i < y * (b + 1) + j
  <1> DEFINE k == b + 1
  <1>1. k \in Nat /\ i < k /\ i \in Nat /\ j \in Nat
    OBVIOUS
  <1>2. x * k \in Nat /\ y * k \in Nat
    BY <1>1, ProductIsNat
  <1>3. CASE x = y
    <2> HIDE DEF k
    <2> QED BY <1>1, <1>2, <1>3
  <1>4. CASE x < y
    <2>1. PICK d \in Nat : y = x + 1 + d
      <3>1. y - (x + 1) \in Nat /\ y = x + 1 + (y - (x + 1))
        BY <1>4
      <3> QED BY <3>1
    <2>2. d * k \in Nat
      BY <1>1, ProductIsNat
    <2> HIDE DEF k
    <2>3. y * k = x * k + k + d * k
      BY <1>1, <2>1
    <2> QED BY <1>1, <1>2, <2>2, <2>3
  <1> QED BY <1>3, <1>4

\* What the last steps of a proof about chains need.
LEMMA TreeFacts ==
    ASSUME SearchInv, InSearch, NEW dir \in Dirs
    PROVE  /\ net \in Networks /\ WeightsAreNat
           /\ Tree(dir) /\ Ranked(dir) /\ Origin(dir) \in Nodes
           /\ predecessors[dir] \in [Nodes -> {None} \cup DOMAIN net.edges]
           /\ costs[dir] \in [Nodes -> Cost]
  <1>1. /\ net \in Networks /\ query.alphas \in Alphas
        /\ query.alphas[1] >= 0 /\ query.alphas[2] >= 0
    BY DEF SearchInv, ShapeInv
  <1>2. WeightsAreNat
    BY <1>1, WeightIsNat DEF WeightsAreNat
  <1> QED
    BY <1>1, <1>2 DEF SearchInv, ShapeInv, TreeInv, Vector, Origin

\* Chain follows the predecessors to the root.
LEMMA ChainRecurs ==
    ASSUME SearchInv, InSearch, NEW dir \in Dirs
    PROVE  \E height \in [Nodes -> Nat] :
              /\ \A v \in Nodes : Chain(dir, v) \in Seq(DOMAIN net.edges)
              /\ \A v \in Nodes : predecessors[dir][v] = None => Chain(dir, v) = <<>>
              /\ \A v \in Nodes : predecessors[dir][v] # None =>
                    LET e == predecessors[dir][v]
                        u == Source(dir, e)
                    IN  /\ e \in DOMAIN net.edges /\ u \in Nodes /\ height[u] < height[v]
                        /\ Chain(dir, v) = Append(Chain(dir, u), e)
  <1> DEFINE pre == predecessors[dir]
             E == DOMAIN net.edges
             T == Seq(E)
             roots == {u \in Nodes : pre[u] = None}
             parent == [u \in Nodes |-> Source(dir, pre[u])]
             step == [p \in Nodes \X T |-> IF p[1] \in roots THEN <<>> ELSE Append(p[2], pre[p[1]])]
  <1>1. /\ net \in Networks /\ Tree(dir) /\ Ranked(dir)
        /\ pre \in [Nodes -> {None} \cup E] /\ costs[dir] \in [Nodes -> Cost]
    BY TreeFacts
  <1>2. ASSUME NEW u \in Nodes, u \notin roots
        PROVE  pre[u] \in E /\ Source(dir, pre[u]) \in Nodes /\ ReachedBy(dir, pre[u], u)
    <2>1. pre[u] \in E /\ pre[u] # None
      BY <1>1, <1>2
    <2>2. ReachedBy(dir, pre[u], u)
      BY <1>1, <2>1 DEF Tree
    <2> QED BY <1>1, <2>1, <2>2, EndsAreNodes
  <1>3. PICK b \in Nat : \E rank \in [Nodes -> 0 .. b] : Ranks(dir, rank, b)
    BY <1>1 DEF Ranked
  <1>4. PICK rank \in [Nodes -> 0 .. b] : Ranks(dir, rank, b)
    BY <1>3
  <1> DEFINE height == [u \in Nodes |->
                           IF costs[dir][u] = Inf THEN 0 ELSE costs[dir][u] * (b + 1) + rank[u]]
  <1>5. height \in [Nodes -> Nat]
    <2> SUFFICES ASSUME NEW u \in Nodes, costs[dir][u] # Inf
                 PROVE  costs[dir][u] * (b + 1) + rank[u] \in Nat
      OBVIOUS
    <2>1. costs[dir][u] \in Nat /\ b + 1 \in Nat /\ rank[u] \in Nat
      BY <1>1, <1>4 DEF Cost
    <2>2. costs[dir][u] * (b + 1) \in Nat
      BY <2>1, ProductIsNat
    <2> QED BY <2>1, <2>2
  <1>6. ASSUME NEW v \in Nodes, v \notin roots
        PROVE  height[Source(dir, pre[v])] < height[v]
    <2> DEFINE u == Source(dir, pre[v])
    <2>1. u \in Nodes /\ pre[v] \in E /\ pre[v] # None
      BY <1>2, <1>6
    <2>2. /\ costs[dir][u] # Inf /\ costs[dir][v] # Inf
          /\ costs[dir][u] + Weight(query.alphas, net.edges[pre[v]]) <= costs[dir][v]
      BY <1>2, <1>6 DEF ReachedBy
    <2>3. costs[dir][u] < costs[dir][v] \/ rank[u] < rank[v]
      BY <1>4, <2>1 DEF Ranks
    <2>4. /\ costs[dir][u] \in Nat /\ costs[dir][v] \in Nat
          /\ rank[u] \in 0 .. b /\ rank[v] \in 0 .. b
          /\ Weight(query.alphas, net.edges[pre[v]]) \in Nat
      BY <1>1, <1>4, <2>1, <2>2, TreeFacts DEF Cost, WeightsAreNat
    <2>5. /\ height[u] = costs[dir][u] * (b + 1) + rank[u]
          /\ height[v] = costs[dir][v] * (b + 1) + rank[v]
      BY <2>1, <2>2
    <2> HIDE DEF height, u
    <2>6. costs[dir][u] < costs[dir][v] \/ (costs[dir][u] = costs[dir][v] /\ rank[u] < rank[v])
      BY <2>2, <2>3, <2>4
    <2>7. costs[dir][u] * (b + 1) + rank[u] < costs[dir][v] * (b + 1) + rank[v]
      BY <2>4, <2>6, LexicographicHeight
    <2> QED BY <2>5, <2>7 DEF u
  <1>7. LeadsToRoots(Nodes, roots, parent, height)
    <2> HIDE DEF height
    <2>1. \A u \in Nodes \ roots : parent[u] \in Nodes /\ height[parent[u]] < height[u]
      BY <1>2, <1>6
    <2> HIDE DEF parent, roots
    <2> QED BY <1>5, <2>1 DEF LeadsToRoots
  <1>8. step \in [Nodes \X T -> T]
    <2> SUFFICES ASSUME NEW u \in Nodes, NEW p \in T
                 PROVE  (IF u \in roots THEN <<>> ELSE Append(p, pre[u])) \in T
      OBVIOUS
    <2>1. <<>> \in T
      OBVIOUS
    <2>2. u \notin roots => pre[u] \in E
      BY <1>2
    <2> HIDE DEF roots, pre, E
    <2>3. u \notin roots => Append(p, pre[u]) \in T
      BY <2>2
    <2> QED BY <2>1, <2>3
  <1>9. \A u \in Nodes, p \in T : u \notin roots => step[<<u, p>>] = Append(p, pre[u])
    OBVIOUS
  <1>10. \A u \in Nodes : parent[u] = Source(dir, pre[u])
    OBVIOUS
  <1> DEFINE IsChain(f) == f = [u \in Nodes |->
                     IF predecessors[dir][u] = None
                     THEN <<>>
                     ELSE Append(f[Source(dir, predecessors[dir][u])], predecessors[dir][u])]
             chain == CHOOSE f : IsChain(f)
  <1>11. \A v : Chain(dir, v) = chain[v]
    BY DEF Chain
  <1>12. \A u \in Nodes : u \in roots <=> predecessors[dir][u] = None
    OBVIOUS
  <1>13. PICK f \in [Nodes -> T] : Recurs(f, Nodes, roots, <<>>, parent, step)
    <2>1. <<>> \in T
      OBVIOUS
    <2> HIDE DEF T, roots, parent, step, height
    <2> QED BY <1>7, <1>8, <2>1, RecursionExists
  <1>14. IsChain(f)
    <2>1. ASSUME NEW u \in Nodes
          PROVE  f[u] = IF predecessors[dir][u] = None
                     THEN <<>>
                     ELSE Append(f[Source(dir, predecessors[dir][u])], predecessors[dir][u])
      <3>1. f[u] = IF u \in roots THEN <<>> ELSE step[<<u, f[parent[u]]>>]
        BY <1>13 DEF Recurs, FromParent
      <3>2. CASE u \in roots
        BY <3>1, <3>2
      <3>3. CASE u \notin roots
        <4>1. parent[u] = Source(dir, pre[u]) /\ Source(dir, pre[u]) \in Nodes
          BY <1>2, <3>3
        <4>2. f[Source(dir, pre[u])] \in T
          BY <1>13, <4>1
        <4> HIDE DEF T, step
        <4> QED BY <1>9, <1>12, <3>1, <3>3, <4>1, <4>2
      <3> QED BY <3>2, <3>3
    <2>2. f = [u \in Nodes |-> f[u]]
      BY <1>13
    <2> QED BY <2>1, <2>2
  <1>15. IsChain(chain)
    <2> HIDE DEF IsChain
    <2> QED BY <1>14
  <1>16. \A u \in Nodes : chain[u] = f[u]
    <2> DEFINE g == chain
    <2>1. IsChain(g)
      BY <1>15
    <2> HIDE DEF g
    <2>2. \A u \in Nodes : g[u] = IF predecessors[dir][u] = None THEN <<>>
                     ELSE Append(g[Source(dir, predecessors[dir][u])], predecessors[dir][u])
      BY <2>1
    <2>3. \A u \in Nodes : f[u] = IF predecessors[dir][u] = None THEN <<>>
                     ELSE Append(f[Source(dir, predecessors[dir][u])], predecessors[dir][u])
      BY <1>14
    <2> DEFINE plain == [p \in Nodes \X {f[u] : u \in Nodes} \cup Nodes \X {g[u] : u \in Nodes} |->
                            Append(p[2], pre[p[1]])]
    <2>4. Recurs(f, Nodes, roots, <<>>, parent, plain)
      <3> SUFFICES ASSUME NEW u \in Nodes PROVE f[u] = FromParent(f, u, roots, <<>>, parent, plain)
        BY DEF Recurs
      <3>1. u \notin roots => /\ parent[u] = Source(dir, pre[u]) /\ parent[u] \in Nodes
                              /\ plain[<<u, f[parent[u]]>>] = Append(f[parent[u]], pre[u])
        BY <1>2
      <3> HIDE DEF plain, parent
      <3> QED BY <1>12, <2>3, <3>1 DEF FromParent
    <2>5. Recurs(g, Nodes, roots, <<>>, parent, plain)
      <3> SUFFICES ASSUME NEW u \in Nodes PROVE g[u] = FromParent(g, u, roots, <<>>, parent, plain)
        BY DEF Recurs
      <3>1. u \notin roots => /\ parent[u] = Source(dir, pre[u]) /\ parent[u] \in Nodes
                              /\ plain[<<u, g[parent[u]]>>] = Append(g[parent[u]], pre[u])
        BY <1>2
      <3> HIDE DEF plain, parent
      <3> QED BY <1>12, <2>2, <3>1 DEF FromParent
    <2> HIDE DEF roots, parent, plain, height
    <2>6. \A u \in Nodes : g[u] = f[u]
      BY <1>7, <2>4, <2>5, RecursionUnique
    <2> QED BY <2>6 DEF g
  <1>17. \A v \in Nodes : Chain(dir, v) = f[v]
    BY <1>11, <1>16
  <1>18. \A v \in Nodes : Chain(dir, v) \in Seq(DOMAIN net.edges)
    BY <1>13, <1>17
  <1>19. \A v \in Nodes : f[v] = IF predecessors[dir][v] = None THEN <<>>
                     ELSE Append(f[Source(dir, predecessors[dir][v])], predecessors[dir][v])
    BY <1>14
  <1>20. \A v \in Nodes : predecessors[dir][v] # None =>
                    LET e == predecessors[dir][v]
                        u == Source(dir, e)
                    IN  /\ e \in DOMAIN net.edges /\ u \in Nodes /\ height[u] < height[v]
                        /\ Chain(dir, v) = Append(Chain(dir, u), e)
    <2> SUFFICES ASSUME NEW v \in Nodes, predecessors[dir][v] # None
                 PROVE  LET e == predecessors[dir][v]
                            u == Source(dir, e)
                        IN  /\ e \in DOMAIN net.edges /\ u \in Nodes /\ height[u] < height[v]
                            /\ Chain(dir, v) = Append(Chain(dir, u), e)
      OBVIOUS
    <2>1. v \notin roots
      OBVIOUS
    <2>2. /\ pre[v] \in E /\ Source(dir, pre[v]) \in Nodes
          /\ height[Source(dir, pre[v])] < height[v]
      BY <1>2, <1>6, <2>1
    <2>3. Chain(dir, v) = Append(Chain(dir, Source(dir, pre[v])), pre[v])
      BY <1>17, <1>19, <2>2
    <2> QED BY <2>2, <2>3
  <1> HIDE DEF height
  <1> QED
    BY <1>5, <1>17, <1>18, <1>19, <1>20

\* The chain to a node that has been reached is a walk from the origin that costs no more than
\* what is remembered for the node.
LEMMA ChainFacts ==
    ASSUME SearchInv, InSearch, NEW dir \in Dirs, NEW v \in Nodes, costs[dir][v] # Inf
    PROVE  /\ Chain(dir, v) \in Seq(DOMAIN net.edges)
           /\ DirWalk(dir, Chain(dir, v), Origin(dir), v)
           /\ PathCost(Chain(dir, v)) <= costs[dir][v]
  <1>1. PICK height \in [Nodes -> Nat] :
              /\ \A u \in Nodes : Chain(dir, u) \in Seq(DOMAIN net.edges)
              /\ \A u \in Nodes : predecessors[dir][u] = None => Chain(dir, u) = <<>>
              /\ \A u \in Nodes : predecessors[dir][u] # None =>
                    LET e == predecessors[dir][u]
                        t == Source(dir, e)
                    IN  /\ e \in DOMAIN net.edges /\ t \in Nodes /\ height[t] < height[u]
                        /\ Chain(dir, u) = Append(Chain(dir, t), e)
    BY ChainRecurs
  <1>2. /\ net \in Networks /\ WeightsAreNat /\ Tree(dir)
        /\ \A u \in Nodes : costs[dir][u] \in Cost
    BY TreeFacts
  <1> DEFINE Good(u) == /\ DirWalk(dir, Chain(dir, u), Origin(dir), u)
                        /\ PathCost(Chain(dir, u)) <= costs[dir][u]
             Ok(u) == costs[dir][u] # Inf => Good(u)
             N == {k \in Nat : \A u \in Nodes : height[u] < k => Ok(u)}
  <1>3. 0 \in N
    BY <1>1
  <1>4. ASSUME NEW k \in Nat, k \in N PROVE k + 1 \in N
    <2> SUFFICES ASSUME NEW u \in Nodes, height[u] < k + 1, costs[dir][u] # Inf PROVE Good(u)
      OBVIOUS
    <2>0. costs[dir][u] \in Nat
      BY <1>2 DEF Cost
    <2>1. CASE predecessors[dir][u] = None
      <3>1. Chain(dir, u) = <<>> /\ u = Origin(dir) /\ costs[dir][u] = 0
        BY <1>1, <1>2, <2>1 DEF Tree
      <3> QED BY <1>2, <3>1, EmptyCost DEF DirWalk
    <2>2. CASE predecessors[dir][u] # None
      <3> DEFINE e == predecessors[dir][u]
                 t == Source(dir, e)
      <3>1. /\ e \in DOMAIN net.edges /\ t \in Nodes /\ height[t] < height[u]
            /\ Chain(dir, u) = Append(Chain(dir, t), e)
            /\ Chain(dir, t) \in Seq(DOMAIN net.edges)
        BY <1>1, <2>2
      <3>2. /\ Target(dir, e) = u /\ costs[dir][t] # Inf
            /\ costs[dir][t] + Weight(query.alphas, net.edges[e]) <= costs[dir][u]
        BY <1>2, <2>2 DEF Tree, ReachedBy
      <3>3. height[t] < k
        BY <1>1, <3>1
      <3> HIDE DEF e
      <3>4. Good(t)
        BY <1>4, <3>1, <3>2, <3>3
      <3>5. DirWalk(dir, Append(Chain(dir, t), e), Origin(dir), Target(dir, e))
        BY <3>1, <3>4, WalkAppend
      <3>6. PathCost(Append(Chain(dir, t), e))
                = PathCost(Chain(dir, t)) + Weight(query.alphas, net.edges[e])
        BY <1>2, <3>1, AppendCost
      <3>7. /\ PathCost(Chain(dir, t)) \in Int /\ Weight(query.alphas, net.edges[e]) \in Nat
            /\ costs[dir][t] \in Nat
        BY <1>2, <3>1, <3>2, CostIsNat DEF WeightsAreNat, Cost
      <3>8. PathCost(Chain(dir, u)) <= costs[dir][u]
        BY <2>0, <3>1, <3>2, <3>4, <3>6, <3>7
      <3> QED BY <3>1, <3>2, <3>5, <3>8
    <2> QED BY <2>1, <2>2
  <1>5. \A k \in Nat : k \in N
    <2> HIDE DEF N
    <2> QED BY <1>3, <1>4, NaturalsAreInductive
  <1>6. height[v] + 1 \in Nat /\ height[v] < height[v] + 1
    BY <1>1
  <1>7. Good(v)
    <2> HIDE DEF Good
    <2> QED BY <1>5, <1>6
  <1> QED
    BY <1>1, <1>7

\* The path over the meeting node.
LEMMA MeetingPath ==
    ASSUME SearchInv, InSearch, bestMeeting.idx # None
    PROVE  LET path == Chain("FWD", bestMeeting.idx) \o Reverse(Chain("BWD", bestMeeting.idx))
           IN  /\ path \in Seq(DOMAIN net.edges)
               /\ IsWalk(path, query.src, query.dst)
               /\ PathCost(path) <= bestMeeting.cost
               /\ PathCost(path) \in Nat /\ bestMeeting.cost \in Nat
  <1> DEFINE v == bestMeeting.idx
             p == Chain("FWD", v)
             q == Chain("BWD", v)
  <1>1. /\ v \in Nodes /\ bestMeeting.cost \in Nat
        /\ costs["FWD"][v] # Inf /\ costs["BWD"][v] # Inf
        /\ costs["FWD"][v] + costs["BWD"][v] <= bestMeeting.cost
    BY DEF SearchInv, ShapeInv, MeetingInv, Cost, Dirs
  <1>2. costs["FWD"][v] \in Nat /\ costs["BWD"][v] \in Nat /\ WeightsAreNat
    <2>1. costs["FWD"][v] \in Cost /\ costs["BWD"][v] \in Cost /\ WeightsAreNat
      BY <1>1, TreeFacts DEF Dirs
    <2> QED BY <1>1, <2>1 DEF Cost
  <1>3. /\ p \in Seq(DOMAIN net.edges) /\ DirWalk("FWD", p, query.src, v)
        /\ PathCost(p) <= costs["FWD"][v]
    <2>1. "FWD" \in Dirs /\ Origin("FWD") = query.src
      BY DEF Dirs, Origin
    <2> HIDE DEF v
    <2> QED BY <1>1, <2>1, ChainFacts
  <1>4. /\ q \in Seq(DOMAIN net.edges) /\ DirWalk("BWD", q, query.dst, v)
        /\ PathCost(q) <= costs["BWD"][v]
    <2>1. "BWD" \in Dirs /\ Origin("BWD") = query.dst
      BY DEF Dirs, Origin
    <2> HIDE DEF v
    <2> QED BY <1>1, <2>1, ChainFacts
  <1> HIDE DEF v, p, q
  <1>5. /\ Reverse(q) \in Seq(DOMAIN net.edges) /\ PathCost(Reverse(q)) = PathCost(q)
        /\ DirWalk("FWD", Reverse(q), v, query.dst)
    <2>1. "BWD" \in Dirs /\ Opp("BWD") = "FWD"
      BY DEF Dirs, Opp
    <2>2. DirWalk("FWD", Reverse(q), v, query.dst)
      BY <1>4, <2>1, WalkReverse
    <2> QED BY <1>2, <1>4, <2>2, ReverseCost
  <1>6. /\ DirWalk("FWD", p \o Reverse(q), query.src, query.dst)
        /\ p \o Reverse(q) \in Seq(DOMAIN net.edges)
    BY <1>3, <1>5, WalkConcat
  <1>7. PathCost(p \o Reverse(q)) = PathCost(p) + PathCost(q)
    BY <1>2, <1>3, <1>5, ConcatCost
  <1>8. PathCost(p) \in Nat /\ PathCost(q) \in Nat
    BY <1>2, <1>3, <1>4, CostIsNat
  <1>9. PathCost(p \o Reverse(q)) <= bestMeeting.cost /\ PathCost(p \o Reverse(q)) \in Nat
    BY <1>1, <1>2, <1>3, <1>4, <1>7, <1>8
  <1>10. IsWalk(p \o Reverse(q), query.src, query.dst)
    BY <1>6, WalkForwards
  <1> QED
    BY <1>1, <1>6, <1>9, <1>10 DEF p, q, v

LEMMA BuildPathKeeps ==
    ASSUME SearchInv, BuildPath
    PROVE  SearchInv'
  <1>1. /\ pc = "path" /\ pc' = "idle"
        /\ UNCHANGED <<net, query, costs, predecessors, isVisited, foundBest, touched, queue,
                       bestMeeting, asked>>
    BY DEF BuildPath, searchVars, resetVars
  <1>2. result' \in [found : BOOLEAN, path : Seq(DOMAIN net.edges)]
    <2>1. CASE bestMeeting.idx = None
      BY <2>1 DEF BuildPath, NoPath
    <2>2. CASE bestMeeting.idx # None
      <3> DEFINE path == Chain("FWD", bestMeeting.idx) \o Reverse(Chain("BWD", bestMeeting.idx))
      <3>1. path \in Seq(DOMAIN net.edges)
        BY <1>1, <2>2, MeetingPath DEF InSearch
      <3>2. result' = [found |-> TRUE, path |-> path]
        BY <2>2 DEF BuildPath
      <3> HIDE DEF path
      <3> QED BY <3>1, <3>2
    <2> QED BY <2>1, <2>2
  <1>3. ShapeInv'
    BY <1>1, <1>2 DEF SearchInv, ShapeInv, InSearch, Nodes, Vector, NodesOf
  <1>4. TouchedCoversVectors'
    BY <1>1 DEF SearchInv, TouchedCoversVectors
  <1> QED
    BY <1>1, <1>3, <1>4 DEF SearchInv, QueueInv, VisitedInv, TreeInv, MeetingInv, InSearch

-----------------------------------------------------------------------------
(* The theorems *)

LEMMA SearchStep == SearchInv /\ [Next]_vars => SearchInv'
  <1> SUFFICES ASSUME SearchInv, [Next]_vars PROVE SearchInv'
    OBVIOUS
  <1>1. ASSUME NEW q \in Query, Refuse(q) PROVE SearchInv'
    BY <1>1, RefuseKeeps
  <1>2. ASSUME NEW q \in Query, Start(q) PROVE SearchInv'
    BY <1>2, StartKeeps
  <1>3. ASSUME NEW q \in Query, StartPanics(q) PROVE SearchInv'
    BY <1>3, StartPanicsKeeps
  <1>4. CASE EndSearch
    BY <1>4, EndSearchKeeps
  <1>5. ASSUME NEW c \in queue, SkipStale(c) PROVE SearchInv'
    BY <1>5, SkipStaleKeeps
  <1>6. ASSUME NEW c \in queue, CloseDirection(c) PROVE SearchInv'
    BY <1>6, CloseDirectionKeeps
  <1>7. ASSUME NEW c \in queue, Expand(c) PROVE SearchInv'
    BY <1>7, ExpandKeeps
  <1>8. CASE BuildPath
    BY <1>8, BuildPathKeeps
  <1>9. CASE Stopped
    BY <1>9, StutteringSearch DEF Stopped
  <1>10. CASE UNCHANGED vars
    BY <1>10, StutteringSearch
  <1> QED
    BY <1>1, <1>2, <1>3, <1>4, <1>5, <1>6, <1>7, <1>8, <1>9, <1>10 DEF Next, Search

THEOREM SearchInvariant == Spec => []SearchInv
  BY InitSearch, SearchStep, PTL DEF Spec

\* Every variable of the searches has its type: no index is out of bounds and the path that is
\* answered consists of edges, whatever has been asked before.
THEOREM SearchTypeCorrect == Spec => []TypeOK
  <1>1. SearchInv => TypeOK
    <2> SUFFICES ASSUME SearchInv PROVE TypeOK
      OBVIOUS
    <2> USE DEF SearchInv
    <2>1. IsNetwork(net)
      BY DijkstraAssumption DEF ShapeInv
    <2>2. ASSUME NEW dir \in Dirs
          PROVE  /\ DOMAIN costs[dir] \subseteq Nodes
                 /\ \A v \in DOMAIN costs[dir] : costs[dir][v] \in Nat \cup {Inf}
                 /\ DOMAIN predecessors[dir] = DOMAIN costs[dir]
                 /\ \A v \in DOMAIN costs[dir] :
                       predecessors[dir][v] \in {None} \cup DOMAIN net.edges
                 /\ DOMAIN isVisited[dir] \in {{}, Nodes}
                 /\ \A v \in DOMAIN isVisited[dir] : isVisited[dir][v] \in BOOLEAN
                 /\ foundBest[dir] \in BOOLEAN
                 /\ touched[dir] \subseteq Nodes
      BY DEF ShapeInv, Vector, Cost
    <2>3. /\ pc \in {"idle", "search", "path", "panicked"}
          /\ query \in [src : Nodes, dst : Nodes, alphas : Alphas, algo : {"Dijkstra", "CHDijkstra"}]
          /\ queue \subseteq [cost : Nat, idx : Nodes, dir : Dirs]
          /\ bestMeeting \in [idx : Nodes \cup {None}, cost : Nat \cup {Inf}]
          /\ result \in [found : BOOLEAN, path : Seq(DOMAIN net.edges)]
          /\ asked \in 0 .. MaxQueries(net)
      BY DEF ShapeInv, Cost
    <2> QED BY <2>1, <2>2, <2>3 DEF TypeOK
  <1> QED
    BY <1>1, SearchInvariant, PTL

\* A later query finds nothing of an earlier one: all that is drained when it starts is all that
\* has been written.
THEOREM TouchedCoversVectorsSafe == Spec => []TouchedCoversVectors
  <1>1. SearchInv => TouchedCoversVectors
    BY DEF SearchInv
  <1> QED
    BY <1>1, SearchInvariant, PTL

\* Following the predecessors of the meeting node always ends, at both ends of the query, with a
\* path that costs no more than what is remembered for the meeting node.
THEOREM MeetingIsConnectedSafe == Spec => []MeetingIsConnected
  <1>1. SearchInv => MeetingIsConnected
    <2> SUFFICES ASSUME SearchInv, pc \in {"search", "path"}, bestMeeting.idx # None
                 PROVE  LET path == Chain("FWD", bestMeeting.idx)
                                      \o Reverse(Chain("BWD", bestMeeting.idx))
                        IN  /\ IsWalk(path, query.src, query.dst)
                            /\ ~Cheaper(bestMeeting.cost, PathCost(path))
      BY DEF MeetingIsConnected
    <2> DEFINE path == Chain("FWD", bestMeeting.idx) \o Reverse(Chain("BWD", bestMeeting.idx))
    <2>1. /\ IsWalk(path, query.src, query.dst) /\ PathCost(path) <= bestMeeting.cost
          /\ PathCost(path) \in Nat /\ bestMeeting.cost \in Nat
      BY MeetingPath DEF InSearch
    <2> HIDE DEF path
    <2>2. ~Cheaper(bestMeeting.cost, PathCost(path))
      BY <2>1 DEF Cheaper, Inf
    <2> QED BY <2>1, <2>2 DEF path
  <1> QED
    BY <1>1, SearchInvariant, PTL

-----------------------------------------------------------------------------
(* Costs in their order *)

AtMost(a, b) == ~Cheaper(b, a)

LEMMA CostOrder ==
    /\ \A a \in Cost : AtMost(a, a) /\ AtMost(a, Inf) /\ (AtMost(Inf, a) => a = Inf)
    /\ \A a, b \in Cost : AtMost(a, b) \/ AtMost(b, a)
    /\ \A a, b \in Cost : AtMost(a, b) /\ AtMost(b, a) => a = b
    /\ \A a, b, c \in Cost : AtMost(a, b) /\ AtMost(b, c) => AtMost(a, c)
    /\ \A a, b \in Nat : AtMost(a, b) <=> a <= b
    /\ \A a \in Cost, b \in Nat : AtMost(a, b) => a \in Nat
  BY DEF Cost, AtMost, Cheaper, Inf

LEMMA PlusFacts ==
    /\ \A a, b \in Cost : CostSum(a, b) \in Cost /\ AtMost(a, CostSum(a, b)) /\ AtMost(b, CostSum(a, b))
    /\ \A a, b, c \in Cost : AtMost(a, b) => AtMost(CostSum(a, c), CostSum(b, c))
    /\ \A a, b, c \in Cost : CostSum(CostSum(a, b), c) = CostSum(a, CostSum(b, c))
    /\ \A a, b \in Nat : CostSum(a, b) = a + b /\ CostSum(a, b) \in Nat
    /\ \A a, b \in Cost : CostSum(a, b) # Inf => a \in Nat /\ b \in Nat
  BY DEF Cost, AtMost, Cheaper, Inf, CostSum

LEMMA LeastExists ==
    ASSUME NEW S \in SUBSET Nat, S # {}
    PROVE  \E a \in S : \A b \in S : a <= b
  <1> SUFFICES ASSUME \A a \in S : \E b \in S : b < a PROVE FALSE
    OBVIOUS
  <1> DEFINE N == {k \in Nat : \A j \in Nat : j <= k => j \notin S}
  <1>1. 0 \in N
    BY SMT
  <1>2. ASSUME NEW k \in Nat, k \in N PROVE k + 1 \in N
    <2> SUFFICES ASSUME NEW j \in Nat, j <= k + 1, j \in S PROVE FALSE
      OBVIOUS
    <2>1. PICK i \in S : i < j
      OBVIOUS
    <2> QED BY <1>2, <2>1
  <1>3. \A k \in Nat : k \in N
    <2> HIDE DEF N
    <2> QED BY <1>1, <1>2, NaturalsAreInductive
  <1>4. \A k \in Nat : k \notin S
    BY <1>3
  <1> QED
    BY <1>4

LEMMA CheapestFacts ==
    ASSUME NEW S \in SUBSET Cost, S # {}
    PROVE  Cheapest(S) \in S /\ \A b \in S : AtMost(Cheapest(S), b)
  <1>1. \E a \in S : \A b \in S : ~Cheaper(b, a)
    <2>1. CASE S \cap Nat = {}
      BY <2>1 DEF Cost, Cheaper, Inf
    <2>2. CASE S \cap Nat # {}
      <3>1. PICK a \in S \cap Nat : \A b \in S \cap Nat : a <= b
        BY <2>2, LeastExists
      <3>2. ASSUME NEW b \in S PROVE ~Cheaper(b, a)
        BY <3>1 DEF Cost, Cheaper, Inf
      <3> QED BY <3>1, <3>2
    <2> QED BY <2>1, <2>2
  <1> QED
    BY <1>1 DEF Cheapest, AtMost

-----------------------------------------------------------------------------
(* The costs of best walks, as Ways finds them *)

\* Whatever edges a walk may take.
IsOver(n, alphas, some) ==
    /\ n.n \in Nat \ {0}
    /\ some \in SUBSET DOMAIN n.edges
    /\ \A e \in some : /\ n.edges[e].src \in NodesOf(n) /\ n.edges[e].dst \in NodesOf(n)
                       /\ Weight(alphas, n.edges[e]) \in Nat

\* The best costs with at most k edges: one round after the other, edges improve them.
OverEdge(within, n, k, s, e, alphas) ==
    CostSum(within[k - 1][<<s, n.edges[e].src>>], Weight(alphas, n.edges[e]))

IsWithin(within, n, alphas, some) ==
    /\ within \in [0 .. n.n -> [NodesOf(n) \X NodesOf(n) -> Cost]]
    /\ \A s, t \in NodesOf(n) : within[0][<<s, t>>] = IF s = t THEN 0 ELSE Inf
    /\ \A k \in 1 .. n.n : \A s, t \in NodesOf(n) :
          /\ AtMost(within[k][<<s, t>>], within[k - 1][<<s, t>>])
          /\ \A e \in some : n.edges[e].dst = t =>
                AtMost(within[k][<<s, t>>], OverEdge(within, n, k, s, e, alphas))
          /\ \/ within[k][<<s, t>>] = within[k - 1][<<s, t>>]
             \/ \E e \in some : /\ n.edges[e].dst = t
                                /\ within[k][<<s, t>>] = OverEdge(within, n, k, s, e, alphas)

LEMMA WaysAre ==
    ASSUME NEW n, NEW alphas, NEW some, IsOver(n, alphas, some)
    PROVE  \E within : IsWithin(within, n, alphas, some) /\ Ways(n, alphas, some) = within[n.n]
  <1> DEFINE N == NodesOf(n)
             T == [N \X N -> Cost]
             base == [st \in N \X N |-> IF st[1] = st[2] THEN 0 ELSE Inf]
             w(e) == Weight(alphas, n.edges[e])
             into(t) == {f \in some : n.edges[f].dst = t}
             choices(f, st) == {f[st]} \cup {CostSum(f[<<st[1], n.edges[e].src>>], w(e)) : e \in into(st[2])}
             round(f) == [st \in N \X N |-> Cheapest(choices(f, st))]
             step == [p \in (0 .. n.n) \X T |-> round(p[2])]
             IsFor(f) == f = [k \in 0 .. n.n |-> IF k = 0 THEN base ELSE round(f[k - 1])]
             within == CHOOSE f : IsFor(f)
  <1>1. Ways(n, alphas, some) = within[n.n]
    BY DEF Ways
  <1>2. ASSUME NEW f \in T, NEW st \in N \X N
        PROVE  /\ choices(f, st) \in SUBSET Cost
               /\ Cheapest(choices(f, st)) \in choices(f, st)
               /\ \A b \in choices(f, st) : AtMost(Cheapest(choices(f, st)), b)
               /\ Cheapest(choices(f, st)) \in Cost
    <2>1. choices(f, st) \in SUBSET Cost
      <3>1. st[1] \in N /\ f[st] \in Cost
        OBVIOUS
      <3>2. ASSUME NEW e \in some PROVE CostSum(f[<<st[1], n.edges[e].src>>], w(e)) \in Cost
        <4>1. n.edges[e].src \in N /\ w(e) \in Cost
          BY DEF IsOver, Cost
        <4>2. f[<<st[1], n.edges[e].src>>] \in Cost
          BY <3>1, <4>1
        <4> HIDE DEF N, T, w
        <4> QED BY <4>1, <4>2, PlusFacts
      <3> HIDE DEF N, T, w
      <3> QED BY <3>1, <3>2
    <2>2. f[st] \in choices(f, st)
      OBVIOUS
    <2> HIDE DEF choices
    <2>3. /\ Cheapest(choices(f, st)) \in choices(f, st)
          /\ \A b \in choices(f, st) : AtMost(Cheapest(choices(f, st)), b)
      BY <2>1, <2>2, CheapestFacts
    <2> QED BY <2>1, <2>3
  <1>3. base \in T
    BY DEF Cost
  <1>4. \A f \in T : round(f) \in T
    <2> HIDE DEF choices, N
    <2> QED BY <1>2
  <1>5. step \in [(0 .. n.n) \X T -> T]
    <2> HIDE DEF round, T
    <2> QED BY <1>4
  <1>6. n.n \in Nat
    BY DEF IsOver
  <1>7. PICK g \in [0 .. n.n -> T] : Iterates(g, n.n, base, step)
    <2> HIDE DEF base, step, T
    <2> QED BY <1>3, <1>5, <1>6, IterationExists
  <1>8. g[0] = base /\ \A k \in 1 .. n.n : g[k - 1] \in T /\ g[k] = round(g[k - 1])
    <2>1. g[0] = base
      BY <1>7 DEF Iterates
    <2>2. ASSUME NEW k \in 1 .. n.n PROVE g[k - 1] \in T /\ g[k] = round(g[k - 1])
      <3>1. k - 1 \in 0 .. n.n /\ k \in 0 .. n.n
        BY <1>6
      <3>2. g[k - 1] \in T
        BY <1>7, <3>1
      <3>3. g[k] = step[<<k, g[k - 1]>>]
        BY <1>7 DEF Iterates
      <3> HIDE DEF T, round
      <3> QED BY <3>1, <3>2, <3>3
    <2> QED BY <2>1, <2>2
  <1>9. IsFor(g)
    <2>1. ASSUME NEW k \in 0 .. n.n PROVE g[k] = IF k = 0 THEN base ELSE round(g[k - 1])
      <3>1. k = 0 \/ k \in 1 .. n.n
        BY <1>6
      <3> HIDE DEF base, round, T
      <3> QED BY <1>8, <3>1
    <2> HIDE DEF base, round, T
    <2> QED BY <1>7, <2>1
  <1>10. IsFor(within)
    <2> HIDE DEF IsFor
    <2> QED BY <1>9
  <1>11. ASSUME NEW k \in 0 .. n.n PROVE within[k] = IF k = 0 THEN base ELSE round(within[k - 1])
    <2> HIDE DEF base, round, within
    <2> QED BY <1>10
  <1>12. within = g
    <2> DEFINE K == {k \in Nat : k <= n.n => within[k] = g[k]}
    <2>1. 0 \in K
      <3>1. 0 \in 0 .. n.n
        BY <1>6
      <3> HIDE DEF within, base
      <3> QED BY <1>8, <1>11, <3>1
    <2>2. ASSUME NEW k \in Nat, k \in K PROVE k + 1 \in K
      <3> SUFFICES ASSUME k + 1 <= n.n PROVE within[k + 1] = g[k + 1]
        OBVIOUS
      <3>1. k + 1 \in 1 .. n.n /\ k + 1 \in 0 .. n.n /\ (k + 1) - 1 = k /\ k + 1 # 0 /\ within[k] = g[k]
        BY <1>6, <2>2
      <3>2. within[k + 1] = round(within[k])
        <4> HIDE DEF within, round
        <4> QED BY <1>11, <3>1
      <3>3. g[k + 1] = round(g[k])
        <4> HIDE DEF round
        <4> QED BY <1>8, <3>1
      <3> HIDE DEF within, round
      <3> QED BY <3>1, <3>2, <3>3
    <2>3. \A k \in Nat : k \in K
      <3> HIDE DEF K
      <3> QED BY <2>1, <2>2, NaturalsAreInductive
    <2>4. \A k \in 0 .. n.n : within[k] = g[k]
      <3> HIDE DEF within
      <3> QED BY <1>6, <2>3
    <2>5. within = [k \in 0 .. n.n |-> within[k]]
      <3> HIDE DEF within, base, round
      <3> QED BY <1>10
    <2> HIDE DEF within
    <2> QED BY <1>7, <2>4, <2>5
  <1>13. IsWithin(g, n, alphas, some)
    <2>1. g \in [0 .. n.n -> [N \X N -> Cost]]
      BY <1>7
    <2>2. \A s, t \in N : g[0][<<s, t>>] = IF s = t THEN 0 ELSE Inf
      BY <1>8
    <2>3. ASSUME NEW k \in 1 .. n.n, NEW s \in N, NEW t \in N
          PROVE  /\ AtMost(g[k][<<s, t>>], g[k - 1][<<s, t>>])
                 /\ \A e \in some : n.edges[e].dst = t =>
                       AtMost(g[k][<<s, t>>], OverEdge(g, n, k, s, e, alphas))
                 /\ \/ g[k][<<s, t>>] = g[k - 1][<<s, t>>]
                    \/ \E e \in some : /\ n.edges[e].dst = t
                                       /\ g[k][<<s, t>>] = OverEdge(g, n, k, s, e, alphas)
      <3> DEFINE f == g[k - 1]
                 st == <<s, t>>
      <3>1. f \in T /\ g[k] = round(f) /\ st \in N \X N
        <4> HIDE DEF round, T
        <4> QED BY <1>8
      <3>2. g[k][st] = Cheapest(choices(f, st))
        <4> HIDE DEF choices
        <4> QED BY <3>1
      <3>3. /\ g[k][st] \in choices(f, st)
            /\ \A b \in choices(f, st) : AtMost(g[k][st], b)
        <4> HIDE DEF choices, f, st, N, T
        <4> QED BY <1>2, <3>1, <3>2
      <3>4. choices(f, st) = {f[st]} \cup {OverEdge(g, n, k, s, e, alphas) : e \in {d \in some : n.edges[d].dst = t}}
        BY DEF OverEdge
      <3> HIDE DEF choices
      <3> QED BY <3>3, <3>4
    <2> QED BY <2>1, <2>2, <2>3 DEF IsWithin
  <1> QED
    <2> HIDE DEF within
    <2> QED BY <1>1, <1>12, <1>13

\* Nodes that are as near as v was made nearer in round k, v not among them.
Nearer(S, within, n, k, s, v) ==
    /\ S \in SUBSET NodesOf(n) /\ v \notin S
    /\ IsFiniteSet(S) /\ Cardinality(S) = k
    /\ \A x \in S : AtMost(within[k - 1][<<s, x>>], within[k][<<s, v>>])

\* A round that improves a node has seen an improvement in every round before, each of them at a
\* node of its own.
LEMMA Improvements ==
    ASSUME NEW n, NEW alphas, NEW some, IsOver(n, alphas, some),
           NEW within, IsWithin(within, n, alphas, some), NEW s \in NodesOf(n)
    PROVE  \A k \in 1 .. n.n : \A v \in NodesOf(n) :
               Cheaper(within[k][<<s, v>>], within[k - 1][<<s, v>>]) =>
                   \E S : Nearer(S, within, n, k, s, v)
  <1> DEFINE N == NodesOf(n)
             at(k, v) == within[k][<<s, v>>]
             Improved(k, v) == Cheaper(at(k, v), at(k - 1, v))
             Ok(k) == \A v \in N : Improved(k, v) => \E S : Nearer(S, within, n, k, s, v)
             K == {k \in Nat : k + 1 \in 1 .. n.n => Ok(k + 1)}
  <1>n. n.n \in Nat
    BY DEF IsOver
  <1>c. \A k \in 0 .. n.n : \A v \in N : at(k, v) \in Cost
    BY DEF IsWithin
  <1>0. \A v \in N : at(0, v) = IF s = v THEN 0 ELSE Inf
    BY DEF IsWithin
  <1>d. \A k \in 1 .. n.n : \A v \in N : AtMost(at(k, v), at(k - 1, v))
    BY DEF IsWithin
  <1>e. \A k \in 1 .. n.n : \A v \in N : \A e \in some : n.edges[e].dst = v =>
            AtMost(at(k, v), CostSum(at(k - 1, n.edges[e].src), Weight(alphas, n.edges[e])))
    BY DEF IsWithin, OverEdge
  <1>f. \A k \in 1 .. n.n : \A v \in N : Improved(k, v) =>
            \E e \in some : /\ n.edges[e].dst = v
                            /\ at(k, v) = CostSum(at(k - 1, n.edges[e].src), Weight(alphas, n.edges[e]))
    <2> SUFFICES ASSUME NEW k \in 1 .. n.n, NEW v \in N, Improved(k, v)
                 PROVE  \E e \in some : n.edges[e].dst = v /\ at(k, v) = OverEdge(within, n, k, s, e, alphas)
      BY DEF OverEdge
    <2>1. at(k, v) # at(k - 1, v)
      <3>1. k - 1 \in 0 .. n.n
        BY <1>n
      <3>2. at(k - 1, v) \in Cost
        BY <1>c, <3>1
      <3> HIDE DEF at
      <3> QED BY <3>2, CostOrder DEF AtMost
    <2> QED BY <2>1 DEF IsWithin
  <1>w. \A e \in some : n.edges[e].src \in N /\ Weight(alphas, n.edges[e]) \in Nat
    BY DEF IsOver
  <1> HIDE DEF N
  <1>1. 0 \in K
    <2> SUFFICES ASSUME 0 + 1 \in 1 .. n.n, NEW v \in N, Improved(1, v)
                 PROVE  \E S : Nearer(S, within, n, 1, s, v)
      OBVIOUS
    <2>1. s # v /\ 1 \in 0 .. n.n
      <3>1. 1 \in 0 .. n.n
        BY <1>n
      <3>2. at(1, v) \in Cost
        BY <1>c, <3>1
      <3> QED BY <3>1, <3>2, <1>0 DEF Cheaper, Cost, Inf
    <2>2. IsFiniteSet({s}) /\ Cardinality({s}) = 1
      BY FS_Singleton
    <2>3. AtMost(at(0, s), at(1, v))
      <3>1. at(0, s) = 0 /\ at(1, v) \in Cost
        BY <1>0, <1>c, <2>1 DEF N
      <3> HIDE DEF at
      <3> QED BY <3>1 DEF AtMost, Cheaper, Cost, Inf
    <2>4. Nearer({s}, within, n, 1, s, v)
      BY <2>1, <2>2, <2>3 DEF Nearer, N
    <2> QED BY <2>4
  <1>2. ASSUME NEW j \in Nat, j \in K PROVE j + 1 \in K
    <2> DEFINE k == j + 1
    <2> SUFFICES ASSUME k + 1 \in 1 .. n.n, NEW v \in N, Improved(k + 1, v)
                 PROVE  \E S : Nearer(S, within, n, k + 1, s, v)
      OBVIOUS
    <2>1. /\ k \in 1 .. n.n /\ k \in 0 .. n.n /\ k + 1 \in 0 .. n.n /\ k - 1 \in 0 .. n.n
          /\ k + 1 - 1 = k /\ Ok(k) /\ k \in Nat
      <3>1. k \in 1 .. n.n
        BY <1>n
      <3>2. Ok(k)
        BY <1>2, <3>1
      <3> QED BY <1>n, <3>1, <3>2
    <2> HIDE DEF k
    <2>2. PICK e \in some : /\ n.edges[e].dst = v
                            /\ at(k + 1, v) = CostSum(at(k, n.edges[e].src), Weight(alphas, n.edges[e]))
      BY <1>f, <2>1
    <2> DEFINE u == n.edges[e].src
               w == Weight(alphas, n.edges[e])
    <2>3. u \in N /\ w \in Nat
      BY <1>w
    <2>4. AtMost(at(k, v), CostSum(at(k - 1, u), w))
      BY <1>e, <2>1, <2>2
    <2>c. /\ at(k, u) \in Cost /\ at(k - 1, u) \in Cost /\ at(k, v) \in Cost
          /\ at(k + 1, v) \in Cost /\ AtMost(at(k, u), at(k - 1, u))
      BY <1>c, <1>d, <2>1, <2>3
    <2>i. at(k + 1, v) = CostSum(at(k, u), w) /\ Cheaper(at(k + 1, v), at(k, v))
      BY <2>1, <2>2
    <2> HIDE DEF u, w, at
    <2>5. Cheaper(at(k, u), at(k - 1, u)) /\ AtMost(at(k, u), at(k + 1, v))
      BY <2>3, <2>4, <2>c, <2>i DEF AtMost, Cheaper, CostSum, Cost, Inf
    <2>6. PICK S : Nearer(S, within, n, k, s, u)
      <3> USE DEF at
      <3> QED BY <2>1, <2>3, <2>5
    <2>7. /\ S \in SUBSET N /\ u \notin S /\ IsFiniteSet(S) /\ Cardinality(S) = k
          /\ \A x \in S : AtMost(at(k - 1, x), at(k, u))
      BY <2>6 DEF Nearer, N, at
    <2>8. ASSUME NEW x \in S \cup {u} PROVE AtMost(at(k, x), at(k + 1, v))
      <3>1. CASE x = u
        BY <2>5, <3>1
      <3>2. CASE x \in S
        <4>1. x \in N /\ AtMost(at(k - 1, x), at(k, u))
          BY <2>7, <3>2
        <4>2. /\ at(k - 1, x) \in Cost /\ at(k, x) \in Cost
              /\ AtMost(at(k, x), at(k - 1, x))
          BY <1>c, <1>d, <2>1, <4>1 DEF at
        <4>3. AtMost(at(k, x), at(k, u))
          BY <2>c, <4>1, <4>2, CostOrder
        <4> QED BY <2>5, <2>c, <4>2, <4>3, CostOrder
      <3> QED BY <3>1, <3>2
    <2>9. v \notin S \cup {u}
      BY <2>8, <2>i DEF AtMost
    <2>10. IsFiniteSet(S \cup {u}) /\ Cardinality(S \cup {u}) = k + 1
      BY <2>7, FS_AddElement
    <2>11. Nearer(S \cup {u}, within, n, k + 1, s, v)
      BY <2>1, <2>3, <2>7, <2>8, <2>9, <2>10 DEF Nearer, N, at
    <2> QED BY <2>11
  <1>3. \A k \in Nat : k \in K
    <2> HIDE DEF K
    <2> QED BY <1>1, <1>2, NaturalsAreInductive
  <1>4. ASSUME NEW k \in 1 .. n.n PROVE Ok(k)
    <2>1. k - 1 \in Nat /\ (k - 1) + 1 = k
      BY <1>n
    <2>2. k - 1 \in K
      BY <1>3, <2>1
    <2> HIDE DEF Ok
    <2> QED BY <2>1, <2>2
  <1> QED
    BY <1>4 DEF N

\* Walks of n.n edges are enough: an edge more improves nothing.
LEMMA Converged ==
    ASSUME NEW n, NEW alphas, NEW some, IsOver(n, alphas, some),
           NEW within, IsWithin(within, n, alphas, some),
           NEW s \in NodesOf(n), NEW v \in NodesOf(n)
    PROVE  within[n.n][<<s, v>>] = within[n.n - 1][<<s, v>>]
  <1> DEFINE a == within[n.n][<<s, v>>]
             b == within[n.n - 1][<<s, v>>]
  <1>1. n.n \in Nat /\ n.n \in 1 .. n.n /\ n.n \in 0 .. n.n /\ n.n - 1 \in 0 .. n.n
    BY DEF IsOver
  <1>2. a \in Cost /\ b \in Cost /\ AtMost(a, b)
    BY <1>1 DEF IsWithin
  <1>3. ~Cheaper(a, b)
    <2> SUFFICES ASSUME Cheaper(a, b) PROVE FALSE
      OBVIOUS
    <2>1. PICK S : Nearer(S, within, n, n.n, s, v)
      BY <1>1, Improvements
    <2>2. S \in SUBSET NodesOf(n) /\ v \notin S /\ IsFiniteSet(S) /\ Cardinality(S) = n.n
      BY <2>1 DEF Nearer
    <2>3. IsFiniteSet(NodesOf(n)) /\ Cardinality(NodesOf(n)) = n.n
      <3>1. 0 \in Int /\ n.n - 1 \in Int /\ ~(0 > n.n - 1) /\ n.n - 1 - 0 + 1 = n.n
        BY <1>1
      <3> QED BY <3>1, FS_Interval DEF NodesOf
    <2>4. S = NodesOf(n)
      BY <2>2, <2>3, FS_Subset
    <2> QED BY <2>2, <2>4
  <1> HIDE DEF a, b
  <1>4. AtMost(b, a)
    BY <1>3 DEF AtMost
  <1>5. a = b
    BY <1>2, <1>4, CostOrder
  <1> QED BY <1>5 DEF a, b

\* The costs of best walks: none is made better by an edge.
LEMMA WaysTriangle ==
    ASSUME NEW n, NEW alphas, NEW some, IsOver(n, alphas, some)
    PROVE  LET ways == Ways(n, alphas, some)
           IN  /\ \A s, t \in NodesOf(n) : ways[<<s, t>>] \in Cost
               /\ \A s \in NodesOf(n) : ways[<<s, s>>] = 0
               /\ \A s \in NodesOf(n) : \A e \in some :
                     AtMost(ways[<<s, n.edges[e].dst>>],
                            CostSum(ways[<<s, n.edges[e].src>>], Weight(alphas, n.edges[e])))
  <1>1. PICK within : IsWithin(within, n, alphas, some) /\ Ways(n, alphas, some) = within[n.n]
    BY WaysAre
  <1>2. n.n \in Nat /\ n.n \in 1 .. n.n /\ n.n \in 0 .. n.n /\ n.n - 1 \in 0 .. n.n
    BY DEF IsOver
  <1>3. \A s, t \in NodesOf(n) : within[n.n][<<s, t>>] \in Cost
    BY <1>1, <1>2 DEF IsWithin
  <1>4. ASSUME NEW s \in NodesOf(n), NEW e \in some
        PROVE  AtMost(within[n.n][<<s, n.edges[e].dst>>],
                      CostSum(within[n.n][<<s, n.edges[e].src>>], Weight(alphas, n.edges[e])))
    <2>1. n.edges[e].src \in NodesOf(n) /\ n.edges[e].dst \in NodesOf(n)
      BY DEF IsOver
    <2>2. AtMost(within[n.n][<<s, n.edges[e].dst>>],
                 CostSum(within[n.n - 1][<<s, n.edges[e].src>>], Weight(alphas, n.edges[e])))
      BY <1>1, <1>2, <2>1 DEF IsWithin, OverEdge
    <2>3. within[n.n][<<s, n.edges[e].src>>] = within[n.n - 1][<<s, n.edges[e].src>>]
      BY <1>1, <2>1, Converged
    <2> QED BY <2>2, <2>3
  <1>5. ASSUME NEW s \in NodesOf(n) PROVE within[n.n][<<s, s>>] = 0
    <2> DEFINE K == {k \in Nat : k <= n.n => within[k][<<s, s>>] = 0}
    <2>1. 0 \in K
      BY <1>1 DEF IsWithin
    <2>2. ASSUME NEW k \in Nat, k \in K PROVE k + 1 \in K
      <3> SUFFICES ASSUME k + 1 <= n.n PROVE within[k + 1][<<s, s>>] = 0
        OBVIOUS
      <3>1. k + 1 \in 1 .. n.n /\ k + 1 \in 0 .. n.n /\ k + 1 - 1 = k /\ within[k][<<s, s>>] = 0
        BY <1>2, <2>2
      <3>2. within[k + 1][<<s, s>>] \in Cost
        BY <1>1, <3>1 DEF IsWithin
      <3>3. AtMost(within[k + 1][<<s, s>>], within[k + 1 - 1][<<s, s>>])
        BY <1>1, <3>1 DEF IsWithin
      <3>4. AtMost(within[k + 1][<<s, s>>], 0)
        BY <3>1, <3>3
      <3> QED BY <3>2, <3>4 DEF AtMost, Cheaper, Cost, Inf
    <2>3. \A k \in Nat : k \in K
      <3> HIDE DEF K
      <3> QED BY <2>1, <2>2, NaturalsAreInductive
    <2> QED BY <1>2, <2>3
  <1> QED
    BY <1>1, <1>3, <1>4, <1>5

-----------------------------------------------------------------------------
(* Best walks in the graph of a query *)

\* The graph and the alphas of a query that is answered.
Answering ==
    /\ net \in Networks
    /\ query.alphas \in Alphas /\ query.alphas[1] >= 0 /\ query.alphas[2] >= 0
    /\ WeightsAreNat

LEMMA EdgesAreOver ==
    ASSUME Answering, NEW some \in SUBSET DOMAIN net.edges
    PROVE  IsOver(net, query.alphas, some)
  <1>1. net.n \in Nat \ {0} /\ Nodes = NodesOf(net)
    BY NetworkFacts DEF Answering, Nodes
  <1>2. ASSUME NEW e \in some
        PROVE  /\ net.edges[e].src \in Nodes /\ net.edges[e].dst \in Nodes
               /\ Weight(query.alphas, net.edges[e]) \in Nat
    BY NetworkFacts DEF Answering, WeightsAreNat
  <1> QED
    BY <1>1, <1>2 DEF IsOver

\* A walk without its last edge.
LEMMA WalkFront ==
    ASSUME NEW dir, NEW E, NEW p \in Seq(E), NEW e \in E, NEW s, NEW t,
           DirWalk(dir, Append(p, e), s, t)
    PROVE  DirWalk(dir, p, s, Source(dir, e)) /\ Target(dir, e) = t
  <1> DEFINE q == Append(p, e)
             n == Len(p)
  <1>1. /\ n \in Nat /\ Len(q) = n + 1 /\ q # <<>> /\ q[n + 1] = e
        /\ \A i \in 1 .. n : q[i] = p[i]
    BY AppendProperties
  <1>2. p = <<>> <=> n = 0
    OBVIOUS
  <1> HIDE DEF q, n
  <1>3. /\ Source(dir, q[1]) = s /\ Target(dir, q[n + 1]) = t
        /\ \A i \in 1 .. n : Target(dir, q[i]) = Source(dir, q[i + 1])
    <2>1. DirWalk(dir, q, s, t)
      BY DEF q
    <2>2. n + 1 - 1 = n
      BY <1>1
    <2> QED BY <1>1, <2>1, <2>2 DEF DirWalk
  <1>4. DirWalk(dir, p, s, Source(dir, e))
    <2>1. CASE n = 0
      BY <1>1, <1>2, <1>3, <2>1 DEF DirWalk
    <2>2. CASE n # 0
      <3>1. 1 \in 1 .. n /\ n \in 1 .. n /\ Len(p) = n /\ p # <<>>
        BY <1>1, <1>2, <2>2 DEF n
      <3>2. Source(dir, p[1]) = s /\ Target(dir, p[n]) = Source(dir, e)
        BY <1>1, <1>3, <3>1
      <3>3. ASSUME NEW i \in 1 .. n - 1 PROVE Target(dir, p[i]) = Source(dir, p[i + 1])
        <4>1. i \in 1 .. n /\ i + 1 \in 1 .. n
          BY <1>1
        <4> QED BY <1>1, <1>3, <4>1
      <3> QED BY <3>1, <3>2, <3>3 DEF DirWalk
    <2> QED BY <2>1, <2>2
  <1> QED
    BY <1>1, <1>3, <1>4

\* A walk over some of the edges in direction dir that costs r.
WalkOver(some, dir, p, s, t, r) ==
    p \in Seq(some) /\ DirWalk(dir, p, s, t) /\ PathCost(p) = r

LEMMA WalkOverAppend ==
    ASSUME Answering, NEW some \in SUBSET DOMAIN net.edges, NEW dir, NEW p, NEW s, NEW t, NEW r,
           WalkOver(some, dir, p, s, t, r), NEW e \in some, Source(dir, e) = t
    PROVE  WalkOver(some, dir, Append(p, e), s, Target(dir, e),
                    r + Weight(query.alphas, net.edges[e]))
  <1>1. p \in Seq(some) /\ DirWalk(dir, p, s, t) /\ PathCost(p) = r /\ WeightsAreNat
    BY DEF WalkOver, Answering
  <1>2. p \in Seq(DOMAIN net.edges) /\ e \in DOMAIN net.edges
    BY <1>1, SeqMonotonic
  <1>3. Append(p, e) \in Seq(some)
    BY <1>1, AppendProperties
  <1>4. DirWalk(dir, Append(p, e), s, Target(dir, e))
    BY <1>1, WalkAppend
  <1>5. PathCost(Append(p, e)) = r + Weight(query.alphas, net.edges[e])
    BY <1>1, <1>2, AppendCost
  <1> QED
    BY <1>3, <1>4, <1>5 DEF WalkOver

\* Whatever Ways says that a walk costs, there is a walk that does.
LEMMA WaysAttained ==
    ASSUME Answering, NEW some \in SUBSET DOMAIN net.edges, NEW s \in Nodes
    PROVE  \A t \in Nodes : Ways(net, query.alphas, some)[<<s, t>>] # Inf =>
               \E p : WalkOver(some, "FWD", p, s, t, Ways(net, query.alphas, some)[<<s, t>>])
  <1>o. IsOver(net, query.alphas, some)
    BY EdgesAreOver
  <1>1. PICK within : /\ IsWithin(within, net, query.alphas, some)
                      /\ Ways(net, query.alphas, some) = within[net.n]
    BY <1>o, WaysAre
  <1>2. net.n \in Nat
    BY NetworkFacts DEF Answering
  <1> DEFINE at(k, t) == within[k][<<s, t>>]
             Ok(k) == \A t \in Nodes : at(k, t) # Inf => \E p : WalkOver(some, "FWD", p, s, t, at(k, t))
             K == {k \in Nat : k <= net.n => Ok(k)}
  <1>3. 0 \in K
    <2> SUFFICES ASSUME NEW t \in Nodes, at(0, t) # Inf
                 PROVE  \E p : WalkOver(some, "FWD", p, s, t, at(0, t))
      OBVIOUS
    <2>1. at(0, t) = 0 /\ s = t
      BY <1>1 DEF IsWithin, Nodes
    <2>2. <<>> \in Seq(some)
      BY EmptySeq
    <2>3. PathCost(<<>>) = 0
      BY EmptyCost DEF Answering
    <2>4. WalkOver(some, "FWD", <<>>, s, t, at(0, t))
      BY <2>1, <2>2, <2>3 DEF WalkOver, DirWalk
    <2> QED BY <2>4
  <1>4. ASSUME NEW k \in Nat, k \in K PROVE k + 1 \in K
    <2> SUFFICES ASSUME k + 1 <= net.n, NEW t \in Nodes, at(k + 1, t) # Inf
                 PROVE  \E p : WalkOver(some, "FWD", p, s, t, at(k + 1, t))
      OBVIOUS
    <2>1. k + 1 \in 1 .. net.n /\ k \in 0 .. net.n /\ k + 1 - 1 = k /\ Ok(k)
      BY <1>2, <1>4
    <2>2. CASE at(k + 1, t) = at(k, t)
      BY <2>1, <2>2
    <2>3. CASE at(k + 1, t) # at(k, t)
      <3>1. PICK e \in some : /\ net.edges[e].dst = t
                              /\ at(k + 1, t) = CostSum(at(k, net.edges[e].src),
                                                     Weight(query.alphas, net.edges[e]))
        <4>1. /\ s \in NodesOf(net) /\ t \in NodesOf(net)
              /\ within[k + 1][<<s, t>>] # within[k + 1 - 1][<<s, t>>]
          BY <2>1, <2>3 DEF Nodes
        <4>2. \E e \in some :
                 /\ net.edges[e].dst = t
                 /\ within[k + 1][<<s, t>>] = OverEdge(within, net, k + 1, s, e, query.alphas)
          <5> DEFINE j == k + 1
          <5>1. j \in 1 .. net.n /\ within[j][<<s, t>>] # within[j - 1][<<s, t>>]
            BY <2>1, <4>1
          <5>2. IsWithin(within, net, query.alphas, some)
            BY <1>1
          <5> HIDE DEF j, at, Ok, K
          <5>3. \E e \in some : /\ net.edges[e].dst = t
                                /\ within[j][<<s, t>>] = OverEdge(within, net, j, s, e, query.alphas)
            BY <4>1, <5>1, <5>2 DEF IsWithin
          <5> QED BY <5>3 DEF j
        <4>3. \A e : OverEdge(within, net, k + 1, s, e, query.alphas)
                          = CostSum(at(k, net.edges[e].src), Weight(query.alphas, net.edges[e]))
          BY <2>1 DEF OverEdge
        <4> QED BY <4>2, <4>3
      <3> DEFINE u == net.edges[e].src
                 w == Weight(query.alphas, net.edges[e])
      <3>2. u \in Nodes /\ w \in Nat /\ u = Source("FWD", e) /\ t = Target("FWD", e)
        <4>1. u \in Nodes /\ w \in Nat
          BY <1>o DEF IsOver, Nodes
        <4> QED BY <3>1, <4>1 DEF Source, Target, HeadOf, TailOf, Opp
      <3>3. at(k, u) \in Cost
        BY <1>1, <2>1, <3>2 DEF IsWithin, Nodes
      <3>4. at(k + 1, t) = CostSum(at(k, u), w)
        BY <3>1
      <3> HIDE DEF u, w, at
      <3>5. at(k, u) # Inf /\ at(k + 1, t) = at(k, u) + w
        BY <3>2, <3>3, <3>4 DEF CostSum, Inf, Cost
      <3>6. PICK p : WalkOver(some, "FWD", p, s, u, at(k, u))
        BY <2>1, <3>2, <3>5
      <3>7. WalkOver(some, "FWD", Append(p, e), s, Target("FWD", e), at(k, u) + w)
        BY <3>2, <3>6, WalkOverAppend DEF w
      <3> QED BY <3>2, <3>5, <3>7
    <2> QED BY <2>2, <2>3
  <1>5. \A k \in Nat : k \in K
    <2> HIDE DEF K
    <2> QED BY <1>3, <1>4, NaturalsAreInductive
  <1>6. Ok(net.n)
    <2> HIDE DEF Ok
    <2> QED BY <1>2, <1>5
  <1> QED
    BY <1>1, <1>6

LEMMA SumOfProducts ==
    \A a, b, x, y, v, w \in Nat : a * (x + y) + b * (v + w) = (a * x + b * v) + (a * y + b * w)
  OBVIOUS

\* What the metrics of a shortcut weigh: what those of its halves do.
LEMMA WeightOfHalves ==
    ASSUME Answering, NEW e \in DOMAIN net.edges, NEW f \in DOMAIN net.edges,
           NEW g \in DOMAIN net.edges,
           \A i \in 1 .. 2 :
               net.edges[e].metrics[i] = net.edges[f].metrics[i] + net.edges[g].metrics[i]
    PROVE  Weight(query.alphas, net.edges[e])
               = Weight(query.alphas, net.edges[f]) + Weight(query.alphas, net.edges[g])
  <1>1. query.alphas[1] \in Nat /\ query.alphas[2] \in Nat
    BY DijkstraAssumption DEF Answering
  <1>2. \A h \in DOMAIN net.edges : net.edges[h].metrics[1] \in Nat /\ net.edges[h].metrics[2] \in Nat
    BY NetworkFacts DEF Answering
  <1>3. /\ net.edges[e].metrics[1] = net.edges[f].metrics[1] + net.edges[g].metrics[1]
        /\ net.edges[e].metrics[2] = net.edges[f].metrics[2] + net.edges[g].metrics[2]
    OBVIOUS
  <1> QED
    BY <1>1, <1>2, <1>3, SumOfProducts DEF Weight

\* Distances are in order, and no edge makes one better, a shortcut neither.
LEMMA DistanceTriangle ==
    ASSUME Answering
    PROVE  /\ \A s, t \in Nodes : Distance(s, t) \in Cost
           /\ \A s \in Nodes : Distance(s, s) = 0
           /\ \A e \in DOMAIN net.edges : \A s \in Nodes :
                 AtMost(Distance(s, net.edges[e].dst),
                        CostSum(Distance(s, net.edges[e].src), Weight(query.alphas, net.edges[e])))
  <1> DEFINE originals == 1 .. net.originals
             w(e) == Weight(query.alphas, net.edges[e])
             Ok(e) == \A s \in Nodes : AtMost(Distance(s, net.edges[e].dst),
                                              CostSum(Distance(s, net.edges[e].src), w(e)))
  <1>1. /\ net.originals \in 0 .. Len(net.edges) /\ Len(net.edges) \in Nat
        /\ DOMAIN net.edges = 1 .. Len(net.edges)
        /\ \A e \in DOMAIN net.edges : net.edges[e].src \in Nodes /\ net.edges[e].dst \in Nodes
        /\ \A e \in net.originals + 1 .. Len(net.edges) : \E f, g \in 1 .. e - 1 :
              /\ net.edges[e].src = net.edges[f].src
              /\ net.edges[f].dst = net.edges[g].src
              /\ net.edges[g].dst = net.edges[e].dst
              /\ \A i \in 1 .. 2 :
                    net.edges[e].metrics[i] = net.edges[f].metrics[i] + net.edges[g].metrics[i]
    <2>1. IsNetwork(net)
      BY DijkstraAssumption DEF Answering
    <2> QED BY <2>1, NetworkFacts DEF Answering, IsNetwork
  <1>2. originals \in SUBSET DOMAIN net.edges
    BY <1>1
  <1>3. IsOver(net, query.alphas, originals)
    <2> HIDE DEF originals
    <2> QED BY <1>2, EdgesAreOver
  <1>4. \A s, t : Distance(s, t) = Ways(net, query.alphas, originals)[<<s, t>>]
    BY DEF Distance, Distances
  <1>5. /\ \A s, t \in Nodes : Distance(s, t) \in Cost
        /\ \A s \in Nodes : Distance(s, s) = 0
        /\ \A e \in originals : Ok(e)
    <2> HIDE DEF originals
    <2> QED BY <1>3, <1>4, WaysTriangle DEF Nodes
  <1>6. \A e \in DOMAIN net.edges : w(e) \in Nat
    BY DEF Answering, WeightsAreNat
  <1> DEFINE K == {k \in Nat : \A e \in DOMAIN net.edges : e <= k => Ok(e)}
  <1>7. 0 \in K
    BY <1>1
  <1>8. ASSUME NEW k \in Nat, k \in K PROVE k + 1 \in K
    <2> SUFFICES ASSUME NEW e \in DOMAIN net.edges, e <= k + 1 PROVE Ok(e)
      OBVIOUS
    <2>1. CASE e \in originals
      <3> HIDE DEF originals, Ok
      <3> QED BY <1>5, <2>1
    <2>2. CASE e \notin originals
      <3>1. e \in net.originals + 1 .. Len(net.edges)
        BY <1>1, <2>2
      <3>2. PICK f \in 1 .. e - 1, g \in 1 .. e - 1 :
              /\ net.edges[e].src = net.edges[f].src
              /\ net.edges[f].dst = net.edges[g].src
              /\ net.edges[g].dst = net.edges[e].dst
              /\ \A i \in 1 .. 2 :
                    net.edges[e].metrics[i] = net.edges[f].metrics[i] + net.edges[g].metrics[i]
        BY <1>1, <3>1
      <3>3. /\ f \in DOMAIN net.edges /\ g \in DOMAIN net.edges
            /\ f <= k /\ g <= k
        BY <1>1
      <3>4. Ok(f) /\ Ok(g)
        <4> HIDE DEF Ok
        <4> QED BY <1>8, <3>3
      <3>5. w(e) = w(f) + w(g) /\ w(f) \in Nat /\ w(g) \in Nat
        BY <1>6, <3>2, <3>3, WeightOfHalves
      <3> SUFFICES ASSUME NEW s \in Nodes
                   PROVE  AtMost(Distance(s, net.edges[e].dst),
                                 CostSum(Distance(s, net.edges[e].src), w(e)))
        OBVIOUS
      <3> DEFINE x == Distance(s, net.edges[f].src)
                 y == Distance(s, net.edges[f].dst)
                 z == Distance(s, net.edges[g].dst)
      <3>6. x \in Cost /\ y \in Cost /\ z \in Cost
        BY <1>1, <1>5, <3>3
      <3>7. AtMost(y, CostSum(x, w(f))) /\ AtMost(z, CostSum(y, w(g)))
        BY <3>2, <3>4
      <3> HIDE DEF w
      <3>8. AtMost(z, CostSum(x, w(e)))
        <4> HIDE DEF x, y, z
        <4> QED BY <3>5, <3>6, <3>7 DEF AtMost, Cheaper, CostSum, Cost, Inf
      <3> QED BY <3>2, <3>8
    <2> QED BY <2>1, <2>2
  <1>9. \A k \in Nat : k \in K
    <2> HIDE DEF K
    <2> QED BY <1>7, <1>8, NaturalsAreInductive
  <1>10. \A e \in DOMAIN net.edges : Ok(e)
    <2> SUFFICES ASSUME NEW e \in DOMAIN net.edges PROVE Ok(e)
      OBVIOUS
    <2>1. e \in Nat /\ e <= e
      BY <1>1
    <2> HIDE DEF Ok
    <2> QED BY <1>9, <2>1
  <1> QED
    BY <1>5, <1>10

\* No walk is cheaper than the distance between its ends.
LEMMA NoShorterWalk ==
    ASSUME Answering, NEW s \in Nodes, NEW p \in Seq(DOMAIN net.edges), NEW t \in Nodes,
           DirWalk("FWD", p, s, t)
    PROVE  AtMost(Distance(s, t), PathCost(p))
  <1> DEFINE E == DOMAIN net.edges
             Ok(q) == \A v \in Nodes : DirWalk("FWD", q, s, v) => AtMost(Distance(s, v), PathCost(q))
             K == {k \in Nat : \A q \in Seq(E) : Len(q) = k => Ok(q)}
  <1>w. WeightsAreNat /\ net \in Networks
    BY DEF Answering
  <1>1. 0 \in K
    <2> SUFFICES ASSUME NEW q \in Seq(E), Len(q) = 0 PROVE Ok(q)
      OBVIOUS
    <2>1. q = <<>>
      BY EmptySeq
    <2>2. PathCost(q) = 0
      BY <1>w, <2>1, EmptyCost
    <2>3. Distance(s, s) = 0 /\ AtMost(0, 0)
      BY DistanceTriangle DEF AtMost, Cheaper
    <2> QED BY <2>1, <2>2, <2>3 DEF DirWalk
  <1>2. ASSUME NEW k \in Nat, k \in K PROVE k + 1 \in K
    <2> SUFFICES ASSUME NEW q \in Seq(E), Len(q) = k + 1, NEW v \in Nodes, DirWalk("FWD", q, s, v)
                 PROVE  AtMost(Distance(s, v), PathCost(q))
      OBVIOUS
    <2>1. q # <<>>
      OBVIOUS
    <2>2. PICK r \in Seq(E), e \in E : q = Append(r, e)
      BY <2>1, SequenceEmptyOrAppend
    <2>3. Len(r) \in Nat /\ Len(q) = Len(r) + 1
      BY <2>2, AppendProperties, LenProperties
    <2>4. Len(r) = k
      BY <2>3
    <2>5. DirWalk("FWD", r, s, Source("FWD", e)) /\ Target("FWD", e) = v
      BY <2>2, WalkFront
    <2>6. Source("FWD", e) = net.edges[e].src /\ net.edges[e].src \in Nodes /\ net.edges[e].dst = v
      BY <1>w, <2>5, NetworkFacts DEF Source, Target, HeadOf, TailOf, Opp
    <2>7. AtMost(Distance(s, net.edges[e].src), PathCost(r))
      BY <1>2, <2>4, <2>5, <2>6
    <2>8. AtMost(Distance(s, v), CostSum(Distance(s, net.edges[e].src), Weight(query.alphas, net.edges[e])))
      BY <2>6, DistanceTriangle
    <2>9. /\ PathCost(q) = PathCost(r) + Weight(query.alphas, net.edges[e])
          /\ PathCost(r) \in Nat /\ Weight(query.alphas, net.edges[e]) \in Nat
      BY <1>w, <2>2, AppendCost, CostIsNat DEF WeightsAreNat
    <2>10. Distance(s, v) \in Cost /\ Distance(s, net.edges[e].src) \in Cost
      BY <2>6, DistanceTriangle
    <2> QED
      BY <2>7, <2>8, <2>9, <2>10 DEF AtMost, Cheaper, CostSum, Cost, Inf
  <1>3. \A k \in Nat : k \in K
    <2> HIDE DEF K
    <2> QED BY <1>1, <1>2, NaturalsAreInductive
  <1>4. Len(p) \in Nat
    BY LenProperties
  <1>5. Ok(p)
    <2> HIDE DEF Ok
    <2> QED BY <1>3, <1>4
  <1> QED
    BY <1>5

-----------------------------------------------------------------------------
(* What has been reached *)

\* The edges that a search looks at in direction dir.
Followed(dir) == IF IsCh THEN Upward(net, dir) ELSE DOMAIN net.edges

\* No edge that a search looks at improves what the node has passed on.
Relaxed(dir, u) ==
    \A e \in Followed(dir) : Source(dir, e) = u =>
        AtMost(costs[dir][Target(dir, e)], costs[dir][u] + Weight(query.alphas, net.edges[e]))

\* The entry with which a node waits to be expanded, if it does.
EntryOf(dir, v) == [cost |-> costs[dir][v], idx |-> v, dir |-> dir]
Enqueued(dir, v) == EntryOf(dir, v) \in queue

Shortest == Distance(query.src, query.dst)

\* The searches are done with a node that is not enqueued and could still lead to a better path:
\* its edges have been relaxed.  After the first meeting, bidirectional Dijkstra enqueues none.
FrontierInv ==
    pc = "search" /\ (IsCh \/ bestMeeting.idx = None) =>
        \A dir \in Dirs : \A v \in Nodes :
            costs[dir][v] # Inf /\ AtMost(costs[dir][v], bestMeeting.cost) /\ ~Enqueued(dir, v) =>
                Relaxed(dir, v) /\ (~IsCh => isVisited[dir][v])

LEMMA SearchFacts ==
    ASSUME SearchInv, InSearch
    PROVE  /\ Answering
           /\ query.src \in Nodes /\ query.dst \in Nodes
           /\ query.algo \in {"Dijkstra", "CHDijkstra"}
           /\ costs \in [Dirs -> [Nodes -> Cost]]
           /\ bestMeeting.cost \in Cost
           /\ \A dir \in Dirs : Origin(dir) \in Nodes /\ costs[dir][Origin(dir)] = 0
           /\ \A c \in queue : c.cost \in Nat /\ c.idx \in Nodes /\ c.dir \in Dirs
           /\ \A dir \in Dirs : Followed(dir) \in SUBSET DOMAIN net.edges
  <1>1. /\ net \in Networks /\ query.alphas \in Alphas
        /\ query.alphas[1] >= 0 /\ query.alphas[2] >= 0
        /\ query.src \in Nodes /\ query.dst \in Nodes
        /\ query.algo \in {"Dijkstra", "CHDijkstra"}
        /\ bestMeeting.cost \in Cost
        /\ \A c \in queue : c.cost \in Nat /\ c.idx \in Nodes /\ c.dir \in Dirs
    BY DEF SearchInv, ShapeInv
  <1>2. Answering
    BY <1>1, WeightIsNat DEF Answering, WeightsAreNat
  <1>3. costs \in [Dirs -> [Nodes -> Cost]]
    <2>1. \A dir \in Dirs : costs[dir] \in [Nodes -> Cost]
      BY DEF SearchInv, ShapeInv, Vector
    <2>2. costs = [dir \in Dirs |-> costs[dir]]
      BY DEF SearchInv, ShapeInv
    <2> QED BY <2>1, <2>2
  <1>4. \A dir \in Dirs : Origin(dir) \in Nodes /\ costs[dir][Origin(dir)] = 0
    BY TreeFacts DEF Tree
  <1>5. \A dir \in Dirs : Followed(dir) \in SUBSET DOMAIN net.edges
    BY DEF Followed, Upward
  <1> QED
    BY <1>1, <1>2, <1>3, <1>4, <1>5

\* A walk that is cheaper than all that waits has been followed to its end.
LEMMA FrontierReach ==
    ASSUME SearchInv, FrontierInv, pc = "search", IsCh \/ bestMeeting.idx = None,
           NEW dir \in Dirs, NEW K \in Cost, AtMost(K, bestMeeting.cost),
           \A c \in queue : c.dir = dir => AtMost(K, c.cost),
           NEW p, NEW t \in Nodes, NEW r, WalkOver(Followed(dir), dir, p, Origin(dir), t, r)
    PROVE  /\ r \in Nat
           /\ AtMost(K, r) \/ AtMost(costs[dir][t], r)
  <1> DEFINE E == Followed(dir)
             Ok(q) == \A v \in Nodes : DirWalk(dir, q, Origin(dir), v) =>
                          AtMost(K, PathCost(q)) \/ AtMost(costs[dir][v], PathCost(q))
             N == {k \in Nat : \A q \in Seq(E) : Len(q) = k => Ok(q)}
  <1>1. InSearch
    BY DEF InSearch
  <1>2. /\ Answering /\ WeightsAreNat /\ E \in SUBSET DOMAIN net.edges
        /\ costs \in [Dirs -> [Nodes -> Cost]] /\ costs[dir][Origin(dir)] = 0
        /\ bestMeeting.cost \in Cost /\ net \in Networks
    BY <1>1, SearchFacts DEF Answering
  <1>3. \A q \in Seq(E) : q \in Seq(DOMAIN net.edges)
    <2> HIDE DEF E
    <2> QED BY <1>2, SeqMonotonic
  <1> HIDE DEF E
  <1>4. 0 \in N
    <2> SUFFICES ASSUME NEW q \in Seq(E), Len(q) = 0, NEW v \in Nodes,
                        DirWalk(dir, q, Origin(dir), v)
                 PROVE  AtMost(costs[dir][v], PathCost(q))
      OBVIOUS
    <2>1. q = <<>>
      BY EmptySeq
    <2>2. PathCost(q) = 0 /\ v = Origin(dir)
      BY <1>2, <2>1, EmptyCost DEF DirWalk
    <2> QED BY <1>2, <2>2 DEF AtMost, Cheaper
  <1>5. ASSUME NEW k \in Nat, k \in N PROVE k + 1 \in N
    <2> SUFFICES ASSUME NEW q \in Seq(E), Len(q) = k + 1, NEW v \in Nodes,
                        DirWalk(dir, q, Origin(dir), v)
                 PROVE  AtMost(K, PathCost(q)) \/ AtMost(costs[dir][v], PathCost(q))
      OBVIOUS
    <2>1. PICK o \in Seq(E), e \in E : q = Append(o, e)
      <3>1. q # <<>>
        OBVIOUS
      <3> QED BY <3>1, SequenceEmptyOrAppend
    <2>2. Len(o) = k
      <3>1. Len(o) \in Nat /\ Len(q) = Len(o) + 1
        BY <2>1, AppendProperties, LenProperties
      <3> QED BY <3>1
    <2> DEFINE u == Source(dir, e)
               w == Weight(query.alphas, net.edges[e])
               x == PathCost(o)
    <2>3. DirWalk(dir, o, Origin(dir), u) /\ Target(dir, e) = v
      BY <2>1, WalkFront
    <2>4. e \in DOMAIN net.edges /\ u \in Nodes
      BY <1>2, EndsAreNodes
    <2>5. PathCost(q) = x + w /\ x \in Nat /\ w \in Nat
      <3>1. o \in Seq(DOMAIN net.edges)
        BY <1>3
      <3> QED BY <1>2, <2>1, <2>4, <3>1, AppendCost, CostIsNat DEF WeightsAreNat
    <2>6. AtMost(K, x) \/ AtMost(costs[dir][u], x)
      BY <1>5, <2>2, <2>3, <2>4
    <2>7. costs[dir][u] \in Cost /\ costs[dir][v] \in Cost
      BY <1>2, <2>4
    <2> DEFINE cu == costs[dir][u]
               cv == costs[dir][v]
    <2>8. CASE AtMost(K, x)
      <3> HIDE DEF x, w
      <3>1. AtMost(K, x + w)
        BY <2>5, <2>8 DEF AtMost, Cheaper, Cost, Inf
      <3> QED BY <2>5, <3>1
    <2>9. CASE ~AtMost(K, x) /\ AtMost(cu, x)
      <3>1. cu \in Nat /\ cu <= x
        <4> HIDE DEF x, cu
        <4> QED BY <2>5, <2>7, <2>9, CostOrder DEF cu
      <3>2. ~AtMost(K, cu) /\ cu # Inf
        <4> HIDE DEF x, cu
        <4> QED BY <2>5, <2>9, <3>1 DEF AtMost, Cheaper, Cost, Inf
      <3>3. ~Enqueued(dir, u)
        BY <3>2 DEF Enqueued, EntryOf
      <3>4. AtMost(cu, bestMeeting.cost)
        <4>1. AtMost(cu, K)
          <5> HIDE DEF cu
          <5> QED BY <3>1, <3>2 DEF AtMost, Cheaper, Cost, Inf
        <4> HIDE DEF cu
        <4> QED BY <1>2, <2>7, <4>1, CostOrder DEF cu
      <3>5. Relaxed(dir, u)
        BY <2>4, <3>2, <3>3, <3>4 DEF FrontierInv
      <3>6. AtMost(cv, cu + w)
        BY <2>3, <3>5 DEF Relaxed, E
      <3>7. AtMost(cv, x + w)
        <4> HIDE DEF x, w, cu, cv
        <4> QED BY <2>5, <2>7, <3>1, <3>6 DEF AtMost, Cheaper, Cost, Inf, cv
      <3> QED BY <2>5, <3>7
    <2> QED BY <2>6, <2>8, <2>9
  <1>6. \A k \in Nat : k \in N
    <2> HIDE DEF N
    <2> QED BY <1>4, <1>5, NaturalsAreInductive
  <1>7. p \in Seq(E) /\ DirWalk(dir, p, Origin(dir), t) /\ PathCost(p) = r
    BY DEF WalkOver, E
  <1>8. Ok(p)
    <2>1. Len(p) \in Nat
      BY <1>7, LenProperties
    <2> HIDE DEF Ok
    <2> QED BY <1>6, <1>7, <2>1
  <1>9. r \in Nat
    BY <1>2, <1>3, <1>7, CostIsNat
  <1> QED
    BY <1>7, <1>8, <1>9

\* The best distance from the start of a direction, along the edges.
DistanceFrom(dir, v) == IF dir = "FWD" THEN Distance(query.src, v) ELSE Distance(v, query.dst)

\* No search knows anything better than the best path.
BoundInv ==
    InSearch =>
        /\ \A dir \in Dirs : \A v \in Nodes : AtMost(DistanceFrom(dir, v), costs[dir][v])
        /\ \A v \in Nodes : AtMost(Shortest, TotalCost(v))

LEMMA CostsAreBounded == SearchInv => BoundInv
  <1> SUFFICES ASSUME SearchInv, InSearch, NEW v \in Nodes
               PROVE  /\ \A dir \in Dirs : AtMost(DistanceFrom(dir, v), costs[dir][v])
                      /\ AtMost(Shortest, TotalCost(v))
    BY DEF BoundInv
  <1> DEFINE walk(dir, p) == /\ p \in Seq(DOMAIN net.edges)
                             /\ PathCost(p) \in Nat /\ AtMost(PathCost(p), costs[dir][v])
  <1>1. /\ Answering /\ WeightsAreNat /\ query.src \in Nodes /\ query.dst \in Nodes
        /\ costs["FWD"][v] \in Cost /\ costs["BWD"][v] \in Cost
        /\ \A s, t \in Nodes : Distance(s, t) \in Cost
    BY SearchFacts, DistanceTriangle DEF Answering, Dirs
  <1>2. ASSUME costs["FWD"][v] # Inf
        PROVE  \E p : walk("FWD", p) /\ DirWalk("FWD", p, query.src, v)
    <2> DEFINE p == Chain("FWD", v)
    <2>1. /\ p \in Seq(DOMAIN net.edges) /\ DirWalk("FWD", p, query.src, v)
          /\ PathCost(p) <= costs["FWD"][v]
      BY <1>2, ChainFacts DEF Dirs, Origin
    <2> HIDE DEF p
    <2>2. PathCost(p) \in Nat /\ costs["FWD"][v] \in Nat
      BY <1>1, <1>2, <2>1, CostIsNat DEF Cost
    <2>3. AtMost(PathCost(p), costs["FWD"][v])
      BY <2>1, <2>2, CostOrder
    <2> QED BY <2>1, <2>2, <2>3
  <1>3. ASSUME costs["BWD"][v] # Inf
        PROVE  \E p : walk("BWD", p) /\ DirWalk("FWD", p, v, query.dst)
    <2> DEFINE q == Chain("BWD", v)
               p == Reverse(q)
    <2>1. /\ q \in Seq(DOMAIN net.edges) /\ DirWalk("BWD", q, query.dst, v)
          /\ PathCost(q) <= costs["BWD"][v]
      BY <1>3, ChainFacts DEF Dirs, Origin
    <2>2. Opp("BWD") = "FWD" /\ "BWD" \in Dirs
      BY DEF Opp, Dirs
    <2> HIDE DEF q
    <2>3. p \in Seq(DOMAIN net.edges) /\ PathCost(p) = PathCost(q)
      BY <1>1, <2>1, ReverseCost
    <2>4. DirWalk("FWD", p, v, query.dst)
      BY <2>1, <2>2, WalkReverse
    <2> HIDE DEF p
    <2>5. PathCost(p) \in Nat /\ costs["BWD"][v] \in Nat
      BY <1>1, <1>3, <2>3, CostIsNat DEF Cost
    <2>6. AtMost(PathCost(p), costs["BWD"][v])
      BY <2>1, <2>3, <2>5, CostOrder
    <2> QED BY <2>3, <2>4, <2>5, <2>6
  <1>4. ASSUME NEW dir \in Dirs PROVE AtMost(DistanceFrom(dir, v), costs[dir][v])
    <2>1. CASE costs[dir][v] = Inf
      BY <2>1 DEF AtMost, Cheaper
    <2>2. CASE dir = "FWD" /\ costs[dir][v] # Inf
      <3>1. PICK p : walk("FWD", p) /\ DirWalk("FWD", p, query.src, v)
        BY <1>2, <2>2
      <3>2. AtMost(Distance(query.src, v), PathCost(p))
        BY <1>1, <3>1, NoShorterWalk
      <3>3. PathCost(p) \in Cost /\ Distance(query.src, v) \in Cost
        BY <1>1, <3>1 DEF Cost
      <3>4. AtMost(Distance(query.src, v), costs["FWD"][v])
        BY <1>1, <3>1, <3>2, <3>3, CostOrder
      <3> QED BY <2>2, <3>4 DEF DistanceFrom
    <2>3. CASE dir = "BWD" /\ costs[dir][v] # Inf
      <3>1. PICK p : walk("BWD", p) /\ DirWalk("FWD", p, v, query.dst)
        BY <1>3, <2>3
      <3>2. AtMost(Distance(v, query.dst), PathCost(p))
        BY <1>1, <3>1, NoShorterWalk
      <3>3. PathCost(p) \in Cost /\ Distance(v, query.dst) \in Cost
        BY <1>1, <3>1 DEF Cost
      <3>4. AtMost(Distance(v, query.dst), costs["BWD"][v])
        BY <1>1, <3>1, <3>2, <3>3, CostOrder
      <3> QED BY <2>3, <3>4 DEF DistanceFrom
    <2> QED BY <2>1, <2>2, <2>3 DEF Dirs
  <1>5. AtMost(Shortest, TotalCost(v))
    <2>1. CASE costs["FWD"][v] = Inf \/ costs["BWD"][v] = Inf
      BY <2>1 DEF TotalCost, CostSum, AtMost, Cheaper
    <2>2. CASE costs["FWD"][v] # Inf /\ costs["BWD"][v] # Inf
      <3>1. PICK p : walk("FWD", p) /\ DirWalk("FWD", p, query.src, v)
        BY <1>2, <2>2
      <3>2. PICK q : walk("BWD", q) /\ DirWalk("FWD", q, v, query.dst)
        BY <1>3, <2>2
      <3>3. DirWalk("FWD", p \o q, query.src, query.dst) /\ p \o q \in Seq(DOMAIN net.edges)
        BY <3>1, <3>2, WalkConcat
      <3>4. PathCost(p \o q) = PathCost(p) + PathCost(q)
        BY <1>1, <3>1, <3>2, ConcatCost
      <3>5. AtMost(Shortest, PathCost(p \o q))
        BY <1>1, <3>3, NoShorterWalk DEF Shortest
      <3>6. Shortest \in Cost
        BY <1>1 DEF Shortest
      <3> DEFINE x == PathCost(p)
                 y == PathCost(q)
                 cf == costs["FWD"][v]
                 cb == costs["BWD"][v]
      <3>7. /\ x \in Nat /\ y \in Nat /\ cf \in Nat /\ cb \in Nat
            /\ AtMost(x, cf) /\ AtMost(y, cb)
        BY <1>1, <2>2, <3>1, <3>2 DEF Cost
      <3>8. TotalCost(v) = cf + cb
        BY <2>2 DEF TotalCost, CostSum
      <3>9. AtMost(Shortest, x + y)
        BY <3>4, <3>5
      <3> HIDE DEF x, y, cf, cb
      <3> QED BY <3>6, <3>7, <3>8, <3>9 DEF AtMost, Cheaper, Cost, Inf
    <2> QED BY <2>1, <2>2
  <1> QED
    BY <1>4, <1>5

-----------------------------------------------------------------------------
(* The first meeting of bidirectional Dijkstra *)

\* Nodes are visited in the order of their costs, none of them from both sides until the
\* searches meet.
VisitOrderInv ==
    pc = "search" /\ ~IsCh /\ bestMeeting.idx = None =>
        /\ \A dir \in Dirs : \A v \in Nodes :
              isVisited[dir][v] => \A c \in queue : costs[dir][v] <= c.cost
        /\ \A v \in Nodes : ~isVisited["FWD"][v] \/ ~isVisited["BWD"][v]

\* Edge e is the one with which a walk from s to t, which costs r in all, comes to cost K.
ComesTo(K, e, s, t, r) ==
    \E p, q : \E x, y \in Nat :
        /\ WalkOver(DOMAIN net.edges, "FWD", p, s, Source("FWD", e), x)
        /\ WalkOver(DOMAIN net.edges, "FWD", q, Target("FWD", e), t, y)
        /\ x < K /\ K <= x + Weight(query.alphas, net.edges[e])
        /\ r = x + Weight(query.alphas, net.edges[e]) + y

LEMMA WalkComesTo ==
    ASSUME Answering, NEW K \in Nat, K > 0, NEW s \in Nodes, NEW t \in Nodes, NEW p, NEW r \in Nat,
           WalkOver(DOMAIN net.edges, "FWD", p, s, t, r), K <= r
    PROVE  \E e \in DOMAIN net.edges : ComesTo(K, e, s, t, r)
  <1> DEFINE E == DOMAIN net.edges
             Ok(q) == \A v \in Nodes : DirWalk("FWD", q, s, v) /\ K <= PathCost(q) =>
                          \E e \in E : ComesTo(K, e, s, v, PathCost(q))
             N == {k \in Nat : \A q \in Seq(E) : Len(q) = k => Ok(q)}
  <1>w. WeightsAreNat /\ net \in Networks
    BY DEF Answering
  <1>1. 0 \in N
    <2> SUFFICES ASSUME NEW q \in Seq(E), Len(q) = 0, K <= PathCost(q) PROVE FALSE
      OBVIOUS
    <2>1. PathCost(<<>>) = 0 /\ q = <<>>
      BY <1>w, EmptySeq, EmptyCost
    <2> QED BY <2>1
  <1>2. ASSUME NEW k \in Nat, k \in N PROVE k + 1 \in N
    <2> SUFFICES ASSUME NEW q \in Seq(E), Len(q) = k + 1, NEW v \in Nodes,
                        DirWalk("FWD", q, s, v), K <= PathCost(q)
                 PROVE  \E e \in E : ComesTo(K, e, s, v, PathCost(q))
      OBVIOUS
    <2>1. PICK o \in Seq(E), d \in E : q = Append(o, d)
      <3>1. q # <<>>
        OBVIOUS
      <3> QED BY <3>1, SequenceEmptyOrAppend
    <2>2. Len(o) = k
      <3>1. Len(o) \in Nat /\ Len(q) = Len(o) + 1
        BY <2>1, AppendProperties, LenProperties
      <3> QED BY <3>1
    <2> DEFINE u == Source("FWD", d)
               w == Weight(query.alphas, net.edges[d])
               z == PathCost(o)
    <2>3. DirWalk("FWD", o, s, u) /\ Target("FWD", d) = v
      BY <2>1, WalkFront
    <2>4. u \in Nodes
      BY <1>w, EndsAreNodes DEF Dirs
    <2>5. PathCost(q) = z + w /\ z \in Nat /\ w \in Nat
      BY <1>w, <2>1, AppendCost, CostIsNat DEF WeightsAreNat
    <2> HIDE DEF u
    <2>6. CASE K <= z
      <3>1. PICK e \in E : ComesTo(K, e, s, u, z)
        BY <1>2, <2>2, <2>3, <2>4, <2>6
      <3>2. PICK p1, q1 : \E x, y \in Nat :
                 /\ WalkOver(E, "FWD", p1, s, Source("FWD", e), x)
                 /\ WalkOver(E, "FWD", q1, Target("FWD", e), u, y)
                 /\ x < K /\ K <= x + Weight(query.alphas, net.edges[e])
                 /\ z = x + Weight(query.alphas, net.edges[e]) + y
        BY <3>1 DEF ComesTo
      <3>3. PICK x \in Nat, y \in Nat :
                 /\ WalkOver(E, "FWD", p1, s, Source("FWD", e), x)
                 /\ WalkOver(E, "FWD", q1, Target("FWD", e), u, y)
                 /\ x < K /\ K <= x + Weight(query.alphas, net.edges[e])
                 /\ z = x + Weight(query.alphas, net.edges[e]) + y
        BY <3>2
      <3>4. WalkOver(E, "FWD", Append(q1, d), Target("FWD", e), v, y + w)
        <4>1. E \in SUBSET DOMAIN net.edges /\ Source("FWD", d) = u
          BY DEF u
        <4> HIDE DEF E
        <4> QED BY <2>3, <3>3, <4>1, WalkOverAppend
      <3>5. Weight(query.alphas, net.edges[e]) \in Nat
        BY <1>w DEF WeightsAreNat
      <3>6. /\ y + w \in Nat
            /\ z + w = x + Weight(query.alphas, net.edges[e]) + (y + w)
        <4> HIDE DEF z, w
        <4> QED BY <2>5, <3>3, <3>5
      <3>7. ComesTo(K, e, s, v, z + w)
        BY <3>3, <3>4, <3>6 DEF ComesTo
      <3> QED BY <2>5, <3>7
    <2>7. CASE ~(K <= z)
      <3>1. WalkOver(E, "FWD", o, s, Source("FWD", d), z)
        BY <2>1, <2>3 DEF WalkOver, u
      <3>2. WalkOver(E, "FWD", <<>>, Target("FWD", d), v, 0)
        <4>1. <<>> \in Seq(E)
          BY EmptySeq
        <4> QED BY <1>w, <2>3, <4>1, EmptyCost DEF WalkOver, DirWalk
      <3>3. z < K /\ K <= z + w /\ z + w = z + w + 0 /\ 0 \in Nat
        <4> HIDE DEF z, w
        <4> QED BY <2>5, <2>7
      <3>4. ComesTo(K, d, s, v, z + w)
        BY <2>5, <3>1, <3>2, <3>3 DEF ComesTo
      <3> QED BY <2>5, <3>4
    <2> QED BY <2>6, <2>7
  <1>3. \A k \in Nat : k \in N
    <2> HIDE DEF N
    <2> QED BY <1>1, <1>2, NaturalsAreInductive
  <1>4. p \in Seq(E) /\ DirWalk("FWD", p, s, t) /\ PathCost(p) = r /\ Len(p) \in Nat
    BY LenProperties DEF WalkOver
  <1>5. Ok(p)
    <2> HIDE DEF Ok
    <2> QED BY <1>3, <1>4
  <1> QED
    BY <1>4, <1>5

\* A best walk, if there is one.
LEMMA BestWalk ==
    ASSUME Answering, NEW s \in Nodes, NEW t \in Nodes, Distance(s, t) # Inf
    PROVE  \E p : WalkOver(DOMAIN net.edges, "FWD", p, s, t, Distance(s, t))
  <1> DEFINE some == 1 .. net.originals
  <1>1. some \in SUBSET DOMAIN net.edges
    <2>1. IsNetwork(net)
      BY DijkstraAssumption DEF Answering
    <2> QED BY <2>1, NetworkFacts DEF Answering, IsNetwork
  <1>2. Distance(s, t) = Ways(net, query.alphas, some)[<<s, t>>]
    BY DEF Distance, Distances
  <1> HIDE DEF some
  <1>3. PICK p : WalkOver(some, "FWD", p, s, t, Distance(s, t))
    BY <1>1, <1>2, WaysAttained
  <1>4. p \in Seq(DOMAIN net.edges)
    BY <1>1, <1>3, SeqMonotonic DEF WalkOver
  <1> QED
    BY <1>3, <1>4 DEF WalkOver

\* A walk the other way round.
LEMMA WalkOverReverse ==
    ASSUME Answering, NEW p, NEW s, NEW t, NEW r, NEW dir \in Dirs,
           WalkOver(DOMAIN net.edges, dir, p, s, t, r)
    PROVE  WalkOver(DOMAIN net.edges, Opp(dir), Reverse(p), t, s, r)
  <1>1. WeightsAreNat /\ p \in Seq(DOMAIN net.edges) /\ DirWalk(dir, p, s, t) /\ PathCost(p) = r
    BY DEF Answering, WalkOver
  <1>2. Reverse(p) \in Seq(DOMAIN net.edges) /\ PathCost(Reverse(p)) = r
    BY <1>1, ReverseCost
  <1>3. DirWalk(Opp(dir), Reverse(p), t, s)
    BY <1>1, WalkReverse
  <1> QED
    BY <1>2, <1>3 DEF WalkOver

\* The first meeting node has the best path over it, or there is a node with one over it that
\* still waits to be expanded.
LEMMA FirstMeetingFacts ==
    ASSUME SearchInv, FrontierInv, VisitOrderInv, pc = "search", ~IsCh, bestMeeting.idx = None,
           bestMeeting.cost = Inf, NEW c \in queue, \A d \in queue : c.cost <= d.cost,
           HasImproved(c), IsMeeting(c)
    PROVE  \/ AtMost(TotalCost(c.idx), Shortest)
           \/ \E v \in Nodes : /\ EntryOf("FWD", v) \in queue \ {c}
                               /\ AtMost(TotalCost(v), Shortest)
  <1> SUFFICES ASSUME ~AtMost(TotalCost(c.idx), Shortest)
               PROVE  \E v \in Nodes : /\ EntryOf("FWD", v) \in queue \ {c}
                                       /\ AtMost(TotalCost(v), Shortest)
    OBVIOUS
  <1> DEFINE E == DOMAIN net.edges
             K == c.cost
             m == c.idx
             mu == Shortest
  <1>1. InSearch
    BY DEF InSearch
  <1>2. /\ Answering /\ query.src \in Nodes /\ query.dst \in Nodes
        /\ costs \in [Dirs -> [Nodes -> Cost]] /\ costs["FWD"][query.src] = 0
        /\ costs["BWD"][query.dst] = 0
        /\ m \in Nodes /\ c.dir \in Dirs /\ K \in Nat
        /\ \A d \in queue : d.cost \in Nat
        /\ Followed("FWD") = E /\ Followed("BWD") = E
        /\ Origin("FWD") = query.src /\ Origin("BWD") = query.dst
    BY <1>1, SearchFacts DEF Origin, Dirs, Followed
  <1>3. costs[c.dir][m] = K
    BY ScannedFacts
  <1>4. costs[Opp(c.dir)][m] \in Nat /\ costs[Opp(c.dir)][m] <= K
    <2>1. isVisited[Opp(c.dir)][m] /\ Opp(c.dir) \in Dirs
      BY <1>2 DEF IsMeeting, Opp, Dirs
    <2>2. costs[Opp(c.dir)][m] <= K
      BY <1>2, <2>1 DEF VisitOrderInv
    <2>3. costs[Opp(c.dir)][m] # Inf
      BY <1>1, <1>2, <2>1 DEF SearchInv, VisitedInv
    <2> QED BY <1>2, <2>1, <2>2, <2>3 DEF Cost
  <1>5. TotalCost(m) \in Nat /\ TotalCost(m) <= K + K
    <2> DEFINE cf == costs["FWD"][m]
               cb == costs["BWD"][m]
               co == costs[Opp(c.dir)][m]
    <2>1. (cf = K /\ cb = co) \/ (cf = co /\ cb = K)
      BY <1>2, <1>3 DEF Opp, Dirs
    <2>2. K \in Nat /\ co \in Nat /\ co <= K
      BY <1>2, <1>4
    <2>3. TotalCost(m) = CostSum(cf, cb)
      BY DEF TotalCost
    <2> HIDE DEF cf, cb, co, K
    <2>4. cf \in Nat /\ cf <= K /\ cb \in Nat /\ cb <= K
      BY <2>1, <2>2
    <2>5. CostSum(cf, cb) = cf + cb
      BY <2>4, PlusFacts
    <2> QED BY <2>2, <2>3, <2>4, <2>5
  <1>6. mu \in Nat /\ mu < K + K /\ K > 0
    <2>1. mu \in Cost
      BY <1>2, DistanceTriangle DEF Shortest
    <2> DEFINE total == TotalCost(m)
    <2>2. ~AtMost(total, mu) /\ total \in Nat /\ total <= K + K /\ K \in Nat
      BY <1>2, <1>5
    <2> HIDE DEF mu, K, m, total
    <2>3. mu \in Nat /\ mu < total
      BY <2>1, <2>2 DEF AtMost, Cheaper, Cost, Inf
    <2> QED BY <2>2, <2>3
  \* What is reached for less than K has been visited.
  <1>7. ASSUME NEW dir \in Dirs, NEW v \in Nodes, NEW x \in Nat, x < K, AtMost(costs[dir][v], x)
        PROVE  /\ costs[dir][v] \in Nat /\ costs[dir][v] <= x
               /\ Relaxed(dir, v) /\ isVisited[dir][v]
    <2>1. costs[dir][v] \in Nat /\ costs[dir][v] <= x
      <3>1. costs[dir][v] \in Cost
        BY <1>2
      <3> QED BY <1>7, <3>1, CostOrder
    <2>2. ~Enqueued(dir, v)
      <3> SUFFICES ASSUME EntryOf(dir, v) \in queue PROVE FALSE
        BY DEF Enqueued
      <3>1. K <= EntryOf(dir, v).cost /\ EntryOf(dir, v).cost = costs[dir][v]
        BY DEF EntryOf
      <3> HIDE DEF K
      <3> QED BY <1>2, <1>7, <2>1, <3>1
    <2>3. costs[dir][v] # Inf /\ AtMost(costs[dir][v], bestMeeting.cost)
      BY <2>1 DEF AtMost, Cheaper, Inf
    <2> QED BY <2>1, <2>2, <2>3 DEF FrontierInv
  <1>8. ASSUME NEW dir \in Dirs, NEW v \in Nodes, NEW p, NEW x \in Nat, x < K,
               WalkOver(E, dir, p, Origin(dir), v, x)
        PROVE  /\ costs[dir][v] \in Nat /\ costs[dir][v] <= x
               /\ Relaxed(dir, v) /\ isVisited[dir][v]
    <2>1. Followed(dir) = E
      BY <1>2 DEF Dirs
    <2>2. K \in Cost /\ AtMost(K, bestMeeting.cost)
      BY <1>2 DEF Cost, AtMost, Cheaper
    <2>3. \A d \in queue : d.dir = dir => AtMost(K, d.cost)
      <3>1. \A d \in queue : K <= d.cost /\ d.cost \in Nat
        BY <1>2
      <3> HIDE DEF K
      <3> QED BY <1>2, <3>1, CostOrder
    <2>4. AtMost(K, x) \/ AtMost(costs[dir][v], x)
      <3> HIDE DEF K, E
      <3> QED BY <1>8, <2>1, <2>2, <2>3, FrontierReach
    <2>5. ~AtMost(K, x)
      <3> HIDE DEF K
      <3> QED BY <1>2, <1>8, CostOrder
    <2> QED BY <1>7, <1>8, <2>4, <2>5
  <1>9. isVisited["BWD"][query.dst]
    <2>1. AtMost(costs["BWD"][query.dst], 0) /\ 0 < K
      BY <1>2, <1>6, CostOrder
    <2> QED BY <1>2, <1>7, <2>1 DEF Dirs
  <1>10. PICK p : WalkOver(E, "FWD", p, query.src, query.dst, mu)
    <2>1. Distance(query.src, query.dst) # Inf
      BY <1>6 DEF Shortest, Inf
    <2> QED BY <1>2, <2>1, BestWalk DEF Shortest
  <1>11. ~(mu < K)
    <2> SUFFICES ASSUME mu < K PROVE FALSE
      OBVIOUS
    <2>1. isVisited["FWD"][query.dst]
      <3> HIDE DEF mu, K, E
      <3> QED BY <1>2, <1>6, <1>8, <1>10 DEF Dirs
    <2> QED BY <1>2, <1>9, <2>1 DEF VisitOrderInv
  <1>12. PICK e \in E : ComesTo(K, e, query.src, query.dst, mu)
    <2>1. K <= mu
      <3> HIDE DEF mu, K
      <3> QED BY <1>2, <1>6, <1>11
    <2> HIDE DEF mu, K
    <2> QED BY <1>2, <1>6, <1>10, <2>1, WalkComesTo
  <1> DEFINE u == Source("FWD", e)
             v == Target("FWD", e)
             w == Weight(query.alphas, net.edges[e])
  <1>13. PICK p1, q1 : \E x, y \in Nat :
            /\ WalkOver(E, "FWD", p1, query.src, u, x)
            /\ WalkOver(E, "FWD", q1, v, query.dst, y)
            /\ x < K /\ K <= x + w /\ mu = x + w + y
    BY <1>12 DEF ComesTo
  <1>14. PICK x \in Nat, y \in Nat :
            /\ WalkOver(E, "FWD", p1, query.src, u, x)
            /\ WalkOver(E, "FWD", q1, v, query.dst, y)
            /\ x < K /\ K <= x + w /\ mu = x + w + y
    BY <1>13
  <1>15. u \in Nodes /\ v \in Nodes /\ w \in Nat
    BY <1>2, EndsAreNodes DEF Answering, WeightsAreNat, Dirs
  <1>16. y < K
    <2> HIDE DEF mu, K, w
    <2> QED BY <1>2, <1>6, <1>14, <1>15
  <1>17. costs["FWD"][u] \in Nat /\ costs["FWD"][u] <= x /\ Relaxed("FWD", u)
    <2> HIDE DEF u, K, E
    <2> QED BY <1>2, <1>8, <1>14, <1>15 DEF Dirs
  <1>18. costs["BWD"][v] \in Nat /\ costs["BWD"][v] <= y /\ isVisited["BWD"][v]
    <2>1. WalkOver(E, "BWD", Reverse(q1), query.dst, v, y)
      <3>1. "FWD" \in Dirs /\ Opp("FWD") = "BWD"
        BY DEF Dirs, Opp
      <3> QED BY <1>2, <1>14, <3>1, WalkOverReverse
    <2> HIDE DEF v, K, E
    <2> QED BY <1>2, <1>8, <1>15, <1>16, <2>1 DEF Dirs
  <1>19. AtMost(costs["FWD"][v], costs["FWD"][u] + w)
    BY <1>2, <1>12, <1>17 DEF Relaxed
  <1>20. costs["FWD"][v] \in Nat /\ costs["FWD"][v] <= x + w
    <2>1. costs["FWD"][v] \in Cost /\ costs["FWD"][u] + w \in Nat
      BY <1>2, <1>15, <1>17 DEF Dirs
    <2>2. costs["FWD"][v] \in Nat /\ costs["FWD"][v] <= costs["FWD"][u] + w
      BY <1>19, <2>1, CostOrder
    <2> HIDE DEF u, v, w
    <2> QED BY <1>15, <1>17, <2>2
  <1>21. AtMost(TotalCost(v), mu)
    <2>1. TotalCost(v) = costs["FWD"][v] + costs["BWD"][v]
      BY <1>18, <1>20, PlusFacts DEF TotalCost
    <2>2. TotalCost(v) \in Nat /\ TotalCost(v) <= mu
      <3> HIDE DEF v, w, mu
      <3> QED BY <1>6, <1>14, <1>15, <1>18, <1>20, <2>1
    <2> HIDE DEF mu
    <2> QED BY <1>6, <2>2, CostOrder
  <1>22. Enqueued("FWD", v)
    <2>1. ~isVisited["FWD"][v]
      BY <1>15, <1>18 DEF VisitOrderInv
    <2>2. costs["FWD"][v] # Inf /\ AtMost(costs["FWD"][v], bestMeeting.cost)
      BY <1>20 DEF Inf, AtMost, Cheaper
    <2> QED BY <1>15, <2>1, <2>2 DEF FrontierInv, Dirs
  <1>23. EntryOf("FWD", v) # c
    <2> SUFFICES ASSUME c = EntryOf("FWD", v) PROVE FALSE
      OBVIOUS
    <2>1. c.idx = v
      BY DEF EntryOf
    <2> QED BY <1>21, <2>1
  <1> QED
    BY <1>15, <1>21, <1>22, <1>23 DEF Enqueued

\* A node visited by bidirectional Dijkstra has its distance, until the searches meet.
LEMMA VisitedHasDistance ==
    ASSUME SearchInv, BoundInv, FrontierInv, VisitOrderInv, pc = "search", ~IsCh,
           bestMeeting.idx = None, bestMeeting.cost = Inf,
           NEW dir \in Dirs, NEW v \in Nodes, isVisited[dir][v]
    PROVE  costs[dir][v] = DistanceFrom(dir, v)
  <1> DEFINE E == DOMAIN net.edges
             K == costs[dir][v]
             r == DistanceFrom(dir, v)
  <1>1. InSearch
    BY DEF InSearch
  <1>2. /\ Answering /\ query.src \in Nodes /\ query.dst \in Nodes
        /\ costs \in [Dirs -> [Nodes -> Cost]]
        /\ \A d \in queue : d.cost \in Nat
        /\ Followed(dir) = E
        /\ Origin("FWD") = query.src /\ Origin("BWD") = query.dst
    BY <1>1, SearchFacts DEF Origin, Dirs, Followed
  <1>3. K \in Nat
    BY <1>1, <1>2 DEF SearchInv, VisitedInv, Cost
  <1>4. r \in Cost /\ AtMost(r, K)
    BY <1>1, <1>2, DistanceTriangle DEF BoundInv, DistanceFrom
  <1>5. r \in Nat
    <2> HIDE DEF r, K
    <2> QED BY <1>3, <1>4, CostOrder
  <1>6. \E p : WalkOver(E, dir, p, Origin(dir), v, r)
    <2>1. CASE dir = "FWD"
      <3>1. r = Distance(query.src, v) /\ r # Inf
        BY <1>5, <2>1 DEF DistanceFrom, Inf
      <3> QED BY <1>2, <2>1, <3>1, BestWalk
    <2>2. CASE dir = "BWD"
      <3>1. r = Distance(v, query.dst) /\ r # Inf
        BY <1>5, <2>2 DEF DistanceFrom, Inf
      <3>2. PICK p : WalkOver(E, "FWD", p, v, query.dst, r)
        BY <1>2, <3>1, BestWalk
      <3>3. "FWD" \in Dirs /\ Opp("FWD") = "BWD"
        BY DEF Dirs, Opp
      <3>4. WalkOver(E, "BWD", Reverse(p), query.dst, v, r)
        BY <1>2, <3>2, <3>3, WalkOverReverse
      <3> QED BY <1>2, <2>2, <3>4
    <2> QED BY <2>1, <2>2 DEF Dirs
  <1>7. PICK p : WalkOver(E, dir, p, Origin(dir), v, r)
    BY <1>6
  <1>8. K \in Cost /\ AtMost(K, bestMeeting.cost)
    BY <1>3 DEF Cost, AtMost, Cheaper
  <1>9. \A d \in queue : d.dir = dir => AtMost(K, d.cost)
    <2>1. \A d \in queue : K <= d.cost /\ d.cost \in Nat
      BY <1>2 DEF VisitOrderInv
    <2> HIDE DEF K
    <2> QED BY <1>3, <2>1, CostOrder
  <1>10. AtMost(K, r) \/ AtMost(costs[dir][v], r)
    <2> HIDE DEF K, E, r
    <2> QED BY <1>2, <1>7, <1>8, <1>9, FrontierReach
  <1> QED
    BY <1>4, <1>8, <1>10, CostOrder

-----------------------------------------------------------------------------
(* The inductive invariant *)

\* A meeting node is remembered with its cost.
RememberedInv == InSearch => (bestMeeting.idx = None <=> bestMeeting.cost = Inf)

\* CH-Dijkstra has looked at each node that both searches are done with.
MetInv ==
    pc = "search" /\ IsCh =>
        \A v \in Nodes :
            (\A dir \in Dirs : costs[dir][v] # Inf /\ ~Enqueued(dir, v)) =>
                bestMeeting.idx # None /\ AtMost(bestMeeting.cost, TotalCost(v))

\* When a direction is closed, all that waits costs more than the best path known.
ClosedInv ==
    pc = "search" /\ (foundBest["FWD"] \/ foundBest["BWD"]) =>
        bestMeeting.idx # None /\ \A c \in queue : bestMeeting.cost < c.cost

\* Entry c is up to date and its node on a best path.
Promises(c) == costs[c.dir][c.idx] = c.cost /\ AtMost(TotalCost(c.idx), Shortest)

\* After the first meeting, bidirectional Dijkstra knows the best path or will find it.
PromiseInv ==
    pc = "search" /\ ~IsCh /\ bestMeeting.idx # None =>
        AtMost(bestMeeting.cost, Shortest) \/ \E c \in queue : Promises(c)

\* What the search ends with.
EndInv == pc = "path" => AtMost(bestMeeting.cost, Shortest)

BestInv ==
    /\ RememberedInv
    /\ FrontierInv
    /\ VisitOrderInv
    /\ MetInv
    /\ ClosedInv
    /\ PromiseInv
    /\ EndInv
    /\ BestPath

\* As long as the query is the same, so is all that depends on nothing else.
LEMMA SameQuery ==
    ASSUME UNCHANGED <<net, query>>
    PROVE  /\ Nodes' = Nodes /\ Shortest' = Shortest /\ (IsCh' <=> IsCh)
           /\ \A dir : Followed(dir)' = Followed(dir)
           /\ \A dir, e : Source(dir, e)' = Source(dir, e) /\ Target(dir, e)' = Target(dir, e)
  BY DEF Nodes, NodesOf, Shortest, Distance, Distances, IsCh, Followed, Upward, Source, Target,
         HeadOf, TailOf

LEMMA PoppedIsLeast ==
    ASSUME SearchInv, pc = "search", NEW c \in queue, Popped(c)
    PROVE  \A d \in queue : c.cost <= d.cost
  <1>1. \A d \in queue : d.cost \in Nat
    BY DEF SearchInv, ShapeInv
  <1> SUFFICES ASSUME NEW d \in queue PROVE c.cost <= d.cost
    OBVIOUS
  <1>2. c = d \/ Before(c, d)
    BY DEF Popped
  <1> QED
    BY <1>1, <1>2 DEF Before

\* Every edge that is looked at has been relaxed, whether it improves its target or not.
LEMMA ScannedAreRelaxed ==
    ASSUME SearchInv, NEW c \in queue, Expand(c), NEW i \in Scanned(c)
    PROVE  AtMost(costs'[c.dir][TargetAt(c, i)], CostAt(c, i))
  <1>1. pc = "search" /\ HasImproved(c) /\ InSearch
    BY DEF Expand, InSearch
  <1>2. \A j \in Scanned(c) : /\ j \in Nat /\ j > 0
                              /\ TargetAt(c, j) \in Nodes /\ CostAt(c, j) \in Nat
    BY <1>1, ScannedFacts
  <1> DEFINE v == TargetAt(c, i)
             Better == {j \in Scanned(c) : TargetAt(c, j) = v /\ CostAt(c, j) <= CostAt(c, i)}
  <1>3. i \in Better /\ Better \in SUBSET Nat
    <2>1. CostAt(c, i) <= CostAt(c, i)
      BY <1>2
    <2> QED BY <1>2, <2>1
  <1>4. PICK k \in Better : \A j \in Better : k <= j
    <2> HIDE DEF Better
    <2> QED BY <1>3, LeastExists
  <1>5. /\ costs' \in [Dirs -> [Nodes -> Cost]] /\ costs \in [Dirs -> [Nodes -> Cost]]
        /\ c.dir \in Dirs /\ v \in Nodes
    BY <1>1, <1>2, RelaxedVectors, SearchFacts, ScannedFacts
  <1>6. k \in Scanned(c) /\ TargetAt(c, k) = v /\ CostAt(c, k) <= CostAt(c, i)
    BY <1>4
  <1>7. CASE k \in Improving(c)
    <2>1. v \in Reached(c)
      BY <1>6, <1>7 DEF Reached
    <2>2. CostAt(c, LastTo(c, v)) <= CostAt(c, k) /\ LastTo(c, v) \in Scanned(c)
      BY <1>1, <1>6, <1>7, <2>1, ReachedFacts
    <2>3. costs'[c.dir][v] = CostAt(c, LastTo(c, v))
      BY <2>1, RelaxedVectors
    <2> QED BY <1>2, <1>6, <2>2, <2>3, CostOrder
  <1>8. CASE k \notin Improving(c)
    <2>1. ASSUME NEW j \in Scanned(c), j < k, TargetAt(c, j) = TargetAt(c, k)
          PROVE  CostAt(c, k) < CostAt(c, j)
      <3> SUFFICES ASSUME ~(CostAt(c, k) < CostAt(c, j)) PROVE FALSE
        OBVIOUS
      <3>1. CostAt(c, j) <= CostAt(c, i)
        BY <1>2, <1>6
      <3>2. j \in Better
        BY <1>6, <2>1, <3>1
      <3>3. k <= j
        BY <1>4, <3>2
      <3> HIDE DEF Better
      <3> QED BY <1>2, <1>6, <2>1, <3>3
    <2>2. ~Cheaper(CostAt(c, k), costs[c.dir][v])
      BY <1>6, <1>8, <2>1 DEF Improving
    <2>3. AtMost(costs[c.dir][v], CostAt(c, k))
      BY <2>2 DEF AtMost
    <2>4. costs[c.dir][v] \in Nat /\ costs[c.dir][v] <= CostAt(c, i)
      <3> DEFINE x == costs[c.dir][v]
                 y == CostAt(c, k)
                 z == CostAt(c, i)
      <3>1. x \in Cost /\ y \in Nat /\ z \in Nat /\ y <= z /\ AtMost(x, y)
        BY <1>2, <1>5, <1>6, <2>3
      <3> HIDE DEF x, y, z
      <3>2. x \in Nat /\ x <= z
        BY <3>1, CostOrder
      <3> QED BY <3>2 DEF x, z
    <2>5. costs'[c.dir][v] <= costs[c.dir][v] /\ costs'[c.dir][v] # Inf
      BY <1>5, <2>4, RelaxedVectors DEF Inf
    <2>6. costs'[c.dir][v] \in Nat
      BY <1>5, <2>5 DEF Cost
    <2>7. costs'[c.dir][v] <= CostAt(c, i)
      <3> HIDE DEF v
      <3> QED BY <1>2, <2>4, <2>5, <2>6
    <2> QED BY <1>2, <2>6, <2>7, CostOrder
  <1> QED
    BY <1>7, <1>8

\* CH-Dijkstra stops at the first edge that leads down: after it, all do.
LEMMA FollowedAreScanned ==
    ASSUME SearchInv, NEW c \in queue, Expand(c),
           NEW e \in Followed(c.dir), Source(c.dir, e) = c.idx
    PROVE  \E i \in Scanned(c) : EdgeAt(c, i) = e
  <1> DEFINE dir == c.dir
             v == c.idx
             leaving == net.leaving[dir][v]
             level(u) == net.level[u]
  <1>1. /\ net \in Networks /\ dir \in Dirs /\ v \in Nodes /\ InSearch
        /\ e \in DOMAIN net.edges
    <2>1. pc = "search" /\ HasImproved(c) /\ InSearch
      BY DEF Expand, InSearch
    <2> QED BY <2>1, SearchFacts, ScannedFacts DEF Answering
  <1>2. /\ DOMAIN leaving = 1 .. Len(leaving) /\ Len(leaving) \in Nat
        /\ {leaving[i] : i \in DOMAIN leaving} = {d \in DOMAIN net.edges : Source(dir, d) = v}
        /\ \A i, j \in DOMAIN leaving : i < j =>
              level(Target(dir, leaving[i])) >= level(Target(dir, leaving[j]))
    BY <1>1, LeavingList
  <1>3. PICK i \in DOMAIN leaving : leaving[i] = e
    BY <1>1, <1>2
  <1>4. i \in Scanned(c)
    <2> SUFFICES ASSUME IsCh, NEW j \in 1 .. i PROVE ~LeadsDown(c, leaving[j])
      BY DEF Scanned
    <2>1. level(v) <= level(Target(dir, e))
      BY DEF Followed, Upward, Source, Target
    <2>2. j \in DOMAIN leaving /\ i \in 1 .. Len(leaving)
      BY <1>2
    <2>3. \A u \in Nodes : level(u) \in Nat
      <3>1. IsNetwork(net)
        BY <1>1, DijkstraAssumption
      <3> QED BY <3>1 DEF IsNetwork, Nodes
    <2>4. level(Target(dir, leaving[j])) >= level(Target(dir, leaving[i]))
      <3>1. CASE j = i
        <4>1. Target(dir, e) \in Nodes
          BY <1>1, EndsAreNodes
        <4> QED BY <1>3, <2>3, <3>1, <4>1
      <3>2. CASE j # i
        BY <1>2, <2>2, <3>2
      <3> QED BY <3>1, <3>2
    <2>5. /\ leaving[j] \in DOMAIN net.edges
          /\ Target(dir, leaving[j]) \in Nodes /\ Target(dir, e) \in Nodes
      BY <1>1, <1>2, <2>2, EndsAreNodes
    <2>6. level(v) <= level(Target(dir, leaving[j]))
      <3>1. /\ level(v) \in Nat /\ level(Target(dir, leaving[j])) \in Nat
            /\ level(Target(dir, e)) \in Nat
        BY <1>1, <2>3, <2>5
      <3>2. level(Target(dir, leaving[j])) >= level(Target(dir, e))
        BY <1>3, <2>4
      <3> HIDE DEF level, leaving
      <3> QED BY <2>1, <3>1, <3>2
    <2>7. level(v) \in Nat /\ level(Target(dir, leaving[j])) \in Nat
      BY <1>1, <2>3, <2>5
    <2> QED BY <2>6, <2>7 DEF LeadsDown
  <1> QED
    BY <1>3, <1>4 DEF EdgeAt

-----------------------------------------------------------------------------
(* Expanding an entry *)

LEMMA ExpandFacts ==
    ASSUME SearchInv, RememberedInv, NEW c \in queue, Expand(c)
    PROVE  /\ pc = "search" /\ InSearch /\ HasImproved(c) /\ pc' = "search"
           /\ c.dir \in Dirs /\ c.idx \in Nodes /\ c.cost \in Nat
           /\ \A d \in queue : c.cost <= d.cost /\ d.cost \in Nat
           /\ UNCHANGED <<net, query, foundBest>> /\ isVisited' = Visit(c)
           /\ costs \in [Dirs -> [Nodes -> Cost]] /\ costs' \in [Dirs -> [Nodes -> Cost]]
           /\ \A dir \in Dirs, v \in Nodes : AtMost(costs'[dir][v], costs[dir][v])
           /\ \A dir \in Dirs, v \in Nodes :
                 dir # c.dir \/ v \notin Reached(c) => costs'[dir][v] = costs[dir][v]
           /\ c.idx \notin Reached(c) /\ costs[c.dir][c.idx] = c.cost
           /\ queue' = (queue \ {c}) \cup Pushed(c)
           /\ \A p \in Pushed(c) : p.cost \in Nat /\ c.cost <= p.cost
  <1>1. /\ pc = "search" /\ HasImproved(c) /\ InSearch /\ pc' = "search" /\ Popped(c)
        /\ UNCHANGED <<net, query, foundBest>> /\ isVisited' = Visit(c)
        /\ queue' = (queue \ {c}) \cup Pushed(c)
    BY DEF Expand, InSearch
  <1>2. /\ c.dir \in Dirs /\ c.idx \in Nodes /\ c.cost \in Nat
        /\ costs[c.dir][c.idx] = c.cost /\ c.idx \notin Reached(c)
    BY <1>1, ScannedFacts, ReachedFacts
  <1>3. \A d \in queue : c.cost <= d.cost /\ d.cost \in Nat
    BY <1>1, PoppedIsLeast, SearchFacts
  <1>4. costs \in [Dirs -> [Nodes -> Cost]] /\ costs' \in [Dirs -> [Nodes -> Cost]]
    BY <1>1, SearchFacts, RelaxedVectors
  <1>5. \A dir \in Dirs, v \in Nodes :
            dir # c.dir \/ v \notin Reached(c) => costs'[dir][v] = costs[dir][v]
    BY <1>2, RelaxedVectors
  <1>6. ASSUME NEW dir \in Dirs, NEW v \in Nodes PROVE AtMost(costs'[dir][v], costs[dir][v])
    <2>1. costs'[dir][v] \in Cost /\ costs[dir][v] \in Cost
      BY <1>4
    <2>2. costs[dir][v] # Inf => costs'[dir][v] # Inf /\ costs'[dir][v] <= costs[dir][v]
      BY RelaxedVectors
    <2> QED BY <2>1, <2>2 DEF AtMost, Cheaper, Cost, Inf
  <1>7. ASSUME NEW p \in Pushed(c) PROVE p.cost \in Nat /\ c.cost <= p.cost
    <2>1. PICK i \in Improving(c) : p.cost = CostAt(c, i)
      BY DEF Pushed
    <2> QED BY <1>1, <2>1, ReachedFacts, ScannedFacts
  <1> QED
    BY <1>1, <1>2, <1>3, <1>4, <1>5, <1>6, <1>7

LEMMA RememberedFacts ==
    ASSUME SearchInv, RememberedInv, NEW c \in queue, Expand(c)
    PROVE  /\ AtMost(bestMeeting'.cost, bestMeeting.cost) /\ bestMeeting'.cost \in Cost
           /\ bestMeeting.idx # None \/ IsMeeting(c) =>
                 bestMeeting'.idx # None /\ AtMost(bestMeeting'.cost, TotalCost(c.idx))
           /\ bestMeeting.idx = None /\ ~IsMeeting(c) => bestMeeting' = bestMeeting
           /\ bestMeeting'.idx = None <=> bestMeeting'.cost = Inf
  <1>1. /\ bestMeeting' = NextMeeting(c) /\ pc = "search" /\ InSearch
        /\ c.dir \in Dirs /\ c.idx \in Nodes
    BY ExpandFacts DEF Expand
  <1>2. /\ bestMeeting.cost \in Cost
        /\ bestMeeting.idx = None <=> bestMeeting.cost = Inf
    BY <1>1, SearchFacts DEF RememberedInv
  <1>3. TotalCost(c.idx) \in Cost
    <2>1. costs["FWD"][c.idx] \in Cost /\ costs["BWD"][c.idx] \in Cost
      BY <1>1, ExpandFacts DEF Dirs
    <2> QED BY <2>1, PlusFacts DEF TotalCost
  <1>4. c.idx # None
    BY <1>1, NetworkFacts DEF SearchInv, ShapeInv
  <1>5. CASE /\ bestMeeting.idx # None
             /\ ~Cheaper(TotalCost(c.idx), bestMeeting.cost)
    <2>1. bestMeeting' = bestMeeting
      BY <1>1, <1>5 DEF NextMeeting
    <2> QED BY <1>2, <1>5, <2>1, CostOrder DEF AtMost
  <1>6. CASE /\ bestMeeting.idx # None
             /\ Cheaper(TotalCost(c.idx), bestMeeting.cost)
    <2>1. bestMeeting' = [idx |-> c.idx, cost |-> TotalCost(c.idx)]
      BY <1>1, <1>6 DEF NextMeeting
    <2>2. TotalCost(c.idx) # Inf
      BY <1>6 DEF Cheaper
    <2>3. AtMost(TotalCost(c.idx), bestMeeting.cost)
      BY <1>2, <1>3, <1>6, CostOrder DEF AtMost
    <2> QED BY <1>3, <1>4, <1>6, <2>1, <2>2, <2>3, CostOrder
  <1>7. CASE bestMeeting.idx = None /\ IsMeeting(c)
    <2>1. bestMeeting' = [idx |-> c.idx, cost |-> TotalCost(c.idx)]
      BY <1>1, <1>7 DEF NextMeeting
    <2>2. bestMeeting'.cost # Inf
      BY <1>1, <1>4, <2>1, MeetingFacts DEF Inf
    <2>3. AtMost(TotalCost(c.idx), bestMeeting.cost)
      BY <1>2, <1>3, <1>7, CostOrder
    <2> QED BY <1>3, <1>4, <1>7, <2>1, <2>2, <2>3, CostOrder
  <1>8. CASE bestMeeting.idx = None /\ ~IsMeeting(c)
    <2>1. bestMeeting' = bestMeeting
      BY <1>1, <1>8 DEF NextMeeting
    <2> QED BY <1>2, <1>8, <2>1, CostOrder
  <1> QED
    BY <1>5, <1>6, <1>7, <1>8

\* Who waits afterwards: all who did, but for the node that is expanded and those it reaches, and
\* those it reaches if any are enqueued.
LEMMA WhoWaits ==
    ASSUME SearchInv, RememberedInv, NEW c \in queue, Expand(c)
    PROVE  /\ \A dir \in Dirs, v \in Nodes :
                 ~(dir = c.dir /\ v \in Reached(c)) /\ ~(dir = c.dir /\ v = c.idx) =>
                     (Enqueued(dir, v) => Enqueued(dir, v)')
           /\ IsCh \/ bestMeeting'.idx = None => \A v \in Reached(c) : Enqueued(c.dir, v)'
  <1>1. ASSUME NEW dir \in Dirs, NEW v \in Nodes,
               ~(dir = c.dir /\ v \in Reached(c)), ~(dir = c.dir /\ v = c.idx), Enqueued(dir, v)
        PROVE  Enqueued(dir, v)'
    <2>1. costs'[dir][v] = costs[dir][v]
      BY <1>1, ExpandFacts
    <2>2. EntryOf(dir, v) # c
      BY <1>1 DEF EntryOf
    <2>3. EntryOf(dir, v) \in queue'
      BY <1>1, <2>2, ExpandFacts DEF Enqueued
    <2> QED BY <2>1, <2>3 DEF Enqueued, EntryOf
  <1>2. ASSUME IsCh \/ bestMeeting'.idx = None, NEW v \in Reached(c) PROVE Enqueued(c.dir, v)'
    <2>1. bestMeeting' = NextMeeting(c) /\ pc = "search" /\ HasImproved(c)
      BY DEF Expand
    <2> DEFINE i == LastTo(c, v)
    <2>2. i \in Improving(c) /\ TargetAt(c, i) = v /\ costs'[c.dir][v] = CostAt(c, i)
      BY <2>1, ReachedFacts, RelaxedVectors
    <2>3. [cost |-> CostAt(c, i), idx |-> TargetAt(c, i), dir |-> c.dir] \in Pushed(c)
      <3> HIDE DEF i
      <3> QED BY <1>2, <2>1, <2>2 DEF Pushed
    <2>4. [cost |-> costs'[c.dir][v], idx |-> v, dir |-> c.dir] \in queue'
      BY <2>2, <2>3, ExpandFacts
    <2> QED BY <2>4 DEF Enqueued, EntryOf
  <1> QED
    BY <1>1, <1>2

LEMMA ExpandKeepsFrontier ==
    ASSUME SearchInv, RememberedInv, FrontierInv, NEW c \in queue, Expand(c)
    PROVE  FrontierInv'
  <1>1. /\ pc = "search" /\ InSearch /\ UNCHANGED <<net, query>> /\ isVisited' = Visit(c)
        /\ c.dir \in Dirs /\ c.idx \in Nodes /\ c.cost \in Nat
        /\ costs \in [Dirs -> [Nodes -> Cost]] /\ costs' \in [Dirs -> [Nodes -> Cost]]
        /\ c.idx \notin Reached(c) /\ costs[c.dir][c.idx] = c.cost
    BY ExpandFacts
  <1>2. /\ Nodes' = Nodes /\ (IsCh' <=> IsCh)
        /\ \A dir : Followed(dir)' = Followed(dir)
        /\ \A dir, e : Source(dir, e)' = Source(dir, e) /\ Target(dir, e)' = Target(dir, e)
    BY <1>1, SameQuery
  <1> SUFFICES ASSUME IsCh \/ bestMeeting'.idx = None, NEW dir \in Dirs, NEW v \in Nodes,
                      costs'[dir][v] # Inf, AtMost(costs'[dir][v], bestMeeting'.cost),
                      ~Enqueued(dir, v)'
               PROVE  Relaxed(dir, v)' /\ (~IsCh => isVisited'[dir][v])
    BY <1>2 DEF FrontierInv
  <1>3. ~(dir = c.dir /\ v \in Reached(c))
    BY WhoWaits
  <1>4. costs'[dir][v] = costs[dir][v]
    BY <1>3, ExpandFacts
  <1>5. ASSUME NEW e \in Followed(dir), Source(dir, e) = v
        PROVE  /\ Target(dir, e) \in Nodes /\ e \in DOMAIN net.edges
               /\ Weight(query.alphas, net.edges[e]) \in Nat
    <2>1. e \in DOMAIN net.edges /\ net \in Networks /\ WeightsAreNat
      BY <1>1, SearchFacts DEF Answering
    <2> QED BY <2>1, EndsAreNodes DEF WeightsAreNat
  <1>6. CASE dir = c.dir /\ v = c.idx
    <2>1. ASSUME NEW e \in Followed(dir), Source(dir, e) = v
          PROVE  AtMost(costs'[dir][Target(dir, e)], costs'[dir][v] + Weight(query.alphas, net.edges[e]))
      <3>1. PICK i \in Scanned(c) : EdgeAt(c, i) = e
        BY <1>6, <2>1, FollowedAreScanned
      <3>2. AtMost(costs'[dir][Target(dir, e)], CostAt(c, i))
        BY <1>6, <3>1, ScannedAreRelaxed DEF TargetAt
      <3> QED BY <1>1, <1>4, <1>6, <3>1, <3>2 DEF CostAt
    <2>2. Relaxed(dir, v)'
      BY <1>1, <1>2, <2>1 DEF Relaxed
    <2>3. ~IsCh => isVisited'[dir][v]
      <3> SUFFICES ASSUME ~IsCh PROVE isVisited'[dir][v]
        OBVIOUS
      <3>1. isVisited \in [Dirs -> [Nodes -> BOOLEAN]]
        <4>1. \A d \in Dirs : isVisited[d] \in [Nodes -> BOOLEAN]
          BY <1>1 DEF SearchInv, ShapeInv, Vector
        <4>2. isVisited = [d \in Dirs |-> isVisited[d]]
          BY DEF SearchInv, ShapeInv
        <4> QED BY <4>1, <4>2
      <3>2. isVisited' = [isVisited EXCEPT ![c.dir][c.idx] = TRUE]
        BY <1>1 DEF Visit
      <3> QED BY <1>1, <1>6, <3>1, <3>2
    <2> QED BY <2>2, <2>3
  <1>7. CASE ~(dir = c.dir /\ v = c.idx)
    <2>1. ~Enqueued(dir, v)
      BY <1>3, <1>7, WhoWaits
    <2>2. AtMost(costs[dir][v], bestMeeting.cost)
      <3>1. AtMost(bestMeeting'.cost, bestMeeting.cost) /\ bestMeeting'.cost \in Cost
        BY RememberedFacts
      <3>2. bestMeeting.cost \in Cost /\ costs[dir][v] \in Cost
        BY <1>1, SearchFacts
      <3> QED BY <1>4, <3>1, <3>2, CostOrder
    <2>3. IsCh \/ bestMeeting.idx = None
      BY RememberedFacts
    <2>4. Relaxed(dir, v) /\ (~IsCh => isVisited[dir][v])
      BY <1>1, <1>4, <2>1, <2>2, <2>3 DEF FrontierInv
    <2>5. ASSUME NEW e \in Followed(dir), Source(dir, e) = v
          PROVE  AtMost(costs'[dir][Target(dir, e)], costs'[dir][v] + Weight(query.alphas, net.edges[e]))
      <3> DEFINE t == Target(dir, e)
                 x == costs[dir][v] + Weight(query.alphas, net.edges[e])
      <3>1. AtMost(costs[dir][t], x)
        BY <2>4, <2>5 DEF Relaxed
      <3>2. AtMost(costs'[dir][t], costs[dir][t])
        BY <1>5, <2>5, ExpandFacts
      <3>3. costs'[dir][t] \in Cost /\ costs[dir][t] \in Cost
        BY <1>1, <1>5, <2>5
      <3>4. x \in Cost
        BY <1>1, <1>4, <1>5, <2>5 DEF Cost
      <3>5. AtMost(costs'[dir][t], x)
        <4> HIDE DEF t, x
        <4> QED BY <3>1, <3>2, <3>3, <3>4, CostOrder
      <3> QED BY <1>4, <3>5
    <2>6. Relaxed(dir, v)'
      BY <1>1, <1>2, <2>5 DEF Relaxed
    <2>7. ~IsCh => isVisited'[dir][v]
      <3> SUFFICES ASSUME ~IsCh PROVE isVisited'[dir][v]
        OBVIOUS
      <3>1. isVisited' = [isVisited EXCEPT ![c.dir][c.idx] = TRUE]
        BY <1>1 DEF Visit
      <3>2. isVisited[dir] \in [Nodes -> BOOLEAN] /\ isVisited \in [Dirs -> Vector(BOOLEAN)]
        BY <1>1 DEF SearchInv, ShapeInv, Vector
      <3> QED BY <1>1, <1>7, <2>4, <3>1, <3>2
    <2> QED BY <2>6, <2>7
  <1> QED
    BY <1>6, <1>7

LEMMA ExpandKeepsVisitOrder ==
    ASSUME SearchInv, RememberedInv, VisitOrderInv, NEW c \in queue, Expand(c)
    PROVE  VisitOrderInv'
  <1>1. /\ pc = "search" /\ InSearch /\ UNCHANGED <<net, query>> /\ isVisited' = Visit(c)
        /\ c.dir \in Dirs /\ c.idx \in Nodes /\ c.cost \in Nat
        /\ costs \in [Dirs -> [Nodes -> Cost]] /\ costs' \in [Dirs -> [Nodes -> Cost]]
        /\ c.idx \notin Reached(c) /\ costs[c.dir][c.idx] = c.cost
    BY ExpandFacts
  <1>2. Nodes' = Nodes /\ (IsCh' <=> IsCh)
    BY <1>1, SameQuery
  <1> SUFFICES ASSUME ~IsCh, bestMeeting'.idx = None
               PROVE  /\ \A dir \in Dirs : \A v \in Nodes :
                            isVisited'[dir][v] => \A d \in queue' : costs'[dir][v] <= d.cost
                      /\ \A v \in Nodes : ~isVisited'["FWD"][v] \/ ~isVisited'["BWD"][v]
    BY <1>2 DEF VisitOrderInv
  <1>3. bestMeeting.idx = None /\ ~IsMeeting(c)
    BY RememberedFacts
  <1>4. \A dir \in Dirs : \A v \in Nodes :
            isVisited'[dir][v] => isVisited[dir][v] \/ (dir = c.dir /\ v = c.idx)
    BY <1>1, VisitFacts
  <1>5. ASSUME NEW dir \in Dirs, NEW v \in Nodes, isVisited'[dir][v], NEW d \in queue'
        PROVE  costs'[dir][v] <= d.cost
    <2>1. costs[dir][v] \in Nat /\ costs[dir][v] <= c.cost
      <3>1. CASE isVisited[dir][v]
        BY <1>1, <1>3, <3>1 DEF VisitOrderInv, SearchInv, VisitedInv, Cost
      <3>2. CASE dir = c.dir /\ v = c.idx
        BY <1>1, <3>2
      <3> QED BY <1>4, <1>5, <3>1, <3>2
    <2>2. costs'[dir][v] \in Nat /\ costs'[dir][v] <= costs[dir][v]
      <3>1. AtMost(costs'[dir][v], costs[dir][v]) /\ costs'[dir][v] \in Cost
        BY <1>1, ExpandFacts
      <3> QED BY <2>1, <3>1, CostOrder
    <2>3. d.cost \in Nat /\ c.cost <= d.cost
      BY ExpandFacts
    <2> QED BY <1>1, <2>1, <2>2, <2>3
  <1>6. ASSUME NEW v \in Nodes, isVisited'["FWD"][v], isVisited'["BWD"][v] PROVE FALSE
    <2>1. ~isVisited[Opp(c.dir)][c.idx]
      BY <1>3 DEF IsMeeting
    <2>2. /\ isVisited["FWD"][v] \/ (c.dir = "FWD" /\ v = c.idx)
          /\ isVisited["BWD"][v] \/ (c.dir = "BWD" /\ v = c.idx)
      BY <1>4, <1>6 DEF Dirs
    <2>3. ~isVisited["FWD"][v] \/ ~isVisited["BWD"][v]
      BY <1>1, <1>3 DEF VisitOrderInv
    <2> QED BY <1>1, <2>1, <2>2, <2>3 DEF Opp, Dirs
  <1> QED
    BY <1>5, <1>6

LEMMA ExpandKeepsMet ==
    ASSUME SearchInv, RememberedInv, MetInv, NEW c \in queue, Expand(c)
    PROVE  MetInv'
  <1>1. /\ pc = "search" /\ InSearch /\ UNCHANGED <<net, query>>
        /\ c.dir \in Dirs /\ c.idx \in Nodes
        /\ costs \in [Dirs -> [Nodes -> Cost]] /\ costs' \in [Dirs -> [Nodes -> Cost]]
    BY ExpandFacts
  <1>2. Nodes' = Nodes /\ (IsCh' <=> IsCh)
    BY <1>1, SameQuery
  <1> SUFFICES ASSUME IsCh, NEW v \in Nodes,
                      \A dir \in Dirs : costs'[dir][v] # Inf /\ ~Enqueued(dir, v)'
               PROVE  bestMeeting'.idx # None /\ AtMost(bestMeeting'.cost, TotalCost(v)')
    BY <1>2 DEF MetInv
  <1>3. v \notin Reached(c)
    BY <1>1, WhoWaits
  <1>4. \A dir \in Dirs : costs'[dir][v] = costs[dir][v]
    BY <1>3, ExpandFacts
  <1>5. TotalCost(v)' = TotalCost(v) /\ TotalCost(v) \in Cost
    <2>1. costs["FWD"][v] \in Cost /\ costs["BWD"][v] \in Cost
      BY <1>1 DEF Dirs
    <2> QED BY <1>4, <2>1, PlusFacts DEF TotalCost, Dirs
  <1>6. CASE v = c.idx
    <2>1. IsMeeting(c)
      BY <1>1, <1>4, <1>6 DEF IsMeeting, Opp, Dirs
    <2> QED BY <1>5, <1>6, <2>1, RememberedFacts
  <1>7. CASE v # c.idx
    <2>1. \A dir \in Dirs : costs[dir][v] # Inf /\ ~Enqueued(dir, v)
      BY <1>3, <1>4, <1>7, WhoWaits
    <2>2. bestMeeting.idx # None /\ AtMost(bestMeeting.cost, TotalCost(v))
      BY <1>1, <2>1 DEF MetInv
    <2>3. /\ AtMost(bestMeeting'.cost, bestMeeting.cost) /\ bestMeeting'.idx # None
          /\ bestMeeting'.cost \in Cost /\ bestMeeting.cost \in Cost
      BY <1>1, <2>2, RememberedFacts, SearchFacts
    <2> QED BY <1>5, <2>2, <2>3, CostOrder
  <1> QED
    BY <1>6, <1>7

LEMMA ExpandKeepsClosed ==
    ASSUME SearchInv, RememberedInv, ClosedInv, NEW c \in queue, Expand(c)
    PROVE  ClosedInv'
  <1>1. pc = "search" /\ InSearch /\ foundBest' = foundBest /\ c.cost \in Nat
    BY ExpandFacts
  <1>2. bestMeeting.idx = None \/ ~Cheaper(bestMeeting.cost, c.cost)
    BY DEF Expand
  <1>3. ASSUME foundBest["FWD"] \/ foundBest["BWD"] PROVE FALSE
    <2>1. bestMeeting.idx # None /\ bestMeeting.cost < c.cost
      BY <1>1, <1>3 DEF ClosedInv
    <2>2. bestMeeting.cost # Inf
      BY <1>1, <2>1 DEF RememberedInv
    <2> QED BY <1>2, <2>1, <2>2 DEF Cheaper
  <1> QED
    BY <1>1, <1>3 DEF ClosedInv

\* Nothing that the expansion of another entry does can improve a node on the best path.
LEMMA PromiseStays ==
    ASSUME SearchInv, RememberedInv, NEW c \in queue, Expand(c), BoundInv', Shortest \in Nat,
           NEW d \in queue, d # c, Promises(d)
    PROVE  d \in queue' /\ Promises(d)'
  <1>1. /\ InSearch' /\ UNCHANGED <<net, query>>
        /\ costs \in [Dirs -> [Nodes -> Cost]] /\ costs' \in [Dirs -> [Nodes -> Cost]]
        /\ \A dir \in Dirs, v \in Nodes : AtMost(costs'[dir][v], costs[dir][v])
        /\ d \in queue'
    BY ExpandFacts DEF InSearch
  <1>2. Nodes' = Nodes /\ Shortest' = Shortest
    BY <1>1, SameQuery
  <1>3. d.dir \in Dirs /\ d.idx \in Nodes /\ d.cost \in Nat
    BY ExpandFacts, SearchFacts
  <1> DEFINE f == costs["FWD"][d.idx]
             b == costs["BWD"][d.idx]
             ff == costs'["FWD"][d.idx]
             bb == costs'["BWD"][d.idx]
             mu == Shortest
  <1>4. /\ f \in Cost /\ b \in Cost /\ ff \in Cost /\ bb \in Cost
        /\ AtMost(ff, f) /\ AtMost(bb, b)
    BY <1>1, <1>3 DEF Dirs
  <1>5. AtMost(CostSum(f, b), mu) /\ AtMost(mu, CostSum(ff, bb))
    BY <1>1, <1>2, <1>3 DEF Promises, TotalCost, BoundInv
  <1>6. mu \in Nat
    OBVIOUS
  <1> HIDE DEF f, b, ff, bb, mu
  <1>7. ff = f /\ bb = b
    BY <1>4, <1>5, <1>6 DEF AtMost, Cheaper, Cost, Inf, CostSum
  <1>8. costs'[d.dir][d.idx] = d.cost
    <2>1. costs'[d.dir][d.idx] = costs[d.dir][d.idx]
      BY <1>3, <1>7 DEF f, b, ff, bb, Dirs
    <2> QED BY <2>1 DEF Promises
  <1>9. AtMost(TotalCost(d.idx)', Shortest')
    BY <1>2, <1>5, <1>7 DEF TotalCost, f, b, ff, bb, mu
  <1> QED
    BY <1>1, <1>8, <1>9 DEF Promises

LEMMA ExpandKeepsPromise ==
    ASSUME SearchInv, RememberedInv, FrontierInv, VisitOrderInv, PromiseInv, BoundInv',
           NEW c \in queue, Expand(c)
    PROVE  PromiseInv'
  <1>1. /\ pc = "search" /\ InSearch /\ UNCHANGED <<net, query>> /\ HasImproved(c)
        /\ c.idx \in Nodes /\ \A d \in queue : c.cost <= d.cost
        /\ costs \in [Dirs -> [Nodes -> Cost]]
    BY ExpandFacts
  <1>2. Nodes' = Nodes /\ (IsCh' <=> IsCh) /\ Shortest' = Shortest
    BY <1>1, SameQuery
  <1> SUFFICES ASSUME ~IsCh, bestMeeting'.idx # None, ~AtMost(bestMeeting'.cost, Shortest)
               PROVE  \E d \in queue' : Promises(d)'
    BY <1>2 DEF PromiseInv
  <1>3. Shortest \in Cost /\ TotalCost(c.idx) \in Cost
    <2>1. Shortest \in Cost
      BY <1>1, SearchFacts, DistanceTriangle DEF Shortest
    <2>2. costs["FWD"][c.idx] \in Cost /\ costs["BWD"][c.idx] \in Cost
      BY <1>1 DEF Dirs
    <2> QED BY <2>1, <2>2, PlusFacts DEF TotalCost
  <1>4. Shortest \in Nat
    BY <1>3 DEF Cost, AtMost, Cheaper
  <1>5. /\ bestMeeting.cost \in Cost /\ bestMeeting'.cost \in Cost
        /\ AtMost(bestMeeting'.cost, bestMeeting.cost)
    BY <1>1, RememberedFacts, SearchFacts
  <1>6. bestMeeting.idx # None \/ IsMeeting(c)
    BY RememberedFacts
  <1>7. ~AtMost(TotalCost(c.idx), Shortest)
    BY <1>3, <1>5, <1>6, RememberedFacts, CostOrder
  <1>8. CASE bestMeeting.idx = None
    <2>1. bestMeeting.cost = Inf /\ IsMeeting(c)
      BY <1>1, <1>6, <1>8 DEF RememberedInv
    <2>2. PICK v \in Nodes : /\ EntryOf("FWD", v) \in queue \ {c}
                             /\ AtMost(TotalCost(v), Shortest)
      BY <1>1, <1>7, <1>8, <2>1, FirstMeetingFacts
    <2> DEFINE d == EntryOf("FWD", v)
    <2>3. d \in queue /\ d # c /\ Promises(d)
      BY <2>2 DEF Promises, EntryOf
    <2> HIDE DEF d
    <2> QED BY <1>4, <2>3, PromiseStays
  <1>9. CASE bestMeeting.idx # None
    <2>1. ~AtMost(bestMeeting.cost, Shortest)
      BY <1>3, <1>5, CostOrder
    <2>2. PICK d \in queue : Promises(d)
      BY <1>1, <1>9, <2>1 DEF PromiseInv
    <2>3. d # c
      BY <1>7, <2>2 DEF Promises
    <2> QED BY <1>4, <2>2, <2>3, PromiseStays
  <1> QED
    BY <1>8, <1>9

LEMMA ExpandKeepsBest ==
    ASSUME SearchInv, BestInv, BoundInv', NEW c \in queue, Expand(c)
    PROVE  BestInv'
  <1>1. /\ RememberedInv /\ FrontierInv /\ VisitOrderInv /\ MetInv /\ ClosedInv /\ PromiseInv
    BY DEF BestInv
  <1>2. FrontierInv' /\ VisitOrderInv'
    BY <1>1, ExpandKeepsFrontier, ExpandKeepsVisitOrder
  <1>3. MetInv' /\ ClosedInv' /\ PromiseInv'
    BY <1>1, ExpandKeepsMet, ExpandKeepsClosed, ExpandKeepsPromise
  <1>4. RememberedInv' /\ pc' = "search"
    BY <1>1, RememberedFacts, ExpandFacts DEF RememberedInv
  <1>5. EndInv' /\ BestPath'
    BY <1>4 DEF EndInv, BestPath
  <1> QED
    BY <1>2, <1>3, <1>4, <1>5 DEF BestInv

-----------------------------------------------------------------------------
(* The other steps *)

\* An entry that is taken and not expanded: its node has become cheaper, or it costs more than
\* the best path known.
LEMMA RejectingKeeps ==
    ASSUME SearchInv, BestInv, pc = "search", pc' = "search", NEW c \in queue,
           \/ costs[c.dir][c.idx] # c.cost
           \/ bestMeeting.idx # None /\ Cheaper(bestMeeting.cost, c.cost),
           queue' = queue \ {c}, UNCHANGED <<net, query, costs, bestMeeting>>,
           bestMeeting.idx = None => isVisited' = isVisited,
           ClosedInv'
    PROVE  BestInv'
  <1> DEFINE TooExpensive == bestMeeting.idx # None /\ Cheaper(bestMeeting.cost, c.cost)
  <1>1. /\ RememberedInv /\ FrontierInv /\ VisitOrderInv /\ MetInv /\ PromiseInv /\ InSearch
    BY DEF BestInv, InSearch
  <1>2. /\ Nodes' = Nodes /\ (IsCh' <=> IsCh) /\ Shortest' = Shortest
        /\ \A dir : Followed(dir)' = Followed(dir)
        /\ \A dir, e : Source(dir, e)' = Source(dir, e) /\ Target(dir, e)' = Target(dir, e)
    BY SameQuery
  <1>3. /\ costs \in [Dirs -> [Nodes -> Cost]] /\ bestMeeting.cost \in Cost
        /\ c.dir \in Dirs /\ c.idx \in Nodes /\ c.cost \in Nat
    BY <1>1, SearchFacts
  <1>4. \A dir, v : Enqueued(dir, v)' <=> Enqueued(dir, v) /\ EntryOf(dir, v) # c
    BY DEF Enqueued, EntryOf
  <1>5. \A v : TotalCost(v)' = TotalCost(v)
    BY DEF TotalCost
  <1>6. \A dir, v : EntryOf(dir, v) = c => c.dir = dir /\ c.idx = v /\ costs[dir][v] = c.cost
    BY DEF EntryOf
  <1>7. RememberedInv'
    BY <1>1 DEF RememberedInv, InSearch
  <1>8. FrontierInv'
    <2> SUFFICES ASSUME IsCh \/ bestMeeting.idx = None, NEW dir \in Dirs, NEW v \in Nodes,
                        costs[dir][v] # Inf, AtMost(costs[dir][v], bestMeeting.cost),
                        ~Enqueued(dir, v)'
                 PROVE  Relaxed(dir, v)' /\ (~IsCh => isVisited'[dir][v])
      BY <1>2 DEF FrontierInv
    <2>1. ~Enqueued(dir, v)
      BY <1>4, <1>6 DEF AtMost
    <2>2. Relaxed(dir, v) /\ (~IsCh => isVisited[dir][v])
      BY <1>1, <2>1 DEF FrontierInv
    <2>3. Relaxed(dir, v)'
      BY <1>2, <2>2 DEF Relaxed
    <2> QED BY <2>2, <2>3
  <1>9. VisitOrderInv'
    BY <1>1, <1>2 DEF VisitOrderInv
  <1>10. MetInv'
    <2> SUFFICES ASSUME IsCh, NEW v \in Nodes,
                        \A dir \in Dirs : costs[dir][v] # Inf /\ ~Enqueued(dir, v)'
                 PROVE  bestMeeting.idx # None /\ AtMost(bestMeeting.cost, TotalCost(v))
      BY <1>2, <1>5 DEF MetInv
    <2>1. CASE \A dir \in Dirs : EntryOf(dir, v) # c
      BY <1>1, <1>4, <2>1 DEF MetInv
    <2>2. CASE \E dir \in Dirs : EntryOf(dir, v) = c
      <3>1. TooExpensive /\ v = c.idx /\ costs[c.dir][v] = c.cost
        BY <1>6, <2>2
      <3>2. AtMost(c.cost, TotalCost(v)) /\ TotalCost(v) \in Cost
        <4>1. costs["FWD"][v] \in Cost /\ costs["BWD"][v] \in Cost
          BY <1>3 DEF Dirs
        <4> QED BY <1>3, <3>1, <4>1, PlusFacts DEF TotalCost, Dirs
      <3>3. AtMost(bestMeeting.cost, c.cost) /\ c.cost \in Cost
        BY <1>3, <3>1, CostOrder DEF AtMost, Cost
      <3> QED BY <1>3, <3>1, <3>2, <3>3, CostOrder
    <2> QED BY <2>1, <2>2
  <1>11. PromiseInv'
    <2> SUFFICES ASSUME ~IsCh, bestMeeting.idx # None, ~AtMost(bestMeeting.cost, Shortest)
                 PROVE  \E d \in queue' : Promises(d)'
      BY <1>2 DEF PromiseInv
    <2>1. PICK d \in queue : Promises(d)
      BY <1>1 DEF PromiseInv
    <2>2. Promises(d)'
      BY <1>2, <1>5, <2>1 DEF Promises
    <2>3. d # c
      <3> SUFFICES ASSUME d = c PROVE FALSE
        OBVIOUS
      <3>1. TooExpensive /\ AtMost(TotalCost(c.idx), Shortest) /\ costs[c.dir][c.idx] = c.cost
        BY <2>1 DEF Promises
      <3>2. AtMost(c.cost, TotalCost(c.idx)) /\ TotalCost(c.idx) \in Cost
        <4>1. costs["FWD"][c.idx] \in Cost /\ costs["BWD"][c.idx] \in Cost
          BY <1>3 DEF Dirs
        <4> QED BY <1>3, <3>1, <4>1, PlusFacts DEF TotalCost, Dirs
      <3>3. AtMost(bestMeeting.cost, c.cost) /\ c.cost \in Cost
        BY <1>3, <3>1, CostOrder DEF AtMost, Cost
      <3>4. Shortest \in Cost
        BY <1>1, SearchFacts, DistanceTriangle DEF Shortest
      <3> QED BY <1>3, <3>1, <3>2, <3>3, <3>4, CostOrder
    <2> QED BY <2>2, <2>3
  <1>12. EndInv' /\ BestPath'
    BY DEF EndInv, BestPath
  <1> QED
    BY <1>7, <1>8, <1>9, <1>10, <1>11, <1>12 DEF BestInv

LEMMA SkipStaleKeepsBest ==
    ASSUME SearchInv, BestInv, NEW c \in queue, SkipStale(c)
    PROVE  BestInv'
  <1>1. /\ pc = "search" /\ pc' = "search" /\ ~HasImproved(c) /\ queue' = queue \ {c}
        /\ UNCHANGED <<net, query, costs, bestMeeting, isVisited, foundBest>>
    BY DEF SkipStale, resetVars
  <1>2. costs[c.dir][c.idx] # c.cost
    <2>1. c.cost \in Nat
      BY <1>1, SearchFacts DEF InSearch
    <2> QED BY <1>1, <2>1 DEF HasImproved, Cheaper
  <1>3. ClosedInv'
    BY <1>1 DEF BestInv, ClosedInv
  <1> QED
    BY <1>1, <1>2, <1>3, RejectingKeeps

LEMMA CloseDirectionKeepsBest ==
    ASSUME SearchInv, BestInv, NEW c \in queue, CloseDirection(c)
    PROVE  BestInv'
  <1>1. /\ pc = "search" /\ pc' = "search" /\ Popped(c) /\ queue' = queue \ {c}
        /\ bestMeeting.idx # None /\ Cheaper(bestMeeting.cost, c.cost)
        /\ UNCHANGED <<net, query, costs, bestMeeting>>
    BY DEF CloseDirection
  <1>2. ClosedInv'
    <2>1. \A d \in queue : c.cost <= d.cost /\ d.cost \in Nat
      BY <1>1, PoppedIsLeast, SearchFacts DEF InSearch
    <2>2. bestMeeting.cost \in Nat /\ bestMeeting.cost < c.cost
      <3>1. bestMeeting.cost \in Cost /\ bestMeeting.cost # Inf
        BY <1>1, SearchFacts DEF InSearch, Cheaper
      <3>2. c.cost # Inf
        BY <2>1 DEF Inf
      <3> QED BY <1>1, <3>1, <3>2 DEF Cheaper, Cost
    <2>3. \A d \in queue' : bestMeeting.cost < d.cost
      BY <1>1, <2>1, <2>2
    <2> QED BY <1>1, <2>3 DEF ClosedInv
  <1> QED
    BY <1>1, <1>2, RejectingKeeps

\* The first entries wait; there is no meeting yet.
LEMMA StartKeepsBest ==
    ASSUME SearchInv, NEW q \in Query, Start(q)
    PROVE  BestInv'
  <1> DEFINE origin(dir) == IF dir = "FWD" THEN q.src ELSE q.dst
  <1>1. /\ pc' = "search" /\ query' = q /\ bestMeeting' = NoMeeting /\ net' = net
        /\ foundBest' = [dir \in Dirs |-> FALSE]
        /\ queue' = {[cost |-> 0, idx |-> origin(dir), dir |-> dir] : dir \in Dirs}
        /\ isVisited' = IF q.algo = "CHDijkstra"
                          THEN isVisited
                          ELSE [dir \in Dirs |-> [i \in Nodes |-> FALSE]]
    BY DEF Start
  <1>2. \A dir \in Dirs : costs'[dir] = [v \in Nodes |-> IF v = origin(dir) THEN 0 ELSE Inf]
    BY VectorsAreReset
  <1>3. Nodes' = Nodes
    BY <1>1 DEF Nodes
  <1>4. ASSUME NEW dir \in Dirs, NEW v \in Nodes, costs'[dir][v] # Inf
        PROVE  Enqueued(dir, v)'
    <2>1. v = origin(dir) /\ costs'[dir][v] = 0
      BY <1>2, <1>4
    <2>2. [cost |-> costs'[dir][v], idx |-> v, dir |-> dir] \in queue'
      BY <1>1, <2>1
    <2> QED BY <2>2 DEF Enqueued, EntryOf
  <1>5. RememberedInv'
    BY <1>1 DEF RememberedInv, NoMeeting
  <1>6. FrontierInv'
    BY <1>3, <1>4 DEF FrontierInv
  <1>7. VisitOrderInv'
    <2>1. ~IsCh' => \A dir \in Dirs, v \in Nodes : ~isVisited'[dir][v]
      BY <1>1 DEF Query, IsCh
    <2> QED BY <1>3, <2>1 DEF VisitOrderInv, Dirs
  <1>8. MetInv'
    BY <1>3, <1>4 DEF MetInv, Dirs
  <1>9. ClosedInv' /\ PromiseInv' /\ EndInv' /\ BestPath'
    BY <1>1 DEF ClosedInv, PromiseInv, EndInv, BestPath, NoMeeting, Dirs
  <1> QED
    BY <1>5, <1>6, <1>7, <1>8, <1>9 DEF BestInv

LEMMA RefuseKeepsBest ==
    ASSUME NEW q \in Query, Refuse(q)
    PROVE  BestInv'
  <1>1. pc' = "idle" /\ query' = q
    BY DEF Refuse
  <1>2. query'.alphas \notin NonNegative
    <2>1. q.alphas[1] < 0 \/ q.alphas[2] < 0
      BY DEF Refuse
    <2>2. q.alphas \in Alphas
      BY DEF Query
    <2>3. q.alphas[1] \in Int /\ q.alphas[2] \in Int
      BY <2>2, DijkstraAssumption
    <2> QED BY <1>1, <2>1, <2>3 DEF NonNegative
  <1> QED
    BY <1>1, <1>2 DEF BestInv, RememberedInv, InSearch, FrontierInv, VisitOrderInv, MetInv,
                      ClosedInv, PromiseInv, EndInv, BestPath

LEMMA StartPanicsKeepsBest ==
    ASSUME NEW q \in Query, StartPanics(q)
    PROVE  BestInv'
  BY DEF StartPanics, BestInv, RememberedInv, InSearch, FrontierInv, VisitOrderInv, MetInv,
         ClosedInv, PromiseInv, EndInv, BestPath

LEMMA StutteringKeepsBest ==
    ASSUME BestInv, UNCHANGED vars
    PROVE  BestInv'
  <1>1. UNCHANGED <<net, pc, query, costs, predecessors, isVisited, foundBest, touched,
                    queue, bestMeeting, result, asked>>
    BY DEF vars, searchVars, resetVars
  <1>2. /\ Nodes' = Nodes /\ Shortest' = Shortest /\ (IsCh' <=> IsCh)
        /\ \A dir : Followed(dir)' = Followed(dir)
        /\ \A dir, e : Source(dir, e)' = Source(dir, e) /\ Target(dir, e)' = Target(dir, e)
    BY <1>1, SameQuery
  <1>3. /\ \A dir, v : Enqueued(dir, v)' <=> Enqueued(dir, v)
        /\ \A v : TotalCost(v)' = TotalCost(v)
        /\ \A dir, v : Relaxed(dir, v) => Relaxed(dir, v)'
    BY <1>1, <1>2 DEF Enqueued, EntryOf, TotalCost, Relaxed
  <1>4. RememberedInv' /\ VisitOrderInv' /\ ClosedInv' /\ EndInv'
    BY <1>1, <1>2 DEF BestInv, RememberedInv, VisitOrderInv, ClosedInv, EndInv, InSearch
  <1>5. FrontierInv'
    BY <1>1, <1>2, <1>3 DEF BestInv, FrontierInv
  <1>6. MetInv'
    BY <1>1, <1>2, <1>3 DEF BestInv, MetInv
  <1>7. PromiseInv'
    BY <1>1, <1>2, <1>3 DEF BestInv, PromiseInv, Promises
  <1>8. BestPath'
    BY <1>1 DEF BestInv, BestPath, IsWalk, PathCost, Distance, Distances
  <1> QED
    BY <1>4, <1>5, <1>6, <1>7, <1>8 DEF BestInv

-----------------------------------------------------------------------------
(* The end of the search *)

\* Bidirectional Dijkstra ends with the best path, or there is none.
LEMMA PlainEnd ==
    ASSUME SearchInv, BestInv, pc = "search", ~IsCh, HasFoundBestMeetingNode \/ queue = {}
    PROVE  AtMost(bestMeeting.cost, Shortest)
  <1>1. /\ InSearch /\ RememberedInv /\ FrontierInv /\ VisitOrderInv /\ ClosedInv /\ PromiseInv
    BY DEF BestInv, InSearch
  <1>2. /\ Answering /\ query.src \in Nodes /\ query.dst \in Nodes
        /\ costs \in [Dirs -> [Nodes -> Cost]] /\ costs["BWD"][query.dst] = 0
        /\ bestMeeting.cost \in Cost
        /\ \A c \in queue : c.cost \in Nat /\ c.idx \in Nodes /\ c.dir \in Dirs
        /\ Followed("FWD") = DOMAIN net.edges /\ Origin("FWD") = query.src
    BY <1>1, SearchFacts DEF Origin, Dirs, Followed
  <1>3. Shortest \in Cost
    BY <1>2, DistanceTriangle DEF Shortest
  <1>4. CASE bestMeeting.idx # None
    <2> SUFFICES ASSUME NEW c \in queue, Promises(c) PROVE AtMost(bestMeeting.cost, Shortest)
      BY <1>1, <1>4 DEF PromiseInv
    <2>1. bestMeeting.cost < c.cost /\ bestMeeting.cost \in Nat
      <3>1. bestMeeting.cost < c.cost
        BY <1>1 DEF ClosedInv, HasFoundBestMeetingNode
      <3>2. bestMeeting.cost # Inf
        BY <1>1, <1>4 DEF RememberedInv
      <3> QED BY <1>2, <3>1, <3>2 DEF Cost
    <2>2. AtMost(c.cost, TotalCost(c.idx)) /\ TotalCost(c.idx) \in Cost
      <3>1. costs["FWD"][c.idx] \in Cost /\ costs["BWD"][c.idx] \in Cost
        BY <1>2 DEF Dirs
      <3>2. costs[c.dir][c.idx] = c.cost /\ c.dir \in Dirs
        BY <1>2 DEF Promises
      <3> QED BY <3>1, <3>2, PlusFacts DEF TotalCost, Dirs
    <2>3. AtMost(TotalCost(c.idx), Shortest)
      BY DEF Promises
    <2>4. AtMost(bestMeeting.cost, c.cost) /\ c.cost \in Cost
      BY <1>2, <2>1, CostOrder DEF Cost
    <2> QED BY <1>2, <1>3, <2>2, <2>3, <2>4, CostOrder
  <1>5. CASE bestMeeting.idx = None
    <2>1. queue = {} /\ bestMeeting.cost = Inf
      BY <1>1, <1>5 DEF ClosedInv, HasFoundBestMeetingNode, RememberedInv
    <2> SUFFICES ASSUME Shortest # Inf PROVE FALSE
      BY <2>1, CostOrder DEF Cost
    <2>2. PICK p : WalkOver(DOMAIN net.edges, "FWD", p, query.src, query.dst, Shortest)
      BY <1>2, BestWalk DEF Shortest
    <2>3. Inf \in Cost /\ AtMost(Inf, bestMeeting.cost) /\ "FWD" \in Dirs /\ "BWD" \in Dirs
      BY <2>1, CostOrder DEF Cost, Dirs
    <2>4. Shortest \in Nat /\ (AtMost(Inf, Shortest) \/ AtMost(costs["FWD"][query.dst], Shortest))
      BY <1>1, <1>2, <1>5, <2>1, <2>2, <2>3, FrontierReach
    <2>5. costs["FWD"][query.dst] \in Nat
      BY <1>2, <2>3, <2>4, CostOrder
    <2>6. ASSUME NEW dir \in Dirs, costs[dir][query.dst] \in Nat PROVE isVisited[dir][query.dst]
      <3>1. costs[dir][query.dst] # Inf /\ AtMost(costs[dir][query.dst], bestMeeting.cost)
        BY <2>1, <2>6, CostOrder DEF Inf, Cost
      <3>2. ~Enqueued(dir, query.dst)
        BY <2>1 DEF Enqueued
      <3> QED BY <1>1, <1>2, <1>5, <3>1, <3>2 DEF FrontierInv
    <2>7. isVisited["FWD"][query.dst] /\ isVisited["BWD"][query.dst]
      BY <1>2, <2>3, <2>5, <2>6
    <2> QED BY <1>1, <1>2, <1>5, <2>7 DEF VisitOrderInv
  <1> QED
    BY <1>4, <1>5

LEMMA ReverseIsSeq ==
    ASSUME NEW S, NEW p \in Seq(S)
    PROVE  Reverse(p) \in Seq(S)
  <1> DEFINE n == Len(p)
  <1>1. n \in Nat /\ \A i \in 1 .. n : (n - i) + 1 \in 1 .. n /\ p[(n - i) + 1] \in S
    OBVIOUS
  <1>2. Reverse(p) = [i \in 1 .. n |-> p[(n - i) + 1]]
    BY DEF Reverse
  <1>3. Reverse(p) \in [1 .. n -> S]
    BY <1>1, <1>2
  <1> HIDE DEF n
  <1> QED
    BY <1>1, <1>3

\* A search runs with an algorithm that the object is used with.
AlgoInv == InSearch => query.algo \in Algos

\* What the hierarchy promises: a best way that leads up, and then down.
LEMMA UpAndDown ==
    ASSUME SearchInv, AlgoInv, InSearch, IsCh, Shortest # Inf
    PROVE  \E v \in Nodes : \E p, q : \E x, y \in Nat :
               /\ WalkOver(Upward(net, "FWD"), "FWD", p, query.src, v, x)
               /\ WalkOver(Upward(net, "BWD"), "BWD", q, query.dst, v, y)
               /\ x + y = Shortest
  <1> DEFINE up   == Ways(net, query.alphas, Upward(net, "FWD"))
             down == Ways(net, query.alphas, Upward(net, "BWD"))
  <1>1. /\ Answering /\ query.src \in Nodes /\ query.dst \in Nodes
    BY SearchFacts
  <1>2. Upward(net, "FWD") \in SUBSET DOMAIN net.edges /\ Upward(net, "BWD") \in SUBSET DOMAIN net.edges
    BY DEF Upward
  <1>3. PICK v \in Nodes : CostSum(up[<<query.src, v>>], down[<<v, query.dst>>]) = Shortest
    <2>1. query.alphas \in NonNegative
      BY <1>1 DEF Answering, NonNegative
    <2>2. IsHierarchy(net)
      <3>1. net \in Networks
        BY <1>1 DEF Answering
      <3>2. "CHDijkstra" \in Algos
        BY DEF AlgoInv, IsCh
      <3> QED BY <3>1, <3>2, DijkstraAssumption
    <2>3. Ways(net, query.alphas, 1 .. net.originals)[<<query.src, query.dst>>] = Shortest
      BY DEF Shortest, Distance, Distances
    <2> QED BY <1>1, <2>1, <2>2, <2>3 DEF IsHierarchy, Nodes
  <1> DEFINE x == up[<<query.src, v>>]
             y == down[<<v, query.dst>>]
  <1>4. x \in Nat /\ y \in Nat /\ x + y = Shortest
    <2>1. IsOver(net, query.alphas, Upward(net, "FWD")) /\ IsOver(net, query.alphas, Upward(net, "BWD"))
      BY <1>1, <1>2, EdgesAreOver
    <2>2. x \in Cost /\ y \in Cost
      BY <1>1, <2>1, WaysTriangle DEF Nodes
    <2> HIDE DEF x, y
    <2>3. CostSum(x, y) = Shortest
      BY <1>3 DEF x, y
    <2> QED BY <2>2, <2>3, PlusFacts
  <1>5. PICK p : WalkOver(Upward(net, "FWD"), "FWD", p, query.src, v, x)
    <2>1. x # Inf
      BY <1>4 DEF Inf
    <2> QED BY <1>1, <1>2, <2>1, WaysAttained
  <1>6. PICK q : WalkOver(Upward(net, "BWD"), "FWD", q, v, query.dst, y)
    <2>1. y # Inf
      BY <1>4 DEF Inf
    <2> QED BY <1>1, <1>2, <2>1, WaysAttained
  <1>7. WalkOver(Upward(net, "BWD"), "BWD", Reverse(q), query.dst, v, y)
    <2> DEFINE E == Upward(net, "BWD")
    <2>1. q \in Seq(E) /\ DirWalk("FWD", q, v, query.dst) /\ PathCost(q) = y
      BY <1>6 DEF WalkOver
    <2>2. Reverse(q) \in Seq(E)
      <3> HIDE DEF E
      <3> QED BY <2>1, ReverseIsSeq
    <2>3. q \in Seq(DOMAIN net.edges)
      BY <1>2, <2>1, SeqMonotonic
    <2>4. PathCost(Reverse(q)) = y
      BY <1>1, <2>1, <2>3, ReverseCost DEF Answering
    <2>5. DirWalk("BWD", Reverse(q), query.dst, v)
      <3>1. "FWD" \in Dirs /\ Opp("FWD") = "BWD"
        BY DEF Dirs, Opp
      <3> QED BY <2>1, <3>1, WalkReverse
    <2> QED BY <2>2, <2>4, <2>5 DEF WalkOver
  <1> HIDE DEF x, y
  <1> QED
    BY <1>4, <1>5, <1>7

\* CH-Dijkstra ends with the best path, or there is none.
LEMMA HierarchyEnd ==
    ASSUME SearchInv, AlgoInv, BestInv, pc = "search", IsCh,
           HasFoundBestMeetingNode \/ queue = {}
    PROVE  AtMost(bestMeeting.cost, Shortest)
  <1>1. /\ InSearch /\ RememberedInv /\ FrontierInv /\ MetInv /\ ClosedInv
    BY DEF BestInv, InSearch
  <1>2. /\ Answering /\ query.src \in Nodes /\ query.dst \in Nodes
        /\ costs \in [Dirs -> [Nodes -> Cost]] /\ bestMeeting.cost \in Cost
        /\ \A c \in queue : c.cost \in Nat /\ c.idx \in Nodes /\ c.dir \in Dirs
        /\ Origin("FWD") = query.src /\ Origin("BWD") = query.dst
        /\ Followed("FWD") = Upward(net, "FWD") /\ Followed("BWD") = Upward(net, "BWD")
    BY <1>1, SearchFacts DEF Origin, Dirs, Followed
  <1>3. Shortest \in Cost
    BY <1>2, DistanceTriangle DEF Shortest
  <1> SUFFICES ASSUME ~AtMost(bestMeeting.cost, Shortest) PROVE FALSE
    OBVIOUS
  <1>4. Shortest \in Nat /\ Shortest # Inf
    BY <1>3 DEF Cost, AtMost, Cheaper, Inf
  <1> DEFINE K == bestMeeting.cost
  <1>5. \A c \in queue : AtMost(K, c.cost) /\ K # Inf /\ K < c.cost
    <2> SUFFICES ASSUME NEW c \in queue PROVE AtMost(K, c.cost) /\ K # Inf /\ K < c.cost
      OBVIOUS
    <2>1. bestMeeting.idx # None /\ K < c.cost
      BY <1>1 DEF ClosedInv, HasFoundBestMeetingNode
    <2>2. K # Inf
      BY <1>1, <2>1 DEF RememberedInv
    <2> QED BY <1>2, <2>1, <2>2, CostOrder DEF Cost
  <1>6. PICK v \in Nodes : \E p, q : \E x, y \in Nat :
               /\ WalkOver(Upward(net, "FWD"), "FWD", p, query.src, v, x)
               /\ WalkOver(Upward(net, "BWD"), "BWD", q, query.dst, v, y)
               /\ x + y = Shortest
    BY <1>1, <1>4, UpAndDown
  <1>7. PICK p, q : \E x, y \in Nat :
               /\ WalkOver(Upward(net, "FWD"), "FWD", p, query.src, v, x)
               /\ WalkOver(Upward(net, "BWD"), "BWD", q, query.dst, v, y)
               /\ x + y = Shortest
    BY <1>6
  <1>8. PICK x \in Nat, y \in Nat :
               /\ WalkOver(Upward(net, "FWD"), "FWD", p, query.src, v, x)
               /\ WalkOver(Upward(net, "BWD"), "BWD", q, query.dst, v, y)
               /\ x + y = Shortest
    BY <1>7
  <1>9. ASSUME NEW dir \in Dirs, NEW w, NEW z \in Nat, z <= Shortest,
               WalkOver(Followed(dir), dir, w, Origin(dir), v, z)
        PROVE  costs[dir][v] \in Nat /\ costs[dir][v] <= z /\ ~Enqueued(dir, v)
    <2>1. ~AtMost(K, z)
      <3>1. AtMost(z, Shortest) /\ z \in Cost
        BY <1>4, <1>9, CostOrder DEF Cost
      <3> QED BY <1>2, <1>3, <3>1, CostOrder
    <2>2. AtMost(K, bestMeeting.cost) /\ K \in Cost
      BY <1>2, CostOrder
    <2>3. AtMost(K, z) \/ AtMost(costs[dir][v], z)
      <3> HIDE DEF K
      <3> QED BY <1>1, <1>5, <1>9, <2>2, FrontierReach
    <2>4. costs[dir][v] \in Nat /\ costs[dir][v] <= z
      BY <1>2, <2>1, <2>3, CostOrder
    <2>5. ~Enqueued(dir, v)
      <3> SUFFICES ASSUME EntryOf(dir, v) \in queue PROVE FALSE
        BY DEF Enqueued
      <3>1. K < costs[dir][v] /\ K # Inf
        BY <1>5 DEF EntryOf
      <3>2. K \in Nat
        BY <1>2, <3>1 DEF Cost
      <3>3. K <= z
        <4> HIDE DEF K
        <4> QED BY <2>4, <3>1, <3>2
      <3> QED BY <2>1, <3>2, <3>3, CostOrder
    <2> QED BY <2>4, <2>5
  <1>10. x <= Shortest /\ y <= Shortest
    <2> HIDE DEF Shortest
    <2> QED BY <1>4, <1>8
  <1>11. /\ costs["FWD"][v] \in Nat /\ costs["FWD"][v] <= x /\ ~Enqueued("FWD", v)
         /\ costs["BWD"][v] \in Nat /\ costs["BWD"][v] <= y /\ ~Enqueued("BWD", v)
    BY <1>2, <1>8, <1>9, <1>10 DEF Dirs
  <1>12. AtMost(bestMeeting.cost, TotalCost(v))
    <2>1. \A dir \in Dirs : costs[dir][v] # Inf /\ ~Enqueued(dir, v)
      BY <1>11 DEF Dirs, Inf
    <2> QED BY <1>1, <2>1 DEF MetInv
  <1>13. TotalCost(v) \in Nat /\ TotalCost(v) <= Shortest
    <2>1. TotalCost(v) = costs["FWD"][v] + costs["BWD"][v]
      BY <1>11, PlusFacts DEF TotalCost
    <2> QED BY <1>4, <1>8, <1>11, <2>1
  <1> QED
    <2>1. AtMost(TotalCost(v), Shortest) /\ TotalCost(v) \in Cost
      BY <1>4, <1>13, CostOrder DEF Cost
    <2> QED BY <1>2, <1>3, <1>12, <2>1, CostOrder

LEMMA EndSearchKeepsBest ==
    ASSUME SearchInv, AlgoInv, BestInv, EndSearch
    PROVE  BestInv'
  <1>1. /\ pc = "search" /\ pc' = "path" /\ InSearch
        /\ HasFoundBestMeetingNode \/ queue = {}
        /\ UNCHANGED <<net, query, bestMeeting>>
    BY DEF EndSearch, InSearch
  <1>2. AtMost(bestMeeting.cost, Shortest)
    BY <1>1, PlainEnd, HierarchyEnd
  <1>3. Shortest' = Shortest
    BY <1>1, SameQuery
  <1>4. EndInv'
    BY <1>1, <1>2, <1>3 DEF EndInv, AtMost
  <1>5. RememberedInv'
    BY <1>1 DEF BestInv, RememberedInv
  <1>6. FrontierInv' /\ VisitOrderInv' /\ MetInv' /\ ClosedInv' /\ PromiseInv' /\ BestPath'
    BY <1>1 DEF FrontierInv, VisitOrderInv, MetInv, ClosedInv, PromiseInv, BestPath
  <1> QED
    BY <1>4, <1>5, <1>6 DEF BestInv

\* What the search has ended with is the best path.
LEMMA BuildPathKeepsBest ==
    ASSUME SearchInv, BestInv, BuildPath
    PROVE  BestInv'
  <1>1. /\ pc = "path" /\ pc' = "idle" /\ InSearch /\ UNCHANGED <<net, query>>
        /\ RememberedInv /\ EndInv
    BY DEF BuildPath, BestInv, InSearch
  <1>2. /\ Answering /\ query.src \in Nodes /\ query.dst \in Nodes /\ bestMeeting.cost \in Cost
    BY <1>1, SearchFacts
  <1>3. Shortest \in Cost /\ AtMost(bestMeeting.cost, Shortest)
    BY <1>1, <1>2, DistanceTriangle DEF Shortest, EndInv
  <1>4. Distance(query.src, query.dst)' = Shortest
    BY <1>1 DEF Shortest, Distance, Distances
  <1>5. CASE bestMeeting.idx = None
    <2>1. result' = NoPath /\ bestMeeting.cost = Inf
      BY <1>1, <1>5 DEF BuildPath, RememberedInv
    <2>2. Shortest = Inf
      BY <1>3, <2>1, CostOrder
    <2>3. BestPath'
      BY <1>4, <2>1, <2>2 DEF BestPath, NoPath
    <2> QED BY <1>1, <2>3 DEF BestInv, RememberedInv, InSearch, FrontierInv, VisitOrderInv, MetInv,
                              ClosedInv, PromiseInv, EndInv
  <1>6. CASE bestMeeting.idx # None
    <2> DEFINE path == Chain("FWD", bestMeeting.idx) \o Reverse(Chain("BWD", bestMeeting.idx))
    <2>1. /\ path \in Seq(DOMAIN net.edges) /\ IsWalk(path, query.src, query.dst)
          /\ PathCost(path) <= bestMeeting.cost
          /\ PathCost(path) \in Nat /\ bestMeeting.cost \in Nat
      BY <1>1, <1>6, MeetingPath
    <2>2. result' = [found |-> TRUE, path |-> path]
      BY <1>6 DEF BuildPath
    <2> HIDE DEF path
    <2>3. DirWalk("FWD", path, query.src, query.dst)
      BY <2>1 DEF DirWalk, IsWalk, Source, Target, Opp, HeadOf, TailOf
    <2>4. AtMost(Shortest, PathCost(path))
      BY <1>2, <2>1, <2>3, NoShorterWalk DEF Shortest
    <2>5. PathCost(path) = Shortest
      <3>1. PathCost(path) \in Cost /\ AtMost(PathCost(path), bestMeeting.cost)
        BY <2>1, CostOrder DEF Cost
      <3> QED BY <1>2, <1>3, <2>4, <3>1, CostOrder
    <2>6. /\ \A p, s, t : IsWalk(p, s, t)' <=> IsWalk(p, s, t)
          /\ \A p : PathCost(p)' = PathCost(p)
      BY <1>1 DEF IsWalk, PathCost
    <2>7. BestPath'
      <3>1. result'.found /\ result'.path = path
        BY <2>2
      <3>2. IsWalk(result.path, query.src, query.dst)'
        BY <1>1, <2>1, <2>6, <3>1
      <3>3. PathCost(result.path)' = Distance(query.src, query.dst)'
        BY <1>4, <2>5, <2>6, <3>1
      <3> QED BY <3>1, <3>2, <3>3 DEF BestPath
    <2> QED BY <1>1, <2>7 DEF BestInv, RememberedInv, InSearch, FrontierInv, VisitOrderInv, MetInv,
                              ClosedInv, PromiseInv, EndInv
  <1> QED
    BY <1>5, <1>6

-----------------------------------------------------------------------------
(* The theorems *)

LEMMA AlgoStep == AlgoInv /\ [Next]_vars => AlgoInv'
  <1> SUFFICES ASSUME AlgoInv, [Next]_vars, InSearch' PROVE query'.algo \in Algos
    BY DEF AlgoInv
  <1>1. CASE \E q \in Query : Refuse(q) \/ Start(q) \/ StartPanics(q)
    BY <1>1 DEF Query, Refuse, Start, StartPanics
  <1>2. CASE Search
    <2>1. query' = query /\ pc \in {"search", "path"}
      BY <1>2 DEF Search, EndSearch, SkipStale, CloseDirection, Expand, BuildPath
    <2> QED BY <2>1 DEF AlgoInv, InSearch
  <1>3. CASE UNCHANGED vars
    BY <1>3 DEF AlgoInv, InSearch, vars
  <1> QED
    BY <1>1, <1>2, <1>3 DEF Next, Stopped

LEMMA BestStep == SearchInv /\ AlgoInv /\ BestInv /\ BoundInv' /\ [Next]_vars => BestInv'
  <1> SUFFICES ASSUME SearchInv, AlgoInv, BestInv, BoundInv', [Next]_vars PROVE BestInv'
    OBVIOUS
  <1>1. ASSUME NEW q \in Query, Refuse(q) PROVE BestInv'
    BY <1>1, RefuseKeepsBest
  <1>2. ASSUME NEW q \in Query, Start(q) PROVE BestInv'
    BY <1>2, StartKeepsBest
  <1>3. ASSUME NEW q \in Query, StartPanics(q) PROVE BestInv'
    BY <1>3, StartPanicsKeepsBest
  <1>4. CASE EndSearch
    BY <1>4, EndSearchKeepsBest
  <1>5. ASSUME NEW c \in queue, SkipStale(c) PROVE BestInv'
    BY <1>5, SkipStaleKeepsBest
  <1>6. ASSUME NEW c \in queue, CloseDirection(c) PROVE BestInv'
    BY <1>6, CloseDirectionKeepsBest
  <1>7. ASSUME NEW c \in queue, Expand(c) PROVE BestInv'
    BY <1>7, ExpandKeepsBest
  <1>8. CASE BuildPath
    BY <1>8, BuildPathKeepsBest
  <1>9. CASE UNCHANGED vars
    BY <1>9, StutteringKeepsBest
  <1> QED
    BY <1>1, <1>2, <1>3, <1>4, <1>5, <1>6, <1>7, <1>8, <1>9 DEF Next, Search, Stopped

\* What the searches keep while they look for the best path: nothing better than it is ever
\* remembered, and until the search ends, what waits in the queue leads to it.
THEOREM BestInvariant == Spec => []BestInv
  <1>1. Init => AlgoInv
    BY DEF Init, AlgoInv, InSearch
  <1>2. Init => BestInv
    BY DEF Init, BestInv, RememberedInv, InSearch, FrontierInv, VisitOrderInv, MetInv, ClosedInv,
           PromiseInv, EndInv, BestPath
  <1> QED
    BY <1>1, <1>2, AlgoStep, BestStep, CostsAreBounded, SearchInvariant, PTL DEF Spec

\* compute_best_path answers with a best path, for every graph and every sequence of queries: of
\* both algorithms, over shortcuts too, and with none exactly when there is none.
THEOREM BestPathSafe == Spec => []BestPath
  <1>1. BestInv => BestPath
    BY DEF BestInv
  <1> QED
    BY <1>1, BestInvariant, PTL

\* Until the searches of bidirectional Dijkstra meet, the costs of the nodes they have visited are
\* final: the reason why it may enqueue nothing after the first meeting.
THEOREM VisitedIsFinalSafe == Spec => []VisitedIsFinal
  <1>1. SearchInv /\ BoundInv /\ BestInv => VisitedIsFinal
    <2> SUFFICES ASSUME SearchInv, BoundInv, BestInv, pc = "search", ~IsCh, bestMeeting.idx = None,
                        NEW dir \in Dirs, NEW v \in Nodes, isVisited[dir][v]
                 PROVE  costs[dir][v] = DistanceFrom(dir, v)
      BY DEF VisitedIsFinal, DistanceFrom
    <2>1. FrontierInv /\ VisitOrderInv /\ bestMeeting.cost = Inf
      BY DEF BestInv, RememberedInv, InSearch
    <2> QED BY <2>1, VisitedHasDistance
  <1> QED
    BY <1>1, BestInvariant, CostsAreBounded, SearchInvariant, PTL
===============================================================================
