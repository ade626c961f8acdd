------------------------------ MODULE Dijkstra ------------------------------
(***************************************************************************)
(* The bidirectional Dijkstra and CH-Dijkstra of                           *)
(* src/src/routing/dijkstra.rs, as the object it is: its vectors outlive a *)
(* query and are reset from the list of touched nodes when the next query  *)
(* starts.                                                                 *)
(*                                                                         *)
(* One step is one iteration of the search loop.  Costs are naturals: the  *)
(* dot product of the alphas with an edge's metrics is Weight, and costs   *)
(* closer to each other than Approx's accuracy do not occur.  The queue is *)
(* a set: a node enters it only with a strictly smaller cost than before,  *)
(* so no two entries are equal.                                            *)
(***************************************************************************)
EXTENDS Integers, SequencesExt

CONSTANTS
    Networks,     \* the graphs it is asked about, see IsNetwork
    Alphas,       \* the alphas a query may have
    Algos,        \* subset of {"Dijkstra", "CHDijkstra"}
    MaxQueries(_) \* bound: queries asked of one Dijkstra object, for a graph

None == -1
Inf  == -1        \* f64::INFINITY: no cost is negative, see Cheaper
CostSum(a, b) == IF a = Inf \/ b = Inf THEN Inf ELSE a + b
\* Less on costs: Inf is above all others.
Cheaper(a, b) == a # Inf /\ (b = Inf \/ a < b)
Dirs == {"FWD", "BWD"}
Opp(dir) == IF dir = "FWD" THEN "BWD" ELSE "FWD"

Weight(alphas, e) == alphas[1] * e.metrics[1] + alphas[2] * e.metrics[2]

\* The nodes of graph n; the ones that its edge e comes from and leads to in direction dir.
NodesOf(n) == 0 .. n.n - 1
HeadOf(n, dir, e) == IF dir = "FWD" THEN n.edges[e].dst ELSE n.edges[e].src
TailOf(n, dir, e) == HeadOf(n, Opp(dir), e)

\* A graph as its accessors show it: nodes 0 .. n - 1 with their levels, edges with two
\* metrics, of which those after the first `originals` are shortcuts for two edges, and
\* leaving[dir][v], the edges that starting_from(v) yields, in its order: all that leave v in
\* direction dir, those to higher levels first (GraphBuilding's LeavingIsComplete and
\* LevelsDescend).
IsNetwork(n) ==
    /\ n.n \in Nat \ {0}
    /\ n.level \in [NodesOf(n) -> Nat]
    /\ n.edges \in Seq([src : NodesOf(n), dst : NodesOf(n), metrics : Nat \X Nat])
    /\ n.originals \in 0 .. Len(n.edges)
    /\ \A e \in n.originals + 1 .. Len(n.edges) : \E f, g \in 1 .. e - 1 :
          /\ n.edges[e].src = n.edges[f].src
          /\ n.edges[f].dst = n.edges[g].src
          /\ n.edges[g].dst = n.edges[e].dst
          /\ \A i \in 1 .. 2 :
                n.edges[e].metrics[i] = n.edges[f].metrics[i] + n.edges[g].metrics[i]
    /\ n.leaving \in [Dirs -> [NodesOf(n) -> Seq(DOMAIN n.edges)]]
    /\ \A dir \in Dirs : \A v \in NodesOf(n) :
          LET leaving == n.leaving[dir][v]
          IN  /\ ToSet(leaving) = {e \in DOMAIN n.edges : TailOf(n, dir, e) = v}
              /\ \A i, j \in DOMAIN leaving : i < j =>
                    n.level[HeadOf(n, dir, leaving[i])] >= n.level[HeadOf(n, dir, leaving[j])]

Cheapest(S) == CHOOSE a \in S : \A b \in S : ~Cheaper(b, a)

\* Reference: the costs of the best walks between all nodes over some edges, with at most n.n of
\* them (Bellman-Ford).
Ways(n, alphas, some) ==
    LET within[k \in 0 .. n.n] ==
            IF k = 0
            THEN [st \in NodesOf(n) \X NodesOf(n) |-> IF st[1] = st[2] THEN 0 ELSE Inf]
            ELSE [st \in NodesOf(n) \X NodesOf(n) |->
                     Cheapest({within[k - 1][st]} \cup
                           {CostSum(within[k - 1][<<st[1], n.edges[e].src>>],
                                 Weight(alphas, n.edges[e])) :
                            e \in {f \in some : n.edges[f].dst = st[2]}})]
    IN  within[n.n]

NonNegative == {a \in Alphas : a[1] >= 0 /\ a[2] >= 0}

\* What the constructor of shortcuts promises (external): for whatever alphas, one of the best
\* ways between two nodes leads up to some node, in direction FWD, and from there down.
Upward(n, dir) ==
    {e \in DOMAIN n.edges : n.level[TailOf(n, dir, e)] <= n.level[HeadOf(n, dir, e)]}
IsHierarchy(n) ==
    \A alphas \in NonNegative :
        LET best == Ways(n, alphas, 1 .. n.originals)
            up   == Ways(n, alphas, Upward(n, "FWD"))
            down == Ways(n, alphas, Upward(n, "BWD"))
        IN  \A s, t \in NodesOf(n) : best[<<s, t>>] # Inf =>
                \E v \in NodesOf(n) : CostSum(up[<<s, v>>], down[<<v, t>>]) = best[<<s, t>>]

ASSUME DijkstraAssumption ==
    /\ \A n \in Networks : IsNetwork(n)
    /\ "CHDijkstra" \in Algos => \A n \in Networks : IsHierarchy(n)
    /\ Alphas \subseteq Int \X Int
    /\ Algos \subseteq {"Dijkstra", "CHDijkstra"}
    /\ \A n \in Networks : MaxQueries(n) \in Nat

VARIABLES
    net,          \* the graph the object is used for (input, never changes)
    pc,           \* "idle", "search", "path" or "panicked"
    query,        \* the current or last query: [src, dst, alphas, algo]
    costs,        \* costs[dir]: a vector over nodes, as a function
    predecessors, \* predecessors[dir]: a vector of edges or None
    isVisited,    \* isVisited[dir]: a vector of flags
    foundBest,    \* has_found_best_meeting_node[dir]
    touched,      \* touched[dir]: the nodes whose cost has been set
    queue,        \* the heap, a set of [cost, idx, dir]
    bestMeeting,  \* [idx, cost], where idx may be None
    result,       \* of the last query: [found, path]
    asked         \* number of queries so far

resetVars  == <<isVisited, foundBest, touched>>
searchVars == <<costs, predecessors, resetVars, queue, bestMeeting>>
vars == <<net, pc, query, searchVars, result, asked>>

Nodes == NodesOf(net)
\* half_edge in direction dir: the node it leads to, and the one it comes from.
Target(dir, e) == HeadOf(net, dir, e)
Source(dir, e) == TailOf(net, dir, e)

Query == [src : Nodes, dst : Nodes, alphas : Alphas, algo : Algos]
IsCh == query.algo = "CHDijkstra"
NoMeeting == [idx |-> None, cost |-> Inf]
NoPath == [found |-> FALSE, path |-> <<>>]

\* Dijkstra::new: all vectors are empty.
Init ==
    /\ net \in Networks
    /\ pc = "idle"
    /\ query \in [src : {0}, dst : {0}, alphas : Alphas, algo : {"Dijkstra"}]
    /\ costs = [dir \in Dirs |-> <<>>]
    /\ predecessors = [dir \in Dirs |-> <<>>]
    /\ isVisited = [dir \in Dirs |-> <<>>]
    /\ foundBest = [dir \in Dirs |-> FALSE]
    /\ touched = [dir \in Dirs |-> {}]
    /\ queue = {}
    /\ bestMeeting = NoMeeting
    /\ result = NoPath
    /\ asked = 0

-----------------------------------------------------------------------------
(* compute_best_path: start of a query *)

\* Mutant: one element too many.
ResizeTooLong(vec, n, x) == [i \in 0 .. n |-> IF i \in DOMAIN vec THEN vec[i] ELSE x]

\* Vec::resize
Resize(vec, n, x) == [i \in 0 .. n - 1 |-> IF i \in DOMAIN vec THEN vec[i] ELSE x]

\* init_query asks for self.costs.len(): costs is the array of the two directions.
CostsLen == 2

\* init_query: costs and predecessors are resized.
Resized(vec, x) == IF CostsLen # net.n THEN Resize(vec, net.n, x) ELSE vec

\* A vector after touched has been drained.
Drained(vec, dir, x) == [i \in DOMAIN vec |-> IF i \in touched[dir] THEN x ELSE vec[i]]

\* An index into costs or predecessors would be out of bounds.
OutOfBounds(q) ==
    LET len(dir) == DOMAIN Resized(costs[dir], Inf)
    IN  \/ \E dir \in Dirs : ~(touched[dir] \subseteq len(dir))
        \/ q.src \notin len("FWD")
        \/ q.dst \notin len("BWD")

\* A negative alpha: no path, and nothing is initialised.
Refuse(q) ==
    /\ pc = "idle"
    /\ asked < MaxQueries(net)
    /\ \E i \in 1 .. 2 : q.alphas[i] < 0
    /\ query' = q
    /\ result' = NoPath
    /\ asked' = asked + 1
    /\ UNCHANGED <<net, pc, searchVars>>

\* init_query and the first entries of both directions.
Start(q) ==
    LET costAt(dir) == IF dir = "FWD" THEN q.src ELSE q.dst
    IN  /\ pc = "idle"
        /\ asked < MaxQueries(net)
        /\ \A i \in 1 .. 2 : q.alphas[i] >= 0
        /\ ~OutOfBounds(q)
        /\ pc' = "search"
        /\ query' = q
        /\ asked' = asked + 1
        /\ costs' = [dir \in Dirs |->
                        [Drained(Resized(costs[dir], Inf), dir, Inf) EXCEPT ![costAt(dir)] = 0]]
        /\ predecessors' =
               [dir \in Dirs |-> Drained(Resized(predecessors[dir], None), dir, None)]
        /\ isVisited' = IF q.algo = "CHDijkstra"
                          THEN isVisited
                          ELSE [dir \in Dirs |-> [i \in Nodes |-> FALSE]]
        /\ foundBest' = [dir \in Dirs |-> FALSE]
        /\ touched' = [dir \in Dirs |-> {costAt(dir)}]
        /\ queue' = {[cost |-> 0, idx |-> costAt(dir), dir |-> dir] : dir \in Dirs}
        /\ bestMeeting' = NoMeeting
        /\ UNCHANGED <<net, result>>

\* The query's thread panics.
StartPanics(q) ==
    /\ pc = "idle"
    /\ asked < MaxQueries(net)
    /\ \A i \in 1 .. 2 : q.alphas[i] >= 0
    /\ OutOfBounds(q)
    /\ pc' = "panicked"
    /\ query' = q
    /\ asked' = asked + 1
    /\ UNCHANGED <<net, searchVars, result>>

-----------------------------------------------------------------------------
(* compute_best_path: the search loop *)

\* Mutant: the binary heap without Reverse.
BeforeWithoutReverse(c, d) ==
    \/ c.cost > d.cost
    \/ c.cost = d.cost /\ c.idx > d.idx
    \/ c.cost = d.cost /\ c.idx = d.idx /\ c.dir = "FWD" /\ d.dir = "BWD"

\* CostNode's order: cost, then idx, then direction with BWD before FWD.
Before(c, d) ==
    \/ c.cost < d.cost
    \/ c.cost = d.cost /\ c.idx < d.idx
    \/ c.cost = d.cost /\ c.idx = d.idx /\ c.dir = "BWD" /\ d.dir = "FWD"

\* The entry the heap pops next.
Popped(c) == c \in queue /\ \A d \in queue \ {c} : Before(c, d)

HasFoundBestMeetingNode == foundBest["FWD"] /\ foundBest["BWD"]
HasImproved(c) == ~Cheaper(costs[c.dir][c.idx], c.cost)
TotalCost(v) == CostSum(costs["FWD"][v], costs["BWD"][v])
Visit(c) == IF IsCh THEN isVisited ELSE [isVisited EXCEPT ![c.dir][c.idx] = TRUE]

\* Mutant: the own direction is asked instead of the opposite one.
IsMeetingOwnDirection(c) ==
    IF IsCh THEN costs[c.dir][c.idx] # Inf ELSE Visit(c)[c.dir][c.idx]

IsMeeting(c) ==
    IF IsCh THEN costs[Opp(c.dir)][c.idx] # Inf ELSE isVisited[Opp(c.dir)][c.idx]

\* Mutant: the first meeting node remains.
FirstMeeting(c) ==
    IF bestMeeting.idx = None /\ IsMeeting(c)
    THEN [idx |-> c.idx, cost |-> TotalCost(c.idx)]
    ELSE bestMeeting

\* The best meeting node after c has been popped.
NextMeeting(c) ==
    IF \/ bestMeeting.idx # None /\ Cheaper(TotalCost(c.idx), bestMeeting.cost)
       \/ bestMeeting.idx = None /\ IsMeeting(c)
    THEN [idx |-> c.idx, cost |-> TotalCost(c.idx)]
    ELSE bestMeeting

\* Mutant: the loop does not end with the queue.
EndSearchWhenFound ==
    /\ pc = "search"
    /\ HasFoundBestMeetingNode
    /\ pc' = "path"
    /\ UNCHANGED <<net, query, searchVars, result, asked>>

\* Neither direction can improve the meeting node, or the queue is empty: the loop ends.
EndSearch ==
    /\ pc = "search"
    /\ HasFoundBestMeetingNode \/ queue = {}
    /\ \/ queue = {} /\ UNCHANGED queue
       \/ \E c \in queue : Popped(c) /\ queue' = queue \ {c}
    /\ pc' = "path"
    /\ UNCHANGED <<net, query, costs, predecessors, resetVars, bestMeeting, result, asked>>

\* A cheaper entry of the same node has been enqueued after c.
SkipStale(c) ==
    /\ pc = "search"
    /\ ~HasFoundBestMeetingNode
    /\ Popped(c)
    /\ ~HasImproved(c)
    /\ queue' = queue \ {c}
    /\ UNCHANGED <<net, pc, query, costs, predecessors, resetVars, bestMeeting, result, asked>>

\* c alone costs more than the best path found: its direction is done.
CloseDirection(c) ==
    /\ pc = "search"
    /\ ~HasFoundBestMeetingNode
    /\ Popped(c)
    /\ HasImproved(c)
    /\ bestMeeting.idx # None
    /\ Cheaper(bestMeeting.cost, c.cost)
    /\ isVisited' = Visit(c)
    /\ foundBest' = [foundBest EXCEPT ![c.dir] = TRUE]
    /\ queue' = queue \ {c}
    /\ UNCHANGED <<net, pc, query, costs, predecessors, touched, bestMeeting, result, asked>>

\* Leaving edges are sorted by the level of their target: CH-Dijkstra looks at those before
\* the first that leads down.
LeadsDown(c, e) == net.level[c.idx] > net.level[Target(c.dir, e)]
Scanned(c) ==
    LET leaving == net.leaving[c.dir][c.idx]
    IN  {i \in DOMAIN leaving : IsCh => \A j \in 1 .. i : ~LeadsDown(c, leaving[j])}

\* The i-th leaving edge, the node it leads to and that node's cost over it.
EdgeAt(c, i)   == net.leaving[c.dir][c.idx][i]
TargetAt(c, i) == Target(c.dir, EdgeAt(c, i))
CostAt(c, i)   == c.cost + Weight(query.alphas, net.edges[EdgeAt(c, i)])

\* The scanned edges that improve their target when they are relaxed one after the other: better
\* than the target's cost and than every edge to the same target before.
Improving(c) ==
    {i \in Scanned(c) :
        /\ Cheaper(CostAt(c, i), costs[c.dir][TargetAt(c, i)])
        /\ \A j \in Scanned(c) :
              j < i /\ TargetAt(c, j) = TargetAt(c, i) => CostAt(c, i) < CostAt(c, j)}

\* The last of them to node v, whose cost and edge remain.
LastTo(c, v) == CHOOSE i \in Improving(c) :
                    /\ TargetAt(c, i) = v
                    /\ \A j \in Improving(c) : TargetAt(c, j) = v => j <= i

Reached(c) == {TargetAt(c, i) : i \in Improving(c)}

\* New entries are pushed until a meeting node is known, by CH-Dijkstra always.
Pushed(c) ==
    IF IsCh \/ NextMeeting(c).idx = None
    THEN {[cost |-> CostAt(c, i), idx |-> TargetAt(c, i), dir |-> c.dir] : i \in Improving(c)}
    ELSE {}

\* Mutant: a node is touched when it is pushed.
TouchedWhenPushed(c) == {p.idx : p \in Pushed(c)}

Touched(c) == Reached(c)

\* One iteration that visits c: its meeting is checked, its leaving edges are relaxed.
Expand(c) ==
    /\ pc = "search"
    /\ ~HasFoundBestMeetingNode
    /\ Popped(c)
    /\ HasImproved(c)
    /\ bestMeeting.idx = None \/ ~Cheaper(bestMeeting.cost, c.cost)
    /\ isVisited' = Visit(c)
    /\ bestMeeting' = NextMeeting(c)
    /\ costs' = [costs EXCEPT ![c.dir] =
           [v \in DOMAIN @ |-> IF v \in Reached(c) THEN CostAt(c, LastTo(c, v)) ELSE @[v]]]
    /\ predecessors' = [predecessors EXCEPT ![c.dir] =
           [v \in DOMAIN @ |-> IF v \in Reached(c) THEN EdgeAt(c, LastTo(c, v)) ELSE @[v]]]
    /\ touched' = [touched EXCEPT ![c.dir] = @ \cup Touched(c)]
    /\ queue' = (queue \ {c}) \cup Pushed(c)
    /\ UNCHANGED <<net, pc, query, foundBest, result, asked>>

-----------------------------------------------------------------------------
(* compute_best_path: the path *)

\* The edges from the first node of direction dir to v, following the predecessors.
Chain(dir, v) ==
    LET chain[u \in Nodes] ==
            IF predecessors[dir][u] = None
            THEN <<>>
            ELSE Append(chain[Source(dir, predecessors[dir][u])], predecessors[dir][u])
    IN  chain[v]

BuildPath ==
    /\ pc = "path"
    /\ pc' = "idle"
    /\ result' = IF bestMeeting.idx = None
                 THEN NoPath
                 ELSE [found |-> TRUE,
                       path |-> Chain("FWD", bestMeeting.idx)
                                  \o Reverse(Chain("BWD", bestMeeting.idx))]
    /\ UNCHANGED <<net, query, searchVars, asked>>

Search ==
    \/ EndSearch
    \/ \E c \in queue : SkipStale(c) \/ CloseDirection(c) \/ Expand(c)
    \/ BuildPath

\* The owner of the object asks no more, or its thread is gone.
Stopped ==
    /\ pc = "panicked" \/ (pc = "idle" /\ asked = MaxQueries(net))
    /\ UNCHANGED vars

Next == (\E q \in Query : Refuse(q) \/ Start(q) \/ StartPanics(q)) \/ Search \/ Stopped

\* A started query runs in its thread until it returns.
Spec == Init /\ [][Next]_vars /\ WF_vars(Search)

-----------------------------------------------------------------------------
(* Properties *)

\* Every variable has its type.
TypeOK ==
    /\ IsNetwork(net)
    /\ pc \in {"idle", "search", "path", "panicked"}
    /\ query \in [src : Nodes, dst : Nodes, alphas : Alphas, algo : {"Dijkstra", "CHDijkstra"}]
    /\ \A dir \in Dirs :
          /\ DOMAIN costs[dir] \subseteq Nodes
          /\ \A v \in DOMAIN costs[dir] : costs[dir][v] \in Nat \cup {Inf}
          /\ DOMAIN predecessors[dir] = DOMAIN costs[dir]
          /\ \A v \in DOMAIN costs[dir] :
                predecessors[dir][v] \in {None} \cup DOMAIN net.edges
          /\ DOMAIN isVisited[dir] \in {{}, Nodes}
          /\ \A v \in DOMAIN isVisited[dir] : isVisited[dir][v] \in BOOLEAN
          /\ foundBest[dir] \in BOOLEAN
          /\ touched[dir] \subseteq Nodes
    /\ queue \subseteq [cost : Nat, idx : Nodes, dir : Dirs]
    /\ bestMeeting \in [idx : Nodes \cup {None}, cost : Nat \cup {Inf}]
    /\ result \in [found : BOOLEAN, path : Seq(DOMAIN net.edges)]
    /\ asked \in 0 .. MaxQueries(net)

Distances(alphas) == Ways(net, alphas, 1 .. net.originals)
Distance(s, t) == Distances(query.alphas)[<<s, t>>]

PathCost(path) ==
    LET sum[i \in 0 .. Len(path)] ==
            IF i = 0 THEN 0 ELSE sum[i - 1] + Weight(query.alphas, net.edges[path[i]])
    IN  sum[Len(path)]

IsWalk(path, s, t) ==
    IF path = <<>>
    THEN s = t
    ELSE /\ net.edges[path[1]].src = s
         /\ net.edges[path[Len(path)]].dst = t
         /\ \A i \in 1 .. Len(path) - 1 : net.edges[path[i]].dst = net.edges[path[i + 1]].src

\* Whatever was asked before, an answered query has the best path from src to dst, over
\* shortcuts too, and none exactly when dst cannot be reached ("correct for contracted and
\* non-contracted graphs", dijkstra.rs:21).
BestPath ==
    pc = "idle" /\ asked > 0 /\ query.alphas \in NonNegative =>
        IF result.found
        THEN /\ IsWalk(result.path, query.src, query.dst)
             /\ PathCost(result.path) = Distance(query.src, query.dst)
        ELSE Distance(query.src, query.dst) = Inf

\* The list of touched nodes never misses one: draining it leaves no cost and no
\* predecessor of an earlier query (the assertions commented out in init_query).
TouchedCoversVectors ==
    \A dir \in Dirs : \A v \in DOMAIN costs[dir] :
        costs[dir][v] # Inf \/ predecessors[dir][v] # None => v \in touched[dir]

\* Without a hierarchy and before the searches meet, a visited node's cost is final, so
\* that the first meeting node bounds the best path and nothing need be enqueued afterwards.
VisitedIsFinal ==
    pc = "search" /\ ~IsCh /\ bestMeeting.idx = None =>
        \A dir \in Dirs : \A v \in Nodes :
            isVisited[dir][v] =>
                costs[dir][v] = IF dir = "FWD" THEN Distance(query.src, v)
                                               ELSE Distance(v, query.dst)

\* The predecessors of the meeting node always lead back to src and dst, along edges whose
\* costs do not exceed the total remembered for it, however late its costs are improved.
MeetingIsConnected ==
    pc \in {"search", "path"} /\ bestMeeting.idx # None =>
        LET path == Chain("FWD", bestMeeting.idx) \o Reverse(Chain("BWD", bestMeeting.idx))
        IN  IsWalk(path, query.src, query.dst) /\ ~Cheaper(bestMeeting.cost, PathCost(path))

\* Every query is answered.
Answered == []<>(pc # "search" /\ pc # "path")

\* "Resizes existing datastructures storing routing-data, like costs" (dijkstra.rs:70): no
\* query indexes a vector out of bounds.
NeverPanics == pc # "panicked"
=============================================================================
