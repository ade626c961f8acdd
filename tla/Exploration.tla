---------------------------- MODULE Exploration -----------------------------
(***************************************************************************)
(* The ConvexHullExplorator (src/src/routing/explorating.rs): alternative  *)
(* paths of one query, as vertices of the convex hull of their costs.      *)
(* Each facet of the hull asks Dijkstra for a path below it.               *)
(*                                                                         *)
(* A query is the set of its paths' costs, where Dijkstra returns any best *)
(* path.  The triangulation (nd_triangulation, external) is its hull, for  *)
(* up to two metrics: each added vertex gets a new id, but points that are *)
(* there already leave the cells as they are.                              *)
(***************************************************************************)
EXTENDS Integers, FiniteSets, SequencesExt, Rationals

CONSTANTS
    Queries,   \* see IsQuery
    Accuracy   \* defaults::accuracy::F64_ABS

\* paths[p][m]: the cost of a path in a metric; the considered metrics are those with alphas
\* above zero; Infinity is a scale, and a tolerance, of none.
Infinity == <<>>

IsQuery(q) ==
    /\ q.dim \in Nat \ {0}
    /\ \A p \in DOMAIN q.paths : q.paths[p] \in [1 .. q.dim -> Nat]
    /\ q.considered \subseteq 1 .. q.dim /\ Cardinality(q.considered) \in 1 .. 2
    /\ \A m \in 1 .. q.dim : q.scales[m] = Infinity \/ Less(Zero, q.scales[m])

ASSUME ExplorationAssumption == \A q \in Queries : IsQuery(q)

VARIABLES
    query,       \* never changes
    pc,          \* "init", "update", "round", "explore", "done"
    mask,        \* the next combination of metrics to begin with
    tolerances,
    newPaths,    \* new_found_paths
    found,       \* found_paths, by vertex-ids 1, 2, ..., which are also the triangulation
    tolerated,   \* tolerated_found_paths
    cells,       \* cells of the hull that are left in this round, as sets of points
    visited,     \* visited_cells
    result

vars == <<query, pc, mask, tolerances, newPaths, found, tolerated, cells, visited, result>>

Init ==
    /\ query \in Queries
    /\ pc = "init"
    /\ mask = 1
    /\ tolerances = [m \in 1 .. query.dim |-> Infinity]
    /\ newPaths = <<>> /\ found = <<>> /\ tolerated = <<>>
    /\ cells = {} /\ visited = {}
    /\ result = <<>>

Metrics == 1 .. query.dim
Costs(p) == query.paths[p]
AlphaCost(alphas, costs) ==
    SumOf([m \in Metrics |-> Times(alphas[m], <<costs[m], 1>>)])

\* What compute_best_path may return; it returns None for a negative alpha (Dijkstra).
BestPaths(alphas) ==
    IF \E m \in Metrics : Less(alphas[m], Zero) THEN {}
    ELSE {p \in DOMAIN query.paths :
            \A q \in DOMAIN query.paths :
                Leq(AlphaCost(alphas, Costs(p)), AlphaCost(alphas, Costs(q)))}

IsWithin(cost, tolerance) == tolerance = Infinity \/ Leq(<<cost, 1>>, tolerance)

-----------------------------------------------------------------------------
(* explore_initial_paths *)

MetricsOf(bits) == {m \in Metrics : (bits \div 2 ^ (m - 1)) % 2 = 1}

AlphasOf(bits) == [m \in Metrics |-> IF m \in MetricsOf(bits) THEN One ELSE Zero]

\* A best path of a single metric sets its tolerance.
ToleranceBy(p, m) ==
    IF MetricsOf(mask) # {m} THEN tolerances[m]
    ELSE IF query.scales[m] = Infinity THEN Infinity
    ELSE Times(<<Costs(p)[m], 1>>, query.scales[m])

InitialPath ==
    /\ pc = "init"
    /\ mask < 2 ^ query.dim
    /\ LET best == BestPaths(AlphasOf(mask))
       IN  IF ~MetricsOf(mask) \subseteq query.considered \/ best = {}
           THEN UNCHANGED <<tolerances, newPaths>>
           ELSE \E p \in best :
                  /\ tolerances' = [m \in Metrics |-> ToleranceBy(p, m)]
                  /\ newPaths' = IF \E k \in DOMAIN newPaths : Costs(newPaths[k]) = Costs(p)
                                 THEN newPaths ELSE Append(newPaths, p)
    /\ mask' = mask + 1
    /\ UNCHANGED <<query, pc, found, tolerated, cells, visited, result>>

EndInitial ==
    /\ pc = "init"
    /\ mask = 2 ^ query.dim
    /\ pc' = "update"
    /\ UNCHANGED <<query, mask, tolerances, newPaths, found, tolerated, cells, visited, result>>

-----------------------------------------------------------------------------
(* update *)

\* (Costs and tolerances differ by more than the accuracy, or not at all.)
IsTolerated(p) == \A m \in Metrics : IsWithin(Costs(p)[m], tolerances[m])

\* A hull needs more points than dimensions.
IsExplorable(paths) ==
    /\ Cardinality(query.considered) > 1
    /\ Len(paths) > Cardinality(query.considered)

\* The loop ends with the first round that finds nothing new.
Update ==
    LET first == Len(found)
        all == found \o newPaths
        ids == [k \in DOMAIN newPaths |-> first + k]
    IN  /\ pc = "update"
        /\ found' = all
        /\ tolerated' = tolerated \o SelectSeq(ids, LAMBDA id : IsTolerated(all[id]))
        /\ newPaths' = <<>>
        /\ IF newPaths # <<>> /\ IsExplorable(all)
             THEN pc' = "round" /\ UNCHANGED result
             ELSE /\ pc' = "done"
                  /\ result' = [k \in DOMAIN tolerated' |-> all[tolerated'[k]]]
        /\ UNCHANGED <<query, mask, tolerances, cells, visited>>

-----------------------------------------------------------------------------
(* Cells of the hull (external), which are lines between points in the considered metrics. *)

First == CHOOSE m \in query.considered : \A n \in query.considered : m <= n
Second == CHOOSE m \in query.considered : \A n \in query.considered : n <= m
Point(p) == <<Costs(p)[First], Costs(p)[Second]>>

\* Twice the area of a triangle
Area(p, q, r) == (q[1] - p[1]) * (r[2] - p[2]) - (q[2] - p[2]) * (r[1] - p[1])

IsBetween(p, q, r) ==
    /\ p # q /\ p # r /\ Area(p, q, r) = 0
    /\ (p[1] - q[1]) * (p[1] - r[1]) + (p[2] - q[2]) * (p[2] - r[2]) < 0

\* Neighbours on the hull, where points on a line are a hull of their ends
Hull(points) ==
    LET ends == {p \in points : ~\E q, r \in points : IsBetween(p, q, r)}
    IN  IF \A p, q, r \in points : Area(p, q, r) = 0
        THEN {{p} : p \in ends}
        ELSE {{p, q} : <<p, q>> \in {pair \in points \X points :
                /\ pair[1] # pair[2]
                /\ \/ \A r \in points : Area(pair[1], pair[2], r) >= 0
                   \/ \A r \in points : Area(pair[1], pair[2], r) <= 0
                /\ ~\E r \in points : IsBetween(r, pair[1], pair[2])}}

BeginRound ==
    /\ pc = "round"
    /\ cells' = Hull({Point(found[id]) : id \in DOMAIN found})
    /\ pc' = "explore"
    /\ UNCHANGED <<query, mask, tolerances, newPaths, found, tolerated, visited, result>>

\* Mutants: no cell is remembered;
NotRemembered(cell) == FALSE
\* cells are left out as soon as a path of theirs isn't tolerated.
HasIntolerable(cell) ==
    \E p \in cell : ~IsWithin(p[1], tolerances[First]) \/ ~IsWithin(p[2], tolerances[Second])

IsVisited(cell) == cell \in visited

\* In some metric, no path of the cell is within the tolerance.
IsHopeless(cell) ==
    \/ ~\E p \in cell : IsWithin(p[1], tolerances[First])
    \/ ~\E p \in cell : IsWithin(p[2], tolerances[Second])

\* create_linear_system and its solution: alphas that make both points cost the same, and sum
\* up to 1.  Points on a line, and lines with a slope of 1, have none.
Alphas(cell) ==
    LET p == CHOOSE x \in cell : TRUE
        q == CHOOSE x \in cell : x # p
        d == <<p[1] - q[1], p[2] - q[2]>>
    IN  IF Cardinality(cell) # 2 THEN {}
        ELSE IF d[1] = d[2] THEN {}
        ELSE {[m \in Metrics |-> CASE m = First -> Ratio(-d[2], d[1] - d[2])
                                   [] m = Second -> Ratio(d[1], d[1] - d[2])
                                   [] OTHER -> Zero]}

\* A path that is better than those of the cell, for the cell's alphas
IsBelow(p, cell, alphas) ==
    LET new == AlphaCost(alphas, Costs(p))
        v == CHOOSE x \in cell : TRUE
        any == Plus(Times(alphas[First], <<v[1], 1>>), Times(alphas[Second], <<v[2], 1>>))
    IN  Less(new, any) /\ ~AreClose(new, any, Accuracy)

JumpOver(cell) == IsHopeless(cell) \/ Alphas(cell) = {}

\* Cells come in any order.  A path that was found in an earlier round is new again.
ExploreCell ==
    /\ pc = "explore"
    /\ \E cell \in cells :
          /\ cells' = cells \ {cell}
          /\ visited' = visited \cup {cell}
          /\ IF IsVisited(cell) \/ JumpOver(cell)
             THEN UNCHANGED newPaths
             ELSE \E alphas \in Alphas(cell) :
                    LET best == BestPaths(alphas)
                    IN  IF best = {} THEN UNCHANGED newPaths
                        ELSE \E p \in best :
                               newPaths' = IF IsBelow(p, cell, alphas) /\ p \notin ToSet(newPaths)
                                           THEN Append(newPaths, p) ELSE newPaths
    /\ UNCHANGED <<query, pc, mask, tolerances, found, tolerated, result>>

EndRound ==
    /\ pc = "explore"
    /\ cells = {}
    /\ pc' = "update"
    /\ UNCHANGED <<query, mask, tolerances, newPaths, found, tolerated, cells, visited, result>>

Stopped == pc = "done" /\ UNCHANGED vars

Next ==
    \/ InitialPath \/ EndInitial
    \/ Update \/ BeginRound \/ ExploreCell \/ EndRound
    \/ Stopped

Spec == Init /\ [][Next]_vars

-----------------------------------------------------------------------------
(* Properties *)

\* Every variable has its type; tolerated paths are found paths.
TypeOK ==
    /\ IsQuery(query)
    /\ pc \in {"init", "update", "round", "explore", "done"}
    /\ mask \in 1 .. 2 ^ query.dim
    /\ ToSet(newPaths) \cup ToSet(found) \cup ToSet(result) \subseteq DOMAIN query.paths
    /\ ToSet(tolerated) \subseteq DOMAIN found
    /\ \A cell \in cells : Cardinality(cell) \in 1 .. 2

\* A path that is best for alphas that no other path's costs are as good for: it lies below each
\* line between other paths, and none is as good in both metrics.
IsCornerOfHull(p) ==
    LET points == {Point(q) : q \in DOMAIN query.paths} \ {Point(p)}
        c == Point(p)
    IN  /\ ~\E q \in points : q[1] <= c[1] /\ q[2] <= c[2]
        /\ ~\E q, r \in points : q[1] < c[1] /\ c[1] < r[1] /\ Area(q, r, c) >= 0

\* If the search gets going, it finds every corner of the hull that is tolerated, although
\* cells are left out for the tolerances, and paths on the way to a tolerated one may not be.
ToleratedCornersAreFound ==
    pc = "done" /\ IsExplorable(found) =>
        \A p \in DOMAIN query.paths :
            IsCornerOfHull(p) /\ IsTolerated(p) =>
                \E k \in DOMAIN result : Point(result[k]) = Point(p)

\* No more paths are added than the initial ones and one per cell: as there are finitely many
\* cells, of which none is explored twice, rounds in which known paths are found anew end.
CellsYieldOnePathEach ==
    Len(found) + Len(newPaths) <= 2 ^ Cardinality(query.considered) - 1 + Cardinality(visited)
=============================================================================
