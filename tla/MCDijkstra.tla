----------------------------- MODULE MCDijkstra -----------------------------
(***************************************************************************)
(* Small road networks for the searches.  The contraction hierarchy is the *)
(* external multi-ch-constructor's: here every node is contracted, in the  *)
(* order of the levels, with a shortcut for each pair of edges through it. *)
(***************************************************************************)
EXTENDS Dijkstra, FiniteSets

CONSTANT FirstNetwork, LastNetwork      \* which of the networks are checked

\* One shortcut for each pair of edges through v that stays above it, in some order.
Contracted(n, level, edges, v) ==
    LET pairs == {p \in (1 .. Len(edges)) \X (1 .. Len(edges)) :
                    /\ edges[p[1]].dst = v /\ edges[p[2]].src = v
                    /\ edges[p[1]].src # edges[p[2]].dst
                    /\ level[edges[p[1]].src] > level[v] /\ level[edges[p[2]].dst] > level[v]}
        rank(p) == Cardinality({q \in pairs : q[1] < p[1] \/ (q[1] = p[1] /\ q[2] < p[2])})
        nth(i) == CHOOSE p \in pairs : rank(p) = i - 1
        shortcut(p) == [src |-> edges[p[1]].src, dst |-> edges[p[2]].dst,
                        metrics |-> <<edges[p[1]].metrics[1] + edges[p[2]].metrics[1],
                                      edges[p[1]].metrics[2] + edges[p[2]].metrics[2]>>]
    IN  edges \o [i \in 1 .. Cardinality(pairs) |-> shortcut(nth(i))]

Hierarchy(n, level, edges) ==
    LET stage[k \in 0 .. n] ==
            IF k = 0 THEN edges
            ELSE Contracted(n, level, stage[k - 1],
                            CHOOSE v \in 0 .. n - 1 : level[v] = k - 1)
    IN  stage[n]

\* The order of the edges: by descending level of the target, the target, the edge.
LeavingEdges(n, level, edges) ==
    [dir \in Dirs |-> [v \in 0 .. n - 1 |->
        LET target(e) == IF dir = "FWD" THEN edges[e].dst ELSE edges[e].src
            source(e) == IF dir = "FWD" THEN edges[e].src ELSE edges[e].dst
            own == {e \in DOMAIN edges : source(e) = v}
            less(e, f) == \/ level[target(e)] > level[target(f)]
                          \/ target(e) = target(f) /\ e < f
            rank(e) == Cardinality({f \in own : less(f, e)})
        IN  [i \in 1 .. Cardinality(own) |-> CHOOSE e \in own : rank(e) = i - 1]]]

Built(n, level, arcs) ==
    LET edges == Hierarchy(n, level, arcs)
    IN  [n |-> n, level |-> level, edges |-> edges, originals |-> Len(arcs),
         leaving |-> LeavingEdges(n, level, edges)]

Arc(s, t, m) == [src |-> s, dst |-> t, metrics |-> m]

\* Two routes from 0 to 3 with a bridge in both directions and a way back: each arc with
\* one of three metrics, so that the best path, its length and the meeting node vary.
Metrics == <<<<1, 4>>, <<3, 1>>, <<5, 0>>>>
Digit(i, k) == ((i \div (3 ^ k)) % 3) + 1
Diamond(i) ==
    <<Arc(0, 1, Metrics[Digit(i, 0)]), Arc(1, 3, Metrics[Digit(i, 1)]),
      Arc(0, 2, Metrics[Digit(i, 2)]), Arc(2, 3, Metrics[Digit(i, 3)]),
      Arc(1, 2, Metrics[Digit(i, 4)]), Arc(2, 1, <<1, 1>>), Arc(3, 1, <<1, 0>>)>>

\* Node v has level levels[v].
Levels == <<[v \in 0 .. 3 |-> v], [v \in 0 .. 3 |-> (v + 2) % 4], [v \in 0 .. 3 |-> 3 - v]>>

MCNetworks ==
    {Built(4, Levels[(i % 3) + 1], Diamond(i)) : i \in FirstNetwork .. LastNetwork}

\* A single two-way street.
MCTwoNodes ==
    {Built(2, [v \in 0 .. 1 |-> v], <<Arc(0, 1, <<1, 1>>), Arc(1, 0, <<1, 1>>)>>)}

\* One query on each of the diamonds.  Two in a row on some of them, and on the street, where an
\* object for two nodes never gets past its first.
MCReuseNetworks == {Built(4, Levels[(i % 3) + 1], Diamond(i)) : i \in FirstNetwork .. FirstNetwork + 4}
MCAllNetworks == MCNetworks \cup MCTwoNodes
MCMaxQueries(n) == IF n \in MCReuseNetworks THEN 2 ELSE 1

MCAlphas == {<<1, 0>>, <<1, 1>>}
MCAlphasOfBothSigns == MCAlphas \cup {<<-1, 1>>}
=============================================================================
