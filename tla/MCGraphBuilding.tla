-------------------------- MODULE MCGraphBuilding ---------------------------
(***************************************************************************)
(* Small map-files.  The ids of their nodes are not their indices.         *)
(***************************************************************************)
EXTENDS GraphBuilding

Edge(s, t, m) == [id |-> None, src |-> s, dst |-> t, metric |-> m, halves |-> <<>>]
WithId(e, id) == [e EXCEPT !.id = id]
Shortcut(s, t, m, a, b) == [Edge(s, t, m) EXCEPT !.halves = <<a, b>>]
Node(id, lvl) == [id |-> id, level |-> lvl]
File(es, ns) == [edges |-> es, nodes |-> ns]

\* Levels in both orders; a node of no edge; a node that is read twice.
NodesUp   == <<Node(3, None), Node(5, 1), Node(8, 2), Node(4, 7)>>
NodesDown == <<Node(8, None), Node(3, 1), Node(5, 1), Node(3, 2)>>
NodeLists == {NodesUp, NodesDown}

\* Three edges between neighbours on a street 3 - 5 - 8, with metrics that are close to zero,
\* close to each other, and neither: duplicates, opposite directions, nodes without edges.
Streets ==
    LET kinds == {Edge(st[1], st[2], m) :
                    st \in {<<3, 5>>, <<5, 3>>, <<5, 8>>, <<8, 3>>}, m \in {0, 1, 3}}
    IN  {File(es, ns) : es \in [1 .. 3 -> kinds], ns \in NodeLists}

\* Edges with ids: the same id for duplicates, for different edges, and none.
Identified ==
    LET kinds == {WithId(Edge(3, st, m), id) :
                    st \in {5, 8}, m \in {1, 3}, id \in {None, 1, 2}}
    IN  {File(es, NodesUp) : es \in [1 .. 3 -> kinds]}

\* Six edges in any order: two and two duplicates of the halves 3 -> 5 and 5 -> 8, and two
\* shortcuts 3 -> 8 via any of them.
Order(p, x, y) ==
    LET at(k) == CHOOSE i \in 1 .. 6 : p[i] = k
        ref(k) == at(k) - 1
        all == <<Edge(3, 5, 2), Edge(3, 5, 3), Edge(5, 8, 1), Edge(5, 8, 1),
                 Shortcut(3, 8, 3, ref(x), ref(y)), Shortcut(3, 8, 6, ref(1), ref(3))>>
    IN  [i \in 1 .. 6 |-> all[p[i]]]
Shortcuts ==
    {File(Order(p, x, y), NodesUp) :
        p \in {q \in [1 .. 6 -> 1 .. 6] : \A i, j \in 1 .. 6 : i # j => q[i] # q[j]},
        x \in {1, 2}, y \in {3, 4}}

\* Files out of the ordinary: no edges, no node-lines, a negative metric, a self-loop, a
\* shortcut that refers to no edge.
Unusual ==
    {File(<<>>, NodesUp),
     File(<<Edge(3, 5, 1)>>, <<Node(3, 0)>>),
     File(<<Edge(3, 5, -2)>>, NodesUp),
     File(<<Edge(5, 5, 1), Edge(5, 3, 1)>>, NodesDown),
     File(<<Edge(3, 5, 1), Shortcut(3, 5, 1, 0, 2)>>, NodesUp)}

\* Metrics below zero, by the accuracy and by more.
Negative ==
    LET kinds == {WithId(Edge(3, 5, m), id) : m \in -3 .. 2, id \in {None, 1}}
    IN  {File(es, NodesUp) : es \in [1 .. 3 -> kinds]}

MCFiles == Streets \cup Identified \cup Shortcuts \cup Negative \cup Unusual
MCStreets == Streets
=============================================================================
