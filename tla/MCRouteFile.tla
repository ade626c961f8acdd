---------------------------- MODULE MCRouteFile -----------------------------
(* Graphs of up to three nodes: a one-way street, a cycle with a way out, an island, a ring. *)
EXTENDS RouteFile

Pair == [ids |-> <<-3, 8>>, edges |-> {<<0, 1>>}]
Lasso == [ids |-> <<2, 5, 6>>, edges |-> {<<0, 1>>, <<1, 0>>, <<1, 2>>}]
Ring == [ids |-> <<-31, 5, 12>>, edges |-> {<<0, 1>>, <<1, 2>>, <<2, 0>>}]
Island == [ids |-> <<2, 5, 6>>, edges |-> {<<2, 1>>, <<1, 1>>}]

Request(g, maxCount) == [ids |-> g.ids, edges |-> g.edges, maxCount |-> maxCount]

MCRequests ==
    {Request(Pair, m) : m \in {0, 1, 3, 4, 5}} \cup {Request(Lasso, m) : m \in {2, 9}}
        \cup {Request(Ring, m) : m \in {1, 9, 10}}
        \cup {Request(Island, 1), Request(Island, 9)}

\* With several counts, with none, and with routes that are missing, too many or malformed
MCFiles ==
    { << <<7, 7>>, <<5>>, <<2>>, <<2, 5, 3>>, <<5, 6, 0>>, <<6, 2, 1>> >>, << <<2, 5, 3>> >>, <<>>,
      << <<2>>, <<2, 5, 1>> >>, << <<1>>, <<2, 5>> >>, << <<-1>>, <<1>>, <<2, 5, -1>> >> }
=============================================================================
