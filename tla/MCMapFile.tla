----------------------------- MODULE MCMapFile ------------------------------
(* Three nodes in a row, with two streets that a shortcut spans. *)
EXTENDS MapFile

Node(id, level) == [id |-> id, level |-> level, lat |-> Ratio(id, 2), lon |-> Ratio(-id, 4)]
Edge(id, src, dst, halves, km) ==
    [id |-> id, src |-> src, dst |-> dst, halves |-> halves,
     metrics |-> [km |-> km, workload |-> <<1, 2>>]]

Base ==
    [nodes |-> <<Node(-7, 0), Node(9, 2), Node(12, 1)>>,
     edges |-> <<Edge(15, 1, 3, <<3, 2>>, <<45, 2>>), Edge(2, 2, 3, <<>>, <<10, 1>>),
                 Edge(41, 1, 2, <<>>, <<25, 2>>)>>,
     means |-> <<>>, withShortcuts |-> TRUE, denormalizing |-> FALSE, byIdx |-> FALSE,
     isContracted |-> FALSE,
     header |-> << <<Whole(2)>> >>,
     knownNodes |-> NodeInfo, knownEdges |-> EdgeInfo,
     writtenNodes |-> <<"NodeIdx", "NodeId", "Latitude", "Longitude", "ignored", "CHLevel">>,
     writtenEdges |-> <<"EdgeId", "SrcId", "DstId", "km", "workload", "ShortcutIdx0",
                        "ShortcutIdx1">>,
     parsedNodes |-> <<"ignored", "NodeId", "Latitude", "Longitude", "ignored", "CHLevel">>,
     parsedEdges |-> <<"EdgeId", "SrcId", "DstId", "metric", "metric", "ShortcutIdx0",
                       "ShortcutIdx1">>]

\* Configs that agree
Agreeing ==
    {Base, [Base EXCEPT !.withShortcuts = FALSE],
     [Base EXCEPT !.denormalizing = TRUE],
     [Base EXCEPT !.denormalizing = TRUE, !.means = [km |-> <<2, 1>>, workload |-> <<1, 3>>]],
     \* the nodes' indices instead of their ids, and fewer columns
     [Base EXCEPT !.byIdx = TRUE, !.parsedNodes = <<"NodeId", "ignored", "Latitude", "Longitude">>,
                  !.writtenEdges = <<"SrcIdx", "DstIdx", "ShortcutIdx1", "ShortcutIdx0", "km">>,
                  !.parsedEdges = <<"SrcId", "DstId", "ShortcutIdx1", "ShortcutIdx0">>],
     [Base EXCEPT !.writtenEdges = <<"DstId", "DstLat", "SrcId", "km", "ignored">>,
                  !.parsedEdges = <<"DstId", "ignored", "SrcId", "metric", "ignored">>],
     \* the last column that is read is a metric
     [Base EXCEPT !.writtenEdges = <<"DstId", "SrcId", "workload", "km">>,
                  !.parsedEdges = <<"DstId", "SrcId", "metric", "metric">>,
                  !.nodes[2].level = 10],
     [Base EXCEPT !.isContracted = TRUE], [Base EXCEPT !.edges = <<>>],
     \* what other programs write before the counts
     [Base EXCEPT !.header = <<>>],
     [Base EXCEPT !.header = << <<IgnoreStr, Whole(8)>>, <<IgnoreStr>>, <<Whole(1)>>, <<Whole(2)>> >>]}

\* Configs that don't
Misfits ==
    {[Base EXCEPT !.parsedNodes = <<"NodeId", "Latitude">>],
     [Base EXCEPT !.parsedNodes[1] = "NodeIdx"],
     [Base EXCEPT !.writtenNodes[1] = "height"], [Base EXCEPT !.writtenEdges[4] = "hours"],
     [Base EXCEPT !.writtenEdges[1] = "ignored"], [Base EXCEPT !.parsedEdges[7] = "metric"],
     [Base EXCEPT !.parsedEdges[1] = "SrcId"], [Base EXCEPT !.parsedEdges[7] = "ShortcutIdx0"],
     [Base EXCEPT !.parsedEdges[4] = "DstLat"], [Base EXCEPT !.writtenEdges[1] = "SrcId"],
     [Base EXCEPT !.parsedEdges = Append(@, "metric")]}

MCInputs == Agreeing \cup Misfits
=============================================================================
