------------------------------ MODULE MapFile -------------------------------
(***************************************************************************)
(* A graph through a fmi-file: the writers in src/src/io/writing/network/  *)
(* and the parser in src/src/io/parsing/network/graph/fmi.rs, up to the    *)
(* proto-edges and proto-nodes that GraphBuilding gets.                    *)
(*                                                                         *)
(* A line is a sequence of params, a param a pair of kind and number; f64s *)
(* are written such that they are read as they were, and without a point   *)
(* if they are whole.  Comments and empty lines are filtered in advance.   *)
(* The end of a file may get lost, also within a line or a number.         *)
(***************************************************************************)
EXTENDS Integers, FiniteSets, SequencesExt, Rationals, CountedLines

CONSTANT Inputs   \* graphs with configs for writing and parsing, see IsInput

NodeInfo == {"NodeId", "NodeIdx", "CHLevel", "Latitude", "Longitude"}
EdgeInfo == {"EdgeId", "SrcId", "SrcIdx", "SrcLat", "SrcLon", "DstId", "DstIdx", "DstLat",
             "DstLon", "ShortcutIdx0", "ShortcutIdx1"}

\* An id of a config is named after what the graph's config says it is: a metric by its id.  A
\* None for writing, or an ignored column for parsing, is "ignored".
IsInput(i) ==
    /\ \A k \in DOMAIN i.nodes :
          /\ i.nodes[k].id \in Int /\ i.nodes[k].level \in Nat
          /\ IsRational(i.nodes[k].lat) /\ IsRational(i.nodes[k].lon)
    /\ \A k \in DOMAIN i.edges :
          /\ i.edges[k].id \in Nat
          /\ {i.edges[k].src, i.edges[k].dst} \subseteq DOMAIN i.nodes
          /\ ToSet(i.edges[k].halves) \subseteq DOMAIN i.edges
          /\ \A id \in DOMAIN i.edges[k].metrics : IsRational(i.edges[k].metrics[id])
    /\ {i.withShortcuts, i.denormalizing, i.isContracted} \subseteq BOOLEAN
    /\ ToSet(i.parsedNodes) \subseteq NodeInfo \cup {"ignored"}
    /\ ToSet(i.parsedEdges) \subseteq EdgeInfo \cup {"metric", "ignored"}

ASSUME MapFileAssumption == \A i \in Inputs : IsInput(i)

VARIABLES
    input,    \* never changes
    pc,       \* "counts", "nodes", "edges", "close", "preprocess", "ways", "protos", "done", "err"
    pos,      \* the next node, edge or line
    file,     \* the lines
    complete, \* the lines when the file is closed, whose end may get lost then (history)
    lines,    \* node_lines and edge_lines, each as <<first, behind the last>>
    protoEdges,
    protoNodes

vars == <<input, pc, pos, file, complete, lines, protoEdges, protoNodes>>

-----------------------------------------------------------------------------
(* Params *)

Num(x) == <<"num", x>>
Whole(n) == Num(<<n, 1>>)
IgnoreStr == <<"word", Zero>>
NoShortcutIdx == Whole(-1)
EdgeCh(n) == <<"ch", <<n, 1>>>>   \* multi-ch-constructor's ids for shortcuts, like "ch123"

Pointed(x) == <<"pointed", x>>   \* a number with a point, whole or not, like "12."

IsF64(param) == param[1] \in {"num", "pointed"}
IsI64(param) == param[1] = "num" /\ param[2][2] = 1

IsUsize(param) == IsI64(param) /\ param[2][1] >= 0
Value(param) == param[2][1]

Init ==
    /\ input \in Inputs
    /\ pc = "counts" /\ pos = 1
    /\ file = input.header
    /\ complete = <<>>
    /\ lines = <<<<1, 0>>, <<1, 0>>>>
    /\ protoEdges = <<>> /\ protoNodes = <<>>

-----------------------------------------------------------------------------
(* Writing.  Nodes and edges are counted from 1 here, where files count from 0. *)

Idx(k) == k - 1

IsShortcut(e) == input.edges[e].halves # <<>>
IsWritten(e) == input.withShortcuts \/ ~IsShortcut(e)

NodeParam(n, id) ==
    LET node == input.nodes[n]
    IN  CASE id = "NodeId" -> Whole(node.id)
          [] id = "NodeIdx" -> Whole(Idx(n))
          [] id = "CHLevel" -> Whole(node.level)
          [] id = "Latitude" -> Num(node.lat)
          [] id = "Longitude" -> Num(node.lon)
          [] OTHER -> IgnoreStr

\* Mutant: a street has the halves 0 and 0.
HalfOrFirst(e, i) == IF IsShortcut(e) THEN Whole(Idx(input.edges[e].halves[i])) ELSE Whole(0)

Half(e, i) == IF IsShortcut(e) THEN Whole(Idx(input.edges[e].halves[i])) ELSE NoShortcutIdx

\* metrics, denormalized if the graph is normalized
Metric(e, id) ==
    LET value == input.edges[e].metrics[id]
    IN  IF input.denormalizing /\ input.means # <<>> THEN Times(value, input.means[id]) ELSE value

\* DstLat and DstLon are taken of the node that the backward-edge leads to, which is the source.
EdgeParam(e, id) ==
    LET edge == input.edges[e]
        src == input.nodes[edge.src]
        dst == input.nodes[edge.dst]
    IN  CASE id = "EdgeId" -> IF input.isContracted /\ IsShortcut(e) THEN EdgeCh(edge.id)
                              ELSE Whole(edge.id)
          [] id = "SrcId" -> Whole(src.id)
          [] id = "SrcIdx" -> Whole(Idx(edge.src))
          [] id \in {"SrcLat", "DstLat"} -> Num(src.lat)
          [] id \in {"SrcLon", "DstLon"} -> Num(src.lon)
          [] id = "DstId" -> Whole(dst.id)
          [] id = "DstIdx" -> Whole(Idx(edge.dst))
          [] id = "ShortcutIdx0" -> Half(e, 1)
          [] id = "ShortcutIdx1" -> Half(e, 2)
          [] id \in DOMAIN edge.metrics -> Num(Metric(e, id))
          [] OTHER -> IgnoreStr

\* An id, not in the graph's config, is found when there is something to write.
NodeLine(n) == [k \in DOMAIN input.writtenNodes |-> NodeParam(n, input.writtenNodes[k])]
EdgeLine(e) == [k \in DOMAIN input.writtenEdges |-> EdgeParam(e, input.writtenEdges[k])]
IsUnknown(id, ids) == id \notin ids \cup {"ignored"}

Writes(stage) == pc = stage /\ UNCHANGED <<input, complete, lines, protoEdges, protoNodes>>
Err == pc' = "err" /\ UNCHANGED <<pos, file>>

\* The header of the file, by fmi::Writer the number of metrics, is given.
WriteCounts ==
    /\ Writes("counts")
    /\ file' = file \o << <<Whole(Len(input.nodes))>>,
                          <<Whole(Len(SelectSeq([e \in DOMAIN input.edges |-> e], IsWritten)))>> >>
    /\ pc' = "nodes"
    /\ UNCHANGED pos

WriteNode ==
    /\ Writes("nodes")
    /\ pos \in DOMAIN input.nodes
    /\ IF \E id \in ToSet(input.writtenNodes) : IsUnknown(id, input.knownNodes)
         THEN Err
         ELSE file' = Append(file, NodeLine(pos)) /\ pos' = pos + 1 /\ UNCHANGED pc

WriteEdge ==
    /\ Writes("edges")
    /\ pos \in DOMAIN input.edges
    /\ IF ~IsWritten(pos)
         THEN pos' = pos + 1 /\ UNCHANGED <<pc, file>>
         ELSE IF \E id \in ToSet(input.writtenEdges) :
                    IsUnknown(id, input.knownEdges \cup DOMAIN input.edges[pos].metrics)
           THEN Err
           ELSE file' = Append(file, EdgeLine(pos)) /\ pos' = pos + 1 /\ UNCHANGED pc

EndWriting ==
    /\ \/ Writes("nodes") /\ pos > Len(input.nodes) /\ pc' = "edges"
       \/ Writes("edges") /\ pos > Len(input.edges) /\ pc' = "close"
    /\ pos' = 1
    /\ UNCHANGED file

\* What may be left of a param: a number loses digits of its fraction, its point, and digits of
\* its whole part, until a minus stays alone.
Shortened(param) ==
    LET size == Magnitude(param[2][1])
        sign == IF param[2][1] < 0 THEN -1 ELSE 1
        whole == size \div param[2][2]
        minus == IF sign < 0 THEN {IgnoreStr} ELSE {}
        wholes(ns) == {Whole(sign * n) : n \in ns}
        fraction(k) == Ratio(sign * ((size * 10^k) \div param[2][2]), 10^k)
    IN  CASE IsI64(param) -> minus \cup wholes(Heads(size))
          [] IsF64(param) /\ ~IsI64(param) ->
                minus \cup wholes(Heads(whole) \cup {whole})
                      \cup {Pointed(fraction(k)) : k \in 0 .. MaxDigits}
          [] param[1] = "ch" -> {IgnoreStr} \cup {EdgeCh(n) : n \in Heads(size)}
          [] OTHER -> {}

\* The BufWriter is dropped, where an error in writing what is left is ignored.
Close ==
    /\ pc = "close"
    /\ complete' = file
    /\ file' \in LeftOf(file, [param \in Params(file) |-> Shortened(param)])
    /\ pc' = "preprocess"
    /\ UNCHANGED <<input, pos, lines, protoEdges, protoNodes>>

-----------------------------------------------------------------------------
(* Parsing *)

\* Mutant: nodes are counted first.
NodesFirst(counts) ==
    LET first == Min(counts)
    IN  <<Value(file[first][1]), Value(file[Min(counts \ {first})][1])>>

\* The last two of at least two lines with counts
NodeAndEdgeCount(counts) ==
    LET last == Max(counts)
    IN  <<Value(file[Max(counts \ {last})][1]), Value(file[last][1])>>

\* Every stage of parsing reads the file from its start.
Parses(stage) == pc = stage /\ UNCHANGED <<input, file, complete>>

Preprocess ==
    LET counts == {k \in SingleLines(file) : IsUsize(file[k][1])}
        count == NodeAndEdgeCount(counts)
        behindNodes == BehindCounts(file) + count[1]
    IN  /\ Parses("preprocess")
        /\ IF Cardinality(counts) < 2
             THEN pc' = "err" /\ UNCHANGED <<lines, pos>>
             ELSE /\ lines' = <<<<BehindCounts(file), behindNodes>>,
                                <<behindNodes, behindNodes + count[2]>>>>
                  /\ pos' = behindNodes
                  /\ pc' = "ways"
        /\ UNCHANGED <<protoEdges, protoNodes>>

Columns(categories, info) == {k \in DOMAIN categories : categories[k] = info}

FitsEdge(info, param) ==
    CASE info = "EdgeId" -> IsUsize(param) \/ param[1] = "ch"
      [] info \in {"SrcId", "DstId"} -> IsI64(param)
      [] info \in {"ShortcutIdx0", "ShortcutIdx1"} -> param = NoShortcutIdx \/ IsUsize(param)
      [] info = "metric" -> IsF64(param)
      [] OTHER -> info = "ignored"

\* ProtoShortcut::try_from_str returns an edge.  It panics where an EdgeId is a single char and
\* no number, which counts as failing here.
IsEdge(params, categories) ==
    LET halves(info) == {k \in Columns(categories, info) : params[k] # NoShortcutIdx}
    IN  /\ \A k \in DOMAIN categories : k \in DOMAIN params /\ FitsEdge(categories[k], params[k])
        /\ Cardinality(Columns(categories, "SrcId")) = 1
        /\ Cardinality(Columns(categories, "DstId")) = 1
        /\ Cardinality(halves("ShortcutIdx0")) <= 1
        /\ Cardinality(halves("ShortcutIdx1")) <= 1

\* An edge with one half is no shortcut.
ToEdge(params, categories) ==
    LET columns(info) == Columns(categories, info)
        halves(info) == {Value(params[k]) : k \in {j \in columns(info) : params[j] # NoShortcutIdx}}
        metric == SelectSeq([k \in DOMAIN categories |-> k], LAMBDA k : categories[k] = "metric")
    IN  [id |-> IF columns("EdgeId") = {} THEN -1 ELSE Value(params[Max(columns("EdgeId"))]),
         src |-> Value(params[Max(columns("SrcId"))]),
         dst |-> Value(params[Max(columns("DstId"))]),
         metrics |-> [k \in DOMAIN metric |-> params[metric[k]][2]],
         halves |-> IF {} \in {halves("ShortcutIdx0"), halves("ShortcutIdx1")} THEN <<>>
                    ELSE <<CHOOSE h \in halves("ShortcutIdx0") : TRUE,
                           CHOOSE h \in halves("ShortcutIdx1") : TRUE>>]

FitsNode(info, param) ==
    CASE info = "NodeId" -> IsI64(param)
      [] info = "CHLevel" -> IsUsize(param)
      [] info \in {"Latitude", "Longitude"} -> IsF64(param)
      [] OTHER -> info = "ignored"

IsNode(params, categories) ==
    /\ \A k \in DOMAIN categories : k \in DOMAIN params /\ FitsNode(categories[k], params[k])
    /\ {"NodeId", "Latitude", "Longitude"} \subseteq ToSet(categories)

\* ProtoNode::from_str: the last of several columns counts.
ToNode(params, categories) ==
    LET columns(info) == Columns(categories, info)
        value(info) == params[Max(columns(info))]
    IN  [id |-> Value(value("NodeId")),
         level |-> IF columns("CHLevel") = {} THEN -1 ELSE Value(value("CHLevel")),
         lat |-> value("Latitude")[2], lon |-> value("Longitude")[2]]

\* A file that ends early is no error.
ParseWay ==
    /\ Parses("ways")
    /\ pos < lines[2][2] /\ pos \in DOMAIN file
    /\ IF IsEdge(file[pos], input.parsedEdges)
         THEN /\ protoEdges' = Append(protoEdges, ToEdge(file[pos], input.parsedEdges))
              /\ pos' = pos + 1
              /\ UNCHANGED pc
         ELSE pc' = "err" /\ UNCHANGED <<protoEdges, pos>>
    /\ UNCHANGED <<lines, protoNodes>>

ParseNode ==
    /\ Parses("protos")
    /\ pos < lines[1][2] /\ pos \in DOMAIN file
    /\ IF IsNode(file[pos], input.parsedNodes)
         THEN /\ protoNodes' = Append(protoNodes, ToNode(file[pos], input.parsedNodes))
              /\ pos' = pos + 1
              /\ UNCHANGED pc
         ELSE pc' = "err" /\ UNCHANGED <<protoNodes, pos>>
    /\ UNCHANGED <<lines, protoEdges>>

EndParsing ==
    /\ \/ /\ Parses("ways")
          /\ pos >= lines[2][2] \/ pos \notin DOMAIN file
          /\ pc' = "protos" /\ pos' = lines[1][1]
       \/ /\ Parses("protos")
          /\ pos >= lines[1][2] \/ pos \notin DOMAIN file
          /\ pc' = "done" /\ UNCHANGED pos
    /\ UNCHANGED <<lines, protoEdges, protoNodes>>

Stopped == pc \in {"done", "err"} /\ UNCHANGED vars

Next ==
    \/ WriteCounts \/ WriteNode \/ WriteEdge \/ EndWriting \/ Close
    \/ Preprocess \/ ParseWay \/ ParseNode \/ EndParsing
    \/ Stopped

Spec == Init /\ [][Next]_vars

-----------------------------------------------------------------------------
(* Properties *)

\* Every variable has its type; what the code has as usize is never negative, other than -1,
\* which stands for None.
TypeOK ==
    /\ IsInput(input)
    /\ pc \in {"counts", "nodes", "edges", "close", "preprocess", "ways", "protos", "done", "err"}
    /\ pos \in Nat \ {0}
    /\ \A k \in DOMAIN file : \A j \in DOMAIN file[k] :
          file[k][j][1] \in {"num", "pointed", "word", "ch"} /\ IsRational(file[k][j][2])
    /\ Len(file) <= Len(complete) \/ complete = <<>>
    /\ \A k \in DOMAIN protoEdges :
          /\ {protoEdges[k].id} \cup ToSet(protoEdges[k].halves) \subseteq Nat \cup {-1}
          /\ Len(protoEdges[k].halves) \in {0, 2}
    /\ \A k \in DOMAIN protoNodes : protoNodes[k].level \in Nat \cup {-1}

\* Configs agree if a column is ignored, or is read as what it is written as; nodes are told
\* apart either by their ids or by their indices.  Lines have several columns, unlike counts.
IsReadAs(written, parsed, id, idx, metrics) ==
    /\ Len(parsed) <= Len(written)
    /\ \A k \in DOMAIN parsed :
          CASE parsed[k] = "ignored" -> TRUE
            [] parsed[k] = "metric" -> written[k] \in metrics
            [] parsed[k] \in id -> written[k] = IF input.byIdx THEN idx[parsed[k]] ELSE parsed[k]
            [] OTHER -> written[k] = parsed[k]
    /\ \A j, k \in DOMAIN parsed : j # k => written[j] # written[k] \/ parsed[j] = "ignored"

ConfigsAgree ==
    /\ input.edges # <<>>
    /\ IsReadAs(input.writtenNodes, input.parsedNodes, {"NodeId"}, [NodeId |-> "NodeIdx"], {})
    /\ IsReadAs(input.writtenEdges, input.parsedEdges, {"SrcId", "DstId"},
                [SrcId |-> "SrcIdx", DstId |-> "DstIdx"], DOMAIN input.edges[1].metrics)
    /\ {"NodeId", "Latitude", "Longitude"} \subseteq ToSet(input.parsedNodes)
    /\ {"SrcId", "DstId"} \subseteq ToSet(input.parsedEdges)
    /\ ToSet(input.parsedEdges) \subseteq
          {"EdgeId", "SrcId", "DstId", "ShortcutIdx0", "ShortcutIdx1", "metric", "ignored"}
    /\ ToSet(input.parsedNodes) \cap {"NodeIdx"} = {}
    /\ ToSet(input.writtenNodes) \subseteq input.knownNodes \cup {"ignored"}
    /\ ToSet(input.writtenEdges) \subseteq
          input.knownEdges \cup {"ignored"} \cup DOMAIN input.edges[1].metrics

\* The k-th param of line p is as it was written; the whole line is.
Survives(p, k) == p \in DOMAIN file /\ k \in DOMAIN file[p] /\ file[p][k] = complete[p][k]
IsWhole(p) == p \in DOMAIN file /\ file[p] = complete[p]

\* Whatever columns the configs choose and ignore, and whatever precedes the counts, a written
\* graph can be parsed.  If the file has lost its end, this fails for one of two reasons: counts
\* are missing, or the last line has lost a param that is read, or some of it.
WrittenIsReadable ==
    pc = "err" /\ ConfigsAgree =>
        LET parsed == IF pos < lines[2][1] THEN input.parsedNodes ELSE input.parsedEdges
        IN  /\ complete # <<>> /\ file # complete
            /\ \/ Len(file) < Len(input.header) + 2
               \/ pos = Len(file) /\ \E k \in DOMAIN parsed : ~Survives(pos, k)

NodeLineOf(n) == Len(input.header) + 2 + n
EdgeLineOf(k) == NodeLineOf(Len(input.nodes)) + k
IdOf(n) == IF input.byIdx THEN Idx(n) ELSE input.nodes[n].id
WrittenEdges == SelectSeq([e \in DOMAIN input.edges |-> e], IsWritten)

\* Every column of the n-th node that is judged holds what the graph has.
NodeIsRight(n, IsJudged(_, _)) ==
    LET node == input.nodes[n]
        proto == protoNodes[n]
    IN  /\ \A k \in DOMAIN input.parsedNodes :
              IsJudged(NodeLineOf(n), k) =>
                CASE input.parsedNodes[k] = "NodeId" -> proto.id = IdOf(n)
                  [] input.parsedNodes[k] = "CHLevel" -> proto.level = node.level
                  [] input.parsedNodes[k] = "Latitude" -> proto.lat = node.lat
                  [] input.parsedNodes[k] = "Longitude" -> proto.lon = node.lon
                  [] OTHER -> TRUE
        /\ "CHLevel" \notin ToSet(input.parsedNodes) => proto.level = -1

\* The same for the i-th written edge: a metric is where its column is among those of metrics,
\* and the halves of a shortcut, which are positions, lead to the edges they led to.
EdgeIsRight(i, IsJudged(_, _)) ==
    LET e == WrittenEdges[i]
        edge == input.edges[e]
        proto == protoEdges[i]
        half(k) == IF input.parsedEdges[k] = "ShortcutIdx0" THEN 1 ELSE 2
        place(k) == Cardinality({j \in 1 .. k : input.parsedEdges[j] = "metric"})
    IN  /\ Len(proto.metrics) = place(Len(input.parsedEdges))
        /\ proto.halves # <<>> <=>
              IsShortcut(e) /\ {"ShortcutIdx0", "ShortcutIdx1"} \subseteq ToSet(input.parsedEdges)
        /\ \A k \in DOMAIN input.parsedEdges :
              IsJudged(EdgeLineOf(i), k) =>
                CASE input.parsedEdges[k] = "EdgeId" -> proto.id = edge.id
                  [] input.parsedEdges[k] = "SrcId" -> proto.src = IdOf(edge.src)
                  [] input.parsedEdges[k] = "DstId" -> proto.dst = IdOf(edge.dst)
                  [] input.parsedEdges[k] = "metric" ->
                        proto.metrics[place(k)] = Metric(e, input.writtenEdges[k])
                  [] input.parsedEdges[k] \in {"ShortcutIdx0", "ShortcutIdx1"} ->
                        proto.halves # <<>> =>
                          WrittenEdges[proto.halves[half(k)] + 1] = edge.halves[half(k)]
                  [] OTHER -> TRUE

ParsedIsRight(IsJudged(_, _)) ==
    /\ DOMAIN protoNodes \subseteq DOMAIN input.nodes
    /\ DOMAIN protoEdges \subseteq DOMAIN WrittenEdges
    /\ \A n \in DOMAIN protoNodes : NodeIsRight(n, IsJudged)
    /\ \A i \in DOMAIN protoEdges : EdgeIsRight(i, IsJudged)

\* What is parsed are the nodes and edges that were written, in their order, column by column.
\* Of a file that has lost its end, no line is left out that is still there, and nothing is read
\* as something else but the param that was cut.
RoundTrip ==
    pc = "done" /\ ConfigsAgree =>
        /\ ParsedIsRight(Survives)
        /\ \A n \in DOMAIN input.nodes : IsWhole(NodeLineOf(n)) => n \in DOMAIN protoNodes
        /\ \A i \in DOMAIN WrittenEdges : IsWhole(EdgeLineOf(i)) => i \in DOMAIN protoEdges

\* "FINISHED" (fmi.rs:209), and hence what is parsed without an error is what was written.  TLC
\* refutes it: a last number that has lost digits is read as another number.
FinishedIsWritten ==
    LET any(p, k) == TRUE
    IN  pc = "done" /\ ConfigsAgree => ParsedIsRight(any)
=============================================================================
