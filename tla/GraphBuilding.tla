--------------------------- MODULE GraphBuilding ----------------------------
(***************************************************************************)
(* From the edges and nodes of a map-file to the offset-graph:             *)
(* EdgeBuilder, NodeBuilder and GraphBuilder::finalize up to the           *)
(* backward-offsets (src/src/network/graph/building.rs), and the accessors *)
(* that read the result (src/src/network/graph/mod.rs).                    *)
(*                                                                         *)
(* One step is one insertion, one iteration of a loop of finalize, or one  *)
(* block of it without a loop.  Vectors are sequences whose indices are    *)
(* counted from 0, as in the code.  Every edge has one metric, a whole     *)
(* number of defaults::accuracy::F64_ABS; with more of them, two edges are *)
(* duplicates when all metrics are close.                                  *)
(***************************************************************************)
EXTENDS Integers, SequencesExt

CONSTANT Files      \* the map-files, as their parser presents them, see IsFile

None == -1
Accuracy == 1       \* defaults::accuracy::F64_ABS
Dirs == {"FWD", "BWD"}

\* The indices of the two halves of a shortcut, or none.
Halves == {<<>>} \cup (Nat \X Nat)

\* Edges in the order of their insertion, where the two halves of a shortcut are numbers of
\* edges in this order, and nodes, which may miss their ch-level.
IsFile(f) ==
    /\ f.edges \in Seq([id : Nat \cup {None}, src : Int, dst : Int, metric : Int,
                        halves : Halves])
    /\ f.nodes \in Seq([id : Int, level : Nat \cup {None}])

ASSUME BuildingAssumption == \A f \in Files : IsFile(f)

VARIABLES
    file,      \* the file (input, never changes)
    pc,        \* "edges", "nodes", "sort", "dedupe", "store", "FWD", "BWD", or how it ended
    read,      \* number of node-lines read
    nodeIds,   \* node_ids
    located,   \* the node-indices that have a coordinate
    level,     \* node_ch_levels
    edges,     \* proto_edges; an edge carries the halves that its sc_edges refers to
    w, r,      \* write- and read-index of the removal of duplicates
    removed,   \* removed_indices
    metrics,   \* metrics of the graph
    scOffsets, \* sc_offsets
    scEdges,   \* sc_edges
    srcIdx,    \* src_idx of the running offset-loop
    edgeIdx,   \* number of its iterations, which is edge_idx and offset
    offsets,   \* offsets[dir]: fwd_offsets and bwd_offsets
    toFwd,     \* toFwd[dir]: fwd_to_fwd_map and bwd_to_fwd_map
    dsts,      \* dsts[dir]: fwd_dsts and bwd_dsts
    idToIdx    \* edge_ids_to_idx_map

builderVars == <<read, nodeIds, located, level>>
dedupeVars  == <<w, r, removed>>
storeVars   == <<metrics, scOffsets, scEdges>>
offsetVars  == <<srcIdx, edgeIdx, offsets, toFwd, dsts, idToIdx>>
vars == <<file, pc, builderVars, edges, dedupeVars, storeVars, offsetVars>>

Ended == {"done", "err", "panicked"}

At(vec, i) == vec[i + 1]
Indices(vec) == 0 .. Len(vec) - 1

\* Approx(a) == Approx(b)
Close(a, b) == a - b \in -Accuracy .. Accuracy

Init ==
    /\ file \in Files
    /\ pc = "edges"
    /\ read = 0
    /\ nodeIds = <<>> /\ located = {} /\ level = <<>>
    /\ edges = <<>>
    /\ w = 1 /\ r = 1 /\ removed = <<>>
    /\ metrics = <<>> /\ scOffsets = <<>> /\ scEdges = <<>>
    /\ srcIdx = 0 /\ edgeIdx = 0
    /\ offsets = [dir \in Dirs |-> <<0>>]
    /\ toFwd = [dir \in Dirs |-> <<>>]
    /\ dsts = [dir \in Dirs |-> <<>>]
    /\ idToIdx = <<>>

-----------------------------------------------------------------------------
(* Sorting: an element's rank is the number of elements before it *)

AtRank(k, S, before) == CHOOSE x \in S : Cardinality({y \in S : <<y, x>> \in before}) = k

\* The members of a set of integers, in their order.
SortedSet(S) ==
    LET before == {p \in S \X S : p[1] < p[2]}
    IN  [k \in 1 .. Cardinality(S) |-> AtRank(k - 1, S, before)]

KeyLess(a, b) == \E k \in DOMAIN a : a[k] < b[k] /\ \A l \in 1 .. k - 1 : a[l] = b[l]

\* A vector after a stable sort, where keys[i], a tuple of integers, is the key of s[i].
SortedBy(s, keys) ==
    LET before == {p \in (DOMAIN s) \X (DOMAIN s) :
                      \/ KeyLess(keys[p[1]], keys[p[2]])
                      \/ keys[p[1]] = keys[p[2]] /\ p[1] < p[2]}
    IN  [k \in DOMAIN s |-> s[AtRank(k - 1, DOMAIN s, before)]]

-----------------------------------------------------------------------------
(* EdgeBuilder and NodeBuilder *)

\* The last two node-ids before the insertion are compared; other duplicates go later.
WithNodes(ids, e) ==
    LET n == Len(ids)
        new(id) == IF n < 2 \/ id \notin {ids[n - 1], ids[n]} THEN <<id>> ELSE <<>>
    IN  ids \o new(e.src) \o new(e.dst)

\* EdgeBuilder::insert
InsertEdge ==
    LET e == At(file.edges, Len(edges))
    IN  /\ pc = "edges"
        /\ Len(edges) < Len(file.edges)
        /\ nodeIds' = WithNodes(nodeIds, e)
        /\ edges' = Append(edges, [idx |-> Len(edges), id |-> e.id, src |-> e.src,
                                   dst |-> e.dst, metric |-> e.metric, halves |-> e.halves])
        /\ UNCHANGED <<file, pc, read, located, level, dedupeVars, storeVars, offsetVars>>

\* EdgeBuilder::next: node-ids are sorted and become unique, levels have their default.
EndEdges ==
    /\ pc = "edges"
    /\ Len(edges) = Len(file.edges)
    /\ nodeIds' = SortedSet(ToSet(nodeIds))
    /\ level' = [i \in 1 .. Len(nodeIds') |-> 0]
    /\ pc' = "nodes"
    /\ UNCHANGED <<file, read, located, edges, dedupeVars, storeVars, offsetVars>>

\* binary_search in the sorted node-ids
IdxOf(id) == CHOOSE i \in Indices(nodeIds) : At(nodeIds, i) = id
IsNode(id) == \E i \in Indices(nodeIds) : At(nodeIds, i) = id

\* NodeBuilder::insert: a node of no edge is left out.
InsertNode ==
    LET node == At(file.nodes, read)
    IN  /\ pc = "nodes"
        /\ read < Len(file.nodes)
        /\ read' = read + 1
        /\ located' = IF IsNode(node.id) THEN located \cup {IdxOf(node.id)} ELSE located
        /\ level' = IF IsNode(node.id) /\ node.level # None
                      THEN [level EXCEPT ![IdxOf(node.id) + 1] = node.level]
                      ELSE level
        /\ UNCHANGED <<file, pc, nodeIds, edges, dedupeVars, storeVars, offsetVars>>

-----------------------------------------------------------------------------
(* GraphBuilder::finalize: from ids to a sorted list of edges *)

\* Every node needs a coordinate.
CheckCoordinates ==
    /\ pc = "nodes"
    /\ read = Len(file.nodes)
    /\ pc' = IF located = Indices(nodeIds) THEN "sort" ELSE "err"
    /\ UNCHANGED <<file, builderVars, edges, dedupeVars, storeVars, offsetVars>>

ForwardKey(e)  == <<e.src, -At(level, e.dst), e.dst, e.id>>

\* Mutant: the edges' backward-order ignores the levels.
BackwardKeyWithoutLevel(e) == <<e.dst, e.src, e.id>>

BackwardKey(e) == <<e.dst, -At(level, e.src), e.src, e.id>>

\* Edges get node-indices and are sorted.
Renumbered == [i \in DOMAIN edges |-> [edges[i] EXCEPT !.src = IdxOf(@), !.dst = IdxOf(@)]]
ForwardSorted == SortedBy(Renumbered, [i \in DOMAIN edges |-> ForwardKey(Renumbered[i])])

\* The halves of the shortcuts follow their edges.
Remapped(s) ==
    LET newIdx(old) == CHOOSE i \in Indices(s) : At(s, i).idx = old
    IN  [i \in DOMAIN s |->
            [s[i] EXCEPT !.halves = [h \in DOMAIN @ |-> newIdx(@[h])]]]

\* A half that is no edge is an index out of bounds.
SortForward ==
    /\ pc = "sort"
    /\ IF \A i \in DOMAIN edges : ToSet(edges[i].halves) \subseteq Indices(edges)
         THEN edges' = Remapped(ForwardSorted) /\ pc' = "dedupe"
         ELSE pc' = "panicked" /\ UNCHANGED edges
    /\ UNCHANGED <<file, builderVars, dedupeVars, storeVars, offsetVars>>

-----------------------------------------------------------------------------
(* GraphBuilder::finalize: duplicates *)

\* Mutant: the metrics are not compared.
IsDuplicateByEnds(e0, e1) == e0.id = e1.id /\ e0.src = e1.src /\ e0.dst = e1.dst

IsDuplicate(e0, e1) ==
    /\ e0.id = e1.id
    /\ e0.src = e1.src
    /\ e0.dst = e1.dst
    /\ Close(e0.metric, e1.metric)

RemoveDuplicate ==
    /\ pc = "dedupe"
    /\ r < Len(edges)
    /\ IsDuplicate(At(edges, w - 1), At(edges, r))
    /\ removed' = Append(removed, r)
    /\ r' = r + 1
    /\ UNCHANGED <<file, pc, builderVars, edges, w, storeVars, offsetVars>>

KeepEdge ==
    /\ pc = "dedupe"
    /\ r < Len(edges)
    /\ ~IsDuplicate(At(edges, w - 1), At(edges, r))
    /\ edges' = [edges EXCEPT ![w + 1] = At(edges, r), ![r + 1] = At(edges, w)]
    /\ w' = w + 1
    /\ r' = r + 1
    /\ UNCHANGED <<file, pc, builderVars, removed, storeVars, offsetVars>>

\* Mutant: from the first removed index to the last.
CorrectedForward(half) ==
    FoldLeft(LAMBDA idx, gone : IF idx >= gone THEN idx - 1 ELSE idx, half, removed)

\* From the last removed index to the first, every index at least as high is decremented.
Corrected(half) ==
    FoldLeft(LAMBDA idx, gone : IF idx >= gone THEN idx - 1 ELSE idx, half, Reverse(removed))

\* The removed edges, now at the end, are cut off, and the remaining shortcuts corrected.
CorrectShortcuts ==
    LET kept == SubSeq(edges, 1, Len(edges) - Len(removed))
    IN  /\ pc = "dedupe"
        /\ r >= Len(edges)
        /\ edges' = [i \in DOMAIN kept |->
               [kept[i] EXCEPT !.halves = [h \in DOMAIN @ |-> Corrected(@[h])]]]
        /\ pc' = "store"
        /\ UNCHANGED <<file, builderVars, dedupeVars, storeVars, offsetVars>>

-----------------------------------------------------------------------------
(* GraphBuilder::finalize: metrics and shortcut-offsets *)

\* Mutant: a metric around zero is left as it is.
StoredAsIs(metric) == metric

\* add_metrics: a metric around zero is corrected.
Stored(metric) == IF Close(metric, 0) THEN Accuracy ELSE metric

\* The loop over the edges: [offset, offsets, shortcuts] after one more edge.  Once all `total`
\* shortcuts have their offset, the array keeps its initial value, which is `total`.
WithShortcut(acc, e) ==
    IF e.halves = <<>>
    THEN [acc EXCEPT !.offsets = Append(@, acc.offset)]
    ELSE [offset |-> acc.offset + 1,
          offsets |-> Append(acc.offsets, acc.offset),
          shortcuts |-> Append(acc.shortcuts, e.halves)]

StoreMetrics ==
    LET stored == [i \in DOMAIN edges |-> Stored(edges[i].metric)]
        end == FoldLeft(WithShortcut, [offset |-> 0, offsets |-> <<>>, shortcuts |-> <<>>], edges)
    IN  /\ pc = "store"
        /\ metrics' = stored
        /\ IF \E i \in DOMAIN stored : stored[i] < Accuracy
             THEN pc' = "err" /\ UNCHANGED <<scOffsets, scEdges>>
             ELSE /\ pc' = "FWD"
                  /\ scOffsets' = Append(end.offsets, Len(end.shortcuts))
                  /\ scEdges' = end.shortcuts
        /\ UNCHANGED <<file, builderVars, edges, dedupeVars, offsetVars>>

-----------------------------------------------------------------------------
(* GraphBuilder::finalize: offsets; pc is the direction of the running loop *)

\* Mutant: src and dst are not swapped for backward-edges.
SourceNotSwapped(dir, e) == e.src

Source(dir, e) == IF dir = "FWD" THEN e.src ELSE e.dst

\* A node without a further edge: the next node starts at the same offset.
PushOffset ==
    /\ pc \in Dirs
    /\ edgeIdx < Len(edges)
    /\ srcIdx # Source(pc, At(edges, edgeIdx))
    /\ srcIdx' = srcIdx + 1
    /\ offsets' = [offsets EXCEPT ![pc] = Append(@, edgeIdx)]
    /\ UNCHANGED <<file, pc, builderVars, edges, dedupeVars, storeVars, edgeIdx, toFwd, dsts,
                   idToIdx>>

\* The forward-loop also numbers the edges, for the map of the backward-loop.
PushForwardEdge ==
    LET e == At(edges, edgeIdx)
    IN  /\ pc = "FWD"
        /\ edgeIdx < Len(edges)
        /\ srcIdx = Source(pc, e)
        /\ edgeIdx' = edgeIdx + 1
        /\ edges' = [edges EXCEPT ![edgeIdx + 1].idx = edgeIdx]
        /\ dsts' = [FWD |-> Append(dsts.FWD, e.dst), BWD |-> Append(dsts.BWD, e.src)]
        /\ toFwd' = [toFwd EXCEPT !.FWD = Append(@, edgeIdx)]
        /\ idToIdx' = IF e.id = None THEN idToIdx ELSE Append(idToIdx, <<e.id, edgeIdx>>)
        /\ UNCHANGED <<file, pc, builderVars, dedupeVars, storeVars, srcIdx, offsets>>

\* Mutant: the position among the backward-edges is pushed.
MappedEdgeByPosition == edgeIdx

MappedEdge == At(edges, edgeIdx).idx

PushBackwardEdge ==
    /\ pc = "BWD"
    /\ edgeIdx < Len(edges)
    /\ srcIdx = Source(pc, At(edges, edgeIdx))
    /\ edgeIdx' = edgeIdx + 1
    /\ toFwd' = [toFwd EXCEPT !.BWD = Append(@, MappedEdge)]
    /\ UNCHANGED <<file, pc, builderVars, edges, dedupeVars, storeVars, srcIdx, offsets, dsts,
                   idToIdx>>

\* Mutant: equal edge-ids are not noticed.
UniqueIdsUnchecked == TRUE

UniqueIds == \A i, j \in DOMAIN idToIdx : i # j => idToIdx[i][1] # idToIdx[j][1]

\* The forward-loop ends with the upper bound of its last node.  Edge-ids are sorted and have
\* to be unique; then the edges are sorted for the backward-loop.
EndForward ==
    /\ pc = "FWD"
    /\ edgeIdx = Len(edges)
    /\ offsets' = [offsets EXCEPT !.FWD = Append(@, edgeIdx)]
    /\ idToIdx' = SortedBy(idToIdx, idToIdx)
    /\ IF UniqueIds
         THEN /\ pc' = "BWD"
              /\ edges' = SortedBy(edges, [i \in DOMAIN edges |-> BackwardKey(edges[i])])
              /\ edgeIdx' = 0
              /\ srcIdx' = 0
         ELSE pc' = "err" /\ UNCHANGED <<edges, edgeIdx, srcIdx>>
    /\ UNCHANGED <<file, builderVars, dedupeVars, storeVars, toFwd, dsts>>

EndBackward ==
    /\ pc = "BWD"
    /\ edgeIdx = Len(edges)
    /\ offsets' = [offsets EXCEPT !.BWD = Append(@, edgeIdx)]
    /\ pc' = "done"
    /\ UNCHANGED <<file, builderVars, edges, dedupeVars, storeVars, srcIdx, edgeIdx, toFwd, dsts,
                   idToIdx>>

Stopped == pc \in Ended /\ UNCHANGED vars

Next ==
    \/ InsertEdge \/ EndEdges \/ InsertNode
    \/ CheckCoordinates \/ SortForward
    \/ RemoveDuplicate \/ KeepEdge \/ CorrectShortcuts
    \/ StoreMetrics
    \/ PushOffset \/ PushForwardEdge \/ EndForward \/ PushBackwardEdge \/ EndBackward
    \/ Stopped

Spec == Init /\ [][Next]_vars

-----------------------------------------------------------------------------
(* NodeAccessor and EdgeAccessor *)

Nodes == Indices(nodeIds)
FinalEdges == Indices(metrics)
Opp(dir) == IF dir = "FWD" THEN "BWD" ELSE "FWD"
Target(dir, e) == At(dsts[dir], e)

\* offset_indices, where the offset-array covers the node
Covers(dir, v) == v + 1 \in Indices(offsets[dir])
OffsetIndices(dir, v) ==
    SubSeq(toFwd[dir], At(offsets[dir], v) + 1, At(offsets[dir], v + 1))

IsShortcut(e) == At(scOffsets, e + 1) - At(scOffsets, e) # 0
ScEdges(e) == IF IsShortcut(e) THEN At(scEdges, At(scOffsets, e)) ELSE <<>>

-----------------------------------------------------------------------------
(* Properties *)

ProtoEdges == [idx : Nat, id : Nat \cup {None}, src : Int, dst : Int, metric : Int,
               halves : Halves]

\* Every variable has its type; an offset-loop stays within the nodes.
TypeOK ==
    /\ IsFile(file)
    /\ pc \in {"edges", "nodes", "sort", "dedupe", "store"} \cup Dirs \cup Ended
    /\ read \in 0 .. Len(file.nodes)
    /\ nodeIds \in Seq(Int)
    /\ located \subseteq Nodes
    /\ level \in Seq(Nat)
    /\ edges \in Seq(ProtoEdges)
    /\ w \in 1 .. Len(edges) + 1
    /\ r \in w .. Len(file.edges) + 1
    /\ removed \in Seq(Nat)
    /\ metrics \in Seq(Int)
    /\ scOffsets \in Seq(Nat)
    /\ scEdges \in Seq(Nat \X Nat)
    /\ srcIdx \in 0 .. Len(nodeIds)
    /\ edgeIdx \in 0 .. Len(edges)
    /\ offsets \in [Dirs -> Seq(0 .. Len(edges))]
    /\ toFwd \in [Dirs -> Seq(FinalEdges)]
    /\ dsts \in [Dirs -> Seq(Nodes)]
    /\ idToIdx \in Seq(Nat \X FinalEdges)

\* An edge of the graph stands for an edge of the file: same ends, and metrics as close as
\* those of duplicates are, where a metric of the file that is negative by no more than the
\* accuracy, or close to such a one, may have been corrected.
StandsFor(e, f) ==
    /\ At(nodeIds, Target("BWD", e)) = f.src
    /\ At(nodeIds, Target("FWD", e)) = f.dst
    /\ \/ Close(At(metrics, e), f.metric)
       \/ At(metrics, e) = Accuracy /\ f.metric \in -2 * Accuracy .. -1

\* Through the offsets of either direction, a node shows exactly its own edges, each once.
LeavingIsComplete ==
    pc = "done" =>
        \A dir \in Dirs : \A v \in Nodes :
            LET own == {e \in FinalEdges : Target(Opp(dir), e) = v}
            IN  IF Covers(dir, v)
                THEN /\ ToSet(OffsetIndices(dir, v)) = own
                     /\ Len(OffsetIndices(dir, v)) = Cardinality(own)
                ELSE own = {}

\* The leaving edges of a node, in both directions, lead to ever lower levels: CH-Dijkstra
\* stops at the first that leads down ("break because leaving-edges are sorted by level",
\* dijkstra.rs:271).
LevelsDescend ==
    pc = "done" =>
        \A dir \in Dirs : \A v \in Nodes : Covers(dir, v) =>
            LET leaving == OffsetIndices(dir, v)
            IN  \A i \in 2 .. Len(leaving) :
                    At(level, Target(dir, leaving[i - 1])) >= At(level, Target(dir, leaving[i]))

\* The removal of duplicates loses no edge of the file and the graph has no other edges.
NothingLost ==
    pc = "done" =>
        /\ \A i \in DOMAIN file.edges : \E e \in FinalEdges : StandsFor(e, file.edges[i])
        /\ \A e \in FinalEdges : \E i \in DOMAIN file.edges : StandsFor(e, file.edges[i])

\* Sorting and removing duplicates before and between the halves of a shortcut, the edge still
\* is a shortcut exactly if it was one in the file, and its halves stand for their edges.
ShortcutsKeepTheirHalves ==
    pc = "done" =>
        \A e \in FinalEdges : \E i \in DOMAIN file.edges :
            LET f == file.edges[i]
            IN  /\ StandsFor(e, f)
                /\ Len(ScEdges(e)) = Len(f.halves)
                /\ \A h \in DOMAIN f.halves :
                      /\ ScEdges(e)[h] \in FinalEdges
                      /\ StandsFor(ScEdges(e)[h], At(file.edges, f.halves[h]))

\* An edge-id of the file leads to its edge (the binary search needs the order).
IdsResolve ==
    pc = "done" =>
        /\ \A i \in 2 .. Len(idToIdx) : idToIdx[i - 1][1] < idToIdx[i][1]
        /\ \A i \in DOMAIN file.edges : file.edges[i].id # None =>
              \E k \in DOMAIN idToIdx : /\ idToIdx[k][1] = file.edges[i].id
                                        /\ StandsFor(idToIdx[k][2], file.edges[i])

\* Only a node without coordinate, a negative metric or an id of two different edges keeps a
\* file from becoming a graph; metrics of zero do not.
FailsForAReason ==
    pc = "err" =>
        \/ \E i \in Nodes : \A k \in DOMAIN file.nodes : file.nodes[k].id # At(nodeIds, i)
        \/ \E i \in DOMAIN file.edges : file.edges[i].metric < -Accuracy
        \/ \E i, j \in DOMAIN file.edges :
              /\ file.edges[i].id # None
              /\ file.edges[i].id = file.edges[j].id
              /\ ~IsDuplicate(file.edges[i], file.edges[j])

\* "(idx + 1) guaranteed by offset-array-length" (graph/mod.rs:627): the offset-array reaches
\* one entry beyond every node.
EveryNodeHasOffsets ==
    pc = "done" => \A dir \in Dirs : \A v \in Nodes : Covers(dir, v)

\* "duplicates are laying next to each other" (building.rs:558), so that none is left.  TLC refutes it
\* for MCStreets: between two of them may lie an edge of other metrics.
NoDuplicateLeft ==
    pc = "done" =>
        \A e1, e2 \in FinalEdges :
            /\ e1 # e2
            /\ \A k \in DOMAIN idToIdx : idToIdx[k][2] \notin {e1, e2}
            /\ \A dir \in Dirs : Target(dir, e1) = Target(dir, e2)
            => ~Close(At(metrics, e1), At(metrics, e2))
=============================================================================
