--------------------------- MODULE PathFlattening ---------------------------
(***************************************************************************)
(* Path::calc_costs and Path::try_flatten (src/src/routing/paths.rs): a    *)
(* path over shortcuts becomes a path over original edges, on a stack of   *)
(* edges whose top is the next one.                                        *)
(*                                                                         *)
(* One step is one iteration of one of the two nested loops.  An edge has  *)
(* one metric; with more of them, costs are vectors.                       *)
(***************************************************************************)
EXTENDS Integers, SequencesExt

CONSTANT Inputs      \* graphs with a path in each, see IsInput

\* halves[e]: nothing or the two edges that shortcut e stands for.
IsInput(in) ==
    LET edges == DOMAIN in.halves
    IN  /\ in.halves \in Seq({<<>>} \cup (edges \X edges))
        /\ in.metrics \in [edges -> Nat]
        /\ in.path \in Seq(edges)

ASSUME FlatteningAssumption == \A in \in Inputs : IsInput(in)

VARIABLES
    input,      \* the graph and the path (input, never changes)
    pc,         \* "pop" in the outer loop, "expand" in the inner loop, "ok" or "err"
    oldEdges,   \* old_edges, the stack
    edgeIdx,    \* edge_idx, once an edge has been popped
    flattened,  \* flattened_path.edges
    costs       \* flattened_path.costs

vars == <<input, pc, oldEdges, edgeIdx, flattened, costs>>

Count == Len(input.halves)
IsShortcut(e) == input.halves[e] # <<>>

\* calc_costs of a path of these edges
CalcCosts(graph, edges) == FoldLeft(LAMBDA acc, e : acc + graph.metrics[e], 0, edges)

Init ==
    /\ input \in Inputs
    /\ pc = "pop"
    /\ oldEdges = Reverse(input.path)
    /\ edgeIdx = 1
    /\ flattened = <<>>
    /\ costs = 0

PopEdge ==
    /\ pc = "pop"
    /\ oldEdges # <<>>
    /\ edgeIdx' = Last(oldEdges)
    /\ oldEdges' = Front(oldEdges)
    /\ pc' = "expand"
    /\ UNCHANGED <<input, flattened, costs>>

\* Mutant: the second half is forgotten.
WithoutSecondHalf(e) == oldEdges

WithSecondHalf(e) == Append(oldEdges, input.halves[e][2])

\* Mutant: the given path is taken for the longest.
IsLongerThanPath(stack) == Len(stack) > Len(input.path)

\* "max path-length contains all edges in a graph"
IsTooLong(stack) == Len(stack) > Count

\* Mutant: the halves are swapped.
ExpandSwapped ==
    /\ pc = "expand"
    /\ IsShortcut(edgeIdx)
    /\ oldEdges' = Append(oldEdges, input.halves[edgeIdx][1])
    /\ edgeIdx' = input.halves[edgeIdx][2]
    /\ pc' = IF IsTooLong(oldEdges') THEN "err" ELSE "expand"
    /\ UNCHANGED <<input, flattened, costs>>

\* The second half waits on the stack while the first is looked at.
ExpandShortcut ==
    /\ pc = "expand"
    /\ IsShortcut(edgeIdx)
    /\ oldEdges' = WithSecondHalf(edgeIdx)
    /\ edgeIdx' = input.halves[edgeIdx][1]
    /\ pc' = IF IsTooLong(oldEdges') THEN "err" ELSE "expand"
    /\ UNCHANGED <<input, flattened, costs>>

\* Mutant: a shortcut may stay in the path.
PushAnyEdge ==
    /\ pc = "expand"
    /\ flattened' = Append(flattened, edgeIdx)
    /\ costs' = costs + input.metrics[edgeIdx]
    /\ pc' = "pop"
    /\ UNCHANGED <<input, oldEdges, edgeIdx>>

\* Mutant: the costs of the popped edge are forgotten when the stack is empty.
PushWithoutLastCosts ==
    /\ pc = "expand"
    /\ ~IsShortcut(edgeIdx)
    /\ flattened' = Append(flattened, edgeIdx)
    /\ costs' = IF oldEdges = <<>> THEN costs ELSE costs + input.metrics[edgeIdx]
    /\ pc' = "pop"
    /\ UNCHANGED <<input, oldEdges, edgeIdx>>

PushEdge ==
    /\ pc = "expand"
    /\ ~IsShortcut(edgeIdx)
    /\ flattened' = Append(flattened, edgeIdx)
    /\ costs' = costs + input.metrics[edgeIdx]
    /\ pc' = "pop"
    /\ UNCHANGED <<input, oldEdges, edgeIdx>>

Return ==
    /\ pc = "pop"
    /\ oldEdges = <<>>
    /\ pc' = "ok"
    /\ UNCHANGED <<input, oldEdges, edgeIdx, flattened, costs>>

TryFlatten == PopEdge \/ ExpandShortcut \/ PushEdge \/ Return

Stopped == pc \in {"ok", "err"} /\ UNCHANGED vars

Next == TryFlatten \/ Stopped

\* A call runs in its thread until it returns.
Spec == Init /\ [][Next]_vars /\ WF_vars(TryFlatten)

-----------------------------------------------------------------------------
(* Properties *)

\* Every variable has its type; only original edges get into the path.
TypeOK ==
    /\ IsInput(input)
    /\ pc \in {"pop", "expand", "ok", "err"}
    /\ oldEdges \in Seq(1 .. Count)
    /\ edgeIdx \in Nat
    /\ flattened \in Seq({e \in 1 .. Count : ~IsShortcut(e)})
    /\ costs \in Nat

\* Reference: the original edges under e, if shortcuts are nested at most as deep as there are
\* edges.
Leaves(graph, e) ==
    LET leaves[depth \in 0 .. Len(graph.halves)] ==
            [f \in DOMAIN graph.halves |->
                IF graph.halves[f] = <<>> THEN <<f>>
                ELSE IF depth = 0 THEN <<>>
                ELSE leaves[depth - 1][graph.halves[f][1]] \o leaves[depth - 1][graph.halves[f][2]]]
    IN  leaves[Len(graph.halves)][e]

Unfolded(graph, edges) == FlattenSeq([i \in DOMAIN edges |-> Leaves(graph, edges[i])])

\* The edges that e stands for, directly or not.
Below(graph, e) ==
    LET below[k \in 0 .. Len(graph.halves)] ==
            IF k = 0 THEN ToSet(graph.halves[e])
            ELSE LET upper == below[k - 1]
                 IN  upper \cup UNION {ToSet(graph.halves[f]) : f \in upper}
    IN  below[Len(graph.halves)]

InPath == UNION {{e} \cup Below(input, e) : e \in ToSet(input.path)}

HasCycle == \E e \in InPath : e \in Below(input, e)

\* At any time what is flattened, the edge at hand and the stack, read downwards, stand
\* for the original edges of the whole path, in their order.
NothingLostOrSwapped ==
    ~HasCycle /\ pc # "err" =>
        Unfolded(input, input.path)
          = flattened
              \o (IF pc = "expand" THEN Leaves(input, edgeIdx) ELSE <<>>)
              \o Unfolded(input, Reverse(oldEdges))

\* A shortcut's metric is the sum of its halves' metrics, as the preprocessing leaves it.
HalvesAddUp ==
    \A e \in DOMAIN input.halves : IsShortcut(e) =>
        input.metrics[e] = input.metrics[input.halves[e][1]] + input.metrics[input.halves[e][2]]

\* Flattening counts the costs of the edges it returns; they are those that calc_costs finds for
\* the path before it was flattened ("This can be done, e.g., with calc_cost(...) or
\* flatten(...)", paths.rs:38), when a shortcut's metric is the sum of its halves' metrics.
CostsAgree ==
    pc = "ok" =>
        /\ costs = CalcCosts(input, flattened)
        /\ HalvesAddUp => costs = CalcCosts(input, input.path)

\* The height of the stack is taken for a cycle only where there is one, or where the path
\* takes an original edge twice, which no path of a search does.
FailsOnlyOnCycles == pc = "err" => HasCycle \/ ~IsInjective(Unfolded(input, input.path))

\* A path is flattened or refused, unless a cycle leads through second halves only.
Ends == <>(pc \in {"ok", "err"})

\* "max path-length contains all edges in a graph" (paths.rs:114): nothing longer is built
\* before the cycle is reported.  TLC refutes it for MCSecondHalfCycles, where the stack does not
\* grow.
NeverLongerThanGraph == Len(flattened) <= Count
=============================================================================
