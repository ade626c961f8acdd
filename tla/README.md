# Verification of osmgraphing

osmgraphing parses street maps into an offset-graph, finds best paths in it with
a bidirectional (CH-)Dijkstra, explores alternative routes, and *balances* a
graph: it routes many vehicles with a pool of threads and turns the resulting
workloads into a new metric, again and again.  This directory holds TLA+ models
of the parts whose correctness depends on orders, interleavings and state kept
over many calls, TLC configurations that check them on small instances, and
proofs that TLAPS checks for every instance.

Paths below are relative to `src/src/`.

## 1. The system

| Component | Source | State | Operations | Hard about it |
|---|---|---|---|---|
| Graph building | `network/graph/building.rs` | proto-edges, node-ids, shortcuts, then the arrays of `Graph` | `EdgeBuilder::insert/next`, `NodeBuilder::insert/next`, `finalize` | indices are renumbered four times (file, sorted, without duplicates, backward) and every reference has to follow |
| Graph accessors | `network/graph/mod.rs` | none (views of the arrays) | `starting_from`, `between`, `sc_edges`, `idx_from` | arrays of `n + 1` entries, two directions that share one edge-array |
| Dijkstra | `routing/dijkstra.rs` | vectors per direction, queue, list of touched nodes | `compute_best_path` | state outlives a query; two searches meet; a hierarchy changes when to stop |
| Paths | `routing/paths.rs` | edges, costs | `calc_costs`, `try_flatten` | nested shortcuts on a stack, cycles |
| Explorator | `routing/explorating.rs` | hull of found paths | `fully_explorate` | found paths enter the hull in some order; calls Dijkstra with generated alphas |
| Worker pool | `bin/osmgraphing/balancing/multithreading.rs` | channels, sockets, work-size, threads | `spawn_some`, `work_off` | threads, channels, panics, drop order, a chunk size adapted at run time |
| Balancing pipeline | `bin/osmgraphing/balancing/mod.rs` | graph, directories of files | `run` and its steps | each iteration reads what the last one, and an external program, wrote |
| Metric update | `defaults.rs` (`balancing`) | one metric of the graph, its mean | `update_new_metric` | once per iteration; normalised twice, clamped in between |
| Parsing | `io/parsing/` | line ranges | `preprocess`, `parse_ways`, `parse_nodes` | the file is read three times; shortcuts refer to line numbers |
| Writing | `io/writing/` | none | writers of routes, edges, fmi, statistics | what is written is parsed again |
| Configs, tables, command line | `configs/`, `network/`, `bin/`, `approximating.rs` | none | | comparison with a tolerance is not transitive |

How they interact.  The command line parses a map into a `GraphBuilder`,
finalises it and hands the `Graph` to routing, balancing or the writers.
`balance` shares the graph with the pool through an `Arc`; every worker thread
owns a Dijkstra object (and an explorator that uses it) and calls it for one
route-pair after the other.  When the pool has returned, `balance` asks for
the only reference to the graph (`Arc::get_mut`) and updates the metric.  Then
the graph is written, contracted by the external multi-ch-constructor, and
read again.  Dijkstra relies on the order that building gave the edges; the
pool relies on the paths being flattened; the pipeline relies on edge-ids
surviving the way through the files.

What makes each component correct:

* *Pool*: each route-pair is worked off exactly once, whoever is fast or slow;
  the master never gets stuck, never trips over an expectation; the graph has
  one owner afterwards; a panicking thread costs its own chunk only.
* *Dijkstra*: the path is a best path, on flat and on contracted graphs,
  whatever the object was used for before.
* *Building*: a node shows exactly its edges, in both directions, in the order
  the search relies on; shortcuts keep their halves; nothing is lost.
* *Paths*: flattening yields the original edges, in order, and ends.
* *Pipeline, update*: a search sees shortcuts that agree with their halves; what
  is published is what was analysed; the updated metric can be read again.
* *Generating metrics*: the three descriptions of the columns agree; values keep
  their meaning along chains of conversions; normalised means are 1.
* *Parsing, writing*: what is parsed is what was written, ids and shortcuts
  survive; generated route-pairs are a demand that a simulation can serve.
* *Explorator*: every tolerated corner of the hull is found, and the loop ends.

## 2. Modules

| Module | What it is |
|---|---|
| `WorkPool` | the pool, threads and channels included |
| `WorkBag` | what `work_off` promises: a bag of pairs, taken, finished or lost |
| `WorkPoolProofs` | theorems about `WorkPool`, and that it implements `WorkBag` |
| `Dijkstra` | the Dijkstra object over several queries |
| `DijkstraProofs` | theorems about `Dijkstra`: types, clean vectors, the tree of predecessors, and that the answer is a best path |
| `GraphBuilding` | the builders, `finalize` and the accessors |
| `GraphBuildingProofs` | theorems about `GraphBuilding`, and what sorting, removing duplicates and offsets do |
| `PathFlattening` | the costs of a path and the expansion of its shortcuts |
| `PathFlatteningProofs` | theorems about `PathFlattening` |
| `MetricGeneration` | from the edges' config to the metrics of the graph |
| `MetricGenerationProofs` | theorems about `MetricGeneration` |
| `MapFile` | the writer and the parser of fmi-files |
| `RouteFile` | sampling, writing and parsing route-pairs |
| `RouteFileProofs` | theorems about `RouteFile` |
| `CountedLines` | how both parsers find their lines, and what is left of a file that loses its end |
| `Balancing` | the iterations of the balancer, with their files and the metric update |
| `BalancingProofs` | theorems about `Balancing` |
| `Exploration` | the explorator's rounds over the cells of its hull |
| `Rationals` | exact fractions, and comparing them with a tolerance |
| `Foundations` | lemmas for several proofs: induction, recursive functions, sums and folds, and calculating with fractions in lowest terms |
| `MC*` | instances for TLC, and small networks and map-files |

### WorkPool

*State.*  `masterPc` is the place of the master in `spawn_some` and `work_off`:
it spawns, polls (`try_recv`), awaits (the blocking `recv`), has an outcome and
is about to answer it (`assign`), joins a thread, or has returned.  `handed`
counts the pairs that have left `route_pairs`, which the code keeps reversed and
cuts from its end; a chunk is a set of consecutive pairs.  `outcomes` is the
shared channel, `inbox[w]` the channel of a worker, `socket[w]` tells whether
the master still holds its sender.  The thread of a worker is unborn, receives,
is busy, and then leaves in three steps: it is dropped field by field, so that
the graph goes (`released`) before its channel ends and the thread itself do
(`ended`).

*Actions.*  One per branch of `recv` (`PollOutcome`, `PollNothing`,
`AwaitOutcome`, `Break`) together with the loop body up to the answer; one per
answer (`SendWork`, `DropWorker` and `JoinWorker`, which blocks); one per step
of the thread.  `usize` wraps at `MaxUsize`.

*Abstractions.*  A path is counted, not carried: `tally[p]` stands for the
workloads that pair `p` contributes.  Whether a search finds a path is the
constant `Found`; which pairs make a thread panic is the variable `fatal`, any
set of pairs.  `spawn`'s second outcome (an OS that refuses a thread) is left
out: it aborts the program.  The random seed of a chunk and the logged mean and
variance are left out.

*Fairness.*  Weak, for the master and every thread: the operating system runs
every thread that can run, and a single search ends.  No fairness is assumed
between the alternatives of one thread.

### Dijkstra

*State.*  One variable per field of the struct, the graph `net` and the query.
`pc` tells whether the object is idle, within the loop of `compute_best_path`, at
the construction of the path, or has panicked.  Vectors are functions over their
indices, so that an empty or a too short vector is what it is in the code.

*Actions.*  `Refuse` (a negative alpha), `Start` (`init_query` and the first
entries) or `StartPanics` (an index out of bounds); one action per way through
the loop's body: `SkipStale`, `CloseDirection`, `Expand`, and `EndSearch`;
`BuildPath`.  The relaxation of all leaving edges is one step: `Improving` are
the edges that improve their target when taken in order, `LastTo` the last of
them for a node.

*Abstractions.*  Costs are naturals; the queue's comparison with a tolerance
therefore is exact.  `Inf`, which stands for `f64::INFINITY`, is -1, a number that
no cost is, and `Cheaper` puts it above them all.  `touched` is a set.  A graph is
what its accessors show, including the order of the leaving edges (`IsNetwork`).
Edges are numbered so that shortcuts come after their halves; the searches compare no
edge-indices, so that any numbering does.

*Fairness.*  Weak, for the running query: it is a plain loop of one thread.
Nobody has to ask a further query.

### GraphBuilding

*State.*  One variable per field of the builders and of `Graph`, the indices of
the loops, and `pc` for the block of `finalize` that comes next.  `file` is the
input and never changes.

*Actions.*  `InsertEdge`, `EndEdges`, `InsertNode` for the builders;
`CheckCoordinates`, `SortForward` (ids to indices, sort, shortcuts follow); the
removal of duplicates, one iteration a step (`RemoveDuplicate`, `KeepEdge`) and
`CorrectShortcuts`; `StoreMetrics` (with the offsets of the shortcuts); the two
offset-loops, one iteration a step (`PushOffset`, `PushForwardEdge`,
`PushBackwardEdge`), each with its end.

*Abstractions.*  An edge carries the halves its `sc_edges` points to.  There is
one metric, counted in units of the accuracy, so that two metrics are
approximately equal when they differ by at most 1; this keeps the tolerance's
lack of transitivity.  Coordinates are either there or not.  Working in chunks
to save memory is left out.  Generating and normalising metrics, the rest of
`finalize`, are `MetricGeneration`'s.

### PathFlattening

*State.*  The stack `oldEdges`, the edge at hand, the flattened path and its
costs; `pc` tells the outer from the inner loop.  `input` is the graph (which
edges are shortcuts of which halves) and the path.

*Actions.*  `PopEdge`, `ExpandShortcut` (with the check of the stack's height),
`PushEdge`, `Return`.

*Abstractions.*  One metric, a natural.  `flatten`, which panics where
`try_flatten` returns an error, adds no state.

*Fairness.*  Weak, for the running call.

### MetricGeneration

*State.*  `cats`, `units` and `ids` are the three places of the config that
describe columns; `metrics`, `idToIdx` and `means` are the graph's; `next` is the
category at hand, `line` the line of a file that is merged.

*Actions.*  `ReadConfig` (`edges::Config::try_from`), `CheckConfig`
(`check_config`; building, which then happens, appears as the metrics it leaves),
`GenerateNode`, `CheckIds`, one action per kind of category (`GenerateMeta`,
`GenerateCustom`, `GenerateHaversine`, `GenerateCopy`, `Convert`, `GenerateCalc`,
`MergeLine` and `EndMerge`), and `Normalize`.  An error and a panic both end
without a graph and are one `err`.

*Abstractions.*  Numbers are exact fractions.  An edge is straight, so that its
haversine distance is the length the file tells.  Lengths and speeds of the file are above
zero, as building corrects zeros before.

*Division.*  `try_calc` divides without a look at the divisor.  `DividesByNoZero` names the
configs in which no divisor can be zero: nothing is calculated, or no category
makes up or merges a zero.  `MeansAreOne` is about these; in floating-point numbers
the others have infinite metrics and means.

### MapFile

*State.*  The `file` as its lines, the position in the graph or the file, the two
ranges of lines that preprocessing finds, and what has been parsed.  `complete`
remembers the lines before the file was closed; it is a history variable, which
properties compare with and nothing else reads.

*Actions.*  `WriteCounts`, `WriteNode`, `WriteEdge`, `EndWriting`; `Close`, where
the end of the file may get lost; `Preprocess`, `ParseWay`, `ParseNode` and
`EndParsing`, which starts the file over.  The parser runs on what the writer left.

*Losing the end.*  The writers hand each param, space and newline to a `BufWriter`
by itself and drop it at the end, which writes the rest and ignores an error.  What
is left ends anywhere (`LeftOf`): behind some lines, behind some params of a line, or
within a param, which then is a shorter number, a number that ends with its point, or a
lone minus (`Shortened`).  An error of an earlier write is returned, and the program
ends; this is not modelled.

*Abstractions.*  A param is a number, a word, or an id of multi-ch-constructor (`EdgeCh`, of
the shortcuts in files that it has written, `isContracted`); a whole number is read as
it was written.  A one-char edge-id, which panics, is refused.

### RouteFile

*State and actions.*  `Search` is one attempt of the writer, `EndSearch` sorts,
`Write` writes, and loses any part of the end as `MapFile` does; `Preprocess`, `ParseRoute`
and `EndParsing` read the same file, or one from elsewhere.  The random nodes are any nodes.  Whether a path exists is
reachability in the graph.

### Balancing

*State.*  The graph and `iter` of `run`'s loop, the files of all directories
(`maps`, `infos`, `stats`, and which version of the route-pairs has been copied),
and `pc`, the next stage.

*Actions.*  `BeginIteration` (which stores the graph before the last iteration),
`WriteGraph`, `Construct`, `ReadGraph`, `ReadRouting`, `Simulate`, `Update`,
`WriteStats`.  Each may fail, and `failedAt` remembers which did.  `UserEdits` is
the owner of the route-pairs, who may change them at any time.

*Abstractions.*  Files hold columns by position; a config says which ids they
have.  The constructor (external) adds any shortcuts whose halves are there, with
summed metrics, or fails.  The simulation is any of the given loads: how
they come about is `WorkPool`'s.  The results-directory is taken to be fresh, as its
name has the time in it.

### Exploration

*State.*  The fields of the explorator, the tolerances of its query, and the cells
that are left in a round.

*Actions.*  `InitialPath` (one combination of metrics), `EndInitial`, `Update`,
`BeginRound`, `ExploreCell`, in any order, and `EndRound`.

*Abstractions.*  A query is the costs of its paths; Dijkstra returns any best one.
The triangulation is external: its hull is computed for up to two metrics, and a
vertex that is added always gets an id of its own.  Costs are whole numbers.

*Fairness.*  None is stated for the last five modules: they are loops of one
thread, whose length their inputs bound.  Only the explorator's does not obviously
end, which `CellsYieldOnePathEach` is about.

## 3. Runs

| Run | Checks | Bounds |
|---|---|---|
| `workpool` | the safety invariants, the refinement of `WorkBag`, and that `work_off` returns | 3 threads, 6 pairs, `usize` up to 4, steps of the work-size 1 |
| `workpool_silent_loss` | finds `work_off` returning `Ok` with no worker dropped | up to 2 threads, 2 pairs; one worker in the trace |
| `dijkstra` | best paths, the arguments behind them, clean vectors, and that queries end | 243 networks of 4 nodes and a street, both algorithms, 3 alphas of which one is refused, every pair of nodes; 2 queries on 5 of the networks; 190,293 states |
| `dijkstra_two_nodes` | finds the index out of bounds | a street with two ends |
| `building` | the offset-graph, its orders, shortcuts, ids, and errors | 9,774 files of up to 6 edges |
| `building_offsets` | finds the offsets that end too early | 3 edges, 3 nodes |
| `flattening` | order, costs and end of the expansion | 324 paths over hierarchies of 4 edges and 6 shortcuts, 120 damaged hierarchies |
| `metrics` | columns, units and means after generating and normalising | 3 parsed configs, any 3 of 18 categories, 2 edges; 13,735 configs, 87,060 states |
| `balancing` | consistent shortcuts, averaged loads, published and analysed graph, readable updates | 15 configs, 2 updates, 3 streets, 2 nested shortcuts, 3 loads, 1 edit; 19,956 states |
| `map_file` | that written files are read as they were written, what is cut apart | 22 choices of columns, 3 nodes, 2 streets and a shortcut, numbers of up to three digits, a file cut anywhere; 7,462 states |
| `route_file` | the demand that comes of generated route-pairs | graphs of up to 3 nodes, 0 to 10 requested routes, every choice of random pairs, a file cut anywhere, 6 other files; 69,384 states |
| `exploration` | tolerated corners, and one path per cell | all sets of 7 points with 3 tolerances, a third metric, any order of cells; 18,014 states |

Why the bounds are enough.

*Pool.*  Three threads are the least with a worker 0 (whose outcomes adapt the
work-size), a worker 1 (which gets one pair at a time) and one that is neither.
Six pairs with chunks of 1 to 3 leave each of them several chunks.  `usize` up to
4 makes both limits of the work-size reachable.  `InitWorkSize = 0` exercises the
correction against underflow.  Every subset of the pairs may be fatal: no, some
and all threads die.

*Dijkstra.*  A diamond with a bridge in both directions and a way back has
best paths of no to four edges, meeting nodes that are
improved after they have been found, ties, and entries that become stale.  Three
metrics per arc make each of the routes best for some of the 243 networks.  The
three orders of contraction put the hierarchy's top at the start, in the middle
and at the end.  Two queries are enough for what one leaves to the next, as
`Start` depends on the last query's vectors and list only.

*Building.*  Three edges are the least that separate duplicates; three nodes are
the least with one in between; six edges hold two duplicates of both halves and
two shortcuts, in all 720 orders.  The other files are the ones out of the
ordinary: without edges, without nodes, with a negative metric, a loop, a
reference to no edge.

*Flattening.*  A street of four edges has shortcuts nested three deep, to the
left, to the right and balanced; a path may start with any of them.  Damaging one
half of one shortcut gives cycles of one to three shortcuts.

*Metrics.*  Three categories are enough for a metric that is calculated, copied or
renamed, and then used again; a fourth is tried for the longest chain of the
shipped configs.  The second edge is thirty times longer, and the accuracy is a
tenth, so that zeros occur when normalising.

*Balancing.*  Two updates are the least with an iteration between the first, which
has no workload, and the last, which is analysed only.  Both shortcuts are nested,
and each is optional.  Steps of the explicit Euler method go beyond the new
workload, so that metrics become negative, or slightly negative: with a correction of
11/10 a half is stored as the accuracy while its shortcut isn't longer, which needs the
tolerance of two accuracies.

*Files.*  One graph with a shortcut in front of its halves, in all the ways that
configs may name, swap and ignore columns, with what other programs write before
the counts.  A cut takes any number of lines and params, and up to `MaxDigits` = 2 digits of a
number, which is all but one of the longest one; several metrics have a fraction, and
in some choices a metric is the last param of the file.  Routes: all lengths of a search
up to nine attempts; one of the graphs is a ring of three nodes, which building and the
search can handle (graphs whose last nodes have no edges make the real offset-arrays too
short, see `building_offsets`), with ids of one and two digits, one of them negative.

*Exploration.*  Seven points have corners, points on an edge, points inside, and
dominated ones; any subset of them is a query.

### What the runs show

* Every interleaving of the pool keeps the books: `ExactlyOnce`, and with
  `ImplementsWorkBag` the abstract promise.  `OneTokenPerWorker` is why the
  master's expectations hold.  `SoleOwner` holds after panics too, because of
  the order in which `Worker`'s fields are declared: with the sender declared
  before the graph the master can return while a dying thread still holds the
  graph, and `Arc::get_mut` fails.
* A thread that panics loses its chunk, and `work_off` still returns `Ok`
  (`CompleteUnlessDied` says what is missing).  The comment at
  `multithreading.rs:152` takes the end of the loop for all workers being
  dropped, which `workpool_silent_loss` refutes.
* Dijkstra finds best paths on flat and contracted graphs.  `VisitedIsFinal` and
  `MeetingIsConnected` are the two facts this rests on; `TouchedCoversVectors`
  is the assertion that `init_query` has in comments.
* `dijkstra.rs:75` compares the number of directions with the number of nodes.
  For all other sizes this only repeats a resize; for two nodes it skips it.
* Shortcuts survive sorting and the removal of duplicates, in every order.  Going
  through the removed indices forward, as an old version did (`CHANGELOG.md:143`),
  breaks `ShortcutsKeepTheirHalves`.
* The offset-arrays end after the highest node *with an edge* in their direction
  (`building_offsets`).
* A flattened path has the original edges in their order and the costs of the
  path it came from; a stack of more edges than the graph has means a
  cycle, or a path that takes an original edge twice.
* Generated metrics: what a config names is what its columns hold, for every chain
  of categories with fresh names.  With names that exist already, only conversions
  go unnoticed (see below).  `UnitsAreRight` needs a config that names the same unit
  for an id wherever it mentions it: the code believes what the category says.
* Balancing: the search never weighs a workload that has not passed the
  constructor, because the first iteration deactivates it.  The graph that is
  published is the one the last iteration analyses; its workload is normalised over all
  edges including shortcuts, so that over the streets of a written file the mean is
  not exactly 1, although `resources/.../iteration.yaml` says "is already
  normalized" of it.  An update can only fail the next iteration if the config
  allows for negative values.  A workload slightly below zero is read as the
  accuracy, in a street and a shortcut each by itself, so that the shortcut then differs
  from its halves by up to three accuracies.  All iterations have the demand of the first one,
  whoever edits the file; the yaml files themselves are read again in every iteration.
* Averaging gives a street the mean of its shares over all simulations, exactly, as long
  as no shortcuts are constructed (`AveragesTheLoads`).  This holds because the
  update happens once per iteration, with the right weight.  With shortcuts, whose
  loads are zero, the means are over more edges than streets, so that shares of iterations
  with different shortcuts weigh differently.
* Files: whatever columns are chosen, reading restores what was written, each metric in
  its own column (`RoundTrip`).  A file that lost its end is read without an error as a
  smaller graph if it ends behind a line, as the counts are limits, not promises.  If it
  ends within a line, the line is refused for a param that is missing or no number
  (`WrittenIsReadable`), unless all that are read are there: a last number without its last
  digits is read as another number (`FinishedIsWritten` is refuted).
* Routes: generated pairs are distinct, exist, and lead to different nodes, also if the file
  has lost its end, as the last number of a line has one digit.  All
  pairs are written if all are requested; fewer than requested may be written
  otherwise.
* Exploration: leaving out cells whose paths exceed a tolerance loses no tolerated
  corner.  This holds once exploring starts: with as few initial paths as
  considered metrics, it never does, and a third path between them is not looked
  for.  A path found in an earlier round counts as new when it lies below another
  cell; every cell being visited once keeps this from going on for ever.

### Refuted without a run

These definitions are in the modules but in no configuration.  Each is refuted by
TLC when it replaces the properties of the configuration named here.

| Definition | Configuration | What the code does |
|---|---|---|
| `NoDuplicateLeft` | `MCGraphBuildingOffsets.cfg` | duplicates are recognised among neighbours only, and edges of other metrics may lie between them |
| `NeverLongerThanGraph` | `MCPathFlattening.cfg` with `Inputs <- MCSecondHalfCycles` | a cycle that leads through second halves only keeps the stack low, so that `try_flatten` neither ends nor reports it; `Ends` is checked without such cycles |
| `DuplicatesRemoved` | `MCMetricGeneration.cfg` | a conversion to an id that exists leaves two columns of this id |
| `EnoughOrAllProcessed` | `MCRouteFile.cfg` | random pairs that repeat count as attempts |
| `FinishedIsWritten` | `MCMapFile.cfg` | a file that is cut within its last number is read without an error as something else than was written |

Read from the code while modelling, without a definition: the columns `DstLat` and
`DstLon` are written with the coordinate of the source (`io/writing/network/mod.rs:120`;
`EdgeParam` does the same), and an edge-id of one char panics
(`io/parsing/network/graph/fmi.rs:193`).

What the checked properties leave to these findings, or to nobody: `NothingLost` does not
see a duplicate that stays; `Ends` is not checked on cycles through second halves;
`AllOrEnough` allows for fewer routes than exist, if fewer than possible are requested;
`MeansAreOne` assumes that nothing is divided by zero, as infinities and NaN are not
modelled; `CompleteUnlessDied` covers a route-count of zero as a panic, not the endless
loop that a release build makes of it; `UnitsAreRight` assumes that categories name the
units that their sources have.

`TypeOK` of `MetricGeneration`, `MapFile`, `RouteFile`, `Balancing` and `Exploration` holds on
their instances, too; their configurations list the properties that say more.  For
`MetricGeneration` and `Balancing` it is the theorem `TypeCorrect`.

## 4. Proofs

Seven components are proved correct for every value of their constants; all that
their runs check of states is a theorem, but for `AveragesTheLoads`, and so is the
refinement of `WorkBag`.
The proofs are read along the inductive invariants below.  TLC has checked each of
them on the instances of the runs before it was proved.

### WorkPoolProofs

For every number of threads and of pairs, every work-size default, every set of
fatal pairs and every search result.

* `TypeCorrect`, `WorkSizeSafe`: inductive on their own.  The lemmas `ModRange`,
  `AppendFacts`, `TailFacts`, `ChunkFacts` and `OutcomeFacts` say what the
  wrapping arithmetic, the channels, the cut of a chunk and the outcomes do.
* `MasterSafe`, `SoleOwnerSafe`, `CompleteSafe`: none of these is inductive, as
  each talks about the state at the end.  The inductive invariant is `TokenInv`,
  which says who may move: an outcome in the channel is its worker's only token, and
  its thread is receiving (`OutcomeTokens`); the worker that the master attends has no
  other token, has its socket, and its thread is receiving (`MasterTokens`); an inbox
  holds at most one chunk, of a worker that is receiving (`WorkTokens`); a thread
  leaves only without its socket, or dead (`ThreadEnds`).
* `OneTokenSafe` counts the tokens, which `TokenInv` tells apart.
* `ExactlyOnceSafe`: `ExactlyOnce` is inductive together with `TokenInv` and
  `OutcomesTrue` (an outcome on its way tells what the search found): `AccountInv`.
* `PoolImplementsBag`: the initial state of the pool is one of the bag, and each step
  takes, finishes or loses whole chunks of the bag, or is not seen in it.  This needs
  `AccountInv`, as the bag has no threads that could hold a pair twice.

Assumed is `PoolAssumption`: the constants are naturals, the step down is at
least 1, and both steps together fit into `usize`.

### GraphBuildingProofs

For every set of map-files whose lines have their types (`BuildingAssumption`).

The inductive invariant is `BuildingInv`.  It follows the edges of the file through the
blocks of `finalize`: as inserted (`ReadInv`, `NodesInv`, `LocatedInv`); sorted, with
what has been removed so far (`DedupeInv`, where a function `p` tells which edge of
the file was at an index after sorting; it is the witness for everything that is said
about halves); kept (`KeptInv`); and as offsets and maps that grow with the loops
(`ForwardInv`, `BackwardInv`, `OffsetInv`), to the finished graph (`GraphInv`).  It
yields `BuildingTypeCorrect`, `LeavingIsCompleteSafe`, `LevelsDescendSafe`,
`NothingLostSafe`, `ShortcutsKeepTheirHalvesSafe`, `IdsResolveSafe` and
`FailsForAReasonSafe`.

The lemmas are about what the invariant needs of its operators: sorting returns
an ordered permutation, forward and backward keys are orders, correcting a shortcut
counts the removed indices before it, and offsets partition the edges.

A finding of the proof: a metric below zero by no more than the accuracy is not refused
but stored as the accuracy, so that an edge of the graph may be further from the edge of
the file that it stands for than duplicates are from each other.  `StandsFor` says so, and
the run has all files of three edges with such metrics.

### DijkstraProofs

For every set of graphs, every set of alphas and any number of queries of one object.

`SearchInv` is inductive by itself.  It holds the types and that no index is out of
bounds during a search (`ShapeInv`), `TouchedCoversVectors`, that entries have been
written to their nodes before (`QueueInv`, `VisitedInv`), and that the predecessors
make a tree (`TreeInv`).  Edges may weigh nothing, so that costs alone do not show
that following predecessors ends: along edges of the same costs a rank grows, and some
rank exists after every relaxation.  With `MeetingInv` this yields `SearchTypeCorrect`,
`TouchedCoversVectorsSafe` and `MeetingIsConnectedSafe`.

`BestPathSafe` is the correctness of `compute_best_path`.  Its steps:

1. *The reference is right.*  `Ways` is Bellman and Ford's: a round that still improves
   a node has improved one in every round before, and there are as many rounds as
   nodes (`Improvements`, `Converged`).  So no walk is cheaper than `Distance`, over
   shortcuts neither, since they weigh what their halves do (`NoShorterWalk`), and a
   walk attains it (`WaysAttained`).
2. *Nothing known is too good.*  `CostsAreBounded`: by `SearchInv`, costs are those of
   walks.
3. *Nothing is missed.*  `FrontierInv`: a node that does not wait in the queue has
   relaxed its edges.  Therefore a walk that is cheaper than all that waits has been
   followed to its end (`FrontierReach`).
4. *Bidirectional Dijkstra may stop enqueueing at the first meeting.*  Before it,
   nodes are visited in the order of their costs, and none from both sides
   (`VisitOrderInv`); this also yields `VisitedIsFinalSafe`.  When a node is popped that
   the other side has visited, a best walk comes to the popped cost along some edge;
   the ends of that edge have been reached from both sides, so that one of them waits
   with a best total or the meeting node has it (`FirstMeetingFacts`).
   `PromiseInv`: from then on, the best path is known or one of its nodes waits.
5. *CH-Dijkstra looks at every node both searches are done with* (`MetInv`), one of
   which is the top of the best walk that the hierarchy promises (`UpAndDown`).  That
   it may stop at the first edge that leads down is `LevelsDescend` of the graph.
6. *Stopping is right.*  `ClosedInv`: when a direction is closed, everything that waits
   costs more than the best path known.  `PlainEnd` and `HierarchyEnd` conclude that
   the search ends with `EndInv`, and `BuildPath` answers it.

The inductive invariant of 3 to 6 is `BestInv`, relative to `SearchInv`.

Assumed is `DijkstraAssumption`: graphs are as building leaves them (`IsNetwork`: a
node shows exactly its edges, those to higher levels first, which are the
theorems `LeavingIsCompleteSafe` and `LevelsDescendSafe`; a shortcut weighs what its
halves do and has a higher number), and, if CH-Dijkstra is used, the contraction is
correct (`IsHierarchy`, the promise of the external constructor).  TLC evaluates both
for all networks of `MCDijkstra`.

### PathFlatteningProofs

For every graph, with cyclic shortcuts or without, and every path.

* `FlatteningTypeCorrect`: `TypeInv`.
* `CostsAgreeSafe`: `CostsInv` says that what has been counted, the edge at hand and the
  stack together have the costs of the path, if the shortcuts' metrics add up.
* `NothingLostOrSwappedSafe`, `FailsOnlyOnCyclesSafe`: `UnfoldInv`.  `Below` is computed in
  as many rounds as there are edges; it is closed, as each round that is not the last adds
  an edge.  Without a cycle, edges therefore have a height, below which `Leaves` is
  defined and splits into the leaves of the halves.  A stack that is higher than the
  graph has edges holds two leaves that are the same.

Two findings of the proof: the costs of the path are only kept if shortcuts weigh
what their halves do (`HalvesAddUp`, which the constructor promises); and a high stack
means a cycle *or* a path that takes an original edge twice, which no path of a search
does.

Assumed is `FlatteningAssumption`: halves and paths are edges of the graph, metrics are
naturals.

### RouteFileProofs

For every graph with ascending ids, every number of requested routes and every choice of
the random nodes.

The inductive invariant is `RouteInv`.  While searching, the found route-pairs are those
of the processed pairs that are routes, each once, and enumerating has processed the
first `attempts` pairs (`FoundInv`); generating has ended with enough routes or enough
attempts (`EnoughInv`); the file has lines of those that were written, a count and one per
route, but for the last line, which may have fewer params (`FileInv`); and the demand has
the routes of the lines before the one at hand (`DemandInv`).

Why a cut file is harmless is in three lemmas.  What is left of a file is its first
lines and maybe a fragment of the next (`LeftOfFacts`); what is left of a line is
shorter, or as long with a shortened last param (`FragmentFacts`); but the last param of a
route is 1, of which nothing shorter is left (`ShortenedFacts`).  So a line of three params is
the whole line of a route.  A route that has lost all but its first param looks like a
count; it is taken for one only if it is the first route, and then nothing follows
(`GeneratedCount`).

`DemandIsServableSafe` further needs that `into_idx` inverts the ids (`IdxOfId`), and `AllOrEnoughSafe` that
dividing and taking the remainder enumerate all pairs (`PairsAreEnumerated`), so that
positions of the demand and existing routes are in bijection.

Assumed is `RouteFileAssumption`: ids are integers that ascend, as building leaves them,
edges are between nodes, and the requested number is a natural; and
`CountedLinesAssumption`: a number may lose any natural number of digits.

### BalancingProofs

For every graph, every set of configs, all loads and whatever shortcuts the constructor
chooses.

The inductive invariant is `IInv`, whose parts follow the graph through an iteration.

* `GraphFits`: all edges have the same metrics, fractions which are not below zero as
  long as that is promised (`IsKept`: before the first update, and after guarded ones).
* `FilesFit`: the files of the iteration hold what the graph has.  `ConstructedFits`:
  the constructed rows are those of the streets, and sums of them.  That these sums exist is
  an induction over the shortcuts, whose halves have lower numbers (`SumsExist`,
  `ConstructedFacts`).
* `SumsFit`: after reading, shortcuts cost what their halves do in every metric that was
  parsed, in whatever order the config names them.  With `AlphasFit` (a search uses no
  metric but constructed ones) this is `ConsistentSearches`.  How far correcting metrics
  around zero may move a shortcut from its halves is `StoredSums`.
* `GraphIsUntouched` and `PublishedFits`: metrics but for the workload are the custom ones,
  and what is stored before the last iteration is what this iteration writes for the
  constructor.  With `DemandFits` they yield `EvaluatedIsPublished`.
* `UpdatesAreReadable`: metrics that are not below zero pass the parser
  (`KeptIsReadable`), and a guarded update yields such (`UpdatedFacts`).

The proof found what the first version of the properties had overlooked: a shortcut is up
to three accuracies from its halves after an update that is not guarded (the tolerance was one
accuracy, which TLC refutes with the config it lacked); the workload has to be
a metric of the graph when it is updated (`idx_of` panics otherwise); and a generated
column that is not merged from `edges-info.csv` keeps its default, so that such configs do
not agree.

Assumed is `BalancingAssumption`: streets and shortcuts are finite and numbered so that
halves come before their shortcuts, the custom graph has the same metrics for
all streets, none below zero, loads are counts, the accuracy is above zero.

### MetricGenerationProofs

For every config, of any length and in any order, and every map-file.  The inductive
invariant is `IInv`; one lemma per property leads it through each action.

* `TypeCorrect`: `TypeOK` with `Shape`, which says what each stage has set.  It includes that
  rows of metrics have one value per unit, so that no index is out of bounds.
* `ColumnsStayAligned`: `HasColumns` says that a column's category, unit and id are
  the same, that ids differ, and where an id comes from (the file, or a category that has
  been generated already); the last is what keeps a new id from being there when names
  are fresh.  Converting in place needs that the first category of an id and the first
  index of it belong together (`MetricsHavePositions`: renaming moves no metric).
  `HasCapacity` counts the metrics that are still to add, which `check_config` has
  counted all at once.
* `UnitsStayRight`: `HasTelling` says that each physical column tells what the file
  tells, and that its unit is the one under which the config mentions its id.  A
  conversion rescales (`ConvertedTells`), a calculation divides length by speed or by
  duration (`CalculatedTells`), and a quotient times the mean is what it was before
  (`EndTells`).
* `MeansBecomeOne`: `HasUsable` says that all values are fractions, and none is zero as long
  as something is calculated.  Without corrections the quotients by a mean sum up to
  the number of edges, exactly (`QuotientsSum`); each correction of a quotient around zero
  moves this sum by at most three accuracies (`SumsDiffer`, `NormalizedMean`).

The proof made a precondition explicit that the first version of `MeansAreOne` lacked: with a
generated zero as divisor there is no mean (`DividesByNoZero`).

Assumed is `GenerationAssumption`: a capacity, an accuracy above zero, and configs as they
are deserialised, with edges of positive length and speed.

### Foundations

Functions that recur towards a root exist and are unique (`RecursionExists`,
`RecursionUnique`), so do iterations, sums and folds over sequences.  The library's
induction theorems take an operator, which none of the provers can instantiate; induction is
over a set that holds 0 and each successor (`NaturalsAreInductive`), and each use names
the set.

Fractions are in lowest terms, so that equal numbers are equal (`RationalUnique`).  The
lemmas say that each operator yields such a fraction and the right number.  Most uses go through
`Is(x, D, v)`, "x is v / D": comparing, adding and being close are those of numerators over a
common denominator, which exists for any finite sequence of fractions
(`SequenceDenominator`); products, quotients and means have one as well.

### Only model-checked

* Liveness: `WorkOffReturns`, `Answered`, `Ends`.  The provers do not reason about
  `ENABLED` and fairness.
* `AveragesTheLoads`: its invariant would be the mean so far; not proved yet.
* `MapFile` and `Exploration`, whose proofs are not written (section 6).  `RoundTrip`
  relates every column of a written line to a parsed one; `ToleratedCornersAreFound`
  is the geometry of convex hulls; `CellsYieldOnePathEach` counts bit masks with
  powers of two, and the provers do not prove `2^(n+1) = 2 * 2^n`.

## 5. Not modelled

* Formatting, logging and progress-bars; deserialising yaml and checking single
  values of configs; the command line, which calls one component after the other.
* The lookup tables of street categories and vehicles; the xml for SMARTS.
* The decoding of pbf-files (a library) and the contraction of the graph (an
  external program): `MCDijkstra` builds its result in the simplest form, with a
  shortcut for each pair of edges through a contracted node; `Balancing` takes any
  shortcuts whose halves are there.
* Hulls of more than two considered metrics: their cells come from a library, and
  their linear systems are beyond TLC's integers.
* Floating-point rounding: costs are naturals or exact fractions, so that the
  order of Dijkstra's queue, whose tolerance is not transitive, is exact.

## 6. Plan

1. Proofs: `RoundTrip` of `MapFile`; `AveragesTheLoads` of `Balancing`; `CellsYieldOnePathEach` of `Exploration`.
2. `PathFlattening` composed with `Dijkstra`: a path found on a contracted graph
   flattens to a best path of original edges.
