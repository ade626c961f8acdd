----------------------------- MODULE Balancing ------------------------------
(***************************************************************************)
(* The balancer (src/src/bin/osmgraphing/balancing/mod.rs): a loop that    *)
(* passes a graph through files, an external constructor of shortcuts, the *)
(* parser, a simulation of traffic and an update of the workload-metric.   *)
(*                                                                         *)
(* Files describe columns by position, and configs name them, so that the  *)
(* stages agree only as far as the configs do.  The simulation (WorkPool)  *)
(* yields any of the given loads; parsing is GraphBuilding's and           *)
(* MetricGeneration's, which ids a config accepts is left to them.         *)
(***************************************************************************)
EXTENDS Rationals

CONSTANTS
    Streets,   \* the edges of the custom graph, as numbers
    Halves,    \* Halves[s] = <<first, second>>, of each shortcut s that may be constructed, where
               \* shortcuts have higher numbers than their halves
    Custom,    \* Custom[e][id]: the metrics of the custom graph
    Loads,     \* abs_workloads that a simulation may find, as functions of the streets
    Configs,   \* see IsConfig
    MaxEdits,  \* how often the user's file of route-pairs may change
    Accuracy   \* defaults::accuracy::F64_ABS

Shortcuts == DOMAIN Halves
Ids == DOMAIN Custom[CHOOSE e \in Streets : TRUE]
None == <<>>

\* "written" and "infos" are the metrics of graph.fmi and edges-info.csv, "parsed" those that
\* graph.ch.fmi is said to have, "generated" gets default values before edges-info.csv is merged.
IsIteration(i) ==
    i \in [written : Seq(Ids), parsed : Seq(Ids), infos : Seq(Ids), generated : Seq(Ids)]

IsConfig(c) ==
    /\ c.updates \in Nat /\ c.dim \in Nat
    /\ IsIteration(c.iter0) /\ IsIteration(c.iterI)
    /\ c.published \in Seq(Ids) /\ c.monitored \in Seq(Ids)
    /\ c.method \in {"ExplicitEuler", "Averaging"} /\ IsRational(c.correction)
    /\ c.min = None \/ IsRational(c.min)
    /\ c.isErr \in BOOLEAN
    /\ c.alphas \subseteq Ids

ASSUME BalancingAssumption ==
    /\ IsFiniteSet(Streets) /\ IsFiniteSet(Shortcuts) /\ Streets \cup Shortcuts \subseteq Nat
    /\ Streets # {} /\ Streets \cap Shortcuts = {}
    /\ \A s \in Shortcuts : /\ DOMAIN Halves[s] = 1 .. 2
                            /\ \A k \in 1 .. 2 : /\ Halves[s][k] \in Streets \cup Shortcuts
                                                  /\ Halves[s][k] < s
    /\ DOMAIN Custom = Streets
    /\ \A e \in Streets : /\ DOMAIN Custom[e] = Ids
                          /\ \A id \in Ids : /\ IsRational(Custom[e][id])
                                              /\ ~Less(Custom[e][id], Zero)
    /\ \A l \in Loads : \A e \in Streets : l[e] \in Nat
    /\ "workload" \in Ids
    /\ MaxEdits \in Nat
    /\ IsRational(Accuracy) /\ Less(Zero, Accuracy)
    /\ \A c \in Configs : IsConfig(c)

VARIABLES
    cfg,       \* never changes
    pc,        \* the next stage, "done" or "err"
    failedAt,  \* the stage that returned Err or panicked
    iter,
    graph,     \* graph[e][id], for streets and, after constructing, shortcuts
    alphas,    \* ids of the metrics that the search uses
    load,      \* the last simulation's abs_workloads
    maps,      \* maps[<<directory, name>>][e][k]: k-th metric of a map-file
    infos,     \* infos[directory][e][k]: k-th metric of edges-info.csv
    userPairs, \* version of the user's file of route-pairs
    pairs,     \* version of its copy in the results-directory, -1 if there is none
    stats      \* stats[iteration] = [pairs, load] of abs_workloads.csv

vars == <<cfg, pc, failedAt, iter, graph, alphas, load, maps, infos, userPairs, pairs, stats>>
fileVars == <<maps, infos, userPairs, pairs, stats>>

Results == -1   \* the results-directory itself; iterations have theirs in it

Init ==
    /\ cfg \in Configs
    /\ pc = "iterate" /\ failedAt = "none"
    /\ iter = 0
    /\ graph = Custom
    /\ alphas = {}
    /\ load = <<>>
    /\ maps = <<>> /\ infos = <<>> /\ stats = <<>>
    /\ userPairs = 0 /\ pairs = -1

Fail == pc' = "err" /\ failedAt' = pc

NumIter == cfg.updates + 1

IterCfg == IF iter = 0 THEN cfg.iter0 ELSE cfg.iterI

\* The columns of the given edges, or None for an id that the graph hasn't
Rows(edges, ids) ==
    IF \A k \in DOMAIN ids : ids[k] \in DOMAIN graph[CHOOSE e \in edges : TRUE]
    THEN [e \in edges |-> [k \in DOMAIN ids |-> graph[e][ids[k]]]]
    ELSE None

\* Where a metric is among columns
ColumnOf(ids, id) == SelectInSeq(ids, LAMBDA other : other = id)

\* write_graph, write_edges: shortcuts aren't written, and no file is replaced.
IsWritable(ids) == Rows(Streets, ids) # None
With(files, key, content) ==
    [k \in DOMAIN files \cup {key} |-> IF k = key THEN content ELSE files[k]]
WithMap(dir, name, ids) == With(maps, <<dir, name>>, Rows(Streets, ids))

-----------------------------------------------------------------------------
(* The stages of an iteration *)

\* Iterations end, or a directory is prepared; the last iteration starts with storing the graph.
BeginIteration ==
    /\ pc = "iterate"
    /\ IF iter = NumIter
         THEN pc' = "done" /\ UNCHANGED <<failedAt, maps>>
         ELSE IF iter # NumIter - 1
           THEN pc' = "write" /\ UNCHANGED <<failedAt, maps>>
           ELSE IF IsWritable(cfg.published) /\ <<Results, "graph">> \notin DOMAIN maps
             THEN /\ pc' = "write"
                  /\ maps' = WithMap(Results, "graph", cfg.published)
                  /\ UNCHANGED failedAt
             ELSE Fail /\ UNCHANGED maps
    /\ UNCHANGED <<cfg, iter, graph, alphas, load, infos, userPairs, pairs, stats>>

\* write_multi_ch_graph
WriteGraph ==
    /\ pc = "write"
    /\ IF /\ IsWritable(IterCfg.written) /\ IsWritable(IterCfg.infos)
          /\ <<iter, "graph">> \notin DOMAIN maps /\ iter \notin DOMAIN infos
         THEN /\ maps' = WithMap(iter, "graph", IterCfg.written)
              /\ infos' = With(infos, iter, Rows(Streets, IterCfg.infos))
              /\ pc' = "construct"
              /\ UNCHANGED failedAt
         ELSE Fail /\ UNCHANGED <<maps, infos>>
    /\ UNCHANGED <<cfg, iter, graph, alphas, load, userPairs, pairs, stats>>

\* Sums up the halves of the shortcuts, whose halves are there as well (external).
Constructed(rows, chosen) ==
    LET sums[e \in Streets \cup Shortcuts] ==
            IF e \in Streets THEN rows[e]
            ELSE LET first == sums[Halves[e][1]]
                     second == sums[Halves[e][2]]
                 IN  [k \in DOMAIN first |-> Plus(first[k], second[k])]
    IN  [e \in Streets \cup chosen |-> sums[e]]

\* The constructor is compiled for a number of metrics, which is one less before the first
\* update.  It may fail, and decides for the shortcuts.
ConstructDim == IF iter = 0 THEN cfg.dim - 1 ELSE cfg.dim

Construct ==
    /\ pc = "construct"
    /\ \/ /\ Len(IterCfg.written) = ConstructDim
          /\ \E chosen \in SUBSET Shortcuts :
                /\ \A s \in chosen : ToSet(Halves[s]) \subseteq Streets \cup chosen
                /\ maps' = With(maps, <<iter, "ch">>,
                                Constructed(maps[<<iter, "graph">>], chosen))
          /\ pc' = "read"
          /\ UNCHANGED failedAt
       \/ Fail /\ UNCHANGED maps
    /\ UNCHANGED <<cfg, iter, graph, alphas, load, infos, userPairs, pairs, stats>>

\* Metrics around zero are corrected, what still is below the accuracy is refused.
IsZero(x) == AreClose(x, Zero, Accuracy)
Stored(x) == IF IsZero(x) THEN Accuracy ELSE x
IsRefused(x) == Less(Stored(x), Accuracy)

\* The metrics of an edge: parsed by position, generated, or merged, by the edge's id, from the
\* file in the iteration's directory
ReadEdge(e) ==
    LET i == IterCfg
        row == maps[<<iter, "ch">>][e]
    IN  [id \in ToSet(i.parsed \o i.generated) |->
            IF e \in Streets /\ id \in ToSet(i.infos) THEN infos[iter][e][ColumnOf(i.infos, id)]
            ELSE IF id \in ToSet(i.generated) THEN One
            ELSE Stored(row[ColumnOf(i.parsed, id)])]

\* read_in_ch_graph
ReadGraph ==
    LET i == IterCfg
        rows == maps[<<iter, "ch">>]
    IN  /\ pc = "read"
        /\ IF \/ Len(i.parsed) # Len(i.written)
              \/ ToSet(i.parsed) \cap ToSet(i.generated) # {}
              \/ ~ToSet(i.infos) \subseteq ToSet(i.parsed \o i.generated)
              \/ \E e \in DOMAIN rows : \E k \in DOMAIN i.parsed : IsRefused(rows[e][k])
             THEN Fail /\ UNCHANGED graph
             ELSE /\ graph' = [e \in DOMAIN rows |-> ReadEdge(e)]
                  /\ pc' = "routing"
                  /\ UNCHANGED failedAt
        /\ UNCHANGED <<cfg, iter, alphas, load, fileVars>>

\* Mutants: the workload takes part in the first search;
NotDeactivated == cfg.alphas
\* every iteration reads the user's route-pairs.
UserPairs == userPairs

\* Workloads of the first iteration are generated, and alphas are deactivated.
Alphas == IF iter = 0 THEN cfg.alphas \ {"workload"} ELSE cfg.alphas

\* Route-pairs are copied once, and read from the copy.
Pairs == IF iter = 0 THEN userPairs ELSE pairs

\* read_in_routing_cfg
ReadRouting ==
    LET found == DOMAIN graph[CHOOSE e \in Streets : TRUE]
    IN  /\ pc = "routing"
        /\ IF ~cfg.alphas \subseteq found \/ (iter = 0 /\ "workload" \notin found)
             THEN Fail /\ UNCHANGED <<alphas, pairs>>
             ELSE /\ alphas' = Alphas
                  /\ pairs' = Pairs
                  /\ pc' = "simulate"
                  /\ UNCHANGED failedAt
        /\ UNCHANGED <<cfg, iter, graph, load, maps, infos, userPairs, stats>>

\* Paths are flattened, so that no workload is counted at a shortcut.
Simulate ==
    /\ pc = "simulate"
    /\ \E l \in Loads : load' = [e \in DOMAIN graph |-> IF e \in Streets THEN l[e] ELSE 0]
    /\ pc' = "update"
    /\ UNCHANGED <<cfg, failedAt, iter, graph, alphas, fileVars>>

-----------------------------------------------------------------------------
(* defaults::balancing::update_new_metric *)

MeanOver(f) ==
    LET order == SetToSeq(DOMAIN f)
    IN  MeanOf([k \in 1 .. Cardinality(DOMAIN f) |-> f[order[k]]])

NormalizedBy(f, mean) == [e \in DOMAIN f |-> Over(f[e], mean)]

IsAtMost(x, y) == Less(x, y) \/ AreClose(x, y, Accuracy)

\* Mutant: the metric is updated twice per iteration.
MovedTwice(old, new) ==
    LET once == Over(Plus(Times(<<iter, 1>>, old), new), <<iter + 1, 1>>)
    IN  Over(Plus(Times(<<iter, 1>>, once), new), <<iter + 1, 1>>)

Moved(old, new) ==
    IF cfg.method = "ExplicitEuler"
    THEN Plus(old, Times(Minus(new, old), cfg.correction))
    ELSE Over(Plus(Times(<<iter, 1>>, old), new), <<iter + 1, 1>>)

\* Mutant: negative metrics aren't found.
IsExactlyZero(x) == x = Zero

IsZeroOrLower(x) == IsAtMost(x, Zero)

Clamped(x) == IF cfg.min # None /\ IsAtMost(x, cfg.min) THEN cfg.min ELSE x

Update ==
    LET loads == [e \in DOMAIN load |-> <<load[e], 1>>]
        new == NormalizedBy(loads, MeanOver(loads))
        moved == [e \in DOMAIN load |-> Clamped(Moved(graph[e]["workload"], new[e]))]
        mean == MeanOver(moved)
        stored == NormalizedBy(moved, mean)
    IN  /\ pc = "update"
        /\ IF \/ "workload" \notin DOMAIN graph[CHOOSE e \in Streets : TRUE]
              \/ IsZero(MeanOver(loads))
              \/ cfg.min = None /\ cfg.isErr /\ \E e \in DOMAIN moved : IsZeroOrLower(moved[e])
              \/ IsAtMost(mean, Zero)
             THEN Fail /\ UNCHANGED graph
             ELSE /\ graph' = [e \in DOMAIN graph |->
                                  [graph[e] EXCEPT !["workload"] = stored[e]]]
                  /\ pc' = "stats"
                  /\ UNCHANGED failedAt
        /\ UNCHANGED <<cfg, iter, alphas, load, fileVars>>

\* evaluating_balance::Writer, for files that aren't there, and on to the next iteration
WriteStats ==
    /\ pc = "stats"
    /\ IF iter \in DOMAIN stats \/ ~IsWritable(cfg.monitored)
         THEN Fail /\ UNCHANGED <<stats, iter>>
         ELSE /\ stats' = With(stats, iter, [pairs |-> pairs, load |-> load])
              /\ iter' = iter + 1
              /\ pc' = "iterate"
              /\ UNCHANGED failedAt
    /\ UNCHANGED <<cfg, graph, alphas, load, maps, infos, userPairs, pairs>>

\* Whoever owns the route-pairs may change them meanwhile (environment).
UserEdits ==
    /\ userPairs < MaxEdits
    /\ pc \notin {"done", "err"}
    /\ userPairs' = userPairs + 1
    /\ UNCHANGED <<cfg, pc, failedAt, iter, graph, alphas, load, maps, infos, pairs, stats>>

Stopped == pc \in {"done", "err"} /\ UNCHANGED vars

Next ==
    \/ BeginIteration \/ WriteGraph \/ Construct \/ ReadGraph
    \/ ReadRouting \/ Simulate \/ Update \/ WriteStats
    \/ UserEdits
    \/ Stopped

Spec == Init /\ [][Next]_vars

-----------------------------------------------------------------------------
(* Properties *)

\* Every variable has its type; there is an update for the custom graph and for every updated
\* graph but no further iteration.
TypeOK ==
    /\ IsConfig(cfg)
    /\ pc \in {"iterate", "write", "construct", "read", "routing", "simulate", "update", "stats",
               "done", "err"}
    /\ failedAt # "none" <=> pc = "err"
    /\ iter \in 0 .. cfg.updates + 1
    /\ pc \notin {"iterate", "done", "err"} => iter <= cfg.updates
    /\ pc = "done" => iter = cfg.updates + 1
    /\ \A e \in DOMAIN graph : \A id \in DOMAIN graph[e] : IsRational(graph[e][id])
    /\ DOMAIN maps \subseteq (Results .. cfg.updates) \X {"graph", "ch"}
    /\ DOMAIN stats = 0 .. iter - 1
    /\ userPairs \in 0 .. MaxEdits
    /\ pairs \in -1 .. MaxEdits

\* The configs name the same columns in the same order.  The others are generated, and then are
\* read from the infos, but for the workload, which starts with its default.
Agrees(i) ==
    /\ i.written = i.parsed
    /\ ToSet(i.parsed) \cap ToSet(i.generated) = {}
    /\ ToSet(i.infos) \subseteq ToSet(i.generated)
    /\ ToSet(i.generated) \ {"workload"} \subseteq ToSet(i.infos)

ConfigsAgree == Agrees(cfg.iter0) /\ Agrees(cfg.iterI)

\* The metrics that count pass the constructor, but for the workload before the first update.
AlphasAreConstructed ==
    /\ cfg.alphas \ {"workload"} \subseteq ToSet(cfg.iter0.written)
    /\ cfg.alphas \subseteq ToSet(cfg.iterI.written)

\* No update yields a workload below zero.
IsGuarded == IF cfg.min = None THEN cfg.isErr ELSE ~Less(cfg.min, Zero)

\* How far a shortcut may be from its halves, because metrics around zero are corrected one by
\* one: a half slightly below zero is stored as the accuracy, while the shortcut isn't longer.
Tolerance == IF IsGuarded \/ iter = 0 THEN Accuracy ELSE Times(<<2, 1>>, Accuracy)

\* Whenever a search runs, a shortcut costs what its halves cost, in every metric that counts:
\* the workload, which is generated after constructing, or changed after constructing, may not
\* count until it has passed the constructor once more.
SearchesOnConsistentShortcuts ==
    pc = "simulate" /\ ConfigsAgree /\ AlphasAreConstructed =>
        \A s \in Shortcuts \cap DOMAIN graph : \A id \in alphas :
            LET cost(e) == graph[e][id]
            IN  AreClose(cost(s), Plus(cost(Halves[s][1]), cost(Halves[s][2])), Tolerance)

\* What is published at the end has got all updates, and is the graph that was analysed last;
\* it differs from the custom graph in its workload alone, but for the correction of metrics
\* around zero.  All iterations had the same demand, so that their workloads can be compared,
\* whoever touched the file of route-pairs meanwhile.
EvaluatesWhatItPublishes ==
    pc = "done" /\ ConfigsAgree =>
        LET published == maps[<<Results, "graph">>]
            analysed == maps[<<cfg.updates, "graph">>]
            ids == IF cfg.updates = 0 THEN cfg.iter0.written ELSE cfg.iterI.written
        IN  /\ {<<Results, "graph">>, <<cfg.updates, "graph">>} \subseteq DOMAIN maps
            /\ \A e \in Streets : \A id \in ToSet(cfg.published) :
                  LET value == published[e][ColumnOf(cfg.published, id)]
                      custom == Custom[e][id]
                  IN  /\ id \in ToSet(ids) => value = analysed[e][ColumnOf(ids, id)]
                      /\ id # "workload" => value \in {custom, Stored(custom)}
            /\ \A i, j \in 0 .. cfg.updates : stats[i].pairs = stats[j].pairs

\* The load of a street in a simulation, in relation to all streets
Share(i, e) ==
    Over(<<stats[i].load[e], 1>>, MeanOver([f \in Streets |-> <<stats[i].load[f], 1>>]))

\* Averaging yields what it is called for: after any number of updates, through files, constructor
\* and parser, the workload of a street is the mean of its shares over all simulations, each of
\* which counts once and counts the same.  Shortcuts, whose loads are zero, would count as edges
\* in the means, and zeros would be corrected.
AveragesTheLoads ==
    /\ pc = "iterate" /\ iter > 0 /\ cfg.method = "Averaging"
    /\ cfg.min = None /\ cfg.isErr
    /\ ConfigsAgree /\ "workload" \in ToSet(cfg.iterI.written)
    /\ \A i \in DOMAIN stats : DOMAIN stats[i].load = Streets
    => \A e \in Streets :
          graph[e]["workload"] = MeanOf([i \in 1 .. iter |-> Share(i - 1, e)])

\* The custom graph can be read in the first iteration, and an update of the metric never leaves
\* a graph that the next iteration can't read, unless the config allows for it: by a negative
\* minimum, or without one by treating zeros as warnings.
UpdatedGraphIsReadable ==
    failedAt = "read" /\ ConfigsAgree => iter > 0 /\ ~IsGuarded
=============================================================================
