-------------------------- MODULE MetricGeneration --------------------------
(***************************************************************************)
(* From the config of a map-file to the metrics of its graph: the edges'   *)
(* config (src/src/configs/parsing/edges/), the parser's check_config      *)
(* (src/src/io/parsing/network/graph/mod.rs), and the end of               *)
(* GraphBuilder::finalize (src/src/network/graph/building.rs), which       *)
(* creates, converts, merges and normalises metrics in the order of the    *)
(* config.  What happens in between is GraphBuilding's.                    *)
(*                                                                         *)
(* One step is one category of the config, where the code loops over all   *)
(* edges, or one line of a merged file.  "err" is an Err of finalize or a  *)
(* panic (a metric-id or column that is not there); no graph is returned.  *)
(***************************************************************************)
EXTENDS Integers, FiniteSets, SequencesExt, Rationals

CONSTANTS
    Inputs,     \* configs, with the edges of their map-file, see IsInput
    Dim,        \* capacity::SMALL_VEC_INLINE_SIZE
    Accuracy    \* defaults::accuracy::F64_ABS

\* Units, by the number of meters or seconds that one of them has
Factor == [Meters |-> 1, Kilometers |-> 1000, Seconds |-> 1, Minutes |-> 60, Hours |-> 3600,
           KilometersPerHour |-> 1, LaneCount |-> 1, F64 |-> 1]
UnitInfo == DOMAIN Factor
LengthUnits == {"Meters", "Kilometers"}
TimeUnits == {"Seconds", "Minutes", "Hours"}

MetaInfo == {"EdgeId", "SrcId", "SrcIdx", "SrcLat", "SrcLon", "DstId", "DstIdx", "DstLat",
             "DstLon", "ShortcutIdx0", "ShortcutIdx1"}
ShortcutInfo == {"ShortcutIdx0", "ShortcutIdx1"}

Ignored == "-"

\* Params of a merged line are fractions, Unparsable is one that is no number.
Unparsable == <<0, 0>>
Values == {x \in Int \X (Nat \ {0}) : IsRational(x)}
IsPositive(x) == Less(Zero, x)

\* Categories of the file, and those to generate
MetricNames == [unit : UnitInfo, id : STRING]
Metas == [kind : {"Meta"}, info : MetaInfo, id : STRING]
Parsed == Metas \cup [kind : {"Metric"}, unit : UnitInfo, id : STRING] \cup [kind : {"Ignored"}]
Generatable ==
    Metas \cup [kind : {"Custom"}, unit : UnitInfo, id : STRING, default : Values]
          \cup [kind : {"Haversine"}, unit : UnitInfo, id : STRING]
          \cup [kind : {"Copy", "Convert"}, from : MetricNames, to : MetricNames]
          \cup [kind : {"Calc"}, a : MetricNames, b : MetricNames, result : MetricNames]
          \cup [kind : {"Merge"}, lines : Seq(Seq(Values \cup {Unparsable})), edgeId : STRING,
                columns : Seq(STRING)]

\* An edge of the file, with the length in km and the speed in km/h that its metrics tell of.
\* GraphBuilding has corrected zeros already.
Edges == {e \in [id : Nat, km : Values, kmh : Values] : IsPositive(e.km) /\ IsPositive(e.kmh)}

IsInput(i) ==
    /\ i.edges \in Seq(Edges)
    /\ i.categories \in Seq(Parsed)
    /\ i.generating \in Seq(Generatable)
    /\ i.nodes \in Seq([info : STRING, id : STRING])
    /\ i.nodeGenerating \in Seq([info : STRING, id : STRING])
    /\ i.normalized \in BOOLEAN

ASSUME GenerationAssumption ==
    /\ Dim \in Nat
    /\ IsRational(Accuracy) /\ IsPositive(Accuracy)
    /\ \A i \in Inputs : IsInput(i)

VARIABLES
    input,     \* the config and the edges (never changes)
    pc,        \* "config", "check", "nodes", "ids", "edges", "normalize", "done" or "err"
    next,      \* position in the categories to generate
    line,      \* position in the file to merge
    nodeCats,  \* cfg.nodes.categories, as pairs [info, id]
    cats,      \* cfg.edges.categories
    units,     \* cfg.edges.metrics.units
    ids,       \* cfg.edges.metrics.ids
    metrics,   \* metrics[e][i]: the i-th metric of the e-th edge
    idToIdx,   \* edge_ids_to_idx_map
    means      \* the means, <<>> where the code has None

cfgVars == <<nodeCats, cats, units, ids>>
graphVars == <<metrics, idToIdx, means>>
vars == <<input, pc, next, line, cfgVars, graphVars>>

\* What the map-file tells of an edge in some unit; the edges are straight.
Told(e, unit) ==
    CASE unit \in LengthUnits -> Times(e.km, Ratio(1000, Factor[unit]))
      [] unit \in TimeUnits -> Times(Over(e.km, e.kmh), Ratio(3600, Factor[unit]))
      [] unit = "KilometersPerHour" -> e.kmh
      [] OTHER -> One

IsMetric(c) == c.kind = "Metric"
WithMetric(found, c) == IF IsMetric(c) THEN Append(found, c) ELSE found
MetricsOf(categories) == FoldLeft(WithMetric, <<>>, categories)

Init ==
    /\ input \in Inputs
    /\ pc = "config"
    /\ next = 1 /\ line = 1
    /\ nodeCats = input.nodes
    /\ cats = <<>> /\ units = <<>> /\ ids = <<>>
    /\ metrics = <<>>
    /\ idToIdx = <<>>
    /\ means = <<>>

-----------------------------------------------------------------------------
(* Config and its check *)

\* edges::Config::try_from: ids of the parsed categories have to differ.
ReadConfig ==
    LET named == {k \in DOMAIN input.categories : input.categories[k].kind # "Ignored"}
        parsed == MetricsOf(input.categories)
    IN  /\ pc = "config"
        /\ IF \E j, k \in named : j # k /\ input.categories[j].id = input.categories[k].id
             THEN pc' = "err" /\ UNCHANGED <<cats, units, ids>>
             ELSE /\ pc' = "check"
                  /\ cats' = input.categories
                  /\ units' = [k \in DOMAIN parsed |-> parsed[k].unit]
                  /\ ids' = [k \in DOMAIN parsed |-> parsed[k].id]
        /\ UNCHANGED <<input, next, line, nodeCats, graphVars>>

AddsMetric(c) == c.kind \in {"Calc", "Copy", "Haversine", "Custom"}

\* check_config, and the metrics of the graph that is built if it holds
CheckConfig ==
    LET infos == {nodeCats[k].info : k \in DOMAIN nodeCats}
        added == {k \in DOMAIN input.generating : AddsMetric(input.generating[k])}
        dim == Len(units) + Cardinality(added)
        halves == {k \in DOMAIN cats : cats[k].kind = "Meta" /\ cats[k].info \in ShortcutInfo}
    IN  /\ pc = "check"
        /\ IF /\ {"NodeId", "Latitude", "Longitude"} \subseteq infos
              /\ dim <= Dim
              /\ Cardinality(halves) \in {0, 2}
             THEN /\ pc' = "nodes"
                  /\ metrics' = [e \in DOMAIN input.edges |->
                        [i \in DOMAIN units |-> Told(input.edges[e], units[i])]]
                  /\ idToIdx' = [id \in {input.edges[e].id : e \in DOMAIN input.edges} |->
                        CHOOSE e \in DOMAIN input.edges : input.edges[e].id = id]
             ELSE pc' = "err" /\ UNCHANGED <<metrics, idToIdx>>
        /\ UNCHANGED <<input, next, line, cfgVars, means>>

\* Only a NodeIdx can be generated, if its id is new.
GenerateNode ==
    LET c == input.nodeGenerating[next]
    IN  /\ pc = "nodes"
        /\ next <= Len(input.nodeGenerating)
        /\ IF c.info # "NodeIdx" \/ \E k \in DOMAIN nodeCats : nodeCats[k].id = c.id
             THEN pc' = "err" /\ UNCHANGED <<next, nodeCats>>
             ELSE /\ nodeCats' = Append(nodeCats, c)
                  /\ next' = next + 1
                  /\ UNCHANGED pc
        /\ UNCHANGED <<input, line, cats, units, ids, graphVars>>

\* The new ids of all categories but the in-place ones are compared with the existing ids, not
\* with each other.
NewId(c) ==
    CASE c.kind \in {"Meta", "Custom", "Haversine"} -> c.id
      [] c.kind = "Copy" -> c.to.id
      [] c.kind = "Calc" -> c.result.id
      [] OTHER -> Ignored

Exists(id) == \E k \in DOMAIN cats : cats[k].kind # "Ignored" /\ cats[k].id = id

CheckIds ==
    /\ pc = "nodes"
    /\ next > Len(input.nodeGenerating)
    /\ pc' = IF \E c \in ToSet(input.generating) : Exists(NewId(c)) THEN "err" ELSE "edges"
    /\ next' = 1
    /\ UNCHANGED <<input, line, cfgVars, graphVars>>

-----------------------------------------------------------------------------
(* Generating metrics *)

Current == input.generating[next]

Generates(kind) ==
    /\ pc = "edges"
    /\ next <= Len(input.generating)
    /\ Current.kind = kind

HasMetric(id) == \E i \in DOMAIN ids : ids[i] = id

\* idx_of: the first metric of this id
IdxOf(id) == SelectInSeq(ids, LAMBDA other : other = id)

IsConvertible(from, to) ==
    \/ from = to
    \/ "F64" \in {from, to}
    \/ {from, to} \subseteq LengthUnits
    \/ {from, to} \subseteq TimeUnits

\* try_convert; F64 takes any value as it is.
Converted(from, to, x) ==
    IF "F64" \in {from, to} THEN x ELSE Times(x, Ratio(Factor[from], Factor[to]))

IsCalculable(result, a, b) ==
    /\ a = "Kilometers"
    /\ \/ result \in TimeUnits /\ b = "KilometersPerHour"
       \/ result = "KilometersPerHour" /\ b = "Hours"

\* Mutant: a duration is left in hours.
CalculatedInHours(result, x, y) == Over(x, y)

\* try_calc
Calculated(result, x, y) ==
    IF result = "KilometersPerHour" THEN Over(x, y) ELSE Converted("Hours", result, Over(x, y))

Err == pc' = "err" /\ UNCHANGED <<input, next, line, cfgVars, graphVars>>

AddCategory(c) ==
    /\ cats' = Append(cats, c)
    /\ next' = next + 1
    /\ UNCHANGED <<input, pc, line, nodeCats, means>>

\* value[e] is the new metric of the e-th edge.
AddMetric(to, value) ==
    /\ metrics' = [e \in DOMAIN metrics |-> Append(metrics[e], value[e])]
    /\ units' = Append(units, to.unit)
    /\ ids' = Append(ids, to.id)
    /\ AddCategory([kind |-> "Metric", unit |-> to.unit, id |-> to.id])
    /\ UNCHANGED idToIdx

Numbered == [id \in 0 .. Len(input.edges) - 1 |-> id + 1]

\* An EdgeId becomes the edge's index; indices and coordinates are there already.
GenerateMeta ==
    /\ Generates("Meta")
    /\ IF Current.info \in ShortcutInfo
         THEN Err
         ELSE /\ idToIdx' = IF Current.info = "EdgeId" THEN Numbered ELSE idToIdx
              /\ AddCategory(Current)
              /\ UNCHANGED <<units, ids, metrics>>

GenerateCustom ==
    /\ Generates("Custom")
    /\ AddMetric(Current, [e \in DOMAIN metrics |-> Current.default])

GenerateHaversine ==
    /\ Generates("Haversine")
    /\ IF Current.unit = "Kilometers"
         THEN AddMetric(Current, [e \in DOMAIN metrics |-> input.edges[e].km])
         ELSE Err

\* The units are those that the category names, whatever the unit of the metric.
CannotConvert == metrics # <<>> /\ ~IsConvertible(Current.from.unit, Current.to.unit)
ConvertedAt(e) ==
    Converted(Current.from.unit, Current.to.unit, metrics[e][IdxOf(Current.from.id)])

GenerateCopy ==
    /\ Generates("Copy")
    /\ IF ~HasMetric(Current.from.id) \/ CannotConvert
         THEN Err
         ELSE AddMetric(Current.to, [e \in DOMAIN metrics |-> ConvertedAt(e)])

\* Mutant: only the unit and id for quick access are replaced.
RenamedNot(c) == c

Renamed(c) ==
    IF IsMetric(c) /\ c.id = Current.from.id
    THEN [c EXCEPT !.unit = Current.to.unit, !.id = Current.to.id]
    ELSE c

\* in place
Convert ==
    LET i == IdxOf(Current.from.id)
    IN  /\ Generates("Convert")
        /\ IF ~HasMetric(Current.from.id) \/ CannotConvert
             THEN Err
             ELSE /\ metrics' = [e \in DOMAIN metrics |-> [metrics[e] EXCEPT ![i] = ConvertedAt(e)]]
                  /\ cats' = [k \in DOMAIN cats |-> Renamed(cats[k])]
                  /\ units' = [units EXCEPT ![i] = Current.to.unit]
                  /\ ids' = [ids EXCEPT ![i] = Current.to.id]
                  /\ next' = next + 1
                  /\ UNCHANGED <<input, pc, line, nodeCats, idToIdx, means>>

GenerateCalc ==
    LET a == Current.a
        b == Current.b
        value(e) ==
            Calculated(Current.result.unit, metrics[e][IdxOf(a.id)], metrics[e][IdxOf(b.id)])
    IN  /\ Generates("Calc")
        /\ IF \/ ~HasMetric(a.id) \/ ~HasMetric(b.id)
              \/ metrics # <<>> /\ ~IsCalculable(Current.result.unit, a.unit, b.unit)
             THEN Err
             ELSE AddMetric(Current.result, [e \in DOMAIN metrics |-> value(e)])

-----------------------------------------------------------------------------
(* Merging a csv-file *)

\* The columns that are metrics, and the first that is the edge-id
MetricColumns ==
    {k \in DOMAIN Current.columns : Current.columns[k] \notin {Ignored, Current.edgeId}}
EdgeColumn == SelectInSeq(Current.columns, LAMBDA id : id = Current.edgeId)

IsLineGood(params) ==
    /\ EdgeColumn \in DOMAIN params
    /\ params[EdgeColumn] \in Nat \X {1}
    /\ params[EdgeColumn][1] \in DOMAIN idToIdx
    /\ \A k \in MetricColumns :
          k \in DOMAIN params /\ params[k] # Unparsable /\ HasMetric(Current.columns[k])

\* The last of several columns of one metric counts.
Merged(values, params) ==
    [i \in DOMAIN values |->
        LET cols == {k \in MetricColumns : IdxOf(Current.columns[k]) = i}
        IN  IF cols = {} THEN values[i] ELSE params[CHOOSE k \in cols : \A l \in cols : l <= k]]

MergeLine ==
    LET params == Current.lines[line]
        e == idToIdx[params[EdgeColumn][1]]
    IN  /\ Generates("Merge")
        /\ line <= Len(Current.lines)
        /\ IF IsLineGood(params)
             THEN /\ metrics' = [metrics EXCEPT ![e] = Merged(@, params)]
                  /\ line' = line + 1
                  /\ UNCHANGED <<input, pc, next, cfgVars, idToIdx, means>>
             ELSE Err

EndMerge ==
    /\ Generates("Merge")
    /\ line > Len(Current.lines)
    /\ next' = next + 1
    /\ line' = 1
    /\ UNCHANGED <<input, pc, cfgVars, graphVars>>

-----------------------------------------------------------------------------
(* Normalising *)

EndGenerating ==
    /\ pc = "edges"
    /\ next > Len(input.generating)
    /\ pc' = IF input.normalized THEN "normalize" ELSE "done"
    /\ UNCHANGED <<input, next, line, cfgVars, graphVars>>

Column(i) == [e \in DOMAIN metrics |-> metrics[e][i]]

\* Mutant: the sum is taken for the mean.
SumForMean(i) == SumOf(Column(i))

Mean(i) == MeanOf(Column(i))

IsZero(x) == AreClose(x, Zero, Accuracy)

\* A metric around zero is corrected.
Normalized(x, mean) ==
    LET quotient == Over(x, mean) IN IF IsZero(quotient) THEN Accuracy ELSE quotient

Normalize ==
    /\ pc = "normalize"
    /\ IF metrics = <<>> \/ \E i \in DOMAIN units : IsZero(Mean(i))
         THEN Err
         ELSE /\ means' = [i \in DOMAIN units |-> Mean(i)]
              /\ metrics' = [e \in DOMAIN metrics |->
                    [i \in DOMAIN units |-> Normalized(metrics[e][i], means'[i])]]
              /\ pc' = "done"
              /\ UNCHANGED <<input, next, line, cfgVars, idToIdx>>

Stopped == pc \in {"done", "err"} /\ UNCHANGED vars

Next ==
    \/ ReadConfig \/ CheckConfig
    \/ GenerateNode \/ CheckIds
    \/ GenerateMeta \/ GenerateCustom \/ GenerateHaversine \/ GenerateCopy \/ Convert
    \/ GenerateCalc \/ MergeLine \/ EndMerge
    \/ EndGenerating \/ Normalize
    \/ Stopped

Spec == Init /\ [][Next]_vars

-----------------------------------------------------------------------------
(* Properties *)

\* The code divides without looking at the divisor.  None is zero if no zero is made up or merged,
\* and of course if nothing is calculated.
DividesByNoZero ==
    \/ \A c \in ToSet(input.generating) : c.kind # "Calc"
    \/ \A c \in ToSet(input.generating) :
          /\ c.kind = "Custom" => c.default # Zero
          /\ c.kind = "Merge" => \A k \in DOMAIN c.lines : Zero \notin ToSet(c.lines[k])

\* Every variable has its type; edge-ids lead to edges, and each edge has a value for each metric.
TypeOK ==
    /\ IsInput(input)
    /\ pc \in {"config", "check", "nodes", "edges", "normalize", "done", "err"}
    /\ next \in 1 .. Len(input.generating) + Len(input.nodeGenerating) + 1
    /\ line \in Nat \ {0}
    /\ nodeCats \in Seq([info : STRING, id : STRING])
    /\ cats \in Seq(Parsed)
    /\ units \in Seq(UnitInfo)
    /\ ids \in Seq(STRING) /\ Len(ids) = Len(units)
    /\ metrics # <<>> => DOMAIN metrics = DOMAIN input.edges
    /\ \A e \in DOMAIN metrics : DOMAIN metrics[e] = DOMAIN units
    /\ \A id \in DOMAIN idToIdx : idToIdx[id] \in DOMAIN metrics

\* All the ids that a config creates, in place or not, differ from each other and from those
\* that the file has.
NamesAreFresh ==
    LET created == {k \in DOMAIN input.generating : input.generating[k].kind # "Merge"}
        nameOf(k) == IF input.generating[k].kind = "Convert" THEN input.generating[k].to.id
                                                             ELSE NewId(input.generating[k])
        parsed == {c.id : c \in {d \in ToSet(input.categories) : d.kind # "Ignored"}}
    IN  /\ \A k \in created : nameOf(k) \notin parsed
        /\ \A j, k \in created : j # k => nameOf(j) # nameOf(k)

\* The three places that describe the columns of the metrics agree, whatever was added, renamed
\* and replaced on the way: writers go by the categories, searches by the ids.  The columns fit
\* into the inline capacity that check_config has counted before.
ColumnsAgree ==
    pc = "done" /\ NamesAreFresh =>
        LET described == MetricsOf(cats)
        IN  /\ Len(described) = Len(ids)
            /\ \A i \in DOMAIN ids : described[i].id = ids[i] /\ described[i].unit = units[i]
            /\ \A e \in DOMAIN metrics : Len(metrics[e]) = Len(ids)
            /\ Len(ids) <= Dim

\* The same, also where a new id exists already: "it's in-place, so duplicates would be
\* removed" (building.rs:998).  TLC refutes it: nothing removes the one that was there.
DuplicatesRemoved ==
    pc = "done" => \A i, j \in DOMAIN ids : i # j => ids[i] # ids[j]

\* Each mention of an id in the config comes with the same unit, none is made of an F64, and no
\* value of a physical unit is made up or merged.
IsHonest ==
    LET mentions(c) ==
            CASE c.kind \in {"Copy", "Convert"} -> {c.from, c.to}
              [] c.kind = "Calc" -> {c.a, c.b, c.result}
              [] c.kind \in {"Custom", "Haversine", "Metric"} -> {[unit |-> c.unit, id |-> c.id]}
              [] OTHER -> {}
        all == UNION {mentions(c) : c \in ToSet(input.categories) \cup ToSet(input.generating)}
    IN  /\ \A m, n \in all : m.id = n.id => m.unit = n.unit
        /\ \A c \in ToSet(input.generating) :
              /\ c.kind \in {"Copy", "Convert"} => c.from.unit # "F64" \/ c.to.unit = "F64"
              /\ c.kind = "Custom" => c.unit = "F64"
              /\ c.kind # "Merge"

\* Along every chain of copies, conversions and calculations, each length, time and speed tells
\* of its edge what the file tells, in the unit it is labelled with; also after normalising,
\* by its mean.
UnitsAreRight ==
    pc = "done" /\ IsHonest =>
        \A e \in DOMAIN metrics : \A i \in DOMAIN units :
            \/ units[i] \in {"F64", "LaneCount"}
            \/ means = <<>> /\ metrics[e][i] = Told(input.edges[e], units[i])
            \/ means # <<>> /\ \/ Times(metrics[e][i], means[i]) = Told(input.edges[e], units[i])
                               \/ metrics[e][i] = Accuracy

\* The mean of every normalised metric is 1, apart from what the correction of zeros adds, so
\* that alphas weigh metrics alike; a mean of zero or a graph without edges is refused before.
MeansAreOne ==
    pc = "done" /\ input.normalized /\ DividesByNoZero =>
        /\ metrics # <<>>
        /\ \A i \in DOMAIN units :
              LET zeros == {e \in DOMAIN metrics : metrics[e][i] = Accuracy}
                  excess == Minus(MeanOf(Column(i)), One)
              IN  Leq(AbsOf(excess), Times(Ratio(3 * Cardinality(zeros), Len(input.edges)), Accuracy))
=============================================================================
