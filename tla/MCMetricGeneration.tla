------------------------- MODULE MCMetricGeneration -------------------------
(***************************************************************************)
(* Configs with up to three categories to generate, in any order, over     *)
(* three parsed files; Accuracy is coarse so that zeros happen.            *)
(***************************************************************************)
EXTENDS MetricGeneration

Metric(unit, id) == [kind |-> "Metric", unit |-> unit, id |-> id]
Meta(info, id) == [kind |-> "Meta", info |-> info, id |-> id]
Skip == [kind |-> "Ignored"]
Named(unit, id) == [unit |-> unit, id |-> id]
Node(info, id) == [info |-> info, id |-> id]
Int1(n) == <<n, 1>>

\* Ids of the file are not the edges' indices; the second edge is faster and far longer.
TwoEdges == <<[id |-> 7, km |-> Int1(3), kmh |-> Int1(60)],
              [id |-> 1, km |-> Int1(90), kmh |-> Int1(120)]>>

InKilometers == <<Meta("EdgeId", "edge"), Metric("Kilometers", "km"),
                  Metric("KilometersPerHour", "kmh")>>
InMeters == <<Metric("KilometersPerHour", "kmh"), Skip, Metric("Meters", "m")>>
Loaded == <<Meta("EdgeId", "edge"), Metric("F64", "load"), Metric("Hours", "h"),
            Metric("Kilometers", "km")>>

Convertible(kind, from, to) == [kind |-> kind, from |-> from, to |-> to]
Calc(result) == [kind |-> "Calc", result |-> result, a |-> Named("Kilometers", "km"),
                 b |-> Named("KilometersPerHour", "kmh")]
Merge(ls) == [kind |-> "Merge", lines |-> ls, edgeId |-> "edge",
              columns |-> <<"load", Ignored, "edge">>]

Pool == {
    Convertible("Copy", Named("Kilometers", "km"), Named("Meters", "m")),
    Convertible("Convert", Named("Kilometers", "km"), Named("Meters", "m")),
    Convertible("Convert", Named("Meters", "m"), Named("Kilometers", "km")),
    Convertible("Convert", Named("Hours", "h"), Named("Minutes", "min")),
    Convertible("Copy", Named("Hours", "h"), Named("F64", "load")),
    Convertible("Copy", Named("KilometersPerHour", "kmh"), Named("Meters", "x")),
    Calc(Named("Hours", "h")), Calc(Named("Seconds", "s")),
    [kind |-> "Calc", result |-> Named("KilometersPerHour", "kmh"),
     a |-> Named("Kilometers", "km"), b |-> Named("Hours", "h")],
    [kind |-> "Custom", unit |-> "F64", id |-> "load", default |-> Int1(2)],
    [kind |-> "Custom", unit |-> "F64", id |-> "zero", default |-> Zero],
    [kind |-> "Haversine", unit |-> "Kilometers", id |-> "air"],
    [kind |-> "Haversine", unit |-> "Meters", id |-> "air"],
    Merge(<<<<Int1(5), Unparsable, Int1(1)>>, <<Int1(4), Unparsable, Int1(7)>>>>),
    Merge(<<<<Int1(0), Int1(0), Int1(0)>>, <<Int1(3), Int1(0), Int1(1)>>>>),
    Meta("EdgeId", "index"), Meta("SrcLat", "lat"), Meta("ShortcutIdx0", "half")}

NodeCats == <<Node("NodeId", "id"), Node("Latitude", "lat"), Node("Ignored", Ignored),
              Node("Longitude", "lon")>>

Plain(cs, gen) ==
    [categories |-> cs, nodes |-> NodeCats, nodeGenerating |-> <<Node("NodeIdx", "idx")>>,
     generating |-> gen, edges |-> TwoEdges, normalized |-> FALSE]

Generating ==
    {[Plain(cs, gen) EXCEPT !.normalized = norm] :
        cs \in {InKilometers, InMeters, Loaded},
        gen \in UNION {[1 .. n -> Pool] : n \in 0 .. 2}, norm \in BOOLEAN}
    \cup {Plain(cs, gen) : cs \in {InKilometers, Loaded}, gen \in [1 .. 3 -> Pool]}

\* Configs that are refused, a graph without edges, and chains of four.
Unusual ==
    LET base == Plain(InKilometers, <<>>)
        hours == Calc(Named("Hours", "h"))
        halves(n) == [k \in 1 .. n |-> Meta("ShortcutIdx0", <<"i", "j", "k">>[k])]
    IN  {[base EXCEPT !.categories = Append(@, Metric("F64", "km"))],
         [base EXCEPT !.nodes = Tail(@)],
         [base EXCEPT !.nodes = <<Node("NodeId", "id"), Node("Longitude", "lon")>>],
         [base EXCEPT !.categories = @ \o halves(1)],
         [base EXCEPT !.categories = @ \o halves(2)],
         [base EXCEPT !.categories = @ \o halves(3)],
         [base EXCEPT !.nodeGenerating = <<Node("NodeIdx", "lon")>>],
         [base EXCEPT !.nodeGenerating = <<Node("CHLevel", "lvl")>>],
         [base EXCEPT !.nodeGenerating = @ \o @],
         [base EXCEPT !.edges = <<>>, !.generating = <<hours>>],
         [base EXCEPT !.edges = <<>>, !.normalized = TRUE],
         [base EXCEPT !.generating = <<hours, Calc(Named("Seconds", "s")),
              Convertible("Convert", Named("Kilometers", "km"), Named("Meters", "m")),
              Convertible("Convert", Named("Hours", "h"), Named("Minutes", "min"))>>],
         [base EXCEPT !.generating = [k \in 1 .. 4 |->
              [kind |-> "Haversine", unit |-> "Kilometers", id |-> <<"a", "b", "c", "d">>[k]]]]}

MCInputs == Generating \cup Unusual
MCAccuracy == <<1, 10>>
=============================================================================
