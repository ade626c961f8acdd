-------------------------- MODULE MCPathFlattening --------------------------
(***************************************************************************)
(* A street of five crossings 0 .. 4 with a shortcut for every section of  *)
(* more than one edge, made of any two sections; and the same with one     *)
(* half of one shortcut replaced by a shortcut above it.                   *)
(***************************************************************************)
EXTENDS PathFlattening

Sections == {s \in (0 .. 4) \X (0 .. 4) : s[1] < s[2]}
Order == <<<<0, 1>>, <<1, 2>>, <<2, 3>>, <<3, 4>>,
           <<0, 2>>, <<1, 3>>, <<2, 4>>, <<0, 3>>, <<1, 4>>, <<0, 4>>>>
EdgeOf(i, j) == CHOOSE e \in DOMAIN Order : Order[e] = <<i, j>>

Metrics == <<1, 2, 4, 8, 3, 6, 12, 7, 14, 15>>

\* via[s]: the crossing that was contracted when the shortcut for section s was added.
Vias == {via \in [{s \in Sections : s[2] - s[1] > 1} -> 1 .. 3] :
            \A s \in DOMAIN via : s[1] < via[s] /\ via[s] < s[2]}
Halves(via) ==
    [e \in DOMAIN Order |->
        LET s == Order[e]
        IN  IF s[2] - s[1] = 1 THEN <<>>
            ELSE <<EdgeOf(s[1], via[s]), EdgeOf(via[s], s[2])>>]

\* The paths along the street, over shortcuts or not: every choice of crossings to stop at.
Paths == {LET stops == SetToSortSeq(stopSet, <)
          IN  [i \in 1 .. Len(stops) - 1 |-> EdgeOf(stops[i], stops[i + 1])] :
            stopSet \in SUBSET (0 .. 4) \ {{}}}

Input(halves, path) == [halves |-> halves, metrics |-> Metrics, path |-> path]
Hierarchies == {Input(Halves(via), path) : via \in Vias, path \in Paths}

\* Half h of shortcut e becomes shortcut f, which reaches e over halves.
Reaches(halves, f, e, over) ==
    LET reach[k \in 0 .. 10] ==
            IF k = 0 THEN {f}
            ELSE LET upper == reach[k - 1]
                 IN  upper \cup UNION {{halves[g][i] : i \in over \cap DOMAIN halves[g]} :
                                     g \in upper}
    IN  e \in reach[10]
Damaged(h, over) ==
    {Input([Halves(d[1]) EXCEPT ![d[2]] = [@ EXCEPT ![h] = d[3]]], <<10>>) :
        d \in {d \in Vias \X (5 .. 10) \X (5 .. 10) :
                 Reaches(Halves(d[1]), d[3], d[2], over)}}

\* Cycles through a first half; those of second halves only, which never end, refute
\* NeverLongerThanGraph.
MCInputs == Hierarchies \cup Damaged(1, {1, 2})
MCSecondHalfCycles == Damaged(2, {2})
=============================================================================
