---------------------------- MODULE CountedLines ----------------------------
(***************************************************************************)
(* How the parsers of fmi- and route-pairs-files find their lines: lines   *)
(* of one param come first, those that are numbers count what follows.     *)
(* And what is left of such a file that has lost its end: the writers drop *)
(* a BufWriter, which ignores that it could not write the rest.  They hand *)
(* over each param by itself, so that the end is anywhere within a line.   *)
(***************************************************************************)
EXTENDS Integers, SequencesExt

CONSTANT MaxDigits   \* how many digits a number may lose at most

ASSUME CountedLinesAssumption == MaxDigits \in Nat

\* The first line of several params behind a line of one
BehindCounts(lines) ==
    LET single == {k \in DOMAIN lines : Len(lines[k]) = 1}
        behind == {k \in DOMAIN lines : k \notin single /\ \E j \in single : j < k}
    IN  Min(behind \cup {Len(lines) + 1})

\* The lines up to there whose param stands alone; if it is a number, it is a count
SingleLines(lines) == {k \in 1 .. BehindCounts(lines) - 1 : Len(lines[k]) = 1}

-----------------------------------------------------------------------------

\* What may be left of the digits of a natural number
Heads(n) == {h \in 1 .. n \div 10 : \E k \in 1 .. MaxDigits : h = n \div 10^k}

Params(lines) == UNION {ToSet(lines[n]) : n \in DOMAIN lines}

\* What may be left of a line, where shortened[param] may be left of a param
Fragments(line, shortened) ==
    {SubSeq(line, 1, k) : k \in 1 .. Len(line) - 1}
        \cup UNION {{Append(SubSeq(line, 1, k - 1), param) : param \in shortened[line[k]]} :
                   k \in DOMAIN line}

\* What may be left of a file, all of it included
LeftOf(lines, shortened) ==
    {SubSeq(lines, 1, n) : n \in 0 .. Len(lines)}
        \cup UNION {{Append(SubSeq(lines, 1, n - 1), rest) :
                        rest \in Fragments(lines[n], shortened)} : n \in DOMAIN lines}
=============================================================================
