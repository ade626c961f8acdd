----------------------------- MODULE MCWorkPool -----------------------------
(* Small pools for TLC: sizes chosen so that both clamps of the work-size are hit. *)
EXTENDS WorkPool

\* Pair 2 has no path.
MCFound == [p \in Pairs |-> p # 2]
\* Pair 1 is asked for twice, pair 4 not at all.
MCRouteCount == [p \in Pairs |-> IF p = 1 THEN 2 ELSE IF p = 4 THEN 0 ELSE 1]
=============================================================================
