------------------------------ MODULE WorkBag -------------------------------
(***************************************************************************)
(* What Master::work_off promises its callers (balance in                  *)
(* src/src/bin/osmgraphing/balancing/mod.rs, do_evaluating_routing in      *)
(* src/src/bin/osmgraphing/mod.rs), without channels, sockets and          *)
(* work-sizes: every pair is taken once, by one worker, and either done or *)
(* lost with that worker; it returns when nothing is left to wait for.     *)
(***************************************************************************)
CONSTANTS Workers, Pairs

VARIABLES todo, held, done, lost, returned

vars == <<todo, held, done, lost, returned>>

Init ==
    /\ todo = Pairs
    /\ held = [w \in Workers |-> {}]
    /\ done = {}
    /\ lost = {}
    /\ returned = FALSE

\* An idle worker takes some pairs.
Take(w) ==
    /\ w \notin lost
    /\ held[w] = {}
    /\ \E chunk \in (SUBSET todo) \ {{}} :
          /\ held' = [held EXCEPT ![w] = chunk]
          /\ todo' = todo \ chunk
    /\ UNCHANGED <<done, lost, returned>>

\* All pairs of a worker are accounted for at once.
Finish(w) ==
    /\ w \notin lost
    /\ held[w] # {}
    /\ done' = done \cup held[w]
    /\ held' = [held EXCEPT ![w] = {}]
    /\ UNCHANGED <<todo, lost, returned>>

\* A worker panics, its pairs are lost.
Lose(w) ==
    /\ w \notin lost
    /\ held[w] # {}
    /\ lost' = lost \cup {w}
    /\ UNCHANGED <<todo, held, done, returned>>

Return ==
    /\ \A w \in Workers \ lost : held[w] = {}
    /\ todo = {} \/ Workers \subseteq lost
    /\ returned' = TRUE
    /\ UNCHANGED <<todo, held, done, lost>>

Next == (\E w \in Workers : Take(w) \/ Finish(w) \/ Lose(w)) \/ Return

Spec == Init /\ [][Next]_vars
=============================================================================
