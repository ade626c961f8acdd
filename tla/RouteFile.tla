----------------------------- MODULE RouteFile ------------------------------
(***************************************************************************)
(* Route-pairs from a graph into a file, and from a file into a demand:    *)
(* src/src/io/writing/routing/random_or_all.rs and                         *)
(* src/src/io/parsing/routing/routes.rs.                                   *)
(*                                                                         *)
(* A line is a sequence of params, which are numbers.  Whether there is a  *)
(* path is Dijkstra's; the random nodes are any.  The end of a written     *)
(* file may get lost, also within a line or a number.                      *)
(***************************************************************************)
EXTENDS CountedLines

CONSTANTS
    Requests,   \* [ids, edges, maxCount]: a graph by its nodes' ids, ascending, and its edges
                \* as pairs of indices, with the requested number of routes
    Files       \* files from elsewhere

ASSUME RouteFileAssumption ==
    \A r \in Requests :
        /\ r.maxCount \in Nat /\ r.ids \in Seq(Int) /\ r.ids # <<>>
        /\ \A j, k \in DOMAIN r.ids : j < k => r.ids[j] < r.ids[k]
        /\ r.edges \subseteq (0 .. Len(r.ids) - 1) \X (0 .. Len(r.ids) - 1)

VARIABLES
    request,
    pc,          \* "search", "write", "preprocess", "parse", "done" or "err"
    processed,   \* processed_indices
    attempts,    \* of the progress-bar, as are its successes, one per found pair
    found,       \* found_route_pairs
    file,        \* lines of the file
    pos,         \* line_number, when parsing
    behind,      \* the line behind the last of route_lines
    demand       \* [src, dst, n] as parsed

writeVars == <<request, processed, attempts, found>>
vars == <<writeVars, pc, file, pos, behind, demand>>

Init ==
    /\ request \in Requests
    /\ \/ pc = "search" /\ file = <<>>
       \/ pc = "preprocess" /\ file \in Files
    /\ processed = {} /\ attempts = 0 /\ found = <<>>
    /\ pos = 1 /\ behind = 1 /\ demand = <<>>

NumNodes == Len(request.ids)
NumPossible == NumNodes * NumNodes
Indices == 0 .. NumNodes - 1
MaxCount == Min({NumPossible, request.maxCount})

\* The nodes from which paths lead to a node, apart from this one (Dijkstra)
HasPath(src, dst) ==
    LET reached[k \in 0 .. NumNodes] ==
            IF k = 0 THEN {src}
            ELSE LET r == reached[k - 1] IN r \cup {e[2] : e \in {f \in request.edges : f[1] \in r}}
    IN  dst \in reached[NumNodes]

-----------------------------------------------------------------------------
(* Writing *)

\* Mutant: all pairs are enumerated only if more are requested.
AreFewerPossible == NumPossible < request.maxCount

IsEnumerating == NumPossible <= request.maxCount

NextPairs ==
    IF IsEnumerating THEN {<<attempts \div NumNodes, attempts % NumNodes>>}
    ELSE Indices \X Indices

\* Mutant: pairs may be found twice.
IsAnyFine(src, dst) == src # dst /\ HasPath(src, dst)

IsNewRoute(src, dst) == src # dst /\ <<src, dst>> \notin processed /\ HasPath(src, dst)

Search ==
    /\ pc = "search"
    /\ Len(found) < MaxCount
    /\ attempts < NumPossible
    /\ \E pair \in NextPairs :
          /\ found' = IF IsNewRoute(pair[1], pair[2])
                      THEN Append(found, <<request.ids[pair[1] + 1], request.ids[pair[2] + 1]>>)
                      ELSE found
          /\ processed' = processed \cup {pair}
    /\ attempts' = attempts + 1
    /\ UNCHANGED <<request, pc, file, pos, behind, demand>>

IsBefore(p, q) == p[1] < q[1] \/ (p[1] = q[1] /\ p[2] < q[2])

EndSearch ==
    /\ pc = "search"
    /\ Len(found) >= MaxCount \/ attempts >= NumPossible
    /\ \E p \in Bijection(DOMAIN found, DOMAIN found) :
          /\ \A j, k \in DOMAIN found : j < k => ~IsBefore(found[p[k]], found[p[j]])
          /\ found' = [k \in DOMAIN found |-> found[p[k]]]
    /\ pc' = "write"
    /\ UNCHANGED <<request, processed, attempts, file, pos, behind, demand>>

\* The lines that are written, of the number of routes and of each route
Lines == << <<Len(found)>> >> \o [k \in DOMAIN found |-> <<found[k][1], found[k][2], 1>>]

\* A number loses digits, until a minus stays alone, which is no count, as -1 is none.
Shortened(n) == IF n < 0 THEN {-1} \cup {-h : h \in Heads(-n)} ELSE Heads(n)

Write ==
    /\ pc = "write"
    /\ file' \in LeftOf(Lines, [param \in Params(Lines) |-> Shortened(param)])
    /\ pc' = "preprocess"
    /\ UNCHANGED <<writeVars, pos, behind, demand>>

-----------------------------------------------------------------------------
(* Parsing *)

IsUsize(param) == param >= 0

\* The last count counts the routes.
Preprocess ==
    LET counts == {k \in SingleLines(file) : IsUsize(file[k][1])}
    IN  /\ pc = "preprocess"
        /\ IF counts = {}
             THEN pc' = "err" /\ UNCHANGED <<pos, behind>>
             ELSE /\ pos' = BehindCounts(file)
                  /\ behind' = pos' + file[Max(counts)][1]
                  /\ pc' = "parse"
        /\ UNCHANGED <<writeVars, file, demand>>

ParseRoute ==
    LET params == file[pos]
    IN  /\ pc = "parse"
        /\ pos < behind /\ pos \in DOMAIN file
        /\ IF Len(params) = 3 /\ IsUsize(params[3])
             THEN /\ demand' = Append(demand, [src |-> params[1], dst |-> params[2],
                                               n |-> params[3]])
                  /\ pos' = pos + 1
                  /\ UNCHANGED pc
             ELSE pc' = "err" /\ UNCHANGED <<demand, pos>>
        /\ UNCHANGED <<writeVars, file, behind>>

EndParsing ==
    /\ pc = "parse"
    /\ pos >= behind \/ pos \notin DOMAIN file
    /\ pc' = "done"
    /\ UNCHANGED <<writeVars, file, pos, behind, demand>>

\* RoutePair::into_idx, which panics for an id that isn't in the graph
IdxOf(id) == SelectInSeq(request.ids, LAMBDA other : other = id) - 1

Stopped == pc \in {"done", "err"} /\ UNCHANGED vars

Next == Search \/ EndSearch \/ Write \/ Preprocess \/ ParseRoute \/ EndParsing \/ Stopped

Spec == Init /\ [][Next]_vars

-----------------------------------------------------------------------------
(* Properties *)

\* Every variable has its type.
TypeOK ==
    /\ pc \in {"search", "write", "preprocess", "parse", "done", "err"}
    /\ processed \subseteq Indices \X Indices
    /\ attempts \in 0 .. NumPossible
    /\ ToSet(found) \subseteq ToSet(request.ids) \X ToSet(request.ids)
    /\ pos \in Nat \ {0} /\ behind \in Nat \ {0}
    /\ \A k \in DOMAIN demand : demand[k].n \in Nat

IsGenerated == pc = "done" /\ attempts > 0

\* What is parsed from a generated file are routes between different nodes of the graph, each
\* of which exists and is there once, and not more than requested: a demand that a simulation
\* can serve without panicking at an unknown id.  This includes files that have lost their end:
\* no shortened line is taken for a route.
DemandIsServable ==
    IsGenerated =>
        /\ Len(demand) <= request.maxCount
        /\ \A k \in DOMAIN demand :
              /\ {demand[k].src, demand[k].dst} \subseteq ToSet(request.ids)
              /\ demand[k].src # demand[k].dst
              /\ HasPath(IdxOf(demand[k].src), IdxOf(demand[k].dst))
              /\ demand[k].n = 1
        /\ IsInjective(demand)

\* Who requests as many routes as there may be gets all that exist; who requests fewer gets
\* fewer only if as many attempts as possible routes have been made, or if the file has lost its
\* end.
AllOrEnough ==
    IsGenerated /\ file = Lines =>
        LET routes == {pair \in Indices \X Indices : pair[1] # pair[2] /\ HasPath(pair[1], pair[2])}
        IN  IF request.maxCount >= NumPossible
            THEN Len(demand) = Cardinality(routes)
            ELSE Len(demand) = request.maxCount \/ attempts = NumPossible

\* The search ends "when enough existing routes have been found or when all possible routes are
\* processed" (random_or_all.rs:77).  TLC refutes it: random pairs that repeat count as attempts.
EnoughOrAllProcessed ==
    IsGenerated /\ file = Lines => Len(demand) = request.maxCount \/ processed = Indices \X Indices
=============================================================================
