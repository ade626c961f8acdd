------------------------------ MODULE WorkPool ------------------------------
(***************************************************************************)
(* The master/worker pool that works off the route-pairs of one balancing  *)
(* iteration (src/src/bin/osmgraphing/balancing/multithreading.rs).        *)
(*                                                                         *)
(* The master owns the receiving end of ONE outcome channel, every worker  *)
(* owns a clone of its sending end, and every worker has a work channel    *)
(* of its own whose sending end sits in the worker's socket.  A channel is *)
(* a std::sync::mpsc channel: unbounded and FIFO; its receiver sees the    *)
(* disconnection when the channel is empty and no sender is left.          *)
(*                                                                         *)
(* Route-pairs are numbered in the order of the file.  A chunk is the set  *)
(* of its pairs; the paths found for a pair, their edges and the workload  *)
(* of an edge are abstracted to the number of paths chosen for the pair.   *)
(***************************************************************************)
EXTENDS Integers, Sequences, FiniteSets

CONSTANTS
    NumThreads,      \* number of workers, from the config (zero is accepted)
    NumPairs,        \* number of route-pairs in the file
    Found,           \* Found[p]: the search finds a path for pair p
    RouteCount,      \* RouteCount[p]: how many routes the file asks for pair p
    InitWorkSize,    \* defaults::balancing::INIT_WORK_SIZE
    WorkSizePlus,    \* defaults::balancing::WORK_SIZE_PLUS
    WorkSizeMinus,   \* defaults::balancing::WORK_SIZE_MINUS
    MaxUsize         \* std::usize::MAX

Workers == 0 .. NumThreads - 1
Pairs   == 1 .. NumPairs

ASSUME PoolAssumption ==
    /\ NumThreads \in Nat
    /\ NumPairs \in Nat
    /\ Found \in [Pairs -> BOOLEAN]
    /\ RouteCount \in [Pairs -> Nat]
    /\ {InitWorkSize, WorkSizePlus, WorkSizeMinus, MaxUsize} \subseteq Nat
    /\ 1 <= WorkSizeMinus
    /\ WorkSizeMinus + WorkSizePlus <= MaxUsize

NoWorker == -1      \* last_worker_idx == None

VARIABLES
    fatal,      \* the pairs on which a worker thread panics (input, never changes)
    masterPc,   \* where the master is in spawn_some / work_off
    workSize,   \* Master::work_size
    last,       \* Master::last_worker_idx
    handed,     \* the first handed pairs have left route_pairs
    progress,   \* progress_bar.progress()
    tally,      \* tally[p]: chosen paths of p counted in abs_workloads
    socket,     \* socket[w]: worker_sockets[w] is Some
    outcomes,   \* the outcome channel
    inbox,      \* inbox[w]: the work channel of w
    workerPc,   \* where the thread of w is
    job,        \* job[w]: the pairs w is working off
    died        \* died[w]: the thread of w has panicked

masterVars == <<masterPc, workSize, last, handed, progress, tally, socket>>
workerVars == <<workerPc, job, died>>
vars == <<fatal, masterVars, outcomes, inbox, workerVars>>

MasterPc == {"spawn", "poll", "await", "assign", "join", "ok", "err"}
WorkerPc == {"unborn", "recv", "busy", "closing", "released", "ended"}

\* What one worker sends after a chunk.
Outcome == [worker : Workers, pairs : SUBSET Pairs, chosen : [Pairs -> Nat]]

Smaller(a, b) == IF a <= b THEN a ELSE b
Larger(a, b)  == IF a >= b THEN a ELSE b

\* usize arithmetic wraps in a release build.
Plus(a, b)  == (a + b) % (MaxUsize + 1)
Minus(a, b) == (a - b) % (MaxUsize + 1)

-----------------------------------------------------------------------------
(* spawn_some and Worker::spawn *)

\* INIT_WORK_SIZE, raised to prevent underflows, then lowered to prevent overflows.
ClampedInitWorkSize ==
    Smaller(Larger(InitWorkSize, WorkSizeMinus), MaxUsize - WorkSizePlus)

\* `fatal` are the pairs with an id that is no node of the graph (into_node expects
\* it), and, under Dijkstra, a pair with a path and route-count 0 (route_count - 1).
Init ==
    /\ fatal \in SUBSET Pairs
    /\ masterPc = "spawn"
    /\ workSize = ClampedInitWorkSize
    /\ last = NoWorker
    /\ handed = 0
    /\ progress = 0
    /\ tally = [p \in Pairs |-> 0]
    /\ socket = [w \in Workers |-> FALSE]
    /\ outcomes = <<>>
    /\ inbox = [w \in Workers |-> <<>>]
    /\ workerPc = [w \in Workers |-> "unborn"]
    /\ job = [w \in Workers |-> {}]
    /\ died = [w \in Workers |-> FALSE]

NoPaths == [p \in Pairs |-> 0]
InitialOutcome(w) == [worker |-> w, pairs |-> {}, chosen |-> NoPaths]

\* Mutant: the thread, too, sends an initial outcome.
SpawnSendsTwice(w) ==
    /\ masterPc = "spawn"
    /\ workerPc[w] = "unborn"
    /\ outcomes' = outcomes \o <<InitialOutcome(w), InitialOutcome(w)>>
    /\ workerPc' = [workerPc EXCEPT ![w] = "recv"]
    /\ socket' = [socket EXCEPT ![w] = TRUE]
    /\ UNCHANGED <<fatal, masterPc, workSize, last, handed, progress, tally, inbox, job, died>>

\* Workers are spawned in order; the initial, empty outcome is sent on behalf of the
\* worker before its thread starts.
Spawn(w) ==
    /\ masterPc = "spawn"
    /\ workerPc[w] = "unborn"
    /\ \A v \in 0 .. w - 1 : workerPc[v] # "unborn"
    /\ outcomes' = Append(outcomes, InitialOutcome(w))
    /\ workerPc' = [workerPc EXCEPT ![w] = "recv"]
    /\ socket' = [socket EXCEPT ![w] = TRUE]
    /\ UNCHANGED <<fatal, masterPc, workSize, last, handed, progress, tally, inbox, job, died>>

\* All workers are spawned: work_off starts its loop.
StartLoop ==
    /\ masterPc = "spawn"
    /\ \A w \in Workers : workerPc[w] # "unborn"
    /\ masterPc' = "poll"
    /\ UNCHANGED <<fatal, workSize, last, handed, progress, tally, socket, outcomes, inbox,
                   workerVars>>

-----------------------------------------------------------------------------
(* Master *)

\* Mutant: outcome_tx is declared, and so dropped, before arc_graph.
SenderDroppedFirst(w) == workerPc[w] \notin {"closing", "released", "ended"}

SenderAlive(w) == workerPc[w] # "ended"

\* Mutant: the master keeps a sending end of its own.
MasterKeepsSender == FALSE

Disconnected   == outcomes = <<>> /\ \A w \in Workers : ~SenderAlive(w)

\* Worker 0 had to wait for the master: more work per chunk.
Raised(ws)  == Smaller(MaxUsize - WorkSizePlus, Plus(ws, WorkSizePlus))

\* Mutant: no lower limit.
LoweredUnlimited(ws) == Minus(ws, WorkSizeMinus)

\* The master had to wait for worker 0: less work per chunk.
Lowered(ws) == Larger(WorkSizeMinus, Minus(ws, WorkSizeMinus))

\* The loop body up to "send new work": the outcome at the head of the channel is taken,
\* its paths and its number of route-pairs are counted; worker 0 adjusts the work-size.
TakeOutcome(adjusted) ==
    /\ outcomes # <<>>
    /\ LET o == Head(outcomes)
       IN  /\ outcomes' = Tail(outcomes)
           /\ workSize' = IF o.worker = 0 THEN adjusted ELSE workSize
           /\ last' = o.worker
           /\ tally' = [p \in Pairs |-> tally[p] + o.chosen[p]]
           /\ progress' = progress + Cardinality(o.pairs)
    /\ masterPc' = "assign"
    /\ UNCHANGED <<fatal, handed, socket, inbox, workerVars>>

\* recv: try_recv is successful.
PollOutcome == masterPc = "poll" /\ TakeOutcome(Raised(workSize))

\* Mutant: a failing try_recv ends the loop.
PollNothingBreaks ==
    /\ masterPc = "poll"
    /\ outcomes = <<>>
    /\ masterPc' = "ok"
    /\ UNCHANGED <<fatal, workSize, last, handed, progress, tally, socket, outcomes, inbox,
                   workerVars>>

\* recv: try_recv returns Empty or Disconnected, the blocking receive follows.
PollNothing ==
    /\ masterPc = "poll"
    /\ outcomes = <<>>
    /\ masterPc' = "await"
    /\ UNCHANGED <<fatal, workSize, last, handed, progress, tally, socket, outcomes, inbox,
                   workerVars>>

\* recv: the blocking receive gets an outcome.
AwaitOutcome == masterPc = "await" /\ TakeOutcome(Lowered(workSize))

\* recv: the blocking receive fails, the loop breaks and work_off returns Ok.
Break ==
    /\ masterPc = "await"
    /\ Disconnected
    /\ masterPc' = "ok"
    /\ UNCHANGED <<fatal, workSize, last, handed, progress, tally, socket, outcomes, inbox,
                   workerVars>>

\* Master::work_size(): worker 1 gets one pair at a time.
ChunkSize == IF last = 1 THEN 1 ELSE workSize

\* Mutants: the chunk is not cut at the end of route_pairs; the last pair stays behind.
NextChunkUncut   == handed + 1 .. handed + ChunkSize
NextChunkOverlap == Larger(1, handed) .. handed + Smaller(NumPairs - handed, ChunkSize)

NextChunk == handed + 1 .. handed + Smaller(NumPairs - handed, ChunkSize)

\* send: expects the worker's socket, and fails when the worker's receiver is gone.
SendWork ==
    /\ masterPc = "assign"
    /\ handed < NumPairs
    /\ handed' = handed + Cardinality(NextChunk)
    /\ IF socket[last] /\ workerPc[last] # "ended"
         THEN /\ inbox' = [inbox EXCEPT ![last] = Append(@, NextChunk)]
              /\ masterPc' = "poll"
         ELSE /\ masterPc' = "err"
              /\ UNCHANGED inbox
    /\ UNCHANGED <<fatal, workSize, last, progress, tally, socket, outcomes, workerVars>>

\* drop_and_join_worker, first half: the socket is taken and its sender dropped.
DropWorker ==
    /\ masterPc = "assign"
    /\ handed = NumPairs
    /\ masterPc' = IF socket[last] THEN "join" ELSE "err"
    /\ socket' = [socket EXCEPT ![last] = FALSE]
    /\ UNCHANGED <<fatal, workSize, last, handed, progress, tally, outcomes, inbox, workerVars>>

\* drop_and_join_worker, second half: the thread has ended, a panic becomes an error.
JoinWorker ==
    /\ masterPc = "join"
    /\ workerPc[last] = "ended"
    /\ masterPc' = IF died[last] THEN "err" ELSE "poll"
    /\ UNCHANGED <<fatal, workSize, last, handed, progress, tally, socket, outcomes, inbox,
                   workerVars>>

Master ==
    \/ \E w \in Workers : Spawn(w)
    \/ StartLoop
    \/ PollOutcome \/ PollNothing \/ AwaitOutcome \/ Break
    \/ SendWork \/ DropWorker \/ JoinWorker

-----------------------------------------------------------------------------
(* Worker threads *)

\* The thread receives work.
RecvWork(w) ==
    /\ workerPc[w] = "recv"
    /\ inbox[w] # <<>>
    /\ job' = [job EXCEPT ![w] = Head(inbox[w])]
    /\ inbox' = [inbox EXCEPT ![w] = Tail(@)]
    /\ workerPc' = [workerPc EXCEPT ![w] = "busy"]
    /\ UNCHANGED <<fatal, masterVars, outcomes, died>>

\* work_off_with_dijkstra, work_off_with_explorator: a pair with a path adds as many
\* chosen paths as its route-count says, a pair without a path adds none.
ChosenPaths(chunk) ==
    [p \in Pairs |-> IF p \in chunk /\ Found[p] THEN RouteCount[p] ELSE 0]

\* The thread has worked off its chunk and sends the outcome.
SendOutcome(w) ==
    /\ workerPc[w] = "busy"
    /\ job[w] \cap fatal = {}
    /\ outcomes' = Append(outcomes,
                          [worker |-> w, pairs |-> job[w], chosen |-> ChosenPaths(job[w])])
    /\ job' = [job EXCEPT ![w] = {}]
    /\ workerPc' = [workerPc EXCEPT ![w] = "recv"]
    /\ UNCHANGED <<fatal, masterVars, inbox, died>>

\* Mutant: a panicking thread still reports its chunk as worked off.
PanicReports(w) ==
    /\ workerPc[w] = "busy"
    /\ job[w] \cap fatal # {}
    /\ outcomes' = Append(outcomes, InitialOutcome(w))
    /\ died' = [died EXCEPT ![w] = TRUE]
    /\ workerPc' = [workerPc EXCEPT ![w] = "closing"]
    /\ UNCHANGED <<fatal, masterVars, inbox, job>>

\* The thread panics within its chunk: nothing of the chunk is sent.
Panic(w) ==
    /\ workerPc[w] = "busy"
    /\ job[w] \cap fatal # {}
    /\ died' = [died EXCEPT ![w] = TRUE]
    /\ workerPc' = [workerPc EXCEPT ![w] = "closing"]
    /\ UNCHANGED <<fatal, masterVars, outcomes, inbox, job>>

\* The work channel is disconnected: the thread leaves its loop.
Disconnect(w) ==
    /\ workerPc[w] = "recv"
    /\ inbox[w] = <<>>
    /\ ~socket[w]
    /\ workerPc' = [workerPc EXCEPT ![w] = "closing"]
    /\ UNCHANGED <<fatal, masterVars, outcomes, inbox, job, died>>

\* The worker is dropped with the thread's closure, field by field in the order of their
\* declaration: arc_graph (and arc_routing_cfg) goes before work_rx and outcome_tx.
ReleaseGraph(w) ==
    /\ workerPc[w] = "closing"
    /\ workerPc' = [workerPc EXCEPT ![w] = "released"]
    /\ UNCHANGED <<fatal, masterVars, outcomes, inbox, job, died>>

\* The channel ends are dropped and the thread ends.
EndThread(w) ==
    /\ workerPc[w] = "released"
    /\ workerPc' = [workerPc EXCEPT ![w] = "ended"]
    /\ UNCHANGED <<fatal, masterVars, outcomes, inbox, job, died>>

Worker(w) ==
    \/ RecvWork(w) \/ SendOutcome(w) \/ Panic(w) \/ Disconnect(w)
    \/ ReleaseGraph(w) \/ EndThread(w)

-----------------------------------------------------------------------------

\* work_off has returned: the pool stops here.
Returned ==
    /\ masterPc = "ok"
    /\ UNCHANGED vars

Next == Master \/ (\E w \in Workers : Worker(w)) \/ Returned

\* The operating system schedules every thread; a search of the graph is finite.
Fairness == WF_vars(Master) /\ \A w \in Workers : WF_vars(Worker(w))

Spec == Init /\ [][Next]_vars /\ Fairness

-----------------------------------------------------------------------------
(* Properties *)

\* Every variable has its type.
TypeOK ==
    /\ fatal \subseteq Pairs
    /\ masterPc \in MasterPc
    /\ workSize \in 0 .. MaxUsize
    /\ last \in Workers \cup {NoWorker}
    /\ handed \in 0 .. NumPairs
    /\ progress \in Nat
    /\ tally \in [Pairs -> Nat]
    /\ socket \in [Workers -> BOOLEAN]
    /\ outcomes \in Seq(Outcome)
    /\ inbox \in [Workers -> Seq(SUBSET Pairs)]
    /\ workerPc \in [Workers -> WorkerPc]
    /\ job \in [Workers -> SUBSET Pairs]
    /\ died \in [Workers -> BOOLEAN]

\* The pairs that are on their way through worker w: sent to it, in its hands, or in an
\* outcome of it that the master has not taken yet.
Held(w) ==
    UNION ({job[w]} \cup {inbox[w][i] : i \in DOMAIN inbox[w]}
             \cup {outcomes[i].pairs : i \in {j \in DOMAIN outcomes : outcomes[j].worker = w}})

Pending   == handed + 1 .. NumPairs
Lost      == UNION {job[w] : w \in {v \in Workers : died[v]}}
Accounted == {p \in Pairs \ Pending : \A w \in Workers : p \notin Held(w)}

\* No pair is worked off twice and none vanishes between the master and its workers: two
\* workers never hold the same pair, a held pair has left route_pairs, and
\* the progress and the workloads are exactly those of the pairs whose outcomes are taken.
ExactlyOnce ==
    /\ \A w \in Workers : Held(w) \cap Pending = {}
    /\ \A v, w \in Workers : v # w => Held(v) \cap Held(w) = {}
    /\ progress = Cardinality(Accounted)
    /\ tally = ChosenPaths(Accounted)

\* A worker has at most one thing to do: a chunk, an outcome on its way, or the master's
\* attention; the seed and the size of the next chunk depend on that.
OneTokenPerWorker ==
    \A w \in Workers :
        Len(inbox[w]) + Cardinality({i \in DOMAIN outcomes : outcomes[i].worker = w})
          + (IF workerPc[w] = "busy" THEN 1 ELSE 0)
          + (IF masterPc = "assign" /\ last = w THEN 1 ELSE 0) <= 1

\* The expectations of Master::send and Master::drop_and_join_worker hold ("sender should
\* not be released yet", "socket shouldn't be dropped yet"), no send and no join fails,
\* whichever worker panics and when.
MasterNeverFails == masterPc # "err"

\* The work-size stays where neither of recv's adjustments can wrap around.
WorkSizeInRange == workSize \in WorkSizeMinus .. MaxUsize - WorkSizePlus

\* When work_off returns, no thread holds the graph any more: Arc::get_mut (balance) and
\* Arc::try_unwrap (run) find a sole owner, though a panicked worker is never joined.
SoleOwner ==
    masterPc = "ok" => \A w \in Workers : workerPc[w] \notin {"recv", "busy", "closing"}

\* work_off returns Ok only with complete results, unless a worker panicked; then the
\* results miss the chunks of the panicked workers and, when all of them panicked, what
\* was never handed out.
CompleteUnlessDied ==
    masterPc = "ok" =>
        /\ Pairs = Accounted \cup Lost \cup Pending
        /\ \A w \in Workers : died[w] \/ ~socket[w]
        /\ Pending # {} => \A w \in Workers : died[w]

\* Neither a panic nor any order of the messages keeps work_off from returning.
WorkOffReturns == <>(masterPc = "ok")

Bag == INSTANCE WorkBag WITH
           todo <- Pending,
           held <- [w \in Workers |-> Held(w)],
           done <- Accounted,
           lost <- {w \in Workers : died[w]},
           returned <- masterPc = "ok"

\* The pool implements the abstract bag of work: chunks leave route_pairs whole, to an
\* idle worker, and are accounted for whole, or are lost with a panic.
ImplementsWorkBag == Bag!Spec

\* "disconnected when all workers are dropped" (multithreading.rs:152): the loop ends
\* because the master has dropped and joined every worker.
BreaksOnlyWhenAllDropped == masterPc = "ok" => \A w \in Workers : ~socket[w]
=============================================================================
