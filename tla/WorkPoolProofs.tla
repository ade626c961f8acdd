--------------------------- MODULE WorkPoolProofs ---------------------------
(***************************************************************************)
(* What holds of the worker pool for every number of threads and pairs,    *)
(* every chunk size and every set of pairs that make a thread panic.       *)
(***************************************************************************)
EXTENDS WorkPool, FiniteSetTheorems, TLAPS

-----------------------------------------------------------------------------
(* Arithmetic, sequences and constants *)

LEMMA ModRange ==
    ASSUME NEW a \in Int, NEW m \in Nat \ {0}
    PROVE  a % m \in 0 .. m - 1
  OBVIOUS

LEMMA ModSmall ==
    ASSUME NEW m \in Nat \ {0}, NEW a \in 0 .. m - 1
    PROVE  a % m = a
  OBVIOUS

\* An outcome or a chunk is put at the end of its channel ...
LEMMA AppendFacts ==
    ASSUME NEW S, NEW s \in Seq(S), NEW x \in S
    PROVE  /\ Append(s, x) \in Seq(S)
           /\ Len(Append(s, x)) = Len(s) + 1
           /\ DOMAIN Append(s, x) = 1 .. Len(s) + 1
           /\ DOMAIN s = 1 .. Len(s)
           /\ \A i \in 1 .. Len(s) : Append(s, x)[i] = s[i]
           /\ Append(s, x)[Len(s) + 1] = x
  OBVIOUS

\* ... and taken from its front.
LEMMA TailFacts ==
    ASSUME NEW S, NEW s \in Seq(S), s # <<>>
    PROVE  /\ Tail(s) \in Seq(S)
           /\ Len(Tail(s)) = Len(s) - 1
           /\ DOMAIN Tail(s) = 1 .. Len(s) - 1
           /\ DOMAIN s = 1 .. Len(s)
           /\ Len(s) \in Nat \ {0}
           /\ Head(s) = s[1]
           /\ Head(s) \in S
           /\ \A i \in 1 .. Len(s) - 1 : Tail(s)[i] = s[i + 1]
  OBVIOUS

LEMMA EmptyFacts ==
    ASSUME NEW S, NEW s \in Seq(S), Len(s) = 0
    PROVE  s = <<>>
  OBVIOUS

\* spawn_some's two corrections leave the initial work-size within the limits.
LEMMA InitWorkSizeInRange ==
    ClampedInitWorkSize \in WorkSizeMinus .. MaxUsize - WorkSizePlus
  <1>1. /\ InitWorkSize \in Nat /\ WorkSizePlus \in Nat /\ WorkSizeMinus \in Nat
        /\ MaxUsize \in Nat /\ WorkSizeMinus + WorkSizePlus <= MaxUsize
    BY PoolAssumption
  <1> QED  BY <1>1 DEF ClampedInitWorkSize, Smaller, Larger

LEMMA PairsFinite ==
    ASSUME NEW P \in SUBSET Pairs
    PROVE  IsFiniteSet(P) /\ Cardinality(P) \in Nat
  <1>1. IsFiniteSet(Pairs)
    BY FS_Interval, PoolAssumption DEF Pairs
  <1> QED  BY <1>1, FS_Subset, FS_CardinalityType

\* A chunk is cut from what is left of route_pairs.
LEMMA ChunkFacts ==
    ASSUME TypeOK, handed < NumPairs
    PROVE  /\ NextChunk \subseteq Pairs
           /\ handed + Cardinality(NextChunk) \in 0 .. NumPairs
           /\ Cardinality(NextChunk) \in Nat
           /\ NextChunk = handed + 1 .. handed + Cardinality(NextChunk)
  <1> DEFINE n == Smaller(NumPairs - handed, ChunkSize)
  <1>1. ChunkSize \in Nat
    BY PoolAssumption DEF TypeOK, ChunkSize
  <1>2. n \in Nat /\ handed + n <= NumPairs /\ handed \in Nat /\ NumPairs \in Nat
    BY <1>1, PoolAssumption DEF TypeOK, Smaller
  <1>3. NextChunk = handed + 1 .. handed + n
    BY DEF NextChunk
  <1> HIDE DEF n
  <1>4. Cardinality(NextChunk) = n
    BY <1>2, <1>3, FS_Interval
  <1> QED  BY <1>2, <1>3, <1>4 DEF Pairs

LEMMA OutcomeFacts ==
    /\ \A w \in Workers : InitialOutcome(w) \in Outcome
    /\ \A w \in Workers, c \in SUBSET Pairs :
          [worker |-> w, pairs |-> c, chosen |-> ChosenPaths(c)] \in Outcome
  BY PoolAssumption DEF Outcome, InitialOutcome, NoPaths, ChosenPaths

-----------------------------------------------------------------------------
(* Type correctness *)

LEMMA InitTypeOK == Init => TypeOK
  <1> SUFFICES ASSUME Init PROVE TypeOK
    OBVIOUS
  <1>1. workSize \in 0 .. MaxUsize
    BY InitWorkSizeInRange, PoolAssumption DEF Init
  <1>2. inbox \in [Workers -> Seq(SUBSET Pairs)] /\ outcomes \in Seq(Outcome)
    BY DEF Init
  <1> QED
    BY <1>1, <1>2, PoolAssumption DEF Init, TypeOK, MasterPc, WorkerPc, NoWorker

\* Both adjustments of the work-size yield a usize, be it a wrapped one.
LEMMA AdjustedType ==
    ASSUME workSize \in 0 .. MaxUsize
    PROVE  Raised(workSize) \in 0 .. MaxUsize /\ Lowered(workSize) \in 0 .. MaxUsize
  <1>1. MaxUsize + 1 \in Nat \ {0} /\ WorkSizePlus \in Nat /\ WorkSizeMinus \in Nat
    BY PoolAssumption
  <1>2. /\ workSize + WorkSizePlus \in Int /\ workSize - WorkSizeMinus \in Int
        /\ (MaxUsize + 1) - 1 = MaxUsize
    BY <1>1, PoolAssumption
  <1>3. (workSize + WorkSizePlus) % (MaxUsize + 1) \in 0 .. (MaxUsize + 1) - 1
    BY <1>1, <1>2, ModRange
  <1>4. (workSize - WorkSizeMinus) % (MaxUsize + 1) \in 0 .. (MaxUsize + 1) - 1
    BY <1>1, <1>2, ModRange
  <1>5. Plus(workSize, WorkSizePlus) \in 0 .. MaxUsize
    BY <1>2, <1>3 DEF Plus
  <1>6. Minus(workSize, WorkSizeMinus) \in 0 .. MaxUsize
    BY <1>2, <1>4 DEF Minus
  <1> QED
    BY <1>1, <1>5, <1>6, PoolAssumption DEF Raised, Lowered, Smaller, Larger

LEMMA TakeOutcomeType ==
    ASSUME TypeOK, NEW a \in 0 .. MaxUsize, TakeOutcome(a)
    PROVE  TypeOK'
  <1> DEFINE o == Head(outcomes)
  <1>1. outcomes \in Seq(Outcome) /\ outcomes # <<>>
    BY DEF TypeOK, TakeOutcome
  <1>2. o \in Outcome /\ Tail(outcomes) \in Seq(Outcome)
    BY <1>1, TailFacts
  <1>3. o.worker \in Workers /\ o.pairs \in SUBSET Pairs /\ o.chosen \in [Pairs -> Nat]
    BY <1>2 DEF Outcome
  <1>4. progress' \in Nat
    <2>1. Cardinality(o.pairs) \in Nat
      BY <1>3, PairsFinite
    <2> QED  BY <2>1 DEF TypeOK, TakeOutcome
  <1>5. tally' \in [Pairs -> Nat]
    BY <1>3 DEF TypeOK, TakeOutcome
  <1>6. workSize' \in 0 .. MaxUsize
    BY DEF TypeOK, TakeOutcome
  <1>7. outcomes' \in Seq(Outcome) /\ last' \in Workers \cup {NoWorker}
    BY <1>2, <1>3 DEF TakeOutcome
  <1>8. masterPc' \in MasterPc
    BY DEF TakeOutcome, MasterPc
  <1> QED
    BY <1>4, <1>5, <1>6, <1>7, <1>8 DEF TypeOK, TakeOutcome, workerVars

LEMMA NextTypeOK == TypeOK /\ [Next]_vars => TypeOK'
  <1> SUFFICES ASSUME TypeOK, [Next]_vars PROVE TypeOK'
    OBVIOUS
  <1> USE DEF TypeOK, workerVars, masterVars
  <1>1. ASSUME NEW w \in Workers, Spawn(w) PROVE TypeOK'
    <2>1. outcomes' \in Seq(Outcome)
      BY <1>1, OutcomeFacts, AppendFacts DEF Spawn
    <2> QED  BY <1>1, <2>1 DEF Spawn, WorkerPc
  <1>2. CASE StartLoop
    BY <1>2 DEF StartLoop, MasterPc
  <1>3. CASE PollOutcome
    BY <1>3, AdjustedType, TakeOutcomeType DEF PollOutcome
  <1>4. CASE PollNothing
    BY <1>4 DEF PollNothing, MasterPc
  <1>5. CASE AwaitOutcome
    BY <1>5, AdjustedType, TakeOutcomeType DEF AwaitOutcome
  <1>6. CASE Break
    BY <1>6 DEF Break, MasterPc
  <1>7. CASE SendWork
    <2>1. NextChunk \in SUBSET Pairs /\ handed' \in 0 .. NumPairs
      BY <1>7, ChunkFacts DEF SendWork
    <2>2. inbox' \in [Workers -> Seq(SUBSET Pairs)]
      <3>1. CASE UNCHANGED inbox
        BY <3>1
      <3>2. CASE inbox' = [inbox EXCEPT ![last] = Append(@, NextChunk)]
        <4>1. \A w \in Workers : Append(inbox[w], NextChunk) \in Seq(SUBSET Pairs)
          BY <2>1, AppendFacts
        <4> QED  BY <3>2, <4>1
      <3> QED  BY <1>7, <3>1, <3>2 DEF SendWork
    <2>3. masterPc' \in MasterPc
      BY <1>7 DEF SendWork, MasterPc
    <2> QED  BY <1>7, <2>1, <2>2, <2>3 DEF SendWork
  <1>8. CASE DropWorker
    BY <1>8 DEF DropWorker, MasterPc
  <1>9. CASE JoinWorker
    BY <1>9 DEF JoinWorker, MasterPc
  <1>10. ASSUME NEW w \in Workers, RecvWork(w) PROVE TypeOK'
    <2>1. Head(inbox[w]) \in SUBSET Pairs /\ Tail(inbox[w]) \in Seq(SUBSET Pairs)
      BY <1>10, TailFacts DEF RecvWork
    <2> QED  BY <1>10, <2>1 DEF RecvWork, WorkerPc
  <1>11. ASSUME NEW w \in Workers, SendOutcome(w) PROVE TypeOK'
    <2>1. outcomes' \in Seq(Outcome)
      BY <1>11, OutcomeFacts, AppendFacts DEF SendOutcome
    <2> QED  BY <1>11, <2>1 DEF SendOutcome, WorkerPc
  <1>12. ASSUME NEW w \in Workers, Panic(w) PROVE TypeOK'
    BY <1>12 DEF Panic, WorkerPc
  <1>13. ASSUME NEW w \in Workers, Disconnect(w) PROVE TypeOK'
    BY <1>13 DEF Disconnect, WorkerPc
  <1>14. ASSUME NEW w \in Workers, ReleaseGraph(w) PROVE TypeOK'
    BY <1>14 DEF ReleaseGraph, WorkerPc
  <1>15. ASSUME NEW w \in Workers, EndThread(w) PROVE TypeOK'
    BY <1>15 DEF EndThread, WorkerPc
  <1>16. CASE UNCHANGED vars
    BY <1>16 DEF vars
  <1> QED
    BY <1>1, <1>2, <1>3, <1>4, <1>5, <1>6, <1>7, <1>8, <1>9, <1>10, <1>11, <1>12, <1>13,
       <1>14, <1>15, <1>16 DEF Next, Master, Worker, Returned

\* Every reachable state of the pool is well typed.
THEOREM TypeCorrect == Spec => []TypeOK
  <1> QED  BY InitTypeOK, NextTypeOK, PTL DEF Spec

-----------------------------------------------------------------------------
(* The work-size never wraps around *)

LEMMA AdjustedInRange ==
    ASSUME WorkSizeInRange
    PROVE  /\ Raised(workSize) \in WorkSizeMinus .. MaxUsize - WorkSizePlus
           /\ Lowered(workSize) \in WorkSizeMinus .. MaxUsize - WorkSizePlus
  <1>1. /\ MaxUsize + 1 \in Nat \ {0} /\ WorkSizePlus \in Nat /\ WorkSizeMinus \in Nat
        /\ MaxUsize \in Nat /\ WorkSizeMinus + WorkSizePlus <= MaxUsize
    BY PoolAssumption
  <1>2. /\ workSize \in Nat
        /\ workSize + WorkSizePlus \in 0 .. (MaxUsize + 1) - 1
        /\ workSize - WorkSizeMinus \in 0 .. (MaxUsize + 1) - 1
    BY <1>1 DEF WorkSizeInRange
  <1>3. /\ Plus(workSize, WorkSizePlus) = workSize + WorkSizePlus
        /\ Minus(workSize, WorkSizeMinus) = workSize - WorkSizeMinus
    BY <1>1, <1>2, ModSmall DEF Plus, Minus
  <1> QED
    BY <1>1, <1>2, <1>3 DEF WorkSizeInRange, Raised, Lowered, Smaller, Larger

\* Whatever the timing of worker 0, recv neither overflows the work-size nor underflows it,
\* and a chunk is never empty.
THEOREM WorkSizeSafe == Spec => []WorkSizeInRange
  <1>1. Init => WorkSizeInRange
    BY InitWorkSizeInRange DEF Init, WorkSizeInRange
  <1>2. WorkSizeInRange /\ [Next]_vars => WorkSizeInRange'
    <2> SUFFICES ASSUME WorkSizeInRange, [Next]_vars PROVE WorkSizeInRange'
      OBVIOUS
    <2>1. CASE PollOutcome
      BY <2>1, AdjustedInRange DEF PollOutcome, TakeOutcome, WorkSizeInRange
    <2>2. CASE AwaitOutcome
      BY <2>2, AdjustedInRange DEF AwaitOutcome, TakeOutcome, WorkSizeInRange
    <2>3. CASE UNCHANGED workSize
      BY <2>3 DEF WorkSizeInRange
    <2> QED
      BY <2>1, <2>2, <2>3 DEF Next, Master, Worker, Returned, Spawn, StartLoop, PollNothing,
         Break, SendWork, DropWorker, JoinWorker, RecvWork, SendOutcome, Panic, Disconnect,
         ReleaseGraph, EndThread, vars, masterVars
  <1> QED  BY <1>1, <1>2, PTL DEF Spec

-----------------------------------------------------------------------------
(* One token per worker: the inductive invariant behind everything else *)

Leaving == {"closing", "released", "ended"}

\* The master deals with worker `last`, whose outcome it has taken.
InHand(w) == masterPc \in {"assign", "join"} /\ last = w

\* At most one outcome of a worker is on its way, and then the worker waits for work.
OutcomeTokens ==
    /\ \A i, j \in DOMAIN outcomes : outcomes[i].worker = outcomes[j].worker => i = j
    /\ \A i \in DOMAIN outcomes :
          /\ workerPc[outcomes[i].worker] = "recv"
          /\ inbox[outcomes[i].worker] = <<>>
          /\ socket[outcomes[i].worker]
          /\ ~InHand(outcomes[i].worker)

\* A worker the master deals with waits for work, or for the end once its socket is dropped.
MasterTokens ==
    /\ masterPc \in {"assign", "join"} =>
          last \in Workers /\ inbox[last] = <<>> /\ ~died[last]
    /\ masterPc = "assign" => socket[last] /\ workerPc[last] = "recv"
    /\ masterPc = "join" => ~socket[last] /\ workerPc[last] \in {"recv"} \cup Leaving

\* A worker has at most one chunk, and then its socket is in place.
WorkTokens ==
    \A w \in Workers :
        /\ inbox[w] # <<>> => Len(inbox[w]) = 1 /\ workerPc[w] = "recv" /\ socket[w]
        /\ workerPc[w] = "busy" => socket[w] /\ inbox[w] = <<>>
        /\ job[w] # {} => workerPc[w] = "busy" \/ died[w]

\* A thread ends because it panicked or because its socket was dropped, which happens when
\* no route-pairs are left; work_off only returns after the last one.
ThreadEnds ==
    /\ \A w \in Workers :
          /\ workerPc[w] = "unborn" => masterPc = "spawn" /\ inbox[w] = <<>>
          /\ workerPc[w] \in Leaving => died[w] \/ ~socket[w]
          /\ died[w] => workerPc[w] \in Leaving /\ socket[w]
          /\ ~socket[w] => \/ workerPc[w] = "unborn"
                           \/ handed = NumPairs /\ (InHand(w) \/ workerPc[w] = "ended")
    /\ masterPc # "err"
    /\ masterPc = "ok" => outcomes = <<>> /\ \A w \in Workers : workerPc[w] = "ended"

TokenInv == OutcomeTokens /\ MasterTokens /\ WorkTokens /\ ThreadEnds

LEMMA InitTokens == Init => TokenInv
  BY PoolAssumption
  DEF Init, TokenInv, OutcomeTokens, MasterTokens, WorkTokens, ThreadEnds, InHand, Leaving

\* An outcome leaves the channel: its worker is now in the master's hand.
LEMMA TakeOutcomeTokens ==
    ASSUME TypeOK, TokenInv, NEW a, TakeOutcome(a), masterPc \in {"poll", "await"}
    PROVE  TokenInv'
  <1> DEFINE o == Head(outcomes)
  <1>1. /\ outcomes \in Seq(Outcome) /\ outcomes # <<>>
        /\ outcomes' = Tail(outcomes) /\ last' = o.worker /\ masterPc' = "assign"
        /\ UNCHANGED <<handed, socket, inbox, workerPc, job, died>>
    BY DEF TypeOK, TakeOutcome, workerVars
  <1>2. /\ o = outcomes[1] /\ 1 \in DOMAIN outcomes /\ o.worker \in Workers
        /\ \A i \in DOMAIN outcomes' :
              i + 1 \in DOMAIN outcomes /\ i + 1 # 1 /\ outcomes'[i] = outcomes[i + 1]
    <2>1. /\ DOMAIN outcomes' = 1 .. Len(outcomes) - 1 /\ DOMAIN outcomes = 1 .. Len(outcomes)
          /\ Len(outcomes) \in Nat \ {0} /\ o = outcomes[1] /\ o \in Outcome
          /\ \A i \in 1 .. Len(outcomes) - 1 : outcomes'[i] = outcomes[i + 1]
      BY <1>1, TailFacts
    <2>2. o.worker \in Workers
      BY <2>1 DEF Outcome
    <2> HIDE DEF o
    <2> QED  BY <2>1, <2>2
  <1>3. \A i \in DOMAIN outcomes' : i \in Int
    BY <1>1, TailFacts
  <1> HIDE DEF o
  <1>4. OutcomeTokens'
    BY <1>1, <1>2, <1>3 DEF TokenInv, OutcomeTokens, InHand
  <1>5. MasterTokens'
    BY <1>1, <1>2 DEF TokenInv, OutcomeTokens, MasterTokens, ThreadEnds, Leaving
  <1>6. WorkTokens'
    BY <1>1 DEF TokenInv, WorkTokens
  <1>7. ThreadEnds'
    BY <1>1, <1>2 DEF TokenInv, ThreadEnds, InHand, Leaving
  <1> QED  BY <1>4, <1>5, <1>6, <1>7 DEF TokenInv

LEMMA SpawnTokens ==
    ASSUME TypeOK, TokenInv, NEW w \in Workers, Spawn(w)
    PROVE  TokenInv'
  <1>1. /\ outcomes \in Seq(Outcome) /\ InitialOutcome(w) \in Outcome
        /\ InitialOutcome(w).worker = w
    BY OutcomeFacts DEF TypeOK, InitialOutcome
  <1>2. /\ DOMAIN outcomes' = 1 .. Len(outcomes) + 1 /\ DOMAIN outcomes = 1 .. Len(outcomes)
        /\ Len(outcomes) \in Nat
        /\ \A i \in DOMAIN outcomes : outcomes'[i] = outcomes[i] /\ outcomes[i].worker # w
        /\ outcomes'[Len(outcomes) + 1].worker = w
    BY <1>1, AppendFacts DEF Spawn, TokenInv, OutcomeTokens
  <1>3. /\ masterPc = "spawn" /\ masterPc' = "spawn"
        /\ workerPc' = [workerPc EXCEPT ![w] = "recv"] /\ socket' = [socket EXCEPT ![w] = TRUE]
        /\ UNCHANGED <<last, handed, inbox, job, died>>
        /\ workerPc[w] = "unborn" /\ inbox[w] = <<>>
        /\ workerPc \in [Workers -> WorkerPc] /\ socket \in [Workers -> BOOLEAN]
    BY DEF Spawn, TypeOK, TokenInv, ThreadEnds
  <1>4. \A i \in DOMAIN outcomes : outcomes[i].worker \in Workers
    <2>1. \A i \in DOMAIN outcomes : outcomes[i] \in Outcome
      BY <1>1
    <2> QED  BY <2>1 DEF Outcome
  <1>5. OutcomeTokens'
    <2>1. \A i \in DOMAIN outcomes' : i \in DOMAIN outcomes \/ i = Len(outcomes) + 1
      BY <1>2
    <2> QED  BY <2>1, <1>2, <1>3, <1>4 DEF TokenInv, OutcomeTokens, InHand
  <1>6. MasterTokens'
    BY <1>3 DEF MasterTokens
  <1>7. WorkTokens'
    BY <1>3 DEF TokenInv, WorkTokens
  <1>8. ThreadEnds'
    BY <1>3 DEF TokenInv, ThreadEnds, InHand, Leaving
  <1> QED  BY <1>5, <1>6, <1>7, <1>8 DEF TokenInv

LEMMA SendOutcomeTokens ==
    ASSUME TypeOK, TokenInv, NEW w \in Workers, SendOutcome(w)
    PROVE  TokenInv'
  <1> DEFINE o == [worker |-> w, pairs |-> job[w], chosen |-> ChosenPaths(job[w])]
  <1>1. /\ outcomes \in Seq(Outcome) /\ o \in Outcome /\ o.worker = w
        /\ outcomes' = Append(outcomes, o)
    BY OutcomeFacts DEF TypeOK, SendOutcome
  <1> HIDE DEF o
  <1>2. /\ DOMAIN outcomes' = 1 .. Len(outcomes) + 1 /\ DOMAIN outcomes = 1 .. Len(outcomes)
        /\ Len(outcomes) \in Nat
        /\ \A i \in DOMAIN outcomes : outcomes'[i] = outcomes[i]
        /\ outcomes'[Len(outcomes) + 1].worker = w
    BY <1>1, AppendFacts
  <1>3. /\ workerPc' = [workerPc EXCEPT ![w] = "recv"] /\ job' = [job EXCEPT ![w] = {}]
        /\ UNCHANGED <<masterPc, last, handed, socket, inbox, died>>
        /\ workerPc[w] = "busy" /\ socket[w] /\ inbox[w] = <<>> /\ ~InHand(w)
        /\ workerPc \in [Workers -> WorkerPc] /\ job \in [Workers -> SUBSET Pairs]
    BY DEF SendOutcome, TypeOK, TokenInv, WorkTokens, MasterTokens, InHand, masterVars, Leaving
  <1>4. \A i \in DOMAIN outcomes : outcomes[i].worker \in Workers /\ outcomes[i].worker # w
    <2>1. \A i \in DOMAIN outcomes : outcomes[i] \in Outcome
      BY <1>1
    <2> QED  BY <2>1, <1>3 DEF Outcome, TokenInv, OutcomeTokens
  <1>5. OutcomeTokens'
    <2>1. \A i \in DOMAIN outcomes' : i \in DOMAIN outcomes \/ i = Len(outcomes) + 1
      BY <1>2
    <2> QED  BY <2>1, <1>2, <1>3, <1>4 DEF TokenInv, OutcomeTokens, InHand
  <1>6. MasterTokens'
    BY <1>3 DEF TokenInv, MasterTokens, InHand
  <1>7. WorkTokens'
    BY <1>3 DEF TokenInv, WorkTokens
  <1>8. ThreadEnds'
    BY <1>3 DEF TokenInv, ThreadEnds, InHand, Leaving
  <1> QED  BY <1>5, <1>6, <1>7, <1>8 DEF TokenInv

LEMMA SendWorkTokens ==
    ASSUME TypeOK, TokenInv, SendWork
    PROVE  TokenInv'
  <1>1. /\ masterPc = "assign" /\ last \in Workers /\ socket[last] /\ workerPc[last] = "recv"
        /\ inbox[last] = <<>> /\ ~died[last] /\ NextChunk \in SUBSET Pairs
        /\ inbox \in [Workers -> Seq(SUBSET Pairs)] /\ handed # NumPairs
    BY ChunkFacts, PoolAssumption DEF SendWork, TypeOK, TokenInv, MasterTokens
  <1>2. /\ inbox' = [inbox EXCEPT ![last] = Append(@, NextChunk)] /\ masterPc' = "poll"
        /\ UNCHANGED <<last, socket, outcomes, workerPc, job, died>>
    BY <1>1 DEF SendWork, workerVars
  <1>3. inbox'[last] # <<>> /\ Len(inbox'[last]) = 1
    BY <1>1, <1>2
  <1>4. \A i \in DOMAIN outcomes : outcomes[i].worker \in Workers /\ outcomes[i].worker # last
    <2>1. \A i \in DOMAIN outcomes : outcomes[i] \in Outcome
      BY DEF TypeOK
    <2> QED  BY <2>1, <1>1 DEF Outcome, TokenInv, OutcomeTokens, InHand
  <1>5. OutcomeTokens'
    BY <1>1, <1>2, <1>4 DEF TokenInv, OutcomeTokens, InHand
  <1>6. MasterTokens'
    BY <1>2 DEF MasterTokens
  <1>7. WorkTokens'
    BY <1>1, <1>2, <1>3 DEF TokenInv, WorkTokens
  <1>8. ThreadEnds'
    BY <1>1, <1>2 DEF TokenInv, ThreadEnds, InHand, Leaving
  <1> QED  BY <1>5, <1>6, <1>7, <1>8 DEF TokenInv

\* The other steps of the master leave the channels alone.
LEMMA MasterTokensStep ==
    ASSUME TypeOK, TokenInv,
           StartLoop \/ PollNothing \/ Break \/ DropWorker \/ JoinWorker
    PROVE  TokenInv'
  <1>1. UNCHANGED <<handed, last, outcomes, inbox, workerPc, job, died>>
    BY DEF StartLoop, PollNothing, Break, DropWorker, JoinWorker, workerVars
  <1>2. \A i \in DOMAIN outcomes : outcomes[i].worker \in Workers
    <2>1. \A i \in DOMAIN outcomes : outcomes[i] \in Outcome
      BY DEF TypeOK
    <2> QED  BY <2>1 DEF Outcome
  <1>3. CASE StartLoop \/ PollNothing \/ Break
    <2>1. UNCHANGED socket /\ masterPc \notin {"assign", "join"}
      BY <1>3 DEF StartLoop, PollNothing, Break
    <2>2. masterPc' \in {"poll", "await", "ok"}
      BY <1>3 DEF StartLoop, PollNothing, Break
    <2>3. OutcomeTokens' /\ MasterTokens' /\ WorkTokens'
      BY <1>1, <2>1, <2>2 DEF TokenInv, OutcomeTokens, MasterTokens, WorkTokens, InHand
    <2>4. /\ \A w \in Workers : workerPc[w] # "unborn"
          /\ masterPc' = "ok" => outcomes = <<>> /\ \A w \in Workers : workerPc[w] = "ended"
      BY <1>3 DEF StartLoop, PollNothing, Break, Disconnected, SenderAlive, TokenInv, ThreadEnds
    <2>5. ThreadEnds'
      BY <1>1, <2>1, <2>2, <2>4 DEF TokenInv, ThreadEnds, InHand, Leaving
    <2> QED  BY <2>3, <2>5 DEF TokenInv
  <1>4. CASE DropWorker
    <2>1. /\ masterPc = "assign" /\ masterPc' = "join" /\ last \in Workers
          /\ socket' = [socket EXCEPT ![last] = FALSE] /\ handed = NumPairs
          /\ inbox[last] = <<>> /\ ~died[last] /\ workerPc[last] = "recv"
          /\ socket \in [Workers -> BOOLEAN]
      BY <1>4 DEF DropWorker, TypeOK, TokenInv, MasterTokens
    <2>2. \A i \in DOMAIN outcomes : outcomes[i].worker # last
      BY <2>1 DEF TokenInv, OutcomeTokens, InHand
    <2>3. OutcomeTokens'
      BY <1>1, <1>2, <2>1, <2>2 DEF TokenInv, OutcomeTokens, InHand
    <2>4. MasterTokens' /\ WorkTokens' /\ ThreadEnds'
      BY <1>1, <2>1 DEF TokenInv, MasterTokens, WorkTokens, ThreadEnds, InHand, Leaving
    <2> QED  BY <2>3, <2>4 DEF TokenInv
  <1>5. CASE JoinWorker
    <2>1. /\ masterPc = "join" /\ masterPc' = "poll" /\ last \in Workers
          /\ UNCHANGED socket /\ workerPc[last] = "ended"
      BY <1>5 DEF JoinWorker, TokenInv, MasterTokens
    <2>2. OutcomeTokens'
      BY <1>1, <1>2, <2>1 DEF TokenInv, OutcomeTokens, InHand
    <2>3. MasterTokens' /\ WorkTokens' /\ ThreadEnds'
      BY <1>1, <2>1 DEF TokenInv, MasterTokens, WorkTokens, ThreadEnds, InHand, Leaving
    <2> QED  BY <2>2, <2>3 DEF TokenInv
  <1> QED  BY <1>3, <1>4, <1>5

LEMMA RecvWorkTokens ==
    ASSUME TypeOK, TokenInv, NEW w \in Workers, RecvWork(w)
    PROVE  TokenInv'
  <1>1. /\ inbox[w] # <<>> /\ Len(inbox[w]) = 1 /\ socket[w] /\ workerPc[w] = "recv"
        /\ inbox[w] \in Seq(SUBSET Pairs) /\ ~InHand(w)
        /\ \A i \in DOMAIN outcomes : outcomes[i].worker # w
    BY DEF RecvWork, TypeOK, TokenInv, WorkTokens, OutcomeTokens, MasterTokens, InHand
  <1>2. Tail(inbox[w]) = <<>>
    <2>1. Tail(inbox[w]) \in Seq(SUBSET Pairs) /\ Len(Tail(inbox[w])) = 0
      BY <1>1, TailFacts
    <2> QED  BY <2>1, EmptyFacts
  <1>3. /\ inbox' = [inbox EXCEPT ![w] = <<>>] /\ workerPc' = [workerPc EXCEPT ![w] = "busy"]
        /\ \A v \in Workers : v # w => job'[v] = job[v]
        /\ UNCHANGED <<masterPc, last, handed, socket, outcomes, died>>
        /\ inbox \in [Workers -> Seq(SUBSET Pairs)] /\ workerPc \in [Workers -> WorkerPc]
    BY <1>2 DEF RecvWork, TypeOK, masterVars
  <1>4. OutcomeTokens'
    <2>1. \A i \in DOMAIN outcomes : outcomes[i] \in Outcome
      BY DEF TypeOK
    <2>2. \A i \in DOMAIN outcomes : outcomes[i].worker \in Workers
      BY <2>1 DEF Outcome
    <2> QED  BY <2>2, <1>1, <1>3 DEF TokenInv, OutcomeTokens, InHand
  <1>5. MasterTokens' /\ WorkTokens' /\ ThreadEnds'
    BY <1>1, <1>3 DEF TokenInv, MasterTokens, WorkTokens, ThreadEnds, InHand, Leaving
  <1> QED  BY <1>4, <1>5 DEF TokenInv

\* A thread on its way out has no outcome on its way.
LEMMA LeavingTokens ==
    ASSUME TypeOK, TokenInv, NEW w \in Workers,
           Panic(w) \/ Disconnect(w) \/ ReleaseGraph(w) \/ EndThread(w)
    PROVE  TokenInv'
  <1>1. /\ \A v \in Workers : v # w => workerPc'[v] = workerPc[v] /\ died'[v] = died[v]
        /\ workerPc'[w] \in Leaving
        /\ workerPc[w] \in {"recv", "busy", "closing", "released"}
        /\ UNCHANGED <<masterPc, last, handed, socket, outcomes, inbox, job>>
    BY DEF Panic, Disconnect, ReleaseGraph, EndThread, TypeOK, masterVars, Leaving
  <1>2. /\ \A i \in DOMAIN outcomes : outcomes[i].worker \in Workers
        /\ \A i \in DOMAIN outcomes : outcomes[i].worker # w
    <2>1. \A i \in DOMAIN outcomes : outcomes[i] \in Outcome
      BY DEF TypeOK
    <2> QED
      BY <2>1 DEF Outcome, TokenInv, OutcomeTokens, Panic, Disconnect, ReleaseGraph, EndThread
  <1>3. OutcomeTokens'
    BY <1>1, <1>2 DEF TokenInv, OutcomeTokens, InHand
  <1>4. CASE Panic(w)
    <2>1. /\ died'[w] /\ socket[w] /\ inbox[w] = <<>> /\ ~InHand(w)
      BY <1>4 DEF Panic, TypeOK, TokenInv, WorkTokens, MasterTokens, InHand, Leaving
    <2> QED
      BY <1>1, <1>3, <2>1
      DEF TokenInv, MasterTokens, WorkTokens, ThreadEnds, InHand, Leaving
  <1>5. CASE Disconnect(w)
    <2>1. /\ UNCHANGED died /\ ~socket[w] /\ inbox[w] = <<>> /\ workerPc[w] = "recv"
      BY <1>5 DEF Disconnect
    <2>2. InHand(w) /\ masterPc = "join" /\ ~died[w] /\ job[w] = {}
      BY <2>1 DEF TokenInv, ThreadEnds, MasterTokens, WorkTokens, InHand, Leaving
    <2> QED
      BY <1>1, <1>3, <2>1, <2>2
      DEF TokenInv, MasterTokens, WorkTokens, ThreadEnds, InHand, Leaving
  <1>6. CASE ReleaseGraph(w) \/ EndThread(w)
    <2>1. UNCHANGED died /\ workerPc[w] \in Leaving /\ workerPc[w] # "ended"
      BY <1>6 DEF ReleaseGraph, EndThread, Leaving
    <2> QED
      BY <1>1, <1>3, <2>1
      DEF TokenInv, MasterTokens, WorkTokens, ThreadEnds, InHand, Leaving
  <1> QED  BY <1>4, <1>5, <1>6

LEMMA NextTokens == TypeOK /\ TokenInv /\ [Next]_vars => TokenInv'
  <1> SUFFICES ASSUME TypeOK, TokenInv, [Next]_vars PROVE TokenInv'
    OBVIOUS
  <1>1. CASE PollOutcome \/ AwaitOutcome
    BY <1>1, TakeOutcomeTokens DEF PollOutcome, AwaitOutcome
  <1>2. CASE UNCHANGED vars
    BY <1>2 DEF vars, masterVars, workerVars, TokenInv, OutcomeTokens, MasterTokens, WorkTokens,
       ThreadEnds, InHand
  <1> QED
    BY <1>1, <1>2, SpawnTokens, SendOutcomeTokens, SendWorkTokens, MasterTokensStep,
       RecvWorkTokens, LeavingTokens
    DEF Next, Master, Worker, Returned

LEMMA TokensInvariant == Spec => [](TypeOK /\ TokenInv)
  <1>1. TypeOK /\ TokenInv /\ [Next]_vars => (TypeOK /\ TokenInv)'
    BY NextTypeOK, NextTokens
  <1> QED  BY <1>1, InitTypeOK, InitTokens, PTL DEF Spec

-----------------------------------------------------------------------------
(* What callers rely on *)

\* No expectation of the master fails and no send or join returns an error, whichever
\* threads panic.
THEOREM MasterSafe == Spec => []MasterNeverFails
  <1>1. TokenInv => MasterNeverFails
    BY DEF TokenInv, ThreadEnds, MasterNeverFails
  <1> QED  BY <1>1, TokensInvariant, PTL

\* When work_off returns, the master's caller is the sole owner of the graph.
THEOREM SoleOwnerSafe == Spec => []SoleOwner
  <1>1. TokenInv => SoleOwner
    BY DEF TokenInv, ThreadEnds, SoleOwner
  <1> QED  BY <1>1, TokensInvariant, PTL

\* The results of work_off miss nothing but what panicked threads had in hand and, if all of
\* them panicked, what was never handed out.
THEOREM CompleteSafe == Spec => []CompleteUnlessDied
  <1>1. ASSUME TypeOK, TokenInv PROVE CompleteUnlessDied
    <2> SUFFICES ASSUME masterPc = "ok"
                 PROVE  /\ Pairs = Accounted \cup Lost \cup Pending
                        /\ \A w \in Workers : died[w] \/ ~socket[w]
                        /\ Pending # {} => \A w \in Workers : died[w]
      BY DEF CompleteUnlessDied
    <2>1. outcomes = <<>> /\ \A w \in Workers : workerPc[w] = "ended"
      BY <1>1 DEF TokenInv, ThreadEnds
    <2>2. \A w \in Workers : died[w] \/ ~socket[w]
      BY <1>1, <2>1 DEF TokenInv, ThreadEnds, Leaving
    <2>3. \A w \in Workers : ~socket[w] => handed = NumPairs
      BY <1>1, <2>1 DEF TokenInv, ThreadEnds
    <2>4. Pending # {} => handed # NumPairs
      BY <1>1, PoolAssumption DEF Pending, TypeOK
    <2>5. \A w \in Workers : Held(w) = job[w]
      <3> TAKE w \in Workers
      <3>1. inbox[w] = <<>>
        BY <1>1, <2>1 DEF TokenInv, WorkTokens
      <3>2. DOMAIN inbox[w] = {} /\ DOMAIN outcomes = {}
        BY <2>1, <3>1
      <3> QED  BY <3>2 DEF Held
    <2>6. \A w \in Workers : job[w] \subseteq Pairs /\ (job[w] # {} => died[w])
      BY <1>1, <2>1 DEF TokenInv, WorkTokens, TypeOK
    <2>7. Pending \subseteq Pairs
      BY <1>1, PoolAssumption DEF Pending, Pairs, TypeOK
    <2>8. Pairs = Accounted \cup Lost \cup Pending
      BY <2>5, <2>6, <2>7 DEF Accounted, Lost
    <2> QED  BY <2>2, <2>3, <2>4, <2>8
  <1> QED  BY <1>1, TokensInvariant, PTL

-----------------------------------------------------------------------------
(* At most one thing to do per worker *)

LEMMA TokensCount ==
    ASSUME TypeOK, TokenInv
    PROVE  OneTokenPerWorker
  <1> SUFFICES ASSUME NEW w \in Workers
               PROVE  Len(inbox[w]) + Cardinality({i \in DOMAIN outcomes : outcomes[i].worker = w})
                        + (IF workerPc[w] = "busy" THEN 1 ELSE 0)
                        + (IF masterPc = "assign" /\ last = w THEN 1 ELSE 0) <= 1
    BY DEF OneTokenPerWorker
  <1> DEFINE sent == {i \in DOMAIN outcomes : outcomes[i].worker = w}
  <1>1. (Cardinality(sent) = 0 /\ sent = {}) \/ (Cardinality(sent) = 1 /\ sent # {})
    <2>1. CASE sent = {}
      BY <2>1, FS_EmptySet
    <2>2. CASE sent # {}
      <3>1. PICK i \in sent : TRUE
        BY <2>2
      <3>2. sent = {i}
        BY <3>1 DEF TokenInv, OutcomeTokens
      <3> QED  BY <3>2, FS_Singleton
    <2> QED  BY <2>1, <2>2
  <1>2. inbox[w] = <<>> => Len(inbox[w]) = 0
    OBVIOUS
  <1>3. sent # {} => inbox[w] = <<>> /\ workerPc[w] = "recv" /\ ~InHand(w)
    BY DEF TokenInv, OutcomeTokens
  <1>4. inbox[w] # <<>> => Len(inbox[w]) = 1 /\ workerPc[w] = "recv" /\ ~InHand(w)
    BY DEF TokenInv, WorkTokens, MasterTokens, InHand
  <1>5. InHand(w) => inbox[w] = <<>>
    BY DEF TokenInv, MasterTokens, InHand
  <1>6. masterPc = "assign" /\ last = w => InHand(w) /\ workerPc[w] = "recv"
    BY DEF TokenInv, MasterTokens, InHand
  <1> HIDE DEF sent
  <1> DEFINE busy == IF workerPc[w] = "busy" THEN 1 ELSE 0
             hand == IF masterPc = "assign" /\ last = w THEN 1 ELSE 0
  <1>7. CASE sent # {}
    <2>1. Len(inbox[w]) = 0 /\ Cardinality(sent) = 1 /\ busy = 0 /\ hand = 0
      BY <1>1, <1>2, <1>3, <1>6, <1>7
    <2> QED  BY <2>1 DEF sent
  <1>8. CASE inbox[w] # <<>>
    <2>1. Len(inbox[w]) = 1 /\ Cardinality(sent) = 0 /\ busy = 0 /\ hand = 0
      BY <1>1, <1>3, <1>4, <1>6, <1>8
    <2> QED  BY <2>1 DEF sent
  <1>9. CASE sent = {} /\ inbox[w] = <<>>
    <2>1. Len(inbox[w]) = 0 /\ Cardinality(sent) = 0
      BY <1>1, <1>2, <1>9
    <2>2. busy \in {0, 1} /\ hand \in {0, 1} /\ (busy = 0 \/ hand = 0)
      BY <1>6
    <2>3. Len(inbox[w]) + Cardinality(sent) + busy + hand <= 1
      BY <2>1, <2>2
    <2> QED  BY <2>3 DEF sent
  <1> QED  BY <1>7, <1>8, <1>9

\* A worker never has a second chunk, a second outcome, or the master's attention beside one.
THEOREM OneTokenSafe == Spec => []OneTokenPerWorker
  <1> QED  BY TokensCount, TokensInvariant, PTL

-----------------------------------------------------------------------------
(* Every pair is worked off once *)

\* What an outcome on its way says of its pairs
OutcomesTrue == \A i \in DOMAIN outcomes : outcomes[i].chosen = ChosenPaths(outcomes[i].pairs)

LEMMA HeldType ==
    ASSUME TypeOK, NEW w \in Workers
    PROVE  Held(w) \subseteq Pairs
  <1> SUFFICES ASSUME NEW p \in Held(w) PROVE p \in Pairs
    OBVIOUS
  <1>1. CASE p \in job[w]
    BY <1>1 DEF TypeOK
  <1>2. ASSUME NEW i \in DOMAIN inbox[w], p \in inbox[w][i] PROVE p \in Pairs
    <2>1. inbox[w] \in Seq(SUBSET Pairs)
      BY DEF TypeOK
    <2>2. inbox[w][i] \in SUBSET Pairs
      BY <2>1, <1>2
    <2> QED  BY <2>2, <1>2
  <1>3. ASSUME NEW i \in DOMAIN outcomes, p \in outcomes[i].pairs PROVE p \in Pairs
    <2>1. outcomes[i] \in Outcome
      BY DEF TypeOK
    <2> QED  BY <2>1, <1>3 DEF Outcome
  <1> QED  BY <1>1, <1>2, <1>3 DEF Held

\* The master takes all that worker u holds, and nothing of another worker.
LEMMA TakeOutcomeHeld ==
    ASSUME TypeOK, TokenInv, NEW a, TakeOutcome(a), NEW u, u = Head(outcomes).worker
    PROVE  /\ Head(outcomes) \in Outcome /\ u \in Workers
           /\ 1 \in DOMAIN outcomes /\ Head(outcomes) = outcomes[1]
           /\ \A i \in DOMAIN outcomes' :
                 i + 1 \in DOMAIN outcomes /\ outcomes'[i] = outcomes[i + 1]
           /\ Held(u) = Head(outcomes).pairs
           /\ Held(u)' = {}
           /\ \A v \in Workers : v # u => Held(v)' = Held(v)
  <1> DEFINE o == Head(outcomes)
  <1>1. /\ outcomes \in Seq(Outcome) /\ outcomes # <<>> /\ outcomes' = Tail(outcomes)
        /\ inbox' = inbox /\ job' = job
    BY DEF TypeOK, TakeOutcome, workerVars
  <1>2. /\ DOMAIN outcomes' = 1 .. Len(outcomes) - 1 /\ DOMAIN outcomes = 1 .. Len(outcomes)
        /\ Len(outcomes) \in Nat \ {0} /\ o = outcomes[1] /\ o \in Outcome
        /\ \A i \in 1 .. Len(outcomes) - 1 : outcomes'[i] = outcomes[i + 1]
    BY <1>1, TailFacts
  <1>3. u \in Workers /\ u = o.worker
    BY <1>2 DEF Outcome
  <1> HIDE DEF o
  <1>4. 1 \in DOMAIN outcomes
    BY <1>2
  <1>5. \A i \in DOMAIN outcomes' :
            i + 1 \in DOMAIN outcomes /\ i + 1 # 1 /\ outcomes'[i] = outcomes[i + 1]
    BY <1>2
  <1>6. \A i \in DOMAIN outcomes :
            i # 1 => i - 1 \in DOMAIN outcomes' /\ outcomes'[i - 1] = outcomes[i]
    BY <1>2
  <1>7. \A i \in DOMAIN outcomes : outcomes[i].worker = u => i = 1
    BY <1>2, <1>3, <1>4 DEF TokenInv, OutcomeTokens
  <1>8. inbox[u] = <<>> /\ workerPc[u] = "recv"
    BY <1>2, <1>3, <1>4 DEF TokenInv, OutcomeTokens
  <1>9. job[u] = {} /\ DOMAIN inbox[u] = {}
    BY <1>3, <1>8 DEF TokenInv, WorkTokens, ThreadEnds, Leaving
  <1>10. Held(u) = o.pairs
    BY <1>2, <1>3, <1>4, <1>7, <1>9 DEF Held
  <1>11. Held(u)' = {}
    BY <1>1, <1>5, <1>7, <1>9 DEF Held
  <1>12. ASSUME NEW v \in Workers, v # u PROVE Held(v)' = Held(v)
    <2>1. ASSUME NEW p \in Held(v)' PROVE p \in Held(v)
      BY <1>1, <1>5, <2>1 DEF Held
    <2>2. \A i \in DOMAIN outcomes : outcomes[i].worker = v => i # 1
      BY <1>2, <1>3, <1>12
    <2>3. ASSUME NEW p \in Held(v) PROVE p \in Held(v)'
      <3>1. CASE p \in job[v] \/ \E i \in DOMAIN inbox[v] : p \in inbox[v][i]
        BY <1>1, <3>1 DEF Held
      <3>2. ASSUME NEW i \in DOMAIN outcomes, outcomes[i].worker = v, p \in outcomes[i].pairs
            PROVE  p \in Held(v)'
        BY <1>6, <2>2, <3>2 DEF Held
      <3> QED  BY <2>3, <3>1, <3>2 DEF Held
    <2> QED  BY <2>1, <2>3
  <1> QED  BY <1>2, <1>3, <1>4, <1>5, <1>10, <1>11, <1>12 DEF o

\* Pairs move within a worker's hands ...
LEMMA SpawnHeld ==
    ASSUME TypeOK, NEW w \in Workers, Spawn(w), NEW v \in Workers
    PROVE  Held(v)' = Held(v)
  <1>1. /\ outcomes \in Seq(Outcome) /\ InitialOutcome(w) \in Outcome
        /\ InitialOutcome(w).pairs = {} /\ outcomes' = Append(outcomes, InitialOutcome(w))
        /\ job' = job /\ inbox' = inbox
    BY OutcomeFacts DEF TypeOK, InitialOutcome, Spawn
  <1>2. /\ DOMAIN outcomes' = 1 .. Len(outcomes) + 1 /\ DOMAIN outcomes = 1 .. Len(outcomes)
        /\ Len(outcomes) \in Nat
        /\ \A i \in DOMAIN outcomes : outcomes'[i] = outcomes[i]
        /\ outcomes'[Len(outcomes) + 1].pairs = {}
    BY <1>1, AppendFacts
  <1>3. \A i \in DOMAIN outcomes' : i \in DOMAIN outcomes \/ i = Len(outcomes) + 1
    BY <1>2
  <1>4. \A i \in DOMAIN outcomes : i \in DOMAIN outcomes'
    BY <1>2
  <1>5. ASSUME NEW p \in Held(v) PROVE p \in Held(v)'
    BY <1>1, <1>2, <1>4, <1>5 DEF Held
  <1>6. ASSUME NEW p \in Held(v)' PROVE p \in Held(v)
    BY <1>1, <1>2, <1>3, <1>6 DEF Held
  <1> QED  BY <1>5, <1>6

LEMMA RecvWorkHeld ==
    ASSUME TypeOK, TokenInv, NEW w \in Workers, RecvWork(w), NEW v \in Workers
    PROVE  Held(v)' = Held(v)
  <1>1. /\ inbox[w] # <<>> /\ Len(inbox[w]) = 1 /\ inbox[w] \in Seq(SUBSET Pairs)
        /\ job[w] = {}
    BY DEF RecvWork, TypeOK, TokenInv, WorkTokens, ThreadEnds, Leaving
  <1>2. Tail(inbox[w]) = <<>> /\ Head(inbox[w]) = inbox[w][1] /\ DOMAIN inbox[w] = {1}
    <2>1. /\ Tail(inbox[w]) \in Seq(SUBSET Pairs) /\ Len(Tail(inbox[w])) = 0
          /\ DOMAIN inbox[w] = 1 .. 1 /\ Head(inbox[w]) = inbox[w][1]
      BY <1>1, TailFacts
    <2>2. Tail(inbox[w]) = <<>>
      BY <2>1, EmptyFacts
    <2> QED  BY <2>1, <2>2
  <1>3. /\ job' = [job EXCEPT ![w] = inbox[w][1]] /\ inbox' = [inbox EXCEPT ![w] = <<>>]
        /\ outcomes' = outcomes
        /\ inbox \in [Workers -> Seq(SUBSET Pairs)] /\ job \in [Workers -> SUBSET Pairs]
    BY <1>2 DEF RecvWork, TypeOK
  <1>4. CASE v = w
    <2>1. DOMAIN inbox'[w] = {} /\ job'[w] = inbox[w][1]
      BY <1>3
    <2> QED  BY <1>1, <1>2, <1>3, <1>4, <2>1 DEF Held
  <1>5. CASE v # w
    <2>1. inbox'[v] = inbox[v] /\ job'[v] = job[v]
      BY <1>3, <1>5
    <2> QED  BY <1>3, <2>1 DEF Held
  <1> QED  BY <1>4, <1>5

LEMMA SendOutcomeHeld ==
    ASSUME TypeOK, TokenInv, NEW w \in Workers, SendOutcome(w), NEW v \in Workers
    PROVE  /\ Held(v)' = Held(v)
           /\ OutcomesTrue => OutcomesTrue'
  <1> DEFINE o == [worker |-> w, pairs |-> job[w], chosen |-> ChosenPaths(job[w])]
  <1>1. /\ outcomes \in Seq(Outcome) /\ o \in Outcome /\ o.worker = w /\ o.pairs = job[w]
        /\ o.chosen = ChosenPaths(o.pairs)
        /\ outcomes' = Append(outcomes, o) /\ inbox' = inbox
        /\ job' = [job EXCEPT ![w] = {}] /\ job \in [Workers -> SUBSET Pairs]
    BY OutcomeFacts DEF TypeOK, SendOutcome
  <1> HIDE DEF o
  <1>2. /\ DOMAIN outcomes' = 1 .. Len(outcomes) + 1 /\ DOMAIN outcomes = 1 .. Len(outcomes)
        /\ Len(outcomes) \in Nat
        /\ \A i \in DOMAIN outcomes : outcomes'[i] = outcomes[i]
        /\ outcomes'[Len(outcomes) + 1] = o
    BY <1>1, AppendFacts
  <1>3. \A i \in DOMAIN outcomes' : i \in DOMAIN outcomes \/ i = Len(outcomes) + 1
    BY <1>2
  <1>4. /\ \A i \in DOMAIN outcomes : i \in DOMAIN outcomes'
        /\ Len(outcomes) + 1 \in DOMAIN outcomes'
    BY <1>2
  <1>5. ASSUME NEW p \in Held(v) PROVE p \in Held(v)'
    BY <1>1, <1>2, <1>4, <1>5 DEF Held
  <1>6. ASSUME NEW p \in Held(v)' PROVE p \in Held(v)
    BY <1>1, <1>2, <1>3, <1>6 DEF Held
  <1>7. OutcomesTrue => OutcomesTrue'
    BY <1>1, <1>2, <1>3 DEF OutcomesTrue, ChosenPaths
  <1> QED  BY <1>5, <1>6, <1>7

\* ... or into them, from route_pairs to the idle worker.
LEMMA SendWorkHeld ==
    ASSUME TypeOK, TokenInv, SendWork
    PROVE  /\ last \in Workers /\ Held(last) = {} /\ ~died[last]
           /\ \A v \in Workers : Held(v)' = IF v = last THEN NextChunk ELSE Held(v)
           /\ NextChunk \subseteq Pending /\ Pending' = Pending \ NextChunk
           /\ died' = died
  <1>1. /\ masterPc = "assign" /\ last \in Workers /\ socket[last] /\ workerPc[last] = "recv"
        /\ inbox[last] = <<>> /\ ~died[last] /\ job[last] = {}
        /\ inbox \in [Workers -> Seq(SUBSET Pairs)]
    BY DEF SendWork, TypeOK, TokenInv, MasterTokens, WorkTokens
  <1>2. /\ inbox' = [inbox EXCEPT ![last] = Append(@, NextChunk)]
        /\ UNCHANGED <<outcomes, job, died>>
    BY <1>1 DEF SendWork, workerVars
  <1>3. \A i \in DOMAIN outcomes : outcomes[i].worker # last
    BY <1>1 DEF TokenInv, OutcomeTokens, InHand
  <1>4. Held(last) = {}
    <2>1. DOMAIN inbox[last] = {}
      BY <1>1
    <2> QED  BY <1>1, <1>3, <2>1 DEF Held
  <1>5. DOMAIN inbox'[last] = {1} /\ inbox'[last][1] = NextChunk
    <2>1. inbox'[last] = <<NextChunk>>
      BY <1>1, <1>2
    <2> QED  BY <2>1
  <1>6. ASSUME NEW v \in Workers PROVE Held(v)' = IF v = last THEN NextChunk ELSE Held(v)
    <2>1. CASE v = last
      BY <1>1, <1>2, <1>3, <1>5, <2>1 DEF Held
    <2>2. CASE v # last
      <3>1. inbox'[v] = inbox[v] /\ job'[v] = job[v] /\ outcomes' = outcomes
        BY <1>1, <1>2, <2>2
      <3> QED  BY <2>2, <3>1 DEF Held
    <2> QED  BY <2>1, <2>2
  <1>7. NextChunk \subseteq Pending /\ Pending' = Pending \ NextChunk
    <2>1. /\ handed \in Nat /\ NumPairs \in Nat /\ handed < NumPairs
          /\ Cardinality(NextChunk) \in Nat /\ handed + Cardinality(NextChunk) <= NumPairs
          /\ NextChunk = handed + 1 .. handed + Cardinality(NextChunk)
          /\ handed' = handed + Cardinality(NextChunk)
      BY ChunkFacts, PoolAssumption DEF SendWork, TypeOK
    <2> QED  BY <2>1 DEF Pending
  <1> QED  BY <1>1, <1>2, <1>4, <1>6, <1>7

LEMMA SameAccounts ==
    ASSUME ExactlyOnce, \A v \in Workers : Held(v)' = Held(v),
           UNCHANGED <<handed, progress, tally>>
    PROVE  ExactlyOnce' /\ Accounted' = Accounted
  <1>1. Pending' = Pending
    BY DEF Pending
  <1>2. Accounted' = Accounted
    BY <1>1 DEF Accounted
  <1> QED  BY <1>1, <1>2 DEF ExactlyOnce

\* A chunk on its way out of route_pairs is not accounted for.
LEMMA SendWorkAccounts ==
    ASSUME TypeOK, TokenInv, ExactlyOnce, SendWork
    PROVE  ExactlyOnce' /\ Accounted' = Accounted
  <1>1. /\ last \in Workers /\ Held(last) = {}
        /\ \A v \in Workers : Held(v)' = IF v = last THEN NextChunk ELSE Held(v)
        /\ NextChunk \subseteq Pending /\ Pending' = Pending \ NextChunk
    BY SendWorkHeld
  <1>2. progress' = progress /\ tally' = tally
    BY DEF SendWork
  <1>3. Accounted' = Accounted
    <2>1. ASSUME NEW p \in Accounted PROVE p \in Accounted'
      BY <1>1 DEF Accounted
    <2>2. ASSUME NEW p \in Accounted' PROVE p \in Accounted
      <3>1. p \in Pairs /\ p \notin Pending' /\ \A v \in Workers : p \notin Held(v)'
        BY DEF Accounted
      <3>2. p \notin NextChunk
        BY <1>1, <3>1
      <3> QED  BY <1>1, <3>1, <3>2 DEF Accounted
    <2> QED  BY <2>1, <2>2
  <1>4. \A w \in Workers : Held(w)' \cap Pending' = {}
    BY <1>1 DEF ExactlyOnce
  <1>5. \A v, w \in Workers : v # w => Held(v)' \cap Held(w)' = {}
    BY <1>1 DEF ExactlyOnce
  <1> QED  BY <1>2, <1>3, <1>4, <1>5 DEF ExactlyOnce

\* What the master takes is accounted for, once.
LEMMA TakeOutcomeAccounts ==
    ASSUME TypeOK, TokenInv, OutcomesTrue, ExactlyOnce, NEW a, TakeOutcome(a)
    PROVE  /\ ExactlyOnce' /\ OutcomesTrue'
           /\ Accounted' = Accounted \cup Head(outcomes).pairs
  <1>1. PICK u : u = Head(outcomes).worker
    OBVIOUS
  <1>2. PICK o : o = Head(outcomes)
    OBVIOUS
  <1>3. /\ o \in Outcome /\ u \in Workers /\ u = o.worker
        /\ 1 \in DOMAIN outcomes /\ o = outcomes[1]
        /\ \A i \in DOMAIN outcomes' : i + 1 \in DOMAIN outcomes /\ outcomes'[i] = outcomes[i + 1]
        /\ Held(u) = o.pairs /\ Held(u)' = {}
        /\ \A v \in Workers : v # u => Held(v)' = Held(v)
    BY <1>1, <1>2, TakeOutcomeHeld
  <1>4. /\ o.pairs \in SUBSET Pairs /\ o.chosen = ChosenPaths(o.pairs)
    BY <1>3 DEF Outcome, OutcomesTrue
  <1>5. /\ Pending' = Pending /\ UNCHANGED handed
        /\ tally' = [p \in Pairs |-> tally[p] + o.chosen[p]]
        /\ progress' = progress + Cardinality(o.pairs)
    BY <1>2 DEF TakeOutcome, Pending
  <1>6. Accounted' = Accounted \cup o.pairs
    <2>1. ASSUME NEW p \in Accounted' PROVE p \in Accounted \cup o.pairs
      BY <1>3, <1>5 DEF Accounted
    <2>2. ASSUME NEW p \in Accounted PROVE p \in Accounted'
      BY <1>3, <1>5 DEF Accounted
    <2>3. ASSUME NEW p \in o.pairs PROVE p \in Accounted'
      <3>1. p \in Pairs /\ p \notin Pending
        BY <1>3, <1>4, <2>3 DEF ExactlyOnce
      <3>2. \A v \in Workers : p \notin Held(v)'
        BY <1>3, <2>3 DEF ExactlyOnce
      <3> QED  BY <1>5, <3>1, <3>2 DEF Accounted
    <2> QED  BY <2>1, <2>2, <2>3
  <1>7. Accounted \cap o.pairs = {} /\ Accounted \subseteq Pairs
    BY <1>3 DEF Accounted
  <1>8. progress' = Cardinality(Accounted')
    <2>1. /\ IsFiniteSet(Accounted) /\ IsFiniteSet(o.pairs)
          /\ Cardinality(Accounted) \in Nat /\ Cardinality(o.pairs) \in Nat
      BY <1>4, <1>7, PairsFinite
    <2>2. Cardinality(Accounted \cup o.pairs) = Cardinality(Accounted) + Cardinality(o.pairs)
      <3>1. Cardinality(Accounted \cap o.pairs) = 0
        BY <1>7, FS_EmptySet
      <3>2. Cardinality(Accounted \cup o.pairs)
              = Cardinality(Accounted) + Cardinality(o.pairs) - Cardinality(Accounted \cap o.pairs)
        BY <2>1, FS_Union
      <3> QED  BY <2>1, <3>1, <3>2
    <2> QED  BY <1>5, <1>6, <2>2 DEF ExactlyOnce
  <1>9. tally' = ChosenPaths(Accounted')
    <2>1. \A p \in Pairs : tally[p] = (IF p \in Accounted /\ Found[p] THEN RouteCount[p] ELSE 0)
      BY DEF ExactlyOnce, ChosenPaths
    <2>2. \A p \in Pairs : o.chosen[p] = (IF p \in o.pairs /\ Found[p] THEN RouteCount[p] ELSE 0)
      BY <1>4 DEF ChosenPaths
    <2>3. \A p \in Pairs : RouteCount[p] \in Nat
      BY PoolAssumption
    <2>4. \A p \in Pairs : tally[p] + o.chosen[p]
                            = (IF p \in Accounted' /\ Found[p] THEN RouteCount[p] ELSE 0)
      BY <1>6, <1>7, <2>1, <2>2, <2>3
    <2> QED  BY <1>5, <2>4 DEF ChosenPaths
  <1>10. OutcomesTrue'
    BY <1>3 DEF OutcomesTrue, ChosenPaths
  <1>11. \A w \in Workers : Held(w)' \cap Pending' = {}
    BY <1>3, <1>5 DEF ExactlyOnce
  <1>12. \A v, w \in Workers : v # w => Held(v)' \cap Held(w)' = {}
    BY <1>3 DEF ExactlyOnce
  <1> QED  BY <1>2, <1>6, <1>8, <1>9, <1>10, <1>11, <1>12 DEF ExactlyOnce

\* Everything that the pool's accounting rests on
AccountInv == TypeOK /\ TokenInv /\ OutcomesTrue /\ ExactlyOnce

LEMMA InitAccounts == Init => AccountInv
  <1> SUFFICES ASSUME Init PROVE OutcomesTrue /\ ExactlyOnce
    BY InitTypeOK, InitTokens DEF AccountInv
  <1>1. outcomes = <<>> /\ DOMAIN outcomes = {}
    BY DEF Init
  <1>2. \A w \in Workers : Held(w) = {}
    BY <1>1 DEF Init, Held
  <1>3. Pending = Pairs
    BY PoolAssumption DEF Init, Pending, Pairs
  <1>4. Accounted = {}
    BY <1>3 DEF Accounted
  <1>5. progress = Cardinality(Accounted)
    BY <1>4, FS_EmptySet DEF Init
  <1>6. tally = ChosenPaths(Accounted)
    BY <1>4 DEF Init, ChosenPaths
  <1> QED  BY <1>1, <1>2, <1>5, <1>6 DEF OutcomesTrue, ExactlyOnce

\* The steps that move no pairs
LEMMA IdleHeld ==
    ASSUME UNCHANGED <<outcomes, inbox, job>>
    PROVE  /\ \A v \in Workers : Held(v)' = Held(v)
           /\ OutcomesTrue => OutcomesTrue'
  BY DEF Held, OutcomesTrue, ChosenPaths

LEMMA NextAccounts == AccountInv /\ [Next]_vars => AccountInv'
  <1> SUFFICES ASSUME TypeOK, TokenInv, OutcomesTrue, ExactlyOnce, [Next]_vars
               PROVE  OutcomesTrue' /\ ExactlyOnce'
    BY NextTypeOK, NextTokens DEF AccountInv
  <1>1. ASSUME NEW w \in Workers, Spawn(w) PROVE OutcomesTrue' /\ ExactlyOnce'
    <2>1. ExactlyOnce'
      BY <1>1, SpawnHeld, SameAccounts DEF Spawn
    <2>2. /\ outcomes \in Seq(Outcome) /\ InitialOutcome(w) \in Outcome
          /\ InitialOutcome(w).chosen = ChosenPaths(InitialOutcome(w).pairs)
          /\ outcomes' = Append(outcomes, InitialOutcome(w))
      BY <1>1, OutcomeFacts DEF TypeOK, InitialOutcome, Spawn, NoPaths, ChosenPaths
    <2>3. /\ DOMAIN outcomes' = 1 .. Len(outcomes) + 1 /\ DOMAIN outcomes = 1 .. Len(outcomes)
          /\ Len(outcomes) \in Nat
          /\ \A i \in DOMAIN outcomes : outcomes'[i] = outcomes[i]
          /\ outcomes'[Len(outcomes) + 1] = InitialOutcome(w)
      BY <2>2, AppendFacts
    <2>4. \A i \in DOMAIN outcomes' : i \in DOMAIN outcomes \/ i = Len(outcomes) + 1
      BY <2>3
    <2>5. OutcomesTrue'
      BY <2>2, <2>3, <2>4 DEF OutcomesTrue, ChosenPaths
    <2> QED  BY <2>1, <2>5
  <1>2. CASE PollOutcome \/ AwaitOutcome
    BY <1>2, TakeOutcomeAccounts DEF PollOutcome, AwaitOutcome
  <1>3. CASE SendWork
    <2>1. OutcomesTrue'
      BY <1>3 DEF SendWork, OutcomesTrue, ChosenPaths
    <2> QED  BY <1>3, <2>1, SendWorkAccounts
  <1>4. ASSUME NEW w \in Workers, RecvWork(w) PROVE OutcomesTrue' /\ ExactlyOnce'
    <2>1. ExactlyOnce'
      BY <1>4, RecvWorkHeld, SameAccounts DEF RecvWork, masterVars
    <2> QED  BY <1>4, <2>1 DEF RecvWork, OutcomesTrue, ChosenPaths
  <1>5. ASSUME NEW w \in Workers, SendOutcome(w) PROVE OutcomesTrue' /\ ExactlyOnce'
    <2>1. UNCHANGED <<handed, progress, tally>>
      BY <1>5 DEF SendOutcome, masterVars
    <2>2. (\A v \in Workers : Held(v)' = Held(v)) /\ OutcomesTrue'
      BY <1>5, SendOutcomeHeld
    <2> QED  BY <2>1, <2>2, SameAccounts
  <1>6. CASE UNCHANGED <<outcomes, inbox, job, handed, progress, tally>>
    BY <1>6, IdleHeld, SameAccounts
  <1> QED
    BY <1>1, <1>2, <1>3, <1>4, <1>5, <1>6
    DEF Next, Master, Worker, Returned, StartLoop, PollNothing, Break, DropWorker, JoinWorker,
        Panic, Disconnect, ReleaseGraph, EndThread, vars, masterVars, workerVars

LEMMA AccountsInvariant == Spec => []AccountInv
  <1> QED  BY InitAccounts, NextAccounts, PTL DEF Spec

\* Every pair is counted once, with its paths, or is with exactly one worker or in route_pairs.
THEOREM ExactlyOnceSafe == Spec => []ExactlyOnce
  <1>1. AccountInv => ExactlyOnce
    BY DEF AccountInv
  <1> QED  BY <1>1, AccountsInvariant, PTL

-----------------------------------------------------------------------------
(* The pool implements the bag of work *)

LEMMA InitBag == Init => Bag!Init
  <1> SUFFICES ASSUME Init PROVE Bag!Init
    OBVIOUS
  <1>1. outcomes = <<>> /\ DOMAIN outcomes = {}
    BY DEF Init
  <1>2. \A w \in Workers : Held(w) = {}
    BY <1>1 DEF Init, Held
  <1>3. Pending = Pairs
    BY PoolAssumption DEF Init, Pending, Pairs
  <1>4. Accounted = {}
    BY <1>3 DEF Accounted
  <1>5. {w \in Workers : died[w]} = {}
    BY DEF Init
  <1> QED  BY <1>2, <1>3, <1>4, <1>5 DEF Bag!Init, Init

LEMMA IdleBag ==
    ASSUME \A v \in Workers : Held(v)' = Held(v), UNCHANGED <<handed, died>>,
           masterPc = "ok" <=> masterPc' = "ok"
    PROVE  UNCHANGED Bag!vars
  <1>1. Pending' = Pending
    BY DEF Pending
  <1>2. Accounted' = Accounted
    BY <1>1 DEF Accounted
  <1> QED  BY <1>1, <1>2 DEF Bag!vars

LEMMA NextBag == AccountInv /\ WorkSizeInRange /\ [Next]_vars => [Bag!Next]_(Bag!vars)
  <1> SUFFICES ASSUME TypeOK, TokenInv, OutcomesTrue, ExactlyOnce, WorkSizeInRange, [Next]_vars
               PROVE  Bag!Next \/ UNCHANGED Bag!vars
    BY DEF AccountInv
  <1>1. ASSUME NEW w \in Workers, Spawn(w) PROVE UNCHANGED Bag!vars
    BY <1>1, SpawnHeld, IdleBag DEF Spawn
  <1>2. ASSUME NEW w \in Workers, RecvWork(w) PROVE UNCHANGED Bag!vars
    BY <1>2, RecvWorkHeld, IdleBag DEF RecvWork, masterVars
  <1>3. ASSUME NEW w \in Workers, SendOutcome(w) PROVE UNCHANGED Bag!vars
    BY <1>3, SendOutcomeHeld, IdleBag DEF SendOutcome, masterVars
  <1>4. CASE \/ StartLoop \/ PollNothing \/ DropWorker \/ JoinWorker \/ UNCHANGED vars
             \/ \E w \in Workers : Disconnect(w) \/ ReleaseGraph(w) \/ EndThread(w)
    <2>1. UNCHANGED <<outcomes, inbox, job, handed, died>>
      BY <1>4 DEF StartLoop, PollNothing, DropWorker, JoinWorker, Disconnect, ReleaseGraph,
         EndThread, vars, masterVars, workerVars
    <2>2. masterPc = "ok" <=> masterPc' = "ok"
      BY <1>4 DEF StartLoop, PollNothing, DropWorker, JoinWorker, Disconnect, ReleaseGraph,
         EndThread, vars, masterVars
    <2> QED  BY <2>1, <2>2, IdleHeld, IdleBag
  <1>5. CASE SendWork
    <2>1. /\ last \in Workers /\ Held(last) = {} /\ ~died[last] /\ died' = died
          /\ \A v \in Workers : Held(v)' = IF v = last THEN NextChunk ELSE Held(v)
          /\ NextChunk \subseteq Pending /\ Pending' = Pending \ NextChunk
          /\ Accounted' = Accounted
      BY <1>5, SendWorkHeld, SendWorkAccounts
    <2>2. NextChunk # {}
      <3>1. ChunkSize \in Nat \ {0}
        BY PoolAssumption DEF ChunkSize, WorkSizeInRange
      <3>2. handed \in Nat /\ NumPairs \in Nat /\ handed < NumPairs
        BY <1>5, PoolAssumption DEF SendWork, TypeOK
      <3> QED  BY <3>1, <3>2 DEF NextChunk, Smaller
    <2>3. [v \in Workers |-> Held(v)]' = [[v \in Workers |-> Held(v)] EXCEPT ![last] = NextChunk]
      BY <2>1
    <2>4. masterPc # "ok" /\ masterPc' # "ok"
      BY <1>5 DEF SendWork
    <2>5. Bag!Take(last)
      BY <2>1, <2>2, <2>3, <2>4 DEF Bag!Take
    <2> QED  BY <2>1, <2>5 DEF Bag!Next
  <1>6. CASE PollOutcome \/ AwaitOutcome
    <2>1. PICK a : TakeOutcome(a) /\ masterPc # "ok"
      BY <1>6 DEF PollOutcome, AwaitOutcome
    <2>2. PICK u : u = Head(outcomes).worker
      OBVIOUS
    <2>3. /\ u \in Workers /\ Held(u)' = {} /\ 1 \in DOMAIN outcomes
          /\ Head(outcomes) = outcomes[1]
          /\ \A v \in Workers : v # u => Held(v)' = Held(v)
          /\ Accounted' = Accounted \cup Held(u)
      BY <2>1, <2>2, TakeOutcomeHeld, TakeOutcomeAccounts
    <2>4. ~died[u]
      BY <2>2, <2>3 DEF TokenInv, OutcomeTokens, ThreadEnds, Leaving
    <2>5. Pending' = Pending /\ died' = died /\ masterPc' # "ok"
      BY <2>1 DEF TakeOutcome, Pending, workerVars
    <2>6. CASE Held(u) = {}
      <3>1. \A v \in Workers : Held(v)' = Held(v)
        BY <2>3, <2>6
      <3>2. UNCHANGED handed
        BY <2>1 DEF TakeOutcome
      <3> QED  BY <2>1, <2>5, <3>1, <3>2, IdleBag
    <2>7. CASE Held(u) # {}
      <3>1. [v \in Workers |-> Held(v)]' = [[v \in Workers |-> Held(v)] EXCEPT ![u] = {}]
        BY <2>3
      <3>2. Bag!Finish(u)
        BY <2>1, <2>3, <2>4, <2>5, <2>7, <3>1 DEF Bag!Finish
      <3> QED  BY <2>3, <3>2 DEF Bag!Next
    <2> QED  BY <2>6, <2>7
  <1>7. ASSUME NEW w \in Workers, Panic(w) PROVE Bag!Next
    <2>1. /\ UNCHANGED <<outcomes, inbox, job, handed, masterPc>>
          /\ died' = [died EXCEPT ![w] = TRUE] /\ died \in [Workers -> BOOLEAN]
          /\ job[w] # {} /\ workerPc[w] = "busy"
      BY <1>7 DEF Panic, masterVars, TypeOK
    <2>2. /\ \A v \in Workers : Held(v)' = Held(v)
          /\ Pending' = Pending
      BY <2>1, IdleHeld DEF Pending
    <2>3. Accounted' = Accounted
      BY <2>2 DEF Accounted
    <2>4. ~died[w] /\ Held(w) # {}
      BY <2>1 DEF TokenInv, ThreadEnds, Leaving, Held
    <2>5. {v \in Workers : died[v]}' = {v \in Workers : died[v]} \cup {w}
      BY <2>1
    <2>6. Bag!Lose(w)
      BY <2>1, <2>2, <2>3, <2>4, <2>5 DEF Bag!Lose
    <2> QED  BY <2>6 DEF Bag!Next
  <1>8. CASE Break
    <2>1. /\ UNCHANGED <<outcomes, inbox, job, handed, died, workerPc, socket>>
          /\ masterPc' = "ok" /\ outcomes = <<>> /\ \A w \in Workers : workerPc[w] = "ended"
          /\ DOMAIN outcomes = {}
      BY <1>8 DEF Break, Disconnected, SenderAlive, workerVars
    <2>2. /\ \A v \in Workers : Held(v)' = Held(v)
          /\ Pending' = Pending
      BY <2>1, IdleHeld DEF Pending
    <2>3. Accounted' = Accounted
      BY <2>2 DEF Accounted
    <2>4. \A w \in Workers : died[w] \/ Held(w) = {}
      <3> SUFFICES ASSUME NEW w \in Workers, ~died[w] PROVE Held(w) = {}
        OBVIOUS
      <3>1. inbox[w] = <<>> /\ job[w] = {}
        BY <2>1 DEF TokenInv, WorkTokens
      <3>2. DOMAIN inbox[w] = {}
        BY <3>1
      <3> QED  BY <2>1, <3>1, <3>2 DEF Held
    <2>5. Pending = {} \/ \A w \in Workers : died[w]
      <3>1. \A w \in Workers : died[w] \/ handed = NumPairs
        BY <2>1 DEF TokenInv, ThreadEnds, Leaving
      <3>2. handed = NumPairs => Pending = {}
        BY PoolAssumption DEF Pending
      <3> QED  BY <3>1, <3>2
    <2>6. Bag!Return
      BY <2>1, <2>2, <2>3, <2>4, <2>5 DEF Bag!Return
    <2> QED  BY <2>6 DEF Bag!Next
  <1> QED
    BY <1>1, <1>2, <1>3, <1>4, <1>5, <1>6, <1>7, <1>8 DEF Next, Master, Worker, Returned

\* The pool does what the bag promises: chunks leave route_pairs whole, to an idle worker, and are
\* accounted for whole, or are lost with a panic; it returns when nothing is left to wait for.
THEOREM PoolImplementsBag == Spec => ImplementsWorkBag
  <1>1. AccountInv /\ WorkSizeInRange /\ [Next]_vars => [Bag!Next]_(Bag!vars)
    BY NextBag
  <1> QED
    BY <1>1, InitBag, AccountsInvariant, WorkSizeSafe, PTL DEF Spec, ImplementsWorkBag, Bag!Spec
=============================================================================
