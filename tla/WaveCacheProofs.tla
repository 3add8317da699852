--------------------------- MODULE WaveCacheProofs ---------------------------
(***************************************************************************)
(* What holds of WaveCache for any set of locations and of workers, any    *)
(* number of queries and any number of runs.  In the order of the parts:   *)
(*   - types, and what rests on them alone;                                *)
(*   - how far the threads are relative to each other (PhaseInv), and that *)
(*     the store is open in use;                                           *)
(*   - the order of the queues (OrderInv);                                 *)
(*   - where each query is (PlaceInv), and which is taken next;            *)
(*   - what is saved at the end and asked for at the start (JobsInv);      *)
(*   - that the cache keeps the promise of RequestLedger (LedgerInv);      *)
(*   - that no request waits for a worker that sleeps (SleepInv).          *)
(***************************************************************************)
EXTENDS WaveCacheLedger, SequenceTheorems, FiniteSetTheorems, TLAPS

(* The points at which a worker is busy with the query in its current slot. *)
BusyPcs == {"process", "library", "decode", "putwave", "elide", "flush"}

BusyHolds == \A w \in Worker : workerPc[w] \in BusyPcs => Holds(w, current[w])

(* get_waveform holds a query exactly while it waits for worker_mutex. *)
RequestHeld == request # NoQuery <=> mainPc = "enqueue"

TypeInv == TypeOK /\ BusyHolds /\ RequestHeld

-----------------------------------------------------------------------------
(* Appending makes the domain of a sequence one larger and touches nothing
   in it. *)
LEMMA AppendGrows ==
  ASSUME NEW S, NEW s \in Seq(S), NEW e \in S
  PROVE  /\ Append(s, e) \in Seq(S)
         /\ Len(Append(s, e)) = Len(s) + 1
         /\ Len(s) \in Nat
         /\ DOMAIN s = 1..Len(s)
         /\ DOMAIN Append(s, e) = 1..(Len(s) + 1)
         /\ DOMAIN s \subseteq DOMAIN Append(s, e)
         /\ Len(s) + 1 \in DOMAIN Append(s, e)
         /\ Len(s) + 1 \notin DOMAIN s
         /\ \A i \in DOMAIN s : Append(s, e)[i] = s[i]
         /\ Append(s, e)[Len(s) + 1] = e
<1>1. /\ Append(s, e) \in Seq(S)
      /\ Len(Append(s, e)) = Len(s) + 1
      /\ \A i \in 1..Len(s) : Append(s, e)[i] = s[i]
      /\ Append(s, e)[Len(s) + 1] = e
  BY AppendProperties
<1>2. Len(s) \in Nat /\ DOMAIN s = 1..Len(s)
  BY LenProperties
<1>3. DOMAIN Append(s, e) = 1..(Len(s) + 1)
  BY <1>1, LenProperties
<1> QED
  BY <1>1, <1>2, <1>3

(* What named old queries names them still. *)
LEMMA OldNamesStay ==
  ASSUME TypeOK, NEW r \in QueryRecord, query' = Append(query, r)
  PROVE  /\ queue \in [Urgency -> Seq(DOMAIN query')]
         /\ flushQueue \in Seq(DOMAIN query')
         /\ slots \in [Worker -> [Urgency -> {NoQuery} \cup DOMAIN query']]
         /\ request \in {NoQuery} \cup DOMAIN query'
<1>1. query \in Seq(QueryRecord)
  BY DEF TypeOK
<1>2. DOMAIN query \subseteq DOMAIN query'
  BY <1>1, AppendGrows
<1>3. \A s \in Seq(DOMAIN query) : s \in Seq(DOMAIN query')
  BY <1>2, SeqMonotonic
<1> QED
  BY <1>2, <1>3 DEF TypeOK

(* The initial state is typed, with nothing held and nothing requested. *)
LEMMA InitTypeInv ==
  ASSUME ConstantsAssumption, Init PROVE TypeInv
<1>1. jobs \in Seq(JobRow)
  BY DEF Init, JobTable
<1>2. << >> \in Seq(JobRow) /\ << >> \in Seq(QueryRecord)
      /\ << >> \in Seq(Outcome) /\ << >> \in Seq(DOMAIN query)
  BY EmptySeq
<1>3. run \in 1..MaxRuns /\ 0 \in 0..(Slices + 1)
  BY DEF Init, ConstantsAssumption
<1>4. Len(outcome) = Len(query)
  BY DEF Init, FreshProcess
<1> QED
  BY <1>1, <1>2, <1>3, <1>4 DEF Init, FreshProcess, TypeInv, TypeOK, RequestHeld,
     BusyHolds, BusyPcs, MainPcs,
     CachePcs, WorkerPcs, Answers, Urgency, Needed, Desired, Bulk, NoQuery

(* A function on 1..n with values in S is a sequence of length n. *)
LEMMA FunctionIsSeq ==
  ASSUME NEW S, NEW n \in Nat, NEW f \in [1..n -> S]
  PROVE  f \in Seq(S) /\ Len(f) = n
<1>1. f \in Seq(S)
  BY SMT
<1>2. DOMAIN f = 1..Len(f) /\ Len(f) \in Nat
  BY <1>1, LenProperties
<1> QED
  BY <1>1, <1>2

(* The end of a query in a slot keeps the types, and the worker is busy
   afterwards only with a query it still holds. *)
LEMMA ReleaseKeepsTypes ==
  ASSUME ConstantsAssumption, TypeInv, NEW w \in Worker, NEW how \in Outcome,
         workerPc[w] \in BusyPcs, Release(w, how), UNCHANGED query
  PROVE  /\ Job(w) \in DOMAIN query
         /\ outcome' \in Seq(Outcome) /\ Len(outcome') = Len(query)
         /\ slots' \in [Worker -> [Urgency -> {NoQuery} \cup DOMAIN query]]
         /\ progress' \in [Worker -> [Urgency -> 0..(Slices + 1)]]
         /\ workerPc' \in [Worker -> WorkerPcs]
         /\ current' \in [Worker -> Urgency]
         /\ BusyHolds'
<1>n. /\ Needed = 0 /\ Desired = 1 /\ Bulk = 2 /\ NoQuery = 0
      /\ Urgency = {0, 1, 2}
  BY DEF Needed, Desired, Bulk, Urgency, NoQuery
<1>1. Job(w) \in DOMAIN query
  BY DEF TypeInv, TypeOK, BusyHolds, Holds, Job
<1>2. DOMAIN query = 1..Len(outcome) /\ Len(outcome) = Len(query)
  BY LenProperties DEF TypeInv, TypeOK
<1>3. outcome' \in Seq(Outcome) /\ Len(outcome') = Len(query)
  BY <1>1, <1>2, ExceptSeq DEF Release, TypeInv, TypeOK
<1>4. slots' \in [Worker -> [Urgency -> {NoQuery} \cup DOMAIN query]]
  BY DEF Release, TypeInv, TypeOK
<1>5. progress' \in [Worker -> [Urgency -> 0..(Slices + 1)]]
  BY DEF Release, ResetState, TypeInv, TypeOK, ConstantsAssumption
<1>6. workerPc' \in [Worker -> WorkerPcs] /\ current' \in [Worker -> Urgency]
  BY <1>n DEF Release, NextSlot, TypeInv, TypeOK, WorkerPcs
<1>7. BusyHolds'
  <2>t. /\ current \in [Worker -> Urgency] /\ workerPc \in [Worker -> WorkerPcs]
        /\ slots \in [Worker -> [Urgency -> {NoQuery} \cup DOMAIN query]]
        /\ slots' = [slots EXCEPT ![w][current[w]] = NoQuery]
        /\ BusyHolds
    BY DEF Release, TypeInv, TypeOK
  <2>1. CASE /\ workerPc' = [workerPc EXCEPT ![w] = "top"]
             /\ current' = [current EXCEPT ![w] = Needed]
    BY <2>t, <2>1 DEF BusyHolds, BusyPcs, Holds
  <2>2. ASSUME NEW u \in Urgency, u > current[w], Holds(w, u),
               workerPc' = [workerPc EXCEPT ![w] = "process"],
               current' = [current EXCEPT ![w] = u]
        PROVE  BusyHolds'
    <3>1. u # current[w]
      BY <1>n, <2>t, <2>2
    <3> QED
      BY <2>t, <2>2, <3>1 DEF BusyHolds, BusyPcs, Holds
  <2> QED
    BY <2>1, <2>2 DEF Release, NextSlot
<1> QED
  BY <1>1, <1>3, <1>4, <1>5, <1>6, <1>7

(* So does going on to the next slot while keeping the query. *)
LEMMA NextSlotKeepsTypes ==
  ASSUME TypeInv, NEW w \in Worker, NextSlot(w), UNCHANGED slots
  PROVE  /\ workerPc' \in [Worker -> WorkerPcs]
         /\ current' \in [Worker -> Urgency]
         /\ BusyHolds'
<1>n. Needed \in Urgency
  BY DEF Needed, Urgency
<1>1. CASE /\ workerPc' = [workerPc EXCEPT ![w] = "top"]
           /\ current' = [current EXCEPT ![w] = Needed]
  BY <1>1, <1>n DEF TypeInv, TypeOK, BusyHolds, BusyPcs, Holds, WorkerPcs
<1>2. ASSUME NEW u \in Urgency, Holds(w, u),
             workerPc' = [workerPc EXCEPT ![w] = "process"],
             current' = [current EXCEPT ![w] = u]
      PROVE  /\ workerPc' \in [Worker -> WorkerPcs]
             /\ current' \in [Worker -> Urgency]
             /\ BusyHolds'
  BY <1>2 DEF TypeInv, TypeOK, BusyHolds, BusyPcs, Holds, WorkerPcs
<1> QED
  BY <1>1, <1>2 DEF NextSlot

(* The steps of the main thread keep the types. *)
LEMMA MainStepTypes ==
  ASSUME ConstantsAssumption, TypeInv, MainStep
  PROVE  TypeInv'
<1> USE DEF TypeInv, TypeOK, RequestHeld, BusyHolds, BusyPcs, Holds, Job,
        dbVars, mainVars, queryVars, flagVars, cacheVars, workerVars
<1>n. /\ Needed = 0 /\ Desired = 1 /\ Bulk = 2 /\ NoQuery = 0
      /\ Urgency = {0, 1, 2}
  BY DEF Needed, Desired, Bulk, Urgency, NoQuery
<1>k. RequestKinds \subseteq [urgency : Urgency, forced : BOOLEAN]
  BY DEF RequestKinds, Urgency
<1>1. CASE StartReturns
  BY <1>1 DEF StartReturns, MainPcs
<1>2. ASSUME NEW loc \in Location, NEW kind \in RequestKinds, GetWaveform(loc, kind)
      PROVE  TypeInv'
  <2> DEFINE r == [loc |-> loc, urgency |-> kind.urgency, forced |-> kind.forced]
  <2>1. r \in QueryRecord /\ query' = Append(query, r)
    BY <1>2, <1>k DEF QueryRecord, GetWaveform, NewQuery
  <2>2. /\ query' \in Seq(QueryRecord) /\ Len(query') = Len(query) + 1
        /\ DOMAIN query' = 1..(Len(query) + 1) /\ Len(query) \in Nat
    BY <2>1, AppendGrows
  <2>3. outcome' \in Seq(Outcome) /\ Len(outcome') = Len(outcome) + 1
    <3>1. PICK o \in Outcome : outcome' = Append(outcome, o)
      BY <1>2 DEF GetWaveform, Outcome
    <3> QED
      BY <3>1, AppendGrows
  <2>4. /\ queue \in [Urgency -> Seq(DOMAIN query')]
        /\ flushQueue \in Seq(DOMAIN query')
        /\ slots \in [Worker -> [Urgency -> {NoQuery} \cup DOMAIN query']]
        /\ request \in {NoQuery} \cup DOMAIN query'
    BY <2>1, OldNamesStay
  <2>5. /\ mainPc' \in MainPcs /\ request' \in {NoQuery} \cup DOMAIN query'
        /\ RequestHeld'
    BY <1>2, <1>n, <2>2, <2>4 DEF GetWaveform, MainPcs
  <2> QED
    BY <1>2, <1>n, <2>2, <2>3, <2>4, <2>5 DEF GetWaveform
<1>3. CASE Enqueue
  <2>1. request \in DOMAIN query
    BY <1>3 DEF Enqueue
  <2>2. \A s \in Seq(DOMAIN query) :
          <<request>> \o s \in Seq(DOMAIN query) /\ Append(s, request) \in Seq(DOMAIN query)
    BY <2>1, AppendProperties, ConcatProperties
  <2>3. queue' \in [Urgency -> Seq(DOMAIN query)]
    BY <1>3, <2>2 DEF Enqueue, Push
  <2>4. workerPc' \in [Worker -> WorkerPcs] /\ BusyHolds'
    BY <1>3 DEF Enqueue, NotifyOneWorker, WorkerPcs
  <2> QED
    BY <1>3, <1>n, <2>3, <2>4 DEF Enqueue, MainPcs
<1>4. CASE StartRescan
  BY <1>4 DEF StartRescan, MainPcs
<1>5. ASSUME NEW loc \in Location, RescanNext(loc)
      PROVE  TypeInv'
  <2> DEFINE r == [loc |-> loc, urgency |-> Bulk, forced |-> TRUE]
  <2>1. r \in QueryRecord /\ query' = Append(query, r)
    BY <1>5 DEF QueryRecord, RescanNext, NewQuery, Urgency
  <2>2. /\ query' \in Seq(QueryRecord) /\ Len(query') = Len(query) + 1
        /\ DOMAIN query' = 1..(Len(query) + 1) /\ Len(query) \in Nat
    BY <2>1, AppendGrows
  <2>3. outcome' \in Seq(Outcome) /\ Len(outcome') = Len(outcome) + 1
    <3>1. outcome' = Append(outcome, "pending") /\ "pending" \in Outcome
      BY <1>5 DEF RescanNext, Outcome
    <3> QED
      BY <3>1, AppendGrows
  <2>4. /\ queue \in [Urgency -> Seq(DOMAIN query')]
        /\ flushQueue \in Seq(DOMAIN query')
        /\ slots \in [Worker -> [Urgency -> {NoQuery} \cup DOMAIN query']]
    BY <2>1, OldNamesStay
  <2>5. /\ mainPc' \in MainPcs /\ request' \in {NoQuery} \cup DOMAIN query'
        /\ RequestHeld'
    BY <1>5, <1>n, <2>2 DEF RescanNext, MainPcs
  <2>6. todo' \in SUBSET Location
    BY <1>5 DEF RescanNext
  <2> QED
    BY <1>5, <2>2, <2>3, <2>4, <2>5, <2>6 DEF RescanNext
<1>6. ASSUME NEW loc \in Location, RemoveWaveform(loc) PROVE TypeInv'
  BY <1>6 DEF RemoveWaveform
<1>7. ASSUME NEW w \in Worker, AnswerLibrary(w) PROVE TypeInv'
  BY <1>7 DEF AnswerLibrary, Answers
<1>8. CASE Shutdown
  BY <1>8 DEF Shutdown, MainPcs, CachePcs
<1>9. CASE JoinCache
  BY <1>9 DEF JoinCache, MainPcs
<1> QED
  BY <1>1, <1>2, <1>3, <1>4, <1>5, <1>6, <1>7, <1>8, <1>9 DEF MainStep

(* The steps of the cache thread keep the types. *)
LEMMA CacheStepTypes ==
  ASSUME ConstantsAssumption, TypeInv, CacheStep \/ CacheSpuriousWake
  PROVE  TypeInv'
<1> USE DEF TypeInv, TypeOK, RequestHeld, BusyHolds, BusyPcs, Holds, Job,
        dbVars, mainVars, queryVars, flagVars, cacheVars, workerVars
<1>n. /\ Needed = 0 /\ Desired = 1 /\ Bulk = 2 /\ NoQuery = 0
      /\ Urgency = {0, 1, 2}
  BY DEF Needed, Desired, Bulk, Urgency, NoQuery
<1>s. /\ << >> \in Seq(JobRow)
      /\ \A s \in Seq(JobRow) :
           s # << >> => Tail(s) \in Seq(JobRow) /\ Head(s) \in JobRow
      /\ \A s \in Seq(JobRow), r \in JobRow : Append(s, r) \in Seq(JobRow)
  BY EmptySeq, HeadTailProperties, AppendProperties
<1>1. CASE LoadJobs
  BY <1>1 DEF LoadJobs, CachePcs
<1>2. CASE LoadJob
  <2> DEFINE row == Head(deque)
             r == [loc |-> row.loc, urgency |-> Bulk, forced |-> row.user]
  <2>1. r \in QueryRecord /\ query' = Append(query, r)
    <3>1. row \in JobRow
      BY <1>2, <1>s DEF LoadJob
    <3> QED
      BY <1>2, <1>n, <3>1 DEF LoadJob, NewQuery, QueryRecord, JobRow
  <2>2. /\ query' \in Seq(QueryRecord) /\ Len(query') = Len(query) + 1
        /\ DOMAIN query' = 1..(Len(query) + 1) /\ Len(query) \in Nat
        /\ query'[Len(query) + 1] = r
    BY <2>1, AppendGrows
  <2>3. outcome' \in Seq(Outcome) /\ Len(outcome') = Len(outcome) + 1
    <3>1. PICK o \in Outcome : outcome' = Append(outcome, o)
      BY <1>2 DEF LoadJob, Outcome
    <3> QED
      BY <3>1, AppendGrows
  <2>4. /\ queue \in [Urgency -> Seq(DOMAIN query')]
        /\ flushQueue \in Seq(DOMAIN query')
        /\ slots \in [Worker -> [Urgency -> {NoQuery} \cup DOMAIN query']]
        /\ request \in {NoQuery} \cup DOMAIN query'
    BY <2>1, OldNamesStay
  <2>5. \A s \in Seq(DOMAIN query') :
          /\ <<Len(query) + 1>> \o s \in Seq(DOMAIN query')
          /\ Append(s, Len(query) + 1) \in Seq(DOMAIN query')
    BY <2>2, AppendProperties, ConcatProperties
  <2>6. queue' \in [Urgency -> Seq(DOMAIN query')]
    <3>1. CASE queue' = queue
      BY <2>4, <3>1
    <3>2. CASE queue' # queue
      <4>1. Push(Len(query) + 1)
        BY <1>2, <3>2 DEF LoadJob
      <4>2. query'[Len(query) + 1].urgency = Bulk
        BY <2>2
      <4>3. queue' = [queue EXCEPT ![Bulk] = Append(@, Len(query) + 1)]
        BY <1>n, <4>1, <4>2 DEF Push
      <4> QED
        BY <1>n, <2>4, <2>5, <4>3
    <3> QED
      BY <3>1, <3>2
  <2> QED
    BY <1>2, <1>s, <2>2, <2>3, <2>4, <2>6 DEF LoadJob, CachePcs
<1>3. CASE StartWorkers
  BY <1>3 DEF StartWorkers, CachePcs, WorkerPcs
<1>4. CASE CacheCheck
  BY <1>4 DEF CacheCheck, CachePcs
<1>5. CASE CacheBlock
  BY <1>5 DEF CacheBlock, CachePcs
<1>6. CASE SetTerminate
  BY <1>6 DEF SetTerminate, CachePcs
<1>7. CASE AbortAnalyses
  BY <1>7 DEF AbortAnalyses, CachePcs
<1>8. CASE NotifyWorkers
  BY <1>8 DEF NotifyWorkers, CachePcs, WorkerPcs
<1>9. CASE JoinWorkers
  BY <1>9 DEF JoinWorkers, CachePcs
<1>10. CASE CollectJobs
  <2>1. Unfinished \in Seq(DOMAIN query) /\ Len(Unfinished) \in Nat
    BY <1>n, ConcatProperties, LenProperties DEF Unfinished
  <2>2. \A q \in DOMAIN query : [loc |-> LocOf(q), user |-> ForcedOf(q)] \in JobRow
    <3>1. \A q \in DOMAIN query : query[q] \in QueryRecord
      BY ElementOfSeq, LenProperties
    <3> QED
      BY <3>1 DEF LocOf, ForcedOf, JobRow, QueryRecord
  <2>3. deque' \in [1..Len(Unfinished) -> JobRow]
    BY <1>10, <2>1, <2>2, ElementOfSeq DEF CollectJobs
  <2>4. deque' \in Seq(JobRow)
    BY <2>1, <2>3, FunctionIsSeq
  <2> QED
    BY <1>10, <1>s, <2>4 DEF CollectJobs, CachePcs
<1>11. CASE InsertJob
  BY <1>11, <1>s DEF InsertJob
<1>12. CASE CommitJobs
  BY <1>12, <1>s DEF CommitJobs, CachePcs
<1>13. CASE CacheSpuriousWake
  BY <1>13 DEF CacheSpuriousWake, CachePcs
<1> QED
  BY <1>1, <1>2, <1>3, <1>4, <1>5, <1>6, <1>7, <1>8, <1>9, <1>10, <1>11, <1>12,
     <1>13 DEF CacheStep

(* The steps of a worker keep the types. *)
LEMMA WorkerStepTypes ==
  ASSUME ConstantsAssumption, TypeInv, NEW w \in Worker,
         WorkerLockStep(w) \/ WorkerFileStep(w) \/ WorkerSpuriousWake(w)
  PROVE  TypeInv'
<1> USE DEF TypeInv, TypeOK, RequestHeld, BusyHolds, BusyPcs, Holds, Job,
        dbVars, mainVars, queryVars, flagVars, cacheVars, workerVars
<1>n. /\ Needed = 0 /\ Desired = 1 /\ Bulk = 2 /\ NoQuery = 0
      /\ Urgency = {0, 1, 2}
  BY DEF Needed, Desired, Bulk, Urgency, NoQuery
<1>o. /\ "analysed" \in Outcome /\ "failed" \in Outcome /\ "stored" \in Outcome
      /\ "nothing" \in Outcome /\ "requeued" \in Outcome /\ "dropped" \in Outcome
  BY DEF Outcome
<1>1. ASSUME NEW u \in Urgency, WorkerTakes(w, u) PROVE TypeInv'
  <2>1. queue[u] \in Seq(DOMAIN query) /\ queue[u] # << >>
    BY <1>1 DEF WorkerTakes, StopsAt
  <2>2. Head(queue[u]) \in DOMAIN query /\ Tail(queue[u]) \in Seq(DOMAIN query)
    BY <2>1, HeadTailProperties
  <2>3. Head(queue[u]) # NoQuery
    BY <1>n, <2>2, LenProperties
  <2>4. queue' \in [Urgency -> Seq(DOMAIN query)]
    BY <1>1, <2>2 DEF WorkerTakes, PopFront
  <2> QED
    BY <1>1, <2>2, <2>3, <2>4 DEF WorkerTakes, WorkerPcs
<1>2. ASSUME NEW u \in Urgency, WorkerKeeps(w, u) PROVE TypeInv'
  BY <1>2 DEF WorkerKeeps, WorkerPcs
<1>3. CASE WorkerSleeps(w)
  BY <1>3 DEF WorkerSleeps, WorkerPcs
<1>4. CASE WorkerExits(w)
  <2>1. DOMAIN outcome = 1..Len(outcome) /\ Len(outcome) \in Nat
        /\ \A q \in DOMAIN outcome : outcome[q] \in Outcome
    BY LenProperties, ElementOfSeq
  <2>2. outcome' \in [1..Len(outcome) -> Outcome]
    BY <1>4, <1>o, <2>1 DEF WorkerExits
  <2>3. outcome' \in Seq(Outcome) /\ Len(outcome') = Len(outcome)
    BY <2>1, <2>2, FunctionIsSeq
  <2> QED
    BY <1>4, <2>3 DEF WorkerExits, WorkerPcs, ConstantsAssumption
<1>5. CASE WorkerBlocks(w)
  BY <1>5 DEF WorkerBlocks, WorkerPcs
<1>6. CASE BeginFile(w)
  BY <1>6 DEF BeginFile, GoTo, WorkerPcs, Answers
<1>7. CASE LibraryAnswered(w)
  BY <1>7 DEF LibraryAnswered, GoTo, WorkerPcs, Answers
<1>8. CASE LibraryGivenUp(w)
  BY <1>8 DEF LibraryGivenUp, GoTo, WorkerPcs, Answers
<1>9. CASE OpenDecoder(w)
  <2>1. ASSUME progress' = [progress EXCEPT ![w][current[w]] = 1], NextSlot(w),
               UNCHANGED <<outcome, slots>>
        PROVE  TypeInv'
    <3>1. progress' \in [Worker -> [Urgency -> 0..(Slices + 1)]]
      BY <2>1 DEF ConstantsAssumption
    <3>2. workerPc' \in [Worker -> WorkerPcs] /\ current' \in [Worker -> Urgency]
          /\ BusyHolds'
      BY <2>1, NextSlotKeepsTypes
    <3> QED
      BY <1>9, <2>1, <3>1, <3>2 DEF OpenDecoder
  <2>2. CASE Release(w, "failed")
    BY <1>9, <1>o, <2>2, ReleaseKeepsTypes DEF OpenDecoder
  <2>3. CASE GoTo(w, "flush")
    BY <1>9, <2>3 DEF OpenDecoder, GoTo, WorkerPcs
  <2> QED
    BY <1>9, <2>1, <2>2, <2>3 DEF OpenDecoder
<1>10. CASE RenderChunk(w)
  <2>1. ASSUME progress' = [progress EXCEPT ![w][current[w]] = @ + 1], NextSlot(w),
               UNCHANGED <<outcome, slots>>
        PROVE  TypeInv'
    <3>1. progress' \in [Worker -> [Urgency -> 0..(Slices + 1)]]
      <4>1. current[w] \in Urgency /\ Slices \in Nat
        BY DEF ConstantsAssumption
      <4>2. progress[w][current[w]] + 1 \in 0..(Slices + 1)
        BY <1>10, <4>1 DEF RenderChunk, AudioLeft
      <4> QED
        BY <2>1, <4>1, <4>2
    <3>2. workerPc' \in [Worker -> WorkerPcs] /\ current' \in [Worker -> Urgency]
          /\ BusyHolds'
      BY <2>1, NextSlotKeepsTypes
    <3> QED
      BY <1>10, <2>1, <3>1, <3>2 DEF RenderChunk
  <2>2. CASE Release(w, "failed")
    BY <1>10, <1>o, <2>2, ReleaseKeepsTypes DEF RenderChunk
  <2>3. CASE GoTo(w, "flush")
    BY <1>10, <2>3 DEF RenderChunk, GoTo, WorkerPcs
  <2> QED
    BY <1>10, <2>1, <2>2, <2>3 DEF RenderChunk
<1>11. CASE PutFile(w)
  <2>1. Job(w) \in DOMAIN query
    BY <1>11 DEF PutFile
  <2>2. LocOf(Job(w)) \in Location
    <3>1. query[Job(w)] \in QueryRecord
      BY <2>1, ElementOfSeq, LenProperties
    <3> QED
      BY <3>1 DEF LocOf, QueryRecord
  <2> QED
    BY <1>11, <2>2 DEF PutFile, GoTo, WorkerPcs
<1>12. CASE PutWave(w)
  <2>1. waves' \in SUBSET Location
    BY <1>12 DEF PutWave, PutWaveRow
  <2> QED
    BY <1>12, <1>o, <2>1, ReleaseKeepsTypes DEF PutWave
<1>13. CASE Elide(w)
  <2> DEFINE how == IF Has(LocOf(Job(w))) THEN "stored" ELSE "nothing"
  <2>1. how \in Outcome
    BY <1>o
  <2>2. Release(w, how)
    BY <1>13 DEF Elide
  <2> HIDE DEF how
  <2> QED
    BY <1>13, <2>1, <2>2, ReleaseKeepsTypes DEF Elide
<1>14. CASE FlushAborted(w)
  <2>1. workerPc[w] \in BusyPcs /\ Release(w, "requeued") /\ UNCHANGED query
    BY <1>14 DEF FlushAborted
  <2>2. Job(w) \in DOMAIN query
    BY <1>o, <2>1, ReleaseKeepsTypes
  <2>3. flushQueue' \in Seq(DOMAIN query)
    BY <1>14, <2>2, AppendProperties DEF FlushAborted
  <2> QED
    BY <1>14, <1>o, <2>1, <2>3, ReleaseKeepsTypes DEF FlushAborted
<1>15. CASE WorkerSpuriousWake(w)
  BY <1>15 DEF WorkerSpuriousWake, WorkerPcs
<1> QED
  BY <1>1, <1>2, <1>3, <1>4, <1>5, <1>6, <1>7, <1>8, <1>9, <1>10, <1>11, <1>12,
     <1>13, <1>14, <1>15 DEF WorkerLockStep, WorkerFileStep

(* A new process has a well-typed state, whatever is in the database. *)
LEMMA StartProcessTypes ==
  ASSUME ConstantsAssumption, TypeInv, Restart \/ Crash
  PROVE  TypeInv'
<1>1. /\ << >> \in Seq(JobRow) /\ << >> \in Seq(QueryRecord) /\ Len(<< >>) = 0
      /\ << >> \in Seq(Outcome) /\ << >> \in Seq(DOMAIN query')
  BY EmptySeq
<1>2. run' \in 1..MaxRuns
  BY DEF Restart, Crash, TypeInv, TypeOK, ConstantsAssumption
<1>3. StartProcess /\ UNCHANGED dbVars
  BY DEF Restart, Crash
<1>4. /\ queue' \in [Urgency -> Seq(DOMAIN query')]
      /\ slots' \in [Worker -> [Urgency -> {NoQuery} \cup DOMAIN query']]
      /\ progress' \in [Worker -> [Urgency -> 0..(Slices + 1)]]
      /\ current' \in [Worker -> Urgency]
  BY <1>1, <1>3 DEF StartProcess, Urgency, ConstantsAssumption
<1>5. workerPc' \in [Worker -> WorkerPcs] /\ library' \in [Worker -> Answers]
  BY <1>3 DEF StartProcess, WorkerPcs, Answers
<1>6. RequestHeld' /\ BusyHolds'
  BY <1>3 DEF StartProcess, RequestHeld, BusyHolds, BusyPcs
<1>7. /\ query' \in Seq(QueryRecord) /\ outcome' \in Seq(Outcome)
      /\ Len(outcome') = Len(query') /\ flushQueue' \in Seq(DOMAIN query')
      /\ deque' \in Seq(JobRow) /\ inserted' \in Seq(JobRow)
  BY <1>1, <1>3 DEF StartProcess
<1> QED
  BY <1>2, <1>3, <1>4, <1>5, <1>6, <1>7 DEF StartProcess, dbVars, TypeInv,
     TypeOK, MainPcs, CachePcs

(* Every step of every thread, a restart and a crash keep the types. *)
LEMMA TypeStep ==
  ASSUME ConstantsAssumption, TypeInv, [Next]_vars
  PROVE  TypeInv'
<1>1. CASE UNCHANGED vars
  BY <1>1 DEF vars, TypeInv, TypeOK, RequestHeld, BusyHolds, Holds,
     dbVars, mainVars, queryVars, flagVars, cacheVars, workerVars
<1>2. CASE Finished
  BY <1>1, <1>2 DEF Finished
<1> QED
  BY <1>1, <1>2, MainStepTypes, CacheStepTypes, WorkerStepTypes, StartProcessTypes
     DEF Next, SpuriousWake

(* In every reachable state every variable is in its range: whatever the
   interleaving, a slot or a queue never names a query that does not exist,
   and a worker is busy only with a query it holds. *)
THEOREM TypeCorrect == Spec => []TypeOK
<1>1. Init => TypeInv
  BY InitTypeInv, ConstantsAssumption
<1>2. TypeInv /\ [Next]_vars => TypeInv'
  BY TypeStep, ConstantsAssumption
<1>3. TypeInv => TypeOK
  BY DEF TypeInv
<1> QED
  BY <1>1, <1>2, <1>3, PTL DEF Spec

-----------------------------------------------------------------------------
(* The type invariant, with what it rests on, holds in every state. *)
LEMMA TypeAlways == Spec => []TypeInv
<1>1. Init => TypeInv
  BY InitTypeInv, ConstantsAssumption
<1>2. TypeInv /\ [Next]_vars => TypeInv'
  BY TypeStep, ConstantsAssumption
<1> QED
  BY <1>1, <1>2, PTL DEF Spec

-----------------------------------------------------------------------------
(* No wave row is ever without its file row, however remove_waveform, put
   and a crash interleave. *)
THEOREM WavesHaveFiles == Spec => []NoOrphanWave
<1>1. Init => NoOrphanWave
  BY DEF Init, NoOrphanWave
<1>2. ASSUME NoOrphanWave, [Next]_vars
      PROVE  NoOrphanWave'
  <2> USE DEF NoOrphanWave, dbVars
  <2>1. CASE UNCHANGED <<files, waves>>
    BY <1>2, <2>1
  <2>2. ASSUME NEW loc \in Location, RemoveWaveform(loc)
        PROVE  NoOrphanWave'
    BY <1>2, <2>2 DEF RemoveWaveform
  <2>3. ASSUME NEW w \in Worker, PutFile(w) PROVE NoOrphanWave'
    BY <1>2, <2>3 DEF PutFile
  <2>4. ASSUME NEW w \in Worker, PutWave(w) PROVE NoOrphanWave'
    BY <1>2, <2>4 DEF PutWave, PutWaveRow
  <2>5. CASE MainStep
    BY <2>1, <2>2, <2>5 DEF MainStep, StartReturns, GetWaveform, Enqueue,
       StartRescan, RescanNext, AnswerLibrary, Shutdown, JoinCache
  <2>6. CASE CacheStep
    BY <2>1, <2>6 DEF CacheStep, LoadJobs, LoadJob, StartWorkers, CacheCheck,
       CacheBlock, SetTerminate, AbortAnalyses, NotifyWorkers, JoinWorkers,
       CollectJobs, InsertJob, CommitJobs
  <2>7. ASSUME NEW w \in Worker, WorkerLockStep(w) PROVE NoOrphanWave'
    BY <2>1, <2>7 DEF WorkerLockStep, WorkerTakes, WorkerKeeps, WorkerSleeps,
       WorkerExits
  <2>8. ASSUME NEW w \in Worker, WorkerFileStep(w) PROVE NoOrphanWave'
    BY <2>1, <2>3, <2>4, <2>8 DEF WorkerFileStep, WorkerBlocks, BeginFile,
       LibraryAnswered, LibraryGivenUp, OpenDecoder, RenderChunk, Elide,
       FlushAborted
  <2>9. CASE SpuriousWake \/ Restart \/ Crash \/ Finished \/ UNCHANGED vars
    BY <2>1, <2>9 DEF SpuriousWake, CacheSpuriousWake, WorkerSpuriousWake,
       Restart, Crash, Finished, vars
  <2> QED
    BY <1>2, <2>5, <2>6, <2>7, <2>8, <2>9 DEF Next
<1> QED
  BY <1>1, <1>2, PTL DEF Spec

-----------------------------------------------------------------------------
(* A decoder is opened only for a query in its slot, and goes with it: the
   next query in a slot never finds the state of the one before. *)
THEOREM StateGoesWithQuery == Spec => []StateBelongsToQuery
<1>1. Init => StateBelongsToQuery
  BY DEF Init, FreshProcess, StateBelongsToQuery
<1>2. ASSUME TypeInv, StateBelongsToQuery, [Next]_vars
      PROVE  StateBelongsToQuery'
  <2> USE DEF StateBelongsToQuery, Holds, workerVars
  <2>1. CASE UNCHANGED <<slots, progress>>
    BY <1>2, <2>1
  <2>t. /\ slots \in [Worker -> [Urgency -> {NoQuery} \cup DOMAIN query]]
        /\ progress \in [Worker -> [Urgency -> 0..(Slices + 1)]]
        /\ current \in [Worker -> Urgency]
    BY <1>2 DEF TypeInv, TypeOK
  <2>2. ASSUME NEW w \in Worker, NEW how, Release(w, how)
        PROVE  StateBelongsToQuery'
    BY <1>2, <2>2, <2>t DEF Release, ResetState
  <2>3. ASSUME NEW w \in Worker, workerPc[w] \in BusyPcs, UNCHANGED slots,
               NEW n, progress' = [progress EXCEPT ![w][current[w]] = n]
        PROVE  StateBelongsToQuery'
    BY <1>2, <2>3, <2>t DEF TypeInv, BusyHolds
  <2>4. CASE MainStep
    BY <2>1, <2>4 DEF MainStep, StartReturns, GetWaveform, Enqueue,
       StartRescan, RescanNext, RemoveWaveform, AnswerLibrary, Shutdown,
       JoinCache
  <2>5. CASE CacheStep
    BY <2>1, <2>5 DEF CacheStep, LoadJobs, LoadJob, StartWorkers, CacheCheck,
       CacheBlock, SetTerminate, AbortAnalyses, NotifyWorkers, JoinWorkers,
       CollectJobs, InsertJob, CommitJobs
  <2>6. ASSUME NEW w \in Worker, WorkerLockStep(w)
        PROVE  StateBelongsToQuery'
    <3>1. ASSUME NEW u \in Urgency, WorkerTakes(w, u)
          PROVE  StateBelongsToQuery'
      <4>1. Head(queue[u]) # NoQuery
        <5>1. queue[u] \in Seq(DOMAIN query) /\ queue[u] # << >>
          BY <1>2, <3>1 DEF WorkerTakes, StopsAt, TypeInv, TypeOK
        <5>2. Head(queue[u]) \in DOMAIN query
          BY <5>1, HeadTailProperties
        <5> QED
          BY <1>2, <5>2, LenProperties DEF TypeInv, TypeOK, NoQuery
      <4> QED
        BY <1>2, <2>t, <3>1, <4>1 DEF WorkerTakes
    <3>2. CASE WorkerExits(w)
      BY <1>2, <2>t, <3>2 DEF WorkerExits
    <3> QED
      BY <2>1, <2>6, <3>1, <3>2 DEF WorkerLockStep, WorkerKeeps, WorkerSleeps
  <2>7. ASSUME NEW w \in Worker, WorkerFileStep(w)
        PROVE  StateBelongsToQuery'
    <3>1. CASE OpenDecoder(w)
      BY <2>1, <2>2, <2>3, <3>1 DEF OpenDecoder, GoTo, BusyPcs
    <3>2. CASE RenderChunk(w)
      BY <2>1, <2>2, <2>3, <3>2 DEF RenderChunk, GoTo, BusyPcs
    <3>3. CASE BeginFile(w) \/ LibraryAnswered(w) \/ LibraryGivenUp(w) \/ PutFile(w)
      BY <2>1, <3>3 DEF BeginFile, LibraryAnswered, LibraryGivenUp, PutFile, GoTo
    <3>4. CASE PutWave(w) \/ Elide(w) \/ FlushAborted(w)
      BY <2>2, <3>4 DEF PutWave, Elide, FlushAborted
    <3> QED
      BY <2>1, <2>7, <3>1, <3>2, <3>3, <3>4 DEF WorkerFileStep, WorkerBlocks
  <2>8. CASE Restart \/ Crash
    BY <2>8 DEF Restart, Crash, StartProcess
  <2>9. CASE SpuriousWake \/ Finished \/ UNCHANGED vars
    BY <2>1, <2>9 DEF SpuriousWake, CacheSpuriousWake, WorkerSpuriousWake,
       Finished, vars
  <2> QED
    BY <1>2, <2>4, <2>5, <2>6, <2>7, <2>8, <2>9 DEF Next
<1> QED
  BY <1>1, <1>2, TypeAlways, PTL DEF Spec

-----------------------------------------------------------------------------
(* How far the three kinds of thread have come relative to each other. *)
Starting == {"open", "loading"}
Stopping == {"terminate", "abort", "notify", "join", "collect", "insert", "done"}
Joined   == {"collect", "insert", "done"}

PhaseInv ==
  /\ storeOpen <=> cachePc \notin {"open", "done"}
  /\ cachePc \in Starting => mainPc = "start"
  /\ \A w \in Worker : workerPc[w] = "unborn" <=> cachePc \in Starting
  /\ cachePc \in Joined => \A w \in Worker : workerPc[w] = "exited"
  /\ shouldShutdown <=> mainPc \in {"join", "quit"}
  /\ cachePc \in Stopping => shouldShutdown

(* Every step of every thread keeps the phases in step. *)
LEMMA PhaseStep ==
  ASSUME TypeInv, PhaseInv, [Next]_vars
  PROVE  PhaseInv'
<1> USE DEF PhaseInv, Starting, Stopping, Joined, dbVars, mainVars, queryVars,
        flagVars, cacheVars, workerVars
<1>t. workerPc \in [Worker -> WorkerPcs] /\ cachePc \in CachePcs
  BY DEF TypeInv, TypeOK
<1>1. CASE UNCHANGED <<storeOpen, cachePc, mainPc, shouldShutdown, workerPc>>
  BY <1>1
<1>2. ASSUME NEW w \in Worker, workerPc[w] \notin {"unborn", "exited"},
             UNCHANGED <<storeOpen, cachePc, mainPc, shouldShutdown>>,
             NEW pc, pc # "unborn", workerPc' = [workerPc EXCEPT ![w] = pc]
      PROVE  PhaseInv'
  BY <1>2, <1>t
<1>3. CASE MainStep
  <2>1. CASE StartReturns
    BY <2>1 DEF StartReturns
  <2>2. ASSUME NEW loc \in Location, NEW kind \in RequestKinds,
               GetWaveform(loc, kind)
        PROVE  PhaseInv'
    <3>1. mainPc' \in {"idle", "enqueue"} /\ mainPc = "idle"
      BY <2>2 DEF GetWaveform
    <3> QED
      BY <2>2, <3>1 DEF GetWaveform
  <2>3. CASE Enqueue
    <3>1. mainPc' \in {"idle", "rescan"} /\ mainPc = "enqueue"
      BY <2>3 DEF Enqueue
    <3>2. \A w \in Worker :
            /\ workerPc[w] \in {"unborn", "exited"} => workerPc'[w] = workerPc[w]
            /\ workerPc'[w] = "unborn" => workerPc[w] = "unborn"
      BY <1>t, <2>3 DEF Enqueue, NotifyOneWorker
    <3> QED
      BY <2>3, <3>1, <3>2 DEF Enqueue
  <2>4. CASE StartRescan
    BY <2>4 DEF StartRescan
  <2>5. ASSUME NEW loc \in Location, RescanNext(loc) PROVE PhaseInv'
    BY <2>5 DEF RescanNext
  <2>6. CASE Shutdown
    <3>1. cachePc' = cachePc \/ (cachePc = "waiting" /\ cachePc' = "check")
      BY <2>6 DEF Shutdown
    <3> QED
      BY <2>6, <3>1 DEF Shutdown
  <2>7. CASE JoinCache
    BY <2>7 DEF JoinCache
  <2> QED
    BY <1>1, <1>3, <2>1, <2>2, <2>3, <2>4, <2>5, <2>6, <2>7
       DEF MainStep, RemoveWaveform, AnswerLibrary
<1>4. CASE CacheStep \/ CacheSpuriousWake
  <2>1. CASE LoadJobs \/ LoadJob \/ StartWorkers
    BY <2>1, <1>t DEF LoadJobs, LoadJob, StartWorkers
  <2>2. CASE CacheCheck
    <3>1. (cachePc' = "terminate" /\ shouldShutdown) \/ cachePc' = "blocking"
      BY <2>2 DEF CacheCheck
    <3> QED
      BY <2>2, <3>1 DEF CacheCheck
  <2>3. CASE CacheBlock \/ CacheSpuriousWake \/ SetTerminate \/ AbortAnalyses
             \/ NotifyWorkers
    BY <2>3 DEF CacheBlock, CacheSpuriousWake, SetTerminate, AbortAnalyses,
       NotifyWorkers
  <2>4. CASE JoinWorkers \/ CollectJobs \/ InsertJob \/ CommitJobs
    BY <2>4 DEF JoinWorkers, AllWorkersJoined, CollectJobs, InsertJob, CommitJobs
  <2> QED
    BY <1>4, <2>1, <2>2, <2>3, <2>4 DEF CacheStep
<1>5. ASSUME NEW w \in Worker, WorkerLockStep(w) PROVE PhaseInv'
  BY <1>2, <1>5 DEF WorkerLockStep, WorkerTakes, WorkerKeeps, WorkerSleeps,
     WorkerExits
<1>6. ASSUME NEW w \in Worker, WorkerFileStep(w) \/ WorkerSpuriousWake(w)
      PROVE  PhaseInv'
  <2>1. PICK pc : pc # "unborn" /\ workerPc' = [workerPc EXCEPT ![w] = pc]
    BY <1>6 DEF WorkerFileStep, WorkerBlocks, WorkerSpuriousWake, BeginFile,
       LibraryAnswered, LibraryGivenUp, OpenDecoder, RenderChunk, PutFile,
       PutWave, Elide, FlushAborted, GoTo, Release, NextSlot
  <2>2. /\ workerPc[w] \notin {"unborn", "exited"}
        /\ UNCHANGED <<storeOpen, cachePc, mainPc, shouldShutdown>>
    BY <1>6 DEF WorkerFileStep, WorkerBlocks, WorkerSpuriousWake, BeginFile,
       LibraryAnswered, LibraryGivenUp, OpenDecoder, RenderChunk, PutFile,
       PutWave, Elide, FlushAborted
  <2> QED
    BY <1>2, <2>1, <2>2
<1>7. CASE Restart \/ Crash
  BY <1>7 DEF Restart, Crash, StartProcess
<1>8. CASE Finished \/ UNCHANGED vars
  BY <1>1, <1>8 DEF Finished, vars
<1> QED
  BY <1>3, <1>4, <1>5, <1>6, <1>7, <1>8 DEF Next, SpuriousWake

(* The phases of the threads fit together in every state. *)
LEMMA PhaseAlways == Spec => []PhaseInv
<1>1. Init => PhaseInv
  BY DEF Init, FreshProcess, PhaseInv, Starting, Stopping, Joined
<1>2. TypeInv /\ PhaseInv /\ [Next]_vars => PhaseInv'
  BY PhaseStep
<1> QED
  BY <1>1, <1>2, TypeAlways, PTL DEF Spec

(* The store is open whenever the main thread is in a cache call and whenever
   a worker is alive, so neither can meet the null pointer that cache_main
   leaves behind. *)
THEOREM StoreIsOpenInUse == Spec => []StoreOutlivesUsers
<1>1. PhaseInv /\ TypeInv => StoreOutlivesUsers
  BY DEF PhaseInv, StoreOutlivesUsers, Starting, Stopping, Joined, TypeInv,
     TypeOK, CachePcs
<1> QED
  BY <1>1, PhaseAlways, TypeAlways, PTL

-----------------------------------------------------------------------------
(* Sequences of query ids with the newest in front, or with the oldest. *)
NewestFirst(s) == \A i, j \in DOMAIN s : i < j => s[i] > s[j]
OldestFirst(s) == \A i, j \in DOMAIN s : i < j => s[i] < s[j]

(* A query newer than all in a sequence keeps it in order, at either end. *)
LEMMA PushedInOrder ==
  ASSUME NEW S \in SUBSET Nat, NEW s \in Seq(S), NEW q \in Nat,
         \A i \in DOMAIN s : s[i] < q
  PROVE  /\ NewestFirst(s) => NewestFirst(<<q>> \o s)
         /\ OldestFirst(s) => OldestFirst(Append(s, q))
<1>1. /\ Len(s) \in Nat /\ DOMAIN s = 1..Len(s)
      /\ \A i \in 1..Len(s) : s[i] \in Nat
  BY LenProperties, ElementOfSeq
<1>2. s \in Seq(Nat) /\ <<q>> \in Seq(Nat) /\ Len(<<q>>) = 1 /\ <<q>>[1] = q
  <2>1. s \in Seq(Nat)
    BY SeqMonotonic
  <2> QED
    BY <2>1
<1>3. /\ Len(<<q>> \o s) = Len(s) + 1
      /\ <<q>> \o s \in Seq(Nat)
      /\ \A i \in 1..(Len(s) + 1) :
           (<<q>> \o s)[i] = IF i <= 1 THEN <<q>>[i] ELSE s[i - 1]
  BY <1>1, <1>2, ConcatProperties
<1>4. DOMAIN (<<q>> \o s) = 1..(Len(s) + 1)
  BY <1>3, LenProperties
<1>5. /\ DOMAIN Append(s, q) = 1..(Len(s) + 1)
      /\ \A i \in 1..Len(s) : Append(s, q)[i] = s[i]
      /\ Append(s, q)[Len(s) + 1] = q
  BY <1>1, <1>2, AppendGrows
<1>6. ASSUME NewestFirst(s) PROVE NewestFirst(<<q>> \o s)
  <2> SUFFICES ASSUME NEW i \in 1..(Len(s) + 1), NEW j \in 1..(Len(s) + 1), i < j
               PROVE  (<<q>> \o s)[i] > (<<q>> \o s)[j]
    BY <1>4 DEF NewestFirst
  <2>1. (<<q>> \o s)[j] = s[j - 1] /\ j - 1 \in 1..Len(s)
    BY <1>1, <1>3
  <2>2. CASE i = 1
    <3>1. (<<q>> \o s)[i] = q
      BY <1>1, <1>2, <1>3, <2>2
    <3> QED
      BY <1>1, <2>1, <3>1
  <2>3. CASE i # 1
    <3>1. (<<q>> \o s)[i] = s[i - 1] /\ i - 1 \in 1..Len(s) /\ i - 1 < j - 1
      BY <1>1, <1>3, <2>3
    <3> QED
      BY <1>1, <1>6, <2>1, <3>1 DEF NewestFirst
  <2> QED
    BY <2>2, <2>3
<1>7. ASSUME OldestFirst(s) PROVE OldestFirst(Append(s, q))
  BY <1>1, <1>5, <1>7 DEF OldestFirst
<1> QED
  BY <1>6, <1>7

(* Taking the first query of a sequence leaves the others in order. *)
LEMMA TailInOrder ==
  ASSUME NEW S \in SUBSET Nat, NEW s \in Seq(S), s # << >>
  PROVE  /\ NewestFirst(s) => NewestFirst(Tail(s))
         /\ OldestFirst(s) => OldestFirst(Tail(s))
<1>1. /\ Len(s) \in Nat /\ Len(s) > 0 /\ DOMAIN s = 1..Len(s)
      /\ \A i \in 1..Len(s) : s[i] \in Nat
  <2>1. Len(s) \in Nat /\ Len(s) # 0 /\ DOMAIN s = 1..Len(s)
    BY LenProperties, EmptySeq
  <2>2. Len(s) > 0
    BY <2>1
  <2>3. \A i \in 1..Len(s) : s[i] \in S
    BY <2>1, ElementOfSeq
  <2>4. \A i \in 1..Len(s) : s[i] \in Nat
    BY <2>3
  <2> QED
    BY <2>1, <2>2, <2>4
<1>2. /\ Tail(s) \in Seq(S) /\ Len(Tail(s)) = Len(s) - 1
      /\ \A i \in 1..Len(Tail(s)) : Tail(s)[i] = s[i + 1]
  BY HeadTailProperties
<1>3. DOMAIN Tail(s) = 1..(Len(s) - 1)
  BY <1>2, LenProperties
<1>4. ASSUME NEW i \in DOMAIN Tail(s)
      PROVE  i \in Int /\ i + 1 \in DOMAIN s /\ Tail(s)[i] = s[i + 1]
  BY <1>1, <1>2, <1>3, <1>4
<1>5. ASSUME NEW i \in DOMAIN Tail(s), NEW j \in DOMAIN Tail(s), i < j
      PROVE  /\ NewestFirst(s) => Tail(s)[i] > Tail(s)[j]
             /\ OldestFirst(s) => Tail(s)[i] < Tail(s)[j]
  <2>1. i + 1 < j + 1
    BY <1>4, <1>5
  <2>2. /\ i + 1 \in DOMAIN s /\ Tail(s)[i] = s[i + 1]
        /\ j + 1 \in DOMAIN s /\ Tail(s)[j] = s[j + 1]
    BY <1>4, <1>5
  <2> QED
    BY <2>1, <2>2 DEF NewestFirst, OldestFirst
<1> QED
  BY <1>5 DEF NewestFirst, OldestFirst

(* The query get_waveform holds is the newest of all, so none of the queues
   has a newer one when it is put in front or at the back. *)
OrderInv ==
  /\ NewestFirst(queue[Needed])
  /\ OldestFirst(queue[Desired])
  /\ OldestFirst(queue[Bulk])
  /\ mainPc = "enqueue" =>
       /\ request = Len(query)
       /\ \A u \in Urgency : \A i \in DOMAIN queue[u] : queue[u][i] < request

(* push_request keeps the three queues in order if its query is the newest. *)
LEMMA PushKeepsOrder ==
  ASSUME NewestFirst(queue[Needed]), OldestFirst(queue[Desired]),
         OldestFirst(queue[Bulk]), queue \in [Urgency -> Seq(DOMAIN query)],
         query \in Seq(QueryRecord), NEW q \in Nat, Push(q),
         \A u \in Urgency : \A i \in DOMAIN queue[u] : queue[u][i] < q
  PROVE  /\ NewestFirst(queue'[Needed])
         /\ OldestFirst(queue'[Desired])
         /\ OldestFirst(queue'[Bulk])
<1>n. /\ Needed = 0 /\ Desired = 1 /\ Bulk = 2 /\ Urgency = {0, 1, 2}
  BY DEF Needed, Desired, Bulk, Urgency
<1>d. DOMAIN query \in SUBSET Nat
  BY LenProperties
<1> DEFINE u == query'[q].urgency
<1>1. ASSUME NEW v \in Urgency, u # v PROVE queue'[v] = queue[v]
  BY <1>1 DEF Push
<1>2. ASSUME NEW v \in Urgency, u = v
      PROVE  queue'[v] = IF v = Needed THEN <<q>> \o queue[v] ELSE Append(queue[v], q)
  BY <1>2 DEF Push
<1>3. ASSUME NEW v \in Urgency
      PROVE  /\ NewestFirst(queue[v]) => NewestFirst(<<q>> \o queue[v])
             /\ OldestFirst(queue[v]) => OldestFirst(Append(queue[v], q))
  BY <1>d, <1>3, PushedInOrder
<1> HIDE DEF u
<1>4. NewestFirst(queue'[Needed])
  <2>1. CASE u = Needed
    BY <1>n, <1>2, <1>3, <2>1
  <2> QED
    BY <1>n, <1>1, <2>1
<1>5. ASSUME NEW v \in {Desired, Bulk} PROVE OldestFirst(queue'[v])
  <2>1. v \in Urgency /\ v # Needed /\ OldestFirst(queue[v])
    BY <1>n, <1>5
  <2>2. CASE u = v
    BY <1>2, <1>3, <2>1, <2>2
  <2> QED
    BY <1>1, <2>1, <2>2
<1> QED
  BY <1>4, <1>5

(* Every step of every thread keeps the queues in order. *)
LEMMA OrderStep ==
  ASSUME TypeInv, PhaseInv, OrderInv, [Next]_vars
  PROVE  OrderInv'
<1> USE DEF dbVars, mainVars, queryVars, flagVars, cacheVars, workerVars
<1>n. /\ Needed = 0 /\ Desired = 1 /\ Bulk = 2 /\ Urgency = {0, 1, 2}
  BY DEF Needed, Desired, Bulk, Urgency
<1>t. /\ queue \in [Urgency -> Seq(DOMAIN query)] /\ query \in Seq(QueryRecord)
      /\ Len(query) \in Nat /\ DOMAIN query = 1..Len(query)
      /\ \A u \in Urgency : \A i \in DOMAIN queue[u] : queue[u][i] \in 1..Len(query)
  <2>1. queue \in [Urgency -> Seq(DOMAIN query)] /\ query \in Seq(QueryRecord)
    BY DEF TypeInv, TypeOK
  <2>2. Len(query) \in Nat /\ DOMAIN query = 1..Len(query)
    BY <2>1, LenProperties
  <2> QED
    BY <2>1, <2>2, ElementOfSeq, LenProperties
<1>1. CASE UNCHANGED <<queue, query, mainPc, request>>
  BY <1>1 DEF OrderInv
<1>2. CASE UNCHANGED queue /\ mainPc' # "enqueue"
  BY <1>2 DEF OrderInv
<1>3. ASSUME NEW r, query' = Append(query, r), r \in QueryRecord, UNCHANGED queue,
             request' = Len(query) + 1
      PROVE  OrderInv'
  <2>1. Len(query') = Len(query) + 1
    BY <1>3, <1>t, AppendGrows
  <2> QED
    BY <1>3, <1>t, <2>1 DEF OrderInv
<1>4. CASE MainStep
  <2>1. ASSUME NEW loc \in Location, NEW kind \in RequestKinds,
               GetWaveform(loc, kind)
        PROVE  OrderInv'
    <3>1. [loc |-> loc, urgency |-> kind.urgency, forced |-> kind.forced] \in QueryRecord
      <4>1. RequestKinds \subseteq [urgency : Urgency, forced : BOOLEAN]
        BY DEF RequestKinds, Urgency
      <4> QED
        BY <4>1 DEF QueryRecord
    <3>2. CASE mainPc' = "enqueue"
      BY <1>3, <2>1, <3>1, <3>2 DEF GetWaveform, NewQuery
    <3> QED
      BY <1>2, <2>1, <3>2 DEF GetWaveform
  <2>2. CASE Enqueue
    <3>1. OrderInv /\ Push(request) /\ mainPc = "enqueue" /\ mainPc' # "enqueue"
      BY <2>2 DEF Enqueue
    <3>2. request \in Nat
      BY <1>t, <3>1 DEF OrderInv
    <3> QED
      BY <1>t, <3>1, <3>2, PushKeepsOrder DEF OrderInv
  <2>3. ASSUME NEW loc \in Location, RescanNext(loc) PROVE OrderInv'
    <3>1. [loc |-> loc, urgency |-> Bulk, forced |-> TRUE] \in QueryRecord
      BY <1>n DEF QueryRecord
    <3> QED
      BY <1>3, <2>3, <3>1 DEF RescanNext, NewQuery
  <2> QED
    BY <1>1, <1>2, <1>4, <2>1, <2>2, <2>3 DEF MainStep, StartReturns,
       StartRescan, RemoveWaveform, AnswerLibrary, Shutdown, JoinCache
<1>5. CASE CacheStep
  <2>1. CASE LoadJob
    <3>1. mainPc' # "enqueue"
      BY <2>1 DEF LoadJob, PhaseInv, Starting
    <3>2. CASE Push(Len(query) + 1)
      <4>0. PICK n \in Nat : n = Len(query) + 1
        BY <1>t
      <4>1. \A u \in Urgency : \A i \in DOMAIN queue[u] : queue[u][i] < n
        BY <1>t, <4>0
      <4>a. /\ Push(n)
            /\ NewestFirst(queue[Needed])
            /\ OldestFirst(queue[Desired])
            /\ OldestFirst(queue[Bulk])
        BY <3>2, <4>0 DEF OrderInv
      <4>2. /\ NewestFirst(queue'[Needed])
            /\ OldestFirst(queue'[Desired])
            /\ OldestFirst(queue'[Bulk])
        BY <1>t, <4>1, <4>a, PushKeepsOrder
      <4> QED
        BY <3>1, <4>2 DEF OrderInv
    <3>3. CASE UNCHANGED queue
      BY <1>2, <3>1, <3>3
    <3> QED
      BY <2>1, <3>2, <3>3 DEF LoadJob
  <2> QED
    BY <1>1, <1>5, <2>1 DEF CacheStep, LoadJobs, StartWorkers, CacheCheck,
       CacheBlock, SetTerminate, AbortAnalyses, NotifyWorkers, JoinWorkers,
       CollectJobs, InsertJob, CommitJobs
<1>6. ASSUME NEW w \in Worker, WorkerLockStep(w) PROVE OrderInv'
  <2>1. ASSUME NEW u \in Urgency, WorkerTakes(w, u) PROVE OrderInv'
    <3>1. queue' = [queue EXCEPT ![u] = Tail(@)] /\ queue[u] # << >>
          /\ UNCHANGED <<query, mainPc, request>>
      BY <2>1 DEF WorkerTakes, PopFront, StopsAt
    <3>2. DOMAIN query \in SUBSET Nat /\ queue[u] \in Seq(DOMAIN query)
      BY <1>t
    <3>3. /\ NewestFirst(queue[u]) => NewestFirst(Tail(queue[u]))
          /\ OldestFirst(queue[u]) => OldestFirst(Tail(queue[u]))
      BY <3>1, <3>2, TailInOrder
    <3>4. \A i \in DOMAIN Tail(queue[u]) :
            i + 1 \in DOMAIN queue[u] /\ Tail(queue[u])[i] = queue[u][i + 1]
      BY <3>1, <3>2, HeadTailProperties, LenProperties
    <3>5. mainPc' = "enqueue" =>
            /\ request' = Len(query')
            /\ \A v \in Urgency : \A i \in DOMAIN queue'[v] : queue'[v][i] < request'
      BY <1>t, <3>1, <3>4 DEF OrderInv
    <3> QED
      BY <1>n, <1>t, <3>1, <3>3, <3>5 DEF OrderInv
  <2> QED
    BY <1>1, <1>6, <2>1 DEF WorkerLockStep, WorkerKeeps, WorkerSleeps, WorkerExits
<1>7. ASSUME NEW w \in Worker, WorkerFileStep(w) \/ WorkerSpuriousWake(w)
      PROVE  OrderInv'
  BY <1>1, <1>7 DEF WorkerFileStep, WorkerSpuriousWake, WorkerBlocks, BeginFile,
     LibraryAnswered, LibraryGivenUp, OpenDecoder, RenderChunk, PutFile, PutWave,
     Elide, FlushAborted
<1>8. CASE Restart \/ Crash
  BY <1>8, <1>n DEF Restart, Crash, StartProcess, OrderInv, NewestFirst, OldestFirst
<1>9. CASE CacheSpuriousWake \/ Finished \/ UNCHANGED vars
  BY <1>1, <1>9 DEF CacheSpuriousWake, Finished, vars
<1> QED
  BY <1>4, <1>5, <1>6, <1>7, <1>8, <1>9 DEF Next, SpuriousWake

(* The queues are in order in every state. *)
LEMMA OrderAlways == Spec => []OrderInv
<1>1. Init => OrderInv
  BY DEF Init, FreshProcess, OrderInv, NewestFirst, OldestFirst, Urgency, Needed,
     Desired, Bulk
<1>2. TypeInv /\ PhaseInv /\ OrderInv /\ [Next]_vars => OrderInv'
  BY OrderStep
<1> QED
  BY <1>1, <1>2, TypeAlways, PhaseAlways, PTL DEF Spec

(* The needed queue always has the newest request in front and the two
   others the oldest, whoever pushes and whoever takes. *)
THEOREM QueuesInOrder == Spec => []QueueOrder
<1>1. OrderInv => QueueOrder
  BY DEF OrderInv, QueueOrder, NewestFirst, OldestFirst
<1> QED
  BY <1>1, OrderAlways, PTL

-----------------------------------------------------------------------------
(* What a sequence holds, after one element was added or the first removed. *)
In(s, x) == \E i \in DOMAIN s : s[i] = x

LEMMA InPushed ==
  ASSUME NEW S, NEW s \in Seq(S), NEW e \in S
  PROVE  \A x : /\ In(<<e>> \o s, x) <=> In(s, x) \/ x = e
                /\ In(Append(s, e), x) <=> In(s, x) \/ x = e
<1>1. Len(s) \in Nat /\ DOMAIN s = 1..Len(s)
  BY LenProperties
<1>2. /\ <<e>> \o s \in Seq(S) /\ Len(<<e>> \o s) = Len(s) + 1
      /\ \A i \in 1..(Len(s) + 1) :
           (<<e>> \o s)[i] = IF i <= 1 THEN e ELSE s[i - 1]
  <2>1. <<e>> \in Seq(S) /\ Len(<<e>>) = 1 /\ <<e>>[1] = e
    OBVIOUS
  <2> QED
    BY <1>1, <2>1, ConcatProperties
<1>3. DOMAIN (<<e>> \o s) = 1..(Len(s) + 1)
  BY <1>2, LenProperties
<1>4. ASSUME NEW x PROVE In(<<e>> \o s, x) <=> In(s, x) \/ x = e
  <2>1. (<<e>> \o s)[1] = e /\ 1 \in 1..(Len(s) + 1)
    BY <1>1, <1>2
  <2>2. ASSUME NEW i \in 1..Len(s)
        PROVE  (<<e>> \o s)[i + 1] = s[i] /\ i + 1 \in 1..(Len(s) + 1)
    BY <1>1, <1>2
  <2>3. ASSUME NEW i \in 1..(Len(s) + 1)
        PROVE  (<<e>> \o s)[i] = e \/ \E j \in 1..Len(s) : (<<e>> \o s)[i] = s[j]
    <3>1. CASE i = 1
      BY <2>1, <3>1
    <3>2. CASE i # 1
      <4>1. i - 1 \in 1..Len(s) /\ (<<e>> \o s)[i] = s[i - 1]
        BY <1>1, <1>2, <3>2
      <4> QED
        BY <4>1
    <3> QED
      BY <3>1, <3>2
  <2>4. In(<<e>> \o s, x) => In(s, x) \/ x = e
    BY <1>1, <1>3, <2>3 DEF In
  <2>5. x = e => In(<<e>> \o s, x)
    BY <1>3, <2>1 DEF In
  <2>6. In(s, x) => In(<<e>> \o s, x)
    BY <1>1, <1>3, <2>2 DEF In
  <2> QED
    BY <2>4, <2>5, <2>6
<1>5. ASSUME NEW x PROVE In(Append(s, e), x) <=> In(s, x) \/ x = e
  <2>1. /\ DOMAIN Append(s, e) = 1..(Len(s) + 1)
        /\ \A i \in 1..Len(s) : Append(s, e)[i] = s[i]
        /\ Append(s, e)[Len(s) + 1] = e
    BY <1>1, AppendGrows
  <2> QED
    BY <1>1, <2>1 DEF In
<1> QED
  BY <1>4, <1>5

LEMMA InTail ==
  ASSUME NEW S, NEW s \in Seq(S), s # << >>,
         \A i, j \in DOMAIN s : s[i] = s[j] => i = j
  PROVE  /\ In(s, Head(s))
         /\ \A x : In(Tail(s), x) <=> In(s, x) /\ x # Head(s)
<1>1. Len(s) \in Nat /\ Len(s) # 0 /\ DOMAIN s = 1..Len(s)
  BY LenProperties, EmptySeq
<1>2. /\ Tail(s) \in Seq(S) /\ Len(Tail(s)) = Len(s) - 1
      /\ \A i \in 1..Len(Tail(s)) : Tail(s)[i] = s[i + 1]
      /\ Head(s) = s[1]
  BY HeadTailProperties
<1>3. DOMAIN Tail(s) = 1..(Len(s) - 1)
  BY <1>2, LenProperties
<1>4. ASSUME NEW x, In(Tail(s), x) PROVE In(s, x) /\ x # Head(s)
  <2>1. PICK i \in 1..(Len(s) - 1) : Tail(s)[i] = x
    BY <1>3, <1>4 DEF In
  <2>2. s[i + 1] = x /\ i + 1 \in DOMAIN s /\ 1 \in DOMAIN s /\ i + 1 # 1
    BY <1>1, <1>2, <2>1
  <2> QED
    BY <1>2, <2>2 DEF In
<1>5. ASSUME NEW x, In(s, x), x # Head(s) PROVE In(Tail(s), x)
  <2>1. PICK i \in 1..Len(s) : s[i] = x
    BY <1>1, <1>5 DEF In
  <2>2. i # 1
    BY <1>2, <1>5, <2>1
  <2>3. i - 1 \in 1..(Len(s) - 1) /\ (i - 1) + 1 = i
    BY <1>1, <2>1, <2>2
  <2>4. Tail(s)[i - 1] = x
    BY <1>2, <2>1, <2>3
  <2> QED
    BY <1>3, <2>3, <2>4 DEF In
<1>6. In(s, Head(s))
  <2>1. 1 \in DOMAIN s
    BY <1>1
  <2> QED
    BY <1>2, <2>1 DEF In
<1> QED
  BY <1>4, <1>5, <1>6

-----------------------------------------------------------------------------
(* EveryQueryInOnePlace in parts, and what makes it inductive: each query
   waits in the queue of its urgency, so it is never in two. *)
QueryPlaced(q) ==
  /\ outcome[q] = "pending" <=> (request = q \/ Queued(q) \/ Held(q))
  /\ outcome[q] = "requeued" <=> Flushed(q)
  /\ ~(request = q /\ Queued(q))
  /\ ~(request = q /\ Held(q))
  /\ ~(Queued(q) /\ Held(q))

SlotsOnce ==
  \A w, x \in Worker, u, v \in Urgency :
    slots[w][u] = slots[x][v] /\ slots[w][u] # NoQuery => w = x /\ u = v

FlushOnce ==
  \A i, j \in DOMAIN flushQueue : flushQueue[i] = flushQueue[j] => i = j

InQueue(u, q) == In(queue[u], q)

UrgencyKept ==
  \A u \in Urgency : \A q : InQueue(u, q) => query[q].urgency = u

PlaceInv ==
  /\ \A q \in DOMAIN query : QueryPlaced(q)
  /\ SlotsOnce
  /\ FlushOnce
  /\ UrgencyKept

(* The types, in the words of this module. *)
LEMMA Facts ==
  ASSUME TypeInv, OrderInv
  PROVE  /\ query \in Seq(QueryRecord) /\ Len(query) \in Nat
         /\ DOMAIN query = 1..Len(query) /\ DOMAIN outcome = 1..Len(query)
         /\ outcome \in Seq(Outcome)
         /\ queue \in [Urgency -> Seq(1..Len(query))]
         /\ flushQueue \in Seq(1..Len(query))
         /\ slots \in [Worker -> [Urgency -> {0} \cup 1..Len(query)]]
         /\ current \in [Worker -> Urgency]
         /\ request \in {0} \cup 1..Len(query)
         /\ NoQuery = 0
         /\ \A q : Queued(q) <=> \E u \in Urgency : InQueue(u, q)
         /\ \A q : Flushed(q) <=> In(flushQueue, q)
         /\ \A u \in Urgency : \A q : InQueue(u, q) => q \in 1..Len(query)
         /\ \A q : In(flushQueue, q) => q \in 1..Len(query)
         /\ \A u \in Urgency : \A i, j \in DOMAIN queue[u] :
              queue[u][i] = queue[u][j] => i = j
<1>1. /\ query \in Seq(QueryRecord) /\ Len(query) \in Nat
      /\ DOMAIN query = 1..Len(query) /\ DOMAIN outcome = 1..Len(query)
      /\ outcome \in Seq(Outcome)
  BY LenProperties DEF TypeInv, TypeOK
<1>2. /\ queue \in [Urgency -> Seq(1..Len(query))]
      /\ flushQueue \in Seq(1..Len(query))
      /\ slots \in [Worker -> [Urgency -> {0} \cup 1..Len(query)]]
      /\ current \in [Worker -> Urgency]
      /\ request \in {0} \cup 1..Len(query)
      /\ NoQuery = 0
  BY <1>1 DEF TypeInv, TypeOK, NoQuery
<1>3. /\ \A q : Queued(q) <=> \E u \in Urgency : InQueue(u, q)
      /\ \A q : Flushed(q) <=> In(flushQueue, q)
  BY DEF Queued, Flushed, InQueue, In
<1>4. /\ \A u \in Urgency : \A q : InQueue(u, q) => q \in 1..Len(query)
      /\ \A q : In(flushQueue, q) => q \in 1..Len(query)
  <2>1. ASSUME NEW s \in Seq(1..Len(query)), NEW q, In(s, q)
        PROVE  q \in 1..Len(query)
    BY <2>1, ElementOfSeq, LenProperties DEF In
  <2> QED
    BY <1>2, <2>1 DEF InQueue
<1>5. \A u \in Urgency : \A i, j \in DOMAIN queue[u] :
        queue[u][i] = queue[u][j] => i = j
  <2> SUFFICES ASSUME NEW u \in Urgency, NEW i \in DOMAIN queue[u],
                      NEW j \in DOMAIN queue[u], queue[u][i] = queue[u][j]
               PROVE  i = j
    OBVIOUS
  <2>1. i \in Nat /\ j \in Nat /\ queue[u][i] \in Nat
    <3>1. queue[u] \in Seq(1..Len(query))
      BY <1>2
    <3>2. DOMAIN queue[u] = 1..Len(queue[u]) /\ Len(queue[u]) \in Nat
      BY <3>1, LenProperties
    <3>3. queue[u][i] \in 1..Len(query)
      BY <3>1, <3>2, ElementOfSeq
    <3> QED
      BY <1>1, <3>2, <3>3
  <2>2. NewestFirst(queue[u]) \/ OldestFirst(queue[u])
    BY DEF OrderInv, Urgency
  <2> QED
    BY <2>1, <2>2 DEF NewestFirst, OldestFirst
<1> QED
  BY <1>1, <1>2, <1>3, <1>4, <1>5


(* Query n has come into the queues, in that of urgency v only, and nothing
   else has changed in them. *)
QueueGains(n, v) ==
  /\ \A q : Queued(q)' <=> Queued(q) \/ q = n
  /\ \A u \in Urgency : \A q :
       InQueue(u, q)' => InQueue(u, q) \/ (q = n /\ u = v)

(* A push does just that. *)
LEMMA QueuedAfterPush ==
  ASSUME NEW S, queue \in [Urgency -> Seq(S)], NEW n \in S, NEW v \in Urgency,
         NEW s, s = <<n>> \o queue[v] \/ s = Append(queue[v], n),
         queue' = [queue EXCEPT ![v] = s]
  PROVE  QueueGains(n, v)
<1>1. ASSUME NEW u \in Urgency, u # v PROVE queue'[u] = queue[u]
  BY <1>1
<1>2. ASSUME NEW q PROVE In(queue'[v], q) <=> In(queue[v], q) \/ q = n
  <2>1. queue'[v] = <<n>> \o queue[v] \/ queue'[v] = Append(queue[v], n)
    OBVIOUS
  <2>2. queue[v] \in Seq(S)
    OBVIOUS
  <2>3. /\ In(<<n>> \o queue[v], q) <=> In(queue[v], q) \/ q = n
        /\ In(Append(queue[v], n), q) <=> In(queue[v], q) \/ q = n
    BY <2>2, InPushed
  <2> QED
    BY <2>1, <2>3
<1>3. \A q : Queued(q)' <=> \E u \in Urgency : In(queue'[u], q)
  BY DEF Queued, InQueue, In
<1>4. \A q : Queued(q) <=> \E u \in Urgency : In(queue[u], q)
  BY DEF Queued, In
<1>6. \A u \in Urgency : \A q :
        In(queue'[u], q) => In(queue[u], q) \/ (q = n /\ u = v)
  BY <1>1, <1>2
<1>7. ASSUME NEW q PROVE Queued(q)' <=> Queued(q) \/ q = n
  <2>1. Queued(q)' => Queued(q) \/ q = n
    BY <1>3, <1>4, <1>6
  <2>2. Queued(q) => Queued(q)'
    BY <1>1, <1>2, <1>3, <1>4
  <2>3. q = n => Queued(q)'
    BY <1>2, <1>3
  <2> QED
    BY <2>1, <2>2, <2>3
<1> QED
  BY <1>6, <1>7 DEF QueueGains, InQueue

(* Query n is new, with record r and outcome o, and nowhere yet; the old
   queries are as they were. *)
Fresh(n, r, o) ==
  /\ n \notin 1..Len(query) /\ n # NoQuery
  /\ DOMAIN query = 1..Len(query) /\ DOMAIN query' = 1..Len(query) \cup {n}
  /\ \A q \in 1..Len(query) : query'[q] = query[q] /\ outcome'[q] = outcome[q]
  /\ query'[n] = r /\ outcome'[n] = o
  /\ ~Queued(n) /\ ~Held(n) /\ ~Flushed(n)

(* Appending to the queries makes a fresh one. *)
LEMMA FreshQuery ==
  ASSUME TypeInv, OrderInv, NEW r \in QueryRecord, NEW o \in Outcome,
         query' = Append(query, r), outcome' = Append(outcome, o),
         NEW n, n = Len(query) + 1
  PROVE  Fresh(n, r, o)
<1>f. /\ query \in Seq(QueryRecord) /\ outcome \in Seq(Outcome)
      /\ Len(query) \in Nat /\ DOMAIN query = 1..Len(query) /\ NoQuery = 0
      /\ slots \in [Worker -> [Urgency -> {0} \cup 1..Len(query)]]
  BY Facts
<1>1. Len(outcome) = Len(query)
  BY DEF TypeInv, TypeOK
<1>2. /\ DOMAIN query' = 1..(Len(query) + 1)
      /\ \A q \in 1..Len(query) : query'[q] = query[q]
      /\ query'[Len(query) + 1] = r
  BY <1>f, AppendGrows
<1>3. /\ \A q \in 1..Len(outcome) : outcome'[q] = outcome[q]
      /\ outcome'[Len(outcome) + 1] = o
  BY <1>f, <1>1, AppendGrows
<1>4. n \in Nat /\ n \notin 1..Len(query) /\ n # 0 /\ 1..n = 1..Len(query) \cup {n}
  BY <1>f
<1>5. ~Queued(n) /\ ~Flushed(n)
  BY <1>4, Facts
<1>6. ~Held(n)
  BY <1>4, <1>f DEF Held
<1>7. DOMAIN query' = 1..Len(query) \cup {n}
  BY <1>2, <1>4
<1>8. query'[n] = r /\ outcome'[n] = o
  BY <1>1, <1>2, <1>3
<1>9. \A q \in 1..Len(query) : query'[q] = query[q] /\ outcome'[q] = outcome[q]
  BY <1>1, <1>2, <1>3
<1> QED
  BY <1>f, <1>4, <1>5, <1>6, <1>7, <1>8, <1>9 DEF Fresh

(* A query created with a result, or for get_waveform to hold. *)
LEMMA CreatedPlaced ==
  ASSUME TypeInv, OrderInv, PlaceInv, NEW r \in QueryRecord, NEW o \in Outcome,
         query' = Append(query, r), outcome' = Append(outcome, o),
         UNCHANGED <<queue, flushQueue, slots>>, request = NoQuery,
         \/ o = "pending" /\ request' = Len(query) + 1
         \/ o \notin {"pending", "requeued"} /\ request' = request
  PROVE  PlaceInv'
<1>1. PICK n : n = Len(query) + 1
  OBVIOUS
<1>0. Fresh(n, r, o)
  BY <1>1, FreshQuery
<1>2. /\ n \notin 1..Len(query) /\ n # NoQuery
      /\ DOMAIN query = 1..Len(query) /\ DOMAIN query' = 1..Len(query) \cup {n}
      /\ \A q \in 1..Len(query) : query'[q] = query[q] /\ outcome'[q] = outcome[q]
      /\ outcome'[n] = o
  BY <1>0 DEF Fresh
<1>3. ~Queued(n) /\ ~Held(n) /\ ~Flushed(n)
  BY <1>0 DEF Fresh
<1>4. ASSUME NEW q
      PROVE  /\ Queued(q)' <=> Queued(q)
             /\ Held(q)' <=> Held(q)
             /\ Flushed(q)' <=> Flushed(q)
  BY DEF Queued, Held, Flushed
<1>5. NoQuery \notin 1..Len(query)
  BY Facts
<1>6. QueryPlaced(n)'
  BY <1>1, <1>2, <1>3, <1>4 DEF QueryPlaced
<1>7. ASSUME NEW q \in 1..Len(query) PROVE QueryPlaced(q)'
  <2>1. QueryPlaced(q)
    BY <1>2 DEF PlaceInv
  <2>2. request # q /\ request' # q
    BY <1>1, <1>2, <1>5
  <2>3. outcome'[q] = outcome[q]
    BY <1>2
  <2> QED
    BY <1>4, <2>1, <2>2, <2>3 DEF QueryPlaced
<1>8. (\A q \in DOMAIN query : QueryPlaced(q))'
  BY <1>2, <1>6, <1>7
<1>9. SlotsOnce' /\ FlushOnce'
  BY DEF PlaceInv, SlotsOnce, FlushOnce
<1>10. UrgencyKept'
  <2>1. \A u \in Urgency : \A q : InQueue(u, q) => q \in 1..Len(query)
    BY Facts
  <2> QED
    BY <1>2, <2>1 DEF PlaceInv, UrgencyKept, InQueue
<1> QED
  BY <1>8, <1>9, <1>10 DEF PlaceInv

(* The push at the end of get_waveform. *)
LEMMA PushPlaced ==
  ASSUME TypeInv, OrderInv, PlaceInv, request # NoQuery, request' = NoQuery,
         Push(request), UNCHANGED <<query, outcome, flushQueue, slots>>
  PROVE  PlaceInv'
<1>1. /\ DOMAIN query = 1..Len(query) /\ NoQuery \notin 1..Len(query)
      /\ request \in 1..Len(query) /\ query \in Seq(QueryRecord)
  BY Facts
<1>s. PICK S : queue \in [Urgency -> Seq(S)] /\ request \in S
  BY <1>1, Facts
<1>2. PICK v \in Urgency : query'[request].urgency = v
  <2>1. query[request] \in QueryRecord
    BY <1>1, ElementOfSeq
  <2> QED
    BY <2>1 DEF QueryRecord
<1>3. QueueGains(request, v)
  <2>1. PICK s : /\ s = <<request>> \o queue[v] \/ s = Append(queue[v], request)
                 /\ queue' = [queue EXCEPT ![v] = s]
    BY <1>2 DEF Push
  <2> QED
    BY <1>s, <1>2, <2>1, QueuedAfterPush
<1>4. ASSUME NEW q
      PROVE  /\ Held(q)' <=> Held(q)
             /\ Flushed(q)' <=> Flushed(q)
  BY DEF Held, Flushed
<1>5. ASSUME NEW q \in 1..Len(query) PROVE QueryPlaced(q)'
  <2>1. QueryPlaced(q)
    BY <1>1 DEF PlaceInv
  <2>2. request' # q /\ outcome'[q] = outcome[q]
    BY <1>1
  <2> QED
    BY <1>3, <1>4, <2>1, <2>2 DEF QueueGains, QueryPlaced
<1>6. (\A q \in DOMAIN query : QueryPlaced(q))'
  BY <1>1, <1>5
<1>7. SlotsOnce' /\ FlushOnce'
  BY DEF PlaceInv, SlotsOnce, FlushOnce
<1>8. UrgencyKept'
  BY <1>2, <1>3 DEF QueueGains, PlaceInv, UrgencyKept
<1> QED
  BY <1>6, <1>7, <1>8 DEF PlaceInv

(* A fresh query that is pushed when it is created is only in its queue. *)
LEMMA FreshPushPlaced ==
  ASSUME TypeInv, OrderInv, PlaceInv, request = NoQuery, NEW n,
         NEW r \in QueryRecord, Fresh(n, r, "pending"),
         Push(n), UNCHANGED <<request, flushQueue, slots>>
  PROVE  PlaceInv'
<1>1. /\ n \notin 1..Len(query) /\ n # NoQuery
      /\ DOMAIN query' = 1..Len(query) \cup {n}
      /\ \A q \in 1..Len(query) : query'[q] = query[q] /\ outcome'[q] = outcome[q]
      /\ outcome'[n] = "pending" /\ query'[n].urgency \in Urgency
  BY DEF Fresh, QueryRecord
<1>2. DOMAIN query = 1..Len(query)
  BY Facts
<1>3. ~Queued(n) /\ ~Held(n) /\ ~Flushed(n)
  BY DEF Fresh
<1>4. PICK v \in Urgency : query'[n].urgency = v
  BY <1>1
<1>5. PICK S : queue \in [Urgency -> Seq(S)] /\ n \in S /\ Push(n)
  <2>1. \A s \in Seq(1..Len(query)) : s \in Seq(1..Len(query) \cup {n})
    BY SeqMonotonic
  <2>2. queue \in [Urgency -> Seq(1..Len(query))]
    BY Facts
  <2> QED
    BY <2>1, <2>2
<1>6. QueueGains(n, v)
  <2>1. PICK s : /\ s = <<n>> \o queue[v] \/ s = Append(queue[v], n)
                 /\ queue' = [queue EXCEPT ![v] = s]
    BY <1>4 DEF Push
  <2> QED
    BY <1>4, <1>5, <2>1, QueuedAfterPush
<1>7. ASSUME NEW q
      PROVE  /\ Held(q)' <=> Held(q)
             /\ Flushed(q)' <=> Flushed(q)
  BY DEF Held, Flushed
<1>8. NoQuery \notin 1..Len(query)
  BY Facts
<1>9. QueryPlaced(n)'
  BY <1>1, <1>3, <1>6, <1>7 DEF QueueGains, QueryPlaced
<1>10. ASSUME NEW q \in 1..Len(query) PROVE QueryPlaced(q)'
  <2>1. QueryPlaced(q)
    BY <1>2 DEF PlaceInv
  <2>2. request # q /\ request' # q /\ outcome'[q] = outcome[q] /\ q # n
    BY <1>1, <1>8
  <2> QED
    BY <1>6, <1>7, <2>1, <2>2 DEF QueueGains, QueryPlaced
<1>11. (\A q \in DOMAIN query : QueryPlaced(q))'
  BY <1>1, <1>9, <1>10
<1>12. SlotsOnce' /\ FlushOnce'
  BY DEF PlaceInv, SlotsOnce, FlushOnce
<1>13. UrgencyKept'
  <2>1. \A u \in Urgency : \A q : InQueue(u, q) => q \in 1..Len(query)
    BY Facts
  <2> QED
    BY <1>1, <1>4, <1>6, <2>1 DEF QueueGains, PlaceInv, UrgencyKept
<1> QED
  BY <1>11, <1>12, <1>13 DEF PlaceInv

(* load_data creates and pushes in one step. *)
LEMMA LoadPlaced ==
  ASSUME TypeInv, OrderInv, PlaceInv, NEW r \in QueryRecord,
         query' = Append(query, r), outcome' = Append(outcome, "pending"),
         NEW n, n = Len(query) + 1, Push(n), request = NoQuery,
         UNCHANGED <<request, flushQueue, slots>>
  PROVE  PlaceInv'
<1>1. "pending" \in Outcome
  BY DEF Outcome
<1>2. Fresh(n, r, "pending")
  BY <1>1, FreshQuery
<1> QED
  BY <1>2, FreshPushPlaced

(* A worker's take moves one query from the front of a queue to a slot. *)
LEMMA TakePlaced ==
  ASSUME TypeInv, OrderInv, PlaceInv, NEW w \in Worker, NEW u \in Urgency,
         queue[u] # << >>, slots[w][u] = NoQuery,
         slots' = [slots EXCEPT ![w][u] = Head(queue[u])],
         queue' = [queue EXCEPT ![u] = Tail(@)],
         UNCHANGED <<request, query, outcome, flushQueue>>
  PROVE  PlaceInv'
<1> DEFINE h == Head(queue[u])
<1>1. /\ DOMAIN query = 1..Len(query) /\ NoQuery \notin 1..Len(query)
      /\ slots \in [Worker -> [Urgency -> {0} \cup 1..Len(query)]]
      /\ queue \in [Urgency -> Seq(1..Len(query))]
  BY Facts
<1>2. In(queue[u], h) /\ \A x : In(Tail(queue[u]), x) <=> In(queue[u], x) /\ x # h
  <2>1. queue[u] \in Seq(1..Len(query))
    BY <1>1
  <2>2. \A i, j \in DOMAIN queue[u] : queue[u][i] = queue[u][j] => i = j
    BY Facts
  <2> QED
    BY <2>1, <2>2, InTail
<1>3. h \in 1..Len(query)
  BY <1>2, Facts DEF InQueue
<1> HIDE DEF h
<1>4. /\ InQueue(u, h)
      /\ \A x : InQueue(u, x)' <=> InQueue(u, x) /\ x # h
      /\ \A v \in Urgency : v # u => \A x : InQueue(v, x)' <=> InQueue(v, x)
  <2>1. queue'[u] = Tail(queue[u])
    BY <1>1
  <2>2. \A v \in Urgency : v # u => queue'[v] = queue[v]
    BY <1>1
  <2> QED
    BY <1>2, <2>1, <2>2 DEF InQueue
<1>5. /\ \A x : Queued(x) <=> \E v \in Urgency : InQueue(v, x)
      /\ \A x : Queued(x)' <=> \E v \in Urgency : InQueue(v, x)'
  BY DEF Queued, InQueue, In
<1>6. \A x : Queued(x)' <=> Queued(x) /\ x # h
  BY <1>4, <1>5 DEF PlaceInv, UrgencyKept
<1>7. /\ slots'[w][u] = h
      /\ \A y \in Worker, v \in Urgency :
           ~(y = w /\ v = u) => slots'[y][v] = slots[y][v]
  BY <1>1 DEF h
<1>8. \A x \in 1..Len(query) : Held(x)' <=> Held(x) \/ x = h
  BY <1>1, <1>7 DEF Held
<1>9. \A x : Flushed(x)' <=> Flushed(x)
  BY DEF Flushed
<1>10. Queued(h) /\ ~Held(h) /\ outcome[h] = "pending" /\ request # h
  BY <1>1, <1>3, <1>4, <1>5 DEF PlaceInv, QueryPlaced
<1>11. ASSUME NEW q \in 1..Len(query) PROVE QueryPlaced(q)'
  <2>1. QueryPlaced(q)
    BY <1>1 DEF PlaceInv
  <2>2. request' = request /\ outcome'[q] = outcome[q]
    OBVIOUS
  <2> QED
    BY <1>6, <1>8, <1>9, <1>10, <2>1, <2>2 DEF QueryPlaced
<1>12. SlotsOnce'
  <2>1. \A y \in Worker, v \in Urgency : slots[y][v] # h
    BY <1>10 DEF Held
  <2>2. SlotsOnce
    BY DEF PlaceInv
  <2> QED
    BY <1>7, <2>1, <2>2 DEF SlotsOnce
<1>13. FlushOnce'
  BY DEF PlaceInv, FlushOnce
<1>14. UrgencyKept'
  BY <1>4 DEF PlaceInv, UrgencyKept
<1>15. (\A q \in DOMAIN query : QueryPlaced(q))'
  BY <1>1, <1>11
<1> QED
  BY <1>12, <1>13, <1>14, <1>15 DEF PlaceInv

(* The end of a query in a slot gives it a result, and a place in
   job_flush_queue if the result is aborted. *)
LEMMA ReleasePlaced ==
  ASSUME TypeInv, OrderInv, PlaceInv, NEW w \in Worker, workerPc[w] \in BusyPcs,
         NEW how, Release(w, how), how # "pending",
         \/ how = "requeued" /\ flushQueue' = Append(flushQueue, Job(w))
         \/ how # "requeued" /\ UNCHANGED flushQueue,
         UNCHANGED <<request, query, queue>>
  PROVE  PlaceInv'
<1> DEFINE j == Job(w)
           c == current[w]
<1>1. /\ DOMAIN query = 1..Len(query) /\ NoQuery \notin 1..Len(query)
      /\ DOMAIN outcome = 1..Len(query)
      /\ slots \in [Worker -> [Urgency -> {0} \cup 1..Len(query)]]
      /\ flushQueue \in Seq(1..Len(query)) /\ c \in Urgency /\ NoQuery = 0
  BY Facts
<1>2. slots[w][c] = j /\ j \in 1..Len(query)
  BY <1>1 DEF TypeInv, BusyHolds, Holds, Job
<1>3. /\ outcome' = [outcome EXCEPT ![j] = how]
      /\ slots' = [slots EXCEPT ![w][c] = NoQuery]
  BY DEF Release
<1>4. flushQueue' = flushQueue \/ flushQueue' = Append(flushQueue, j)
  OBVIOUS
<1>f. how = "requeued" => flushQueue' = Append(flushQueue, j)
  OBVIOUS
<1>g. how # "requeued" => flushQueue' = flushQueue
  OBVIOUS
<1> HIDE DEF j, c
<1>5. /\ slots'[w][c] = NoQuery
      /\ \A y \in Worker, v \in Urgency :
           ~(y = w /\ v = c) => slots'[y][v] = slots[y][v]
      /\ outcome'[j] = how
      /\ \A q \in 1..Len(query) : q # j => outcome'[q] = outcome[q]
  BY <1>1, <1>2, <1>3
<1>6. \A y \in Worker, v \in Urgency : slots[y][v] = j => y = w /\ v = c
  BY <1>1, <1>2 DEF PlaceInv, SlotsOnce
<1>7. ASSUME NEW x \in 1..Len(query) PROVE Held(x)' <=> Held(x) /\ x # j
  <2>1. ASSUME NEW y \in Worker, NEW v \in Urgency
        PROVE  slots'[y][v] = x <=> slots[y][v] = x /\ x # j
    BY <1>1, <1>2, <1>5, <1>6
  <2>2. Held(x)' <=> \E y \in Worker, v \in Urgency : slots'[y][v] = x
    BY DEF Held
  <2> QED
    BY <2>1, <2>2 DEF Held
<1>8. \A x : Queued(x)' <=> Queued(x)
  BY DEF Queued
<1>9. /\ \A x : Flushed(x) <=> In(flushQueue, x)
      /\ \A x : Flushed(x)' <=> In(flushQueue', x)
  BY DEF Flushed, In
<1>10. \A x : Flushed(x)' <=> Flushed(x) \/ (how = "requeued" /\ x = j)
  <2>1. CASE how = "requeued"
    <3>1. PICK S : flushQueue \in Seq(S) /\ j \in S
      BY <1>1, <1>2
    <3>2. \A x : /\ In(<<j>> \o flushQueue, x) <=> In(flushQueue, x) \/ x = j
                 /\ In(Append(flushQueue, j), x) <=> In(flushQueue, x) \/ x = j
      BY <3>1, InPushed
    <3> QED
      BY <1>9, <1>f, <2>1, <3>2
  <2>2. CASE how # "requeued"
    BY <1>9, <1>g, <2>2
  <2> QED
    BY <2>1, <2>2
<1>11. Held(j) /\ ~Queued(j) /\ request # j /\ outcome[j] = "pending" /\ ~Flushed(j)
  <2>1. Held(j)
    BY <1>1, <1>2 DEF Held
  <2> QED
    BY <1>1, <1>2, <2>1 DEF PlaceInv, QueryPlaced
<1>12. ASSUME NEW q \in 1..Len(query) PROVE QueryPlaced(q)'
  <2>1. QueryPlaced(q)
    BY <1>1 DEF PlaceInv
  <2>2. request' = request
    OBVIOUS
  <2>3. CASE q = j
    BY <1>5, <1>7, <1>8, <1>10, <1>11, <2>2, <2>3 DEF QueryPlaced
  <2>4. CASE q # j
    BY <1>5, <1>7, <1>8, <1>10, <2>1, <2>2, <2>4 DEF QueryPlaced
  <2> QED
    BY <2>3, <2>4
<1>13. SlotsOnce'
  BY <1>5 DEF PlaceInv, SlotsOnce
<1>14. FlushOnce'
  <2>1. CASE flushQueue' = flushQueue
    BY <2>1 DEF PlaceInv, FlushOnce
  <2>2. CASE flushQueue' = Append(flushQueue, j)
    <3>1. /\ DOMAIN Append(flushQueue, j) = 1..(Len(flushQueue) + 1)
          /\ DOMAIN flushQueue = 1..Len(flushQueue) /\ Len(flushQueue) \in Nat
          /\ \A i \in 1..Len(flushQueue) : Append(flushQueue, j)[i] = flushQueue[i]
          /\ Append(flushQueue, j)[Len(flushQueue) + 1] = j
      BY <1>1, <1>2, AppendGrows, LenProperties
    <3>2. \A i \in 1..Len(flushQueue) : flushQueue[i] # j
      BY <1>11, <3>1 DEF Flushed
    <3>3. \A i, k \in 1..Len(flushQueue) : flushQueue[i] = flushQueue[k] => i = k
      BY <3>1 DEF PlaceInv, FlushOnce
    <3> DEFINE f == Append(flushQueue, j)
               n == Len(flushQueue)
    <3>4. n \in Nat /\ f[n + 1] = j /\ \A i \in 1..n : f[i] = flushQueue[i]
      BY <3>1
    <3>5. DOMAIN f = 1..(n + 1)
      BY <3>1
    <3> HIDE DEF f
    <3>6. \A i, k \in 1..(n + 1) : f[i] = f[k] => i = k
      BY <3>2, <3>3, <3>4
    <3> QED
      BY <2>2, <3>5, <3>6 DEF FlushOnce, f
  <2> QED
    BY <1>4, <2>1, <2>2
<1>15. UrgencyKept'
  BY DEF PlaceInv, UrgencyKept, InQueue
<1>16. (\A q \in DOMAIN query : QueryPlaced(q))'
  BY <1>1, <1>12
<1> QED
  BY <1>13, <1>14, <1>15, <1>16 DEF PlaceInv

(* A worker that leaves drops what is in its slots. *)
LEMMA ExitPlaced ==
  ASSUME TypeInv, OrderInv, PlaceInv, NEW w \in Worker, WorkerExits(w)
  PROVE  PlaceInv'
<1>1. /\ DOMAIN query = 1..Len(query) /\ NoQuery \notin 1..Len(query)
      /\ DOMAIN outcome = 1..Len(query)
      /\ slots \in [Worker -> [Urgency -> {0} \cup 1..Len(query)]]
  BY Facts
<1>2. /\ UNCHANGED <<request, query, queue, flushQueue>>
      /\ outcome' = [q \in DOMAIN outcome |->
                       IF \E u \in Urgency : slots[w][u] = q
                       THEN "dropped" ELSE outcome[q]]
      /\ slots' = [slots EXCEPT ![w] = [u \in Urgency |-> NoQuery]]
  BY DEF WorkerExits, mainVars
<1>3. /\ \A v \in Urgency : slots'[w][v] = NoQuery
      /\ \A y \in Worker, v \in Urgency : y # w => slots'[y][v] = slots[y][v]
  BY <1>1, <1>2
<1>4. \A x : (Queued(x)' <=> Queued(x)) /\ (Flushed(x)' <=> Flushed(x))
  BY <1>2 DEF Queued, Flushed
<1>5. ASSUME NEW q \in 1..Len(query) PROVE QueryPlaced(q)'
  <2>1. QueryPlaced(q)
    BY <1>1 DEF PlaceInv
  <2>2. CASE \E u \in Urgency : slots[w][u] = q
    <3>1. Held(q) /\ ~Held(q)'
      BY <1>1, <1>3, <2>2 DEF Held, PlaceInv, SlotsOnce
    <3>2. outcome'[q] = "dropped" /\ request' = request
      BY <1>1, <1>2, <2>2
    <3> QED
      BY <1>4, <2>1, <3>1, <3>2 DEF QueryPlaced
  <2>3. CASE ~\E u \in Urgency : slots[w][u] = q
    <3>1. Held(q)' <=> Held(q)
      BY <1>1, <1>3, <2>3 DEF Held
    <3>2. outcome'[q] = outcome[q] /\ request' = request
      BY <1>1, <1>2, <2>3
    <3> QED
      BY <1>4, <2>1, <3>1, <3>2 DEF QueryPlaced
  <2> QED
    BY <2>2, <2>3
<1>6. SlotsOnce'
  BY <1>3 DEF PlaceInv, SlotsOnce
<1>7. FlushOnce' /\ UrgencyKept'
  BY <1>2 DEF PlaceInv, FlushOnce, UrgencyKept, InQueue
<1>8. (\A q \in DOMAIN query : QueryPlaced(q))'
  BY <1>1, <1>2, <1>5
<1> QED
  BY <1>6, <1>7, <1>8 DEF PlaceInv
(* A process that has just started has no query. *)
LEMMA EmptyPlaced ==
  /\ FreshProcess => PlaceInv
  /\ StartProcess => PlaceInv'
<1> USE DEF PlaceInv, QueryPlaced, SlotsOnce, FlushOnce, UrgencyKept, InQueue, In
<1>1. FreshProcess => PlaceInv
  BY DEF FreshProcess
<1>2. StartProcess => PlaceInv'
  BY DEF StartProcess
<1> QED
  BY <1>1, <1>2

(* Every step of every thread keeps each query in its one place. *)
LEMMA PlaceStep ==
  ASSUME TypeInv, PhaseInv, OrderInv, PlaceInv, [Next]_vars
  PROVE  PlaceInv'
<1> USE DEF dbVars, mainVars, queryVars, flagVars, cacheVars, workerVars
<1>1. CASE UNCHANGED <<request, query, outcome, queue, flushQueue, slots>>
  BY <1>1 DEF PlaceInv, QueryPlaced, SlotsOnce, FlushOnce, UrgencyKept, InQueue,
     Queued, Held, Flushed
<1>r. request # NoQuery <=> mainPc = "enqueue"
  BY DEF TypeInv, RequestHeld
<1>o. {"pending", "stored"} \subseteq Outcome
  BY DEF Outcome
<1>2. CASE MainStep
  <2>1. ASSUME NEW loc \in Location, NEW kind \in RequestKinds,
               GetWaveform(loc, kind)
        PROVE  PlaceInv'
    <3>1. PICK r \in QueryRecord : query' = Append(query, r)
      <4>1. RequestKinds \subseteq [urgency : Urgency, forced : BOOLEAN]
        BY DEF RequestKinds, Urgency
      <4>2. [loc |-> loc, urgency |-> kind.urgency, forced |-> kind.forced] \in QueryRecord
        BY <4>1 DEF QueryRecord
      <4> QED
        BY <2>1, <4>2 DEF GetWaveform, NewQuery
    <3>2. request = NoQuery /\ UNCHANGED <<queue, flushQueue, slots>>
      BY <1>r, <2>1 DEF GetWaveform
    <3>3. \/ outcome' = Append(outcome, "pending") /\ request' = Len(query) + 1
          \/ outcome' = Append(outcome, "stored") /\ request' = request
      BY <2>1 DEF GetWaveform
    <3>4. CASE outcome' = Append(outcome, "pending") /\ request' = Len(query) + 1
      BY <1>o, <3>1, <3>2, <3>4, CreatedPlaced
    <3>5. CASE outcome' = Append(outcome, "stored") /\ request' = request
      BY <1>o, <3>1, <3>2, <3>5, CreatedPlaced
    <3> QED
      BY <3>3, <3>4, <3>5
  <2>2. CASE Enqueue
    <3>1. /\ request # NoQuery /\ request' = NoQuery /\ Push(request)
          /\ UNCHANGED <<query, outcome, flushQueue, slots>>
      BY <1>r, <2>2 DEF Enqueue
    <3> QED
      BY <3>1, PushPlaced
  <2>3. ASSUME NEW loc \in Location, RescanNext(loc) PROVE PlaceInv'
    <3>1. PICK r \in QueryRecord : query' = Append(query, r)
      <4>1. [loc |-> loc, urgency |-> Bulk, forced |-> TRUE] \in QueryRecord
        BY DEF QueryRecord, Bulk, Urgency
      <4> QED
        BY <2>3, <4>1 DEF RescanNext, NewQuery
    <3>2. /\ outcome' = Append(outcome, "pending") /\ request' = Len(query) + 1
          /\ request = NoQuery /\ UNCHANGED <<queue, flushQueue, slots>>
      BY <1>r, <2>3 DEF RescanNext
    <3> QED
      BY <1>o, <3>1, <3>2, CreatedPlaced
  <2> QED
    BY <1>1, <1>2, <2>1, <2>2, <2>3 DEF MainStep, StartReturns, StartRescan,
       RemoveWaveform, AnswerLibrary, Shutdown, JoinCache
<1>3. CASE CacheStep
  <2>1. CASE LoadJob
    <3>1. request = NoQuery
      BY <1>r, <2>1 DEF LoadJob, PhaseInv, Starting
    <3>2. PICK r \in QueryRecord : query' = Append(query, r)
      <4>1. deque \in Seq(JobRow) /\ deque # << >>
        BY <2>1 DEF LoadJob, TypeInv, TypeOK
      <4>2. Head(deque) \in JobRow
        BY <4>1, HeadTailProperties
      <4>3. [loc |-> Head(deque).loc, urgency |-> Bulk, forced |-> Head(deque).user]
              \in QueryRecord
        BY <4>2 DEF JobRow, QueryRecord, Bulk, Urgency
      <4> QED
        BY <2>1, <4>3 DEF LoadJob, NewQuery
    <3>3. UNCHANGED <<request, flushQueue, slots>>
      BY <2>1 DEF LoadJob
    <3>4. CASE outcome' = Append(outcome, "pending") /\ Push(Len(query) + 1)
      <4>1. PICK n : n = Len(query) + 1 /\ Push(n)
        BY <3>4
      <4> QED
        BY <3>1, <3>2, <3>3, <3>4, <4>1, LoadPlaced
    <3>5. CASE outcome' = Append(outcome, "stored") /\ UNCHANGED queue
      BY <1>o, <3>1, <3>2, <3>3, <3>5, CreatedPlaced
    <3> QED
      BY <2>1, <3>4, <3>5 DEF LoadJob
  <2> QED
    BY <1>1, <1>3, <2>1 DEF CacheStep, LoadJobs, StartWorkers, CacheCheck,
       CacheBlock, SetTerminate, AbortAnalyses, NotifyWorkers, JoinWorkers,
       CollectJobs, InsertJob, CommitJobs
<1>4. ASSUME NEW w \in Worker, WorkerLockStep(w) PROVE PlaceInv'
  <2>1. ASSUME NEW u \in Urgency, WorkerTakes(w, u) PROVE PlaceInv'
    <3>1. /\ queue[u] # << >> /\ slots[w][u] = NoQuery
          /\ slots' = [slots EXCEPT ![w][u] = Head(queue[u])]
          /\ queue' = [queue EXCEPT ![u] = Tail(@)]
          /\ UNCHANGED <<request, query, outcome, flushQueue>>
      BY <2>1 DEF WorkerTakes, StopsAt, PopFront, Holds
    <3> QED
      BY <3>1, TakePlaced
  <2>2. CASE WorkerExits(w)
    BY <2>2, ExitPlaced
  <2> QED
    BY <1>1, <1>4, <2>1, <2>2 DEF WorkerLockStep, WorkerKeeps, WorkerSleeps
<1>5. ASSUME NEW w \in Worker, WorkerFileStep(w) PROVE PlaceInv'
  <2>1. ASSUME NEW how, how \notin {"pending", "requeued"}, Release(w, how),
               workerPc[w] \in BusyPcs,
               UNCHANGED <<request, query, queue, flushQueue>>
        PROVE  PlaceInv'
    BY <2>1, ReleasePlaced
  <2>2. CASE OpenDecoder(w)
    BY <1>1, <2>1, <2>2 DEF OpenDecoder, GoTo, BusyPcs
  <2>3. CASE RenderChunk(w)
    BY <1>1, <2>1, <2>3 DEF RenderChunk, GoTo, BusyPcs
  <2>4. CASE PutWave(w) \/ Elide(w)
    BY <2>1, <2>4 DEF PutWave, Elide, BusyPcs
  <2>5. CASE FlushAborted(w)
    <3>1. /\ Release(w, "requeued") /\ workerPc[w] \in BusyPcs
          /\ flushQueue' = Append(flushQueue, Job(w))
          /\ UNCHANGED <<request, query, queue>>
      BY <2>5 DEF FlushAborted, BusyPcs
    <3> QED
      BY <3>1, ReleasePlaced
  <2>6. CASE BeginFile(w) \/ LibraryAnswered(w) \/ LibraryGivenUp(w) \/ PutFile(w)
    BY <1>1, <2>6 DEF BeginFile, LibraryAnswered, LibraryGivenUp, PutFile, GoTo
  <2> QED
    BY <1>1, <1>5, <2>2, <2>3, <2>4, <2>5, <2>6 DEF WorkerFileStep, WorkerBlocks
<1>6. CASE Restart \/ Crash
  BY <1>6, EmptyPlaced DEF Restart, Crash
<1>7. CASE SpuriousWake \/ Finished \/ UNCHANGED vars
  BY <1>1, <1>7 DEF SpuriousWake, CacheSpuriousWake, WorkerSpuriousWake,
     Finished, vars
<1> QED
  BY <1>2, <1>3, <1>4, <1>5, <1>6, <1>7 DEF Next

(* Each query is in one place in every state. *)
LEMMA PlaceAlways == Spec => []PlaceInv
<1>1. Init => PlaceInv
  BY EmptyPlaced DEF Init
<1>2. TypeInv /\ PhaseInv /\ OrderInv /\ PlaceInv /\ [Next]_vars => PlaceInv'
  BY PlaceStep
<1> QED
  BY <1>1, <1>2, TypeAlways, PhaseAlways, OrderAlways, PTL DEF Spec

(* No query is lost, in two places, or analysed by two workers, whatever the
   main thread, the cache thread and the workers interleave. *)
THEOREM QueriesInOnePlace == Spec => []EveryQueryInOnePlace
<1>1. PlaceInv => EveryQueryInOnePlace
  BY DEF PlaceInv, QueryPlaced, SlotsOnce, FlushOnce, EveryQueryInOnePlace, Holds
<1> QED
  BY <1>1, PlaceAlways, PTL
-----------------------------------------------------------------------------
(* The first of a queue goes before the rest of it and before the queues of less
   urgent requests. *)
LEMMA FirstGoesBefore ==
  ASSUME TypeInv, OrderInv, PlaceInv, NEW u \in Urgency, queue[u] # << >>,
         \A v \in Urgency : v < u => queue[v] = << >>,
         NEW t, t = Head(queue[u])
  PROVE  /\ query[t].urgency = u
         /\ \A q \in DOMAIN query : Queued(q) /\ q # t => GoesBefore(t, q)
<1>n. /\ Needed = 0 /\ Desired = 1 /\ Bulk = 2 /\ Urgency = {0, 1, 2}
  BY DEF Needed, Desired, Bulk, Urgency
<1>s. queue[u] \in Seq(DOMAIN query)
  BY DEF TypeInv, TypeOK
<1>1. t = queue[u][1] /\ 1 \in DOMAIN queue[u]
  BY <1>s, HeadTailProperties, LenProperties, EmptySeq
<1>2. query[t].urgency = u
  BY <1>1 DEF PlaceInv, UrgencyKept, InQueue, In
<1>3. ASSUME NEW q \in DOMAIN query, Queued(q), q # t PROVE GoesBefore(t, q)
  <2>1. PICK v \in Urgency : \E i \in DOMAIN queue[v] : queue[v][i] = q
    BY <1>3 DEF Queued
  <2>2. query[q].urgency = v
    BY <2>1 DEF PlaceInv, UrgencyKept, InQueue, In
  <2>3. CASE v = u
    <3>1. PICK i \in DOMAIN queue[u] : queue[u][i] = q
      BY <2>1, <2>3
    <3>2. 1 < i
      BY <1>1, <1>3, <1>s, <3>1, LenProperties
    <3>3. CASE u = Needed
      <4>1. t > q
        BY <1>1, <3>1, <3>2, <3>3 DEF OrderInv, NewestFirst
      <4> QED
        BY <1>2, <2>2, <2>3, <3>3, <4>1 DEF GoesBefore
    <3>4. CASE u # Needed
      <4>1. t < q
        BY <1>n, <1>1, <3>1, <3>2, <3>4 DEF OrderInv, OldestFirst
      <4> QED
        BY <1>2, <2>2, <2>3, <3>4, <4>1 DEF GoesBefore
    <3> QED
      BY <3>3, <3>4
  <2>4. CASE v # u
    <3>1. ~(v < u)
      BY <2>1, EmptySeq, LenProperties
    <3>2. u < v
      BY <1>n, <2>4, <3>1
    <3> QED
      BY <1>2, <2>2, <3>2 DEF GoesBefore
  <2> QED
    BY <2>3, <2>4
<1> QED
  BY <1>2, <1>3

(* A worker looks at its slots and at all the queues under one lock, so a
   query it takes is the first in line of all there are. *)
THEOREM MostUrgentTaken == Spec => ServedInOrder
<1> DEFINE InOrder ==
      \A w \in Worker, u \in Urgency :
        LET t == slots'[w][u] IN
        t \notin {slots[w][u], NoQuery} =>
          /\ query[t].urgency = u
          /\ \A v \in Urgency : v < u => ~Holds(w, v)
          /\ \A q \in DOMAIN query : Queued(q) /\ q # t => GoesBefore(t, q)
<1>1. ASSUME TypeInv, OrderInv, PlaceInv, [Next]_vars PROVE [InOrder]_vars
  <2> USE DEF workerVars
  <2>t. slots \in [Worker -> [Urgency -> {NoQuery} \cup DOMAIN query]]
    BY <1>1 DEF TypeInv, TypeOK
  <2>1. CASE UNCHANGED slots
    BY <2>1
  <2>2. ASSUME NEW x \in Worker, NEW t \in Urgency, WorkerTakes(x, t) PROVE InOrder
    <3>1. /\ slots' = [slots EXCEPT ![x][t] = Head(queue[t])]
          /\ queue[t] # << >>
          /\ \A v \in Urgency : v < t => ~Holds(x, v) /\ queue[v] = << >>
      BY <2>2 DEF WorkerTakes, StopsAt
    <3>2. PICK h : h = Head(queue[t])
      OBVIOUS
    <3>3. /\ query[h].urgency = t
          /\ \A q \in DOMAIN query : Queued(q) /\ q # h => GoesBefore(h, q)
      BY <1>1, <3>1, <3>2, FirstGoesBefore
    <3>4. ASSUME NEW w \in Worker, NEW u \in Urgency, slots'[w][u] # slots[w][u]
          PROVE  w = x /\ u = t /\ slots'[w][u] = h
      BY <2>t, <3>1, <3>2, <3>4
    <3> QED
      BY <3>1, <3>3, <3>4
  <2>3. ASSUME NEW x \in Worker, NEW how, Release(x, how) PROVE InOrder
    BY <2>t, <2>3 DEF Release
  <2>4. ASSUME NEW x \in Worker, WorkerExits(x) PROVE InOrder
    BY <2>t, <2>4 DEF WorkerExits
  <2>5. CASE MainStep \/ CacheStep
    BY <2>1, <2>5 DEF MainStep, StartReturns, GetWaveform, Enqueue, StartRescan,
       RescanNext, RemoveWaveform, AnswerLibrary, Shutdown, JoinCache, CacheStep,
       LoadJobs, LoadJob, StartWorkers, CacheCheck, CacheBlock, SetTerminate,
       AbortAnalyses, NotifyWorkers, JoinWorkers, CollectJobs, InsertJob, CommitJobs
  <2>6. ASSUME NEW x \in Worker, WorkerLockStep(x) PROVE InOrder
    BY <2>1, <2>2, <2>4, <2>6 DEF WorkerLockStep, WorkerKeeps, WorkerSleeps
  <2>7. ASSUME NEW x \in Worker, WorkerFileStep(x) PROVE InOrder
    BY <2>1, <2>3, <2>7 DEF WorkerFileStep, WorkerBlocks, BeginFile,
       LibraryAnswered, LibraryGivenUp, OpenDecoder, RenderChunk, PutFile,
       PutWave, Elide, FlushAborted, GoTo
  <2>8. CASE Restart \/ Crash
    BY <2>8 DEF Restart, Crash, StartProcess
  <2>9. CASE SpuriousWake \/ Finished \/ UNCHANGED vars
    BY <2>1, <2>9 DEF SpuriousWake, CacheSpuriousWake, WorkerSpuriousWake,
       Finished, vars
  <2> QED
    BY <1>1, <2>5, <2>6, <2>7, <2>8, <2>9 DEF Next
<1> QED
  BY <1>1, TypeAlways, OrderAlways, PlaceAlways, PTL DEF Spec, ServedInOrder

-----------------------------------------------------------------------------
(* The job table: what a run finds there and what it leaves there. *)

(* A table that holds a row for a location. *)
HasLoc(t, loc) == \E i \in DOMAIN t : t[i].loc = loc

Asked(loc) == \E q \in DOMAIN query : LocOf(q) = loc

Waiting(q) == Queued(q) \/ Flushed(q)

-----------------------------------------------------------------------------
(* A worker that does not run holds no query. *)
Gone == {"unborn", "exited"}

GoneHoldsNone ==
  \A w \in Worker : workerPc[w] \in Gone => \A u \in Urgency : slots[w][u] = NoQuery

(* Every step of every thread keeps the slots of absent workers empty. *)
LEMMA GoneStep ==
  ASSUME TypeInv, GoneHoldsNone, [Next]_vars
  PROVE  GoneHoldsNone'
<1> USE DEF GoneHoldsNone, Gone, dbVars, mainVars, queryVars, flagVars, cacheVars,
        workerVars
<1>t. /\ workerPc \in [Worker -> WorkerPcs]
      /\ slots \in [Worker -> [Urgency -> {NoQuery} \cup DOMAIN query]]
  BY DEF TypeInv, TypeOK
<1>1. CASE UNCHANGED <<workerPc, slots>>
  BY <1>1
<1>2. ASSUME NEW w \in Worker, workerPc[w] \notin Gone,
             NEW pc, pc \notin Gone, workerPc' = [workerPc EXCEPT ![w] = pc],
             \A x \in Worker : x # w => slots'[x] = slots[x]
      PROVE  GoneHoldsNone'
  BY <1>t, <1>2
<1>3. CASE MainStep
  <2>1. CASE Enqueue
    <3>1. CASE workerPc' = workerPc
      BY <1>1, <2>1, <3>1 DEF Enqueue
    <3>2. CASE workerPc' # workerPc
      <4>1. PICK w \in Worker : /\ workerPc[w] = "waiting"
                                /\ workerPc' = [workerPc EXCEPT ![w] = "top"]
        BY <2>1, <3>2 DEF Enqueue, NotifyOneWorker
      <4> QED
        BY <1>2, <2>1, <4>1 DEF Enqueue
    <3> QED
      BY <3>1, <3>2
  <2> QED
    BY <1>1, <1>3, <2>1 DEF MainStep, StartReturns, GetWaveform, StartRescan,
       RescanNext, RemoveWaveform, AnswerLibrary, Shutdown, JoinCache
<1>4. CASE CacheStep
  <2>1. CASE StartWorkers
    BY <2>1 DEF StartWorkers
  <2>2. CASE NotifyWorkers
    BY <2>2, <1>t DEF NotifyWorkers
  <2> QED
    BY <1>1, <1>4, <2>1, <2>2 DEF CacheStep, LoadJobs, LoadJob, CacheCheck,
       CacheBlock, SetTerminate, AbortAnalyses, JoinWorkers, CollectJobs,
       InsertJob, CommitJobs
<1>5. ASSUME NEW w \in Worker, WorkerLockStep(w) PROVE GoneHoldsNone'
  <2>1. ASSUME NEW u \in Urgency, WorkerTakes(w, u) PROVE GoneHoldsNone'
    BY <1>2, <1>t, <2>1 DEF WorkerTakes
  <2>2. CASE WorkerExits(w)
    BY <1>t, <2>2 DEF WorkerExits
  <2> QED
    BY <1>2, <1>5, <2>1, <2>2 DEF WorkerLockStep, WorkerKeeps, WorkerSleeps
<1>6. ASSUME NEW w \in Worker, WorkerFileStep(w) \/ WorkerSpuriousWake(w)
      PROVE  GoneHoldsNone'
  <2>1. PICK pc : pc \notin Gone /\ workerPc' = [workerPc EXCEPT ![w] = pc]
    BY <1>6 DEF WorkerFileStep, WorkerBlocks, WorkerSpuriousWake, BeginFile,
       LibraryAnswered, LibraryGivenUp, OpenDecoder, RenderChunk, PutFile,
       PutWave, Elide, FlushAborted, GoTo, Release, NextSlot
  <2>2. workerPc[w] \notin Gone
    BY <1>6 DEF WorkerFileStep, WorkerBlocks, WorkerSpuriousWake, BeginFile,
       LibraryAnswered, LibraryGivenUp, OpenDecoder, RenderChunk, PutFile,
       PutWave, Elide, FlushAborted
  <2>3. \A x \in Worker : x # w => slots'[x] = slots[x]
    BY <1>6, <1>t DEF WorkerFileStep, WorkerBlocks, WorkerSpuriousWake, BeginFile,
       LibraryAnswered, LibraryGivenUp, OpenDecoder, RenderChunk, PutFile,
       PutWave, Elide, FlushAborted, GoTo, Release
  <2> QED
    BY <1>2, <2>1, <2>2, <2>3
<1>7. CASE Restart \/ Crash
  BY <1>7 DEF Restart, Crash, StartProcess
<1>8. CASE CacheSpuriousWake \/ Finished \/ UNCHANGED vars
  BY <1>1, <1>8 DEF CacheSpuriousWake, Finished, vars
<1> QED
  BY <1>3, <1>4, <1>5, <1>6, <1>7, <1>8 DEF Next, SpuriousWake

-----------------------------------------------------------------------------
(* Every job found at the start of the run has become a query of it. *)
JobsAsked ==
  /\ cachePc = "loading" => \A loc : HasLoc(jobs, loc) => HasLoc(deque, loc) \/ Asked(loc)
  /\ cachePc \notin {"open", "loading", "done"} =>
       \A loc : HasLoc(jobs, loc) => Asked(loc)

(* A query once created keeps its location. *)
LEMMA AskedStays ==
  ASSUME TypeInv, UNCHANGED query \/ \E r \in QueryRecord : query' = Append(query, r)
  PROVE  \A loc : Asked(loc) => Asked(loc)'
<1>1. CASE UNCHANGED query
  BY <1>1 DEF Asked, LocOf
<1>2. ASSUME NEW r \in QueryRecord, query' = Append(query, r)
      PROVE  \A loc : Asked(loc) => Asked(loc)'
  <2>1. /\ DOMAIN query = 1..Len(query) /\ Len(query) \in Nat
        /\ DOMAIN query' = 1..(Len(query) + 1)
        /\ \A q \in 1..Len(query) : query'[q] = query[q]
    BY <1>2, AppendGrows, LenProperties DEF TypeInv, TypeOK
  <2>2. \A q \in DOMAIN query : q \in DOMAIN query' /\ query'[q] = query[q]
    BY <2>1
  <2> QED
    BY <2>2 DEF Asked, LocOf
<1> QED
  BY <1>1, <1>2

(* Queries are only ever added while a process runs. *)
LEMMA QueriesGrow ==
  ASSUME TypeInv, [Next]_vars
  PROVE  \/ UNCHANGED query
         \/ \E r \in QueryRecord : query' = Append(query, r)
         \/ Restart \/ Crash
<1> USE DEF queryVars
<1>1. ASSUME NEW loc \in Location, NEW kind \in RequestKinds, GetWaveform(loc, kind)
      PROVE  \E r \in QueryRecord : query' = Append(query, r)
  <2>1. RequestKinds \subseteq [urgency : Urgency, forced : BOOLEAN]
    BY DEF RequestKinds, Urgency
  <2>2. [loc |-> loc, urgency |-> kind.urgency, forced |-> kind.forced] \in QueryRecord
    BY <2>1 DEF QueryRecord
  <2> QED
    BY <1>1, <2>2 DEF GetWaveform, NewQuery
<1>2. ASSUME NEW loc \in Location, RescanNext(loc)
      PROVE  \E r \in QueryRecord : query' = Append(query, r)
  <2>1. [loc |-> loc, urgency |-> Bulk, forced |-> TRUE] \in QueryRecord
    BY DEF QueryRecord, Bulk, Urgency
  <2> QED
    BY <1>2, <2>1 DEF RescanNext, NewQuery
<1>3. ASSUME LoadJob PROVE \E r \in QueryRecord : query' = Append(query, r)
  <2>1. deque \in Seq(JobRow) /\ deque # << >>
    BY <1>3 DEF LoadJob, TypeInv, TypeOK
  <2>2. Head(deque) \in JobRow
    BY <2>1, HeadTailProperties
  <2>3. [loc |-> Head(deque).loc, urgency |-> Bulk, forced |-> Head(deque).user]
          \in QueryRecord
    BY <2>2 DEF JobRow, QueryRecord, Bulk, Urgency
  <2> QED
    BY <1>3, <2>3 DEF LoadJob, NewQuery
<1>4. CASE MainStep
  BY <1>1, <1>2, <1>4 DEF MainStep, StartReturns, Enqueue, StartRescan,
     RemoveWaveform, AnswerLibrary, Shutdown, JoinCache
<1>5. CASE CacheStep
  BY <1>3, <1>5 DEF CacheStep, LoadJobs, StartWorkers, CacheCheck, CacheBlock,
     SetTerminate, AbortAnalyses, NotifyWorkers, JoinWorkers, CollectJobs,
     InsertJob, CommitJobs
<1>6. ASSUME NEW w \in Worker, WorkerLockStep(w) \/ WorkerFileStep(w)
      PROVE  UNCHANGED query
  BY <1>6 DEF WorkerLockStep, WorkerTakes, WorkerKeeps, WorkerSleeps, WorkerExits,
     WorkerFileStep, WorkerBlocks, BeginFile, LibraryAnswered, LibraryGivenUp,
     OpenDecoder, RenderChunk, PutFile, PutWave, Elide, FlushAborted
<1>7. CASE SpuriousWake \/ Finished \/ UNCHANGED vars
  BY <1>7 DEF SpuriousWake, CacheSpuriousWake, WorkerSpuriousWake, Finished, vars
<1> QED
  BY <1>4, <1>5, <1>6, <1>7 DEF Next

(* The first row of a table and its tail are the table. *)
LEMMA HeadOrTail ==
  ASSUME NEW S, NEW t \in Seq(S), t # << >>, NEW loc, HasLoc(t, loc)
  PROVE  Head(t).loc = loc \/ HasLoc(Tail(t), loc)
<1>1. PICK i \in DOMAIN t : t[i].loc = loc
  BY DEF HasLoc
<1>2. Len(t) \in Nat /\ DOMAIN t = 1..Len(t)
  BY LenProperties
<1>3. /\ Tail(t) \in Seq(S) /\ Len(Tail(t)) = Len(t) - 1 /\ Head(t) = t[1]
      /\ \A j \in 1..Len(Tail(t)) : Tail(t)[j] = t[j + 1]
  BY HeadTailProperties
<1>4. DOMAIN Tail(t) = 1..(Len(t) - 1)
  BY <1>3, LenProperties
<1>5. CASE i = 1
  BY <1>1, <1>3, <1>5
<1>6. CASE i # 1
  <2>1. i - 1 \in 1..(Len(t) - 1) /\ (i - 1) + 1 = i
    BY <1>1, <1>2, <1>6
  <2>2. Tail(t)[i - 1] = t[i]
    BY <1>2, <1>3, <2>1
  <2> QED
    BY <1>1, <1>4, <2>1, <2>2 DEF HasLoc
<1> QED
  BY <1>5, <1>6

(* Every step of every thread keeps the jobs of the run asked for. *)
LEMMA AskedStep ==
  ASSUME TypeInv, PhaseInv, JobsAsked, [Next]_vars
  PROVE  JobsAsked'
<1> USE DEF dbVars, mainVars, queryVars, flagVars, cacheVars, workerVars
<1>q. ~(Restart \/ Crash) => \A loc : Asked(loc) => Asked(loc)'
  BY QueriesGrow, AskedStays
<1>1. CASE UNCHANGED <<jobs, cachePc, deque>> /\ ~(Restart \/ Crash)
  BY <1>1, <1>q DEF JobsAsked
<1>2. CASE Restart \/ Crash
  BY <1>2 DEF Restart, Crash, StartProcess, JobsAsked
<1>3. ASSUME CacheStep \/ CacheSpuriousWake, ~(Restart \/ Crash) PROVE JobsAsked'
  <2>1. CASE LoadJobs
    BY <2>1 DEF LoadJobs, JobsAsked
  <2>2. CASE LoadJob
    <3>1. /\ cachePc = "loading" /\ cachePc' = "loading" /\ jobs' = jobs
          /\ deque # << >> /\ deque \in Seq(JobRow) /\ deque' = Tail(deque)
      BY <2>2 DEF LoadJob, TypeInv, TypeOK
    <3>0. PICK h : h = Head(deque).loc
      OBVIOUS
    <3>2. Asked(h)'
      <4>1. /\ query \in Seq(QueryRecord) /\ Len(query) \in Nat
            /\ DOMAIN query = 1..Len(query)
        BY LenProperties DEF TypeInv, TypeOK
      <4>2. PICK r \in QueryRecord : /\ query' = Append(query, r)
                                     /\ r.loc = h
        <5>1. Head(deque) \in JobRow
          BY <3>1, HeadTailProperties
        <5>2. [loc |-> Head(deque).loc, urgency |-> Bulk, forced |-> Head(deque).user]
                \in QueryRecord
          BY <5>1 DEF JobRow, QueryRecord, Bulk, Urgency
        <5> QED
          BY <2>2, <3>0, <5>2 DEF LoadJob, NewQuery
      <4>3. /\ DOMAIN query' = 1..(Len(query) + 1)
            /\ query'[Len(query) + 1] = r
        BY <4>1, <4>2, AppendGrows
      <4>4. \E n : n \in DOMAIN query' /\ query'[n].loc = h
        BY <4>1, <4>2, <4>3
      <4> QED
        BY <4>4 DEF Asked, LocOf
    <3>3. ASSUME NEW loc, HasLoc(jobs, loc) PROVE HasLoc(deque', loc) \/ Asked(loc)'
      <4>1. HasLoc(deque, loc) \/ Asked(loc)
        BY <3>1, <3>3 DEF JobsAsked
      <4>2. HasLoc(deque, loc) => h = loc \/ HasLoc(Tail(deque), loc)
        BY <3>0, <3>1, HeadOrTail
      <4>3. Asked(loc) => Asked(loc)'
        BY <1>3, <1>q
      <4> QED
        BY <3>1, <3>2, <4>1, <4>2, <4>3
    <3> QED
      BY <3>1, <3>3 DEF JobsAsked
  <2>3. CASE StartWorkers
    <3>1. /\ cachePc = "loading" /\ deque = << >> /\ cachePc' = "check"
          /\ jobs' = jobs
      BY <2>3 DEF StartWorkers
    <3>2. \A loc : ~HasLoc(deque, loc)
      BY <3>1 DEF HasLoc
    <3> QED
      BY <1>3, <1>q, <3>1, <3>2 DEF JobsAsked
  <2>4. CASE CacheCheck \/ CacheBlock \/ CacheSpuriousWake
    BY <1>3, <1>q, <2>4 DEF CacheCheck, CacheBlock, CacheSpuriousWake, JobsAsked
  <2>5. CASE SetTerminate \/ AbortAnalyses \/ NotifyWorkers \/ JoinWorkers
    BY <1>3, <1>q, <2>5 DEF SetTerminate, AbortAnalyses, NotifyWorkers,
       JoinWorkers, JobsAsked
  <2>6. CASE CollectJobs \/ InsertJob \/ CommitJobs
    BY <1>3, <1>q, <2>6 DEF CollectJobs, InsertJob, CommitJobs, JobsAsked
  <2> QED
    BY <1>3, <2>1, <2>2, <2>3, <2>4, <2>5, <2>6 DEF CacheStep
<1>4. ASSUME MainStep, ~(Restart \/ Crash) PROVE JobsAsked'
  <2>1. CASE Shutdown
    <3>1. /\ cachePc' = cachePc \/ (cachePc = "waiting" /\ cachePc' = "check")
          /\ UNCHANGED <<jobs, deque>>
      BY <2>1 DEF Shutdown
    <3> QED
      BY <1>4, <1>q, <3>1 DEF JobsAsked
  <2> QED
    BY <1>1, <1>4, <2>1 DEF MainStep, StartReturns, GetWaveform, Enqueue,
       StartRescan, RescanNext, RemoveWaveform, AnswerLibrary, JoinCache
<1>5. ASSUME NEW w \in Worker, WorkerLockStep(w) \/ WorkerFileStep(w),
             ~(Restart \/ Crash)
      PROVE  JobsAsked'
  BY <1>1, <1>5 DEF WorkerLockStep, WorkerTakes, WorkerKeeps, WorkerSleeps,
     WorkerExits, WorkerFileStep, WorkerBlocks, BeginFile, LibraryAnswered,
     LibraryGivenUp, OpenDecoder, RenderChunk, PutFile, PutWave, Elide, FlushAborted
<1>6. ASSUME (\E w \in Worker : WorkerSpuriousWake(w)) \/ Finished \/ UNCHANGED vars,
             ~(Restart \/ Crash)
      PROVE  JobsAsked'
  BY <1>1, <1>6 DEF WorkerSpuriousWake, Finished, vars
<1> QED
  BY <1>2, <1>3, <1>4, <1>5, <1>6 DEF Next, SpuriousWake

-----------------------------------------------------------------------------
(* From the collection to the end, a query that waits is in the rows that
   are inserted or still to be inserted, and in the end in the job table. *)
JobsSaved ==
  /\ cachePc = "insert" =>
       \A q \in DOMAIN query :
         Waiting(q) => HasLoc(inserted, LocOf(q)) \/ HasLoc(deque, LocOf(q))
  /\ cachePc = "done" =>
       \A q \in DOMAIN query : Waiting(q) => HasLoc(jobs, LocOf(q))

(* What a concatenation holds. *)
LEMMA InConcat ==
  ASSUME NEW S, NEW s \in Seq(S), NEW t \in Seq(S), NEW x, In(s, x) \/ In(t, x)
  PROVE  In(s \o t, x)
<1>1. /\ Len(s) \in Nat /\ Len(t) \in Nat
      /\ DOMAIN s = 1..Len(s) /\ DOMAIN t = 1..Len(t)
      /\ s \o t \in Seq(S) /\ Len(s \o t) = Len(s) + Len(t)
      /\ \A i \in 1..(Len(s) + Len(t)) :
           (s \o t)[i] = IF i <= Len(s) THEN s[i] ELSE t[i - Len(s)]
  BY LenProperties, ConcatProperties
<1>2. DOMAIN (s \o t) = 1..(Len(s) + Len(t))
  BY <1>1, LenProperties
<1>3. CASE In(s, x)
  <2>1. PICK i \in 1..Len(s) : s[i] = x
    BY <1>1, <1>3 DEF In
  <2>2. i \in 1..(Len(s) + Len(t)) /\ (s \o t)[i] = x
    BY <1>1, <2>1
  <2> QED
    BY <1>2, <2>2 DEF In
<1>4. CASE In(t, x)
  <2>1. PICK i \in 1..Len(t) : t[i] = x
    BY <1>1, <1>4 DEF In
  <2>2. Len(s) + i \in 1..(Len(s) + Len(t)) /\ ~(Len(s) + i <= Len(s))
        /\ (Len(s) + i) - Len(s) = i
    BY <1>1, <2>1
  <2>3. (s \o t)[Len(s) + i] = x
    BY <1>1, <2>1, <2>2
  <2> QED
    BY <1>2, <2>2, <2>3 DEF In
<1> QED
  BY <1>3, <1>4

(* flush_jobs collects every query that waits. *)
LEMMA AllCollected ==
  ASSUME TypeInv, NEW q \in DOMAIN query, Waiting(q)
  PROVE  In(Unfinished, q)
<1>1. /\ flushQueue \in Seq(DOMAIN query)
      /\ queue[Needed] \in Seq(DOMAIN query)
      /\ queue[Desired] \in Seq(DOMAIN query)
      /\ queue[Bulk] \in Seq(DOMAIN query)
  BY DEF TypeInv, TypeOK, Urgency, Needed, Desired, Bulk
<1>2. \/ In(flushQueue, q) \/ In(queue[Needed], q)
      \/ In(queue[Desired], q) \/ In(queue[Bulk], q)
  BY DEF Waiting, Queued, Flushed, In, Urgency
<1> DEFINE a == flushQueue \o queue[Needed]
           b == a \o queue[Desired]
<1>3. a \in Seq(DOMAIN query) /\ (In(flushQueue, q) \/ In(queue[Needed], q) => In(a, q))
  BY <1>1, InConcat, ConcatProperties
<1> HIDE DEF a
<1>4. b \in Seq(DOMAIN query) /\ (In(a, q) \/ In(queue[Desired], q) => In(b, q))
  BY <1>1, <1>3, InConcat, ConcatProperties
<1> HIDE DEF b
<1>5. In(b \o queue[Bulk], q)
  BY <1>1, <1>2, <1>3, <1>4, InConcat
<1> QED
  BY <1>5 DEF Unfinished, a, b

(* The location of a waiting query is in the rows collected from it. *)
LEMMA CollectedRows ==
  ASSUME TypeInv, CollectJobs, NEW q \in DOMAIN query, Waiting(q)
  PROVE  \E i \in DOMAIN deque' : deque'[i].loc = LocOf(q)
<1>1. PICK i \in DOMAIN Unfinished : Unfinished[i] = q
  BY AllCollected DEF In
<1>2. Unfinished \in Seq(DOMAIN query)
  <2>1. /\ flushQueue \in Seq(DOMAIN query)
        /\ queue[Needed] \in Seq(DOMAIN query)
        /\ queue[Desired] \in Seq(DOMAIN query)
        /\ queue[Bulk] \in Seq(DOMAIN query)
    BY DEF TypeInv, TypeOK, Urgency, Needed, Desired, Bulk
  <2> DEFINE a == flushQueue \o queue[Needed]
             b == a \o queue[Desired]
  <2>2. a \in Seq(DOMAIN query)
    BY <2>1, ConcatProperties
  <2> HIDE DEF a
  <2>3. b \in Seq(DOMAIN query)
    BY <2>1, <2>2, ConcatProperties
  <2> HIDE DEF b
  <2>4. b \o queue[Bulk] \in Seq(DOMAIN query)
    BY <2>1, <2>3, ConcatProperties
  <2> QED
    BY <2>4 DEF Unfinished, a, b
<1>3. DOMAIN Unfinished = 1..Len(Unfinished)
  BY <1>2, LenProperties
<1>4. /\ DOMAIN deque' = 1..Len(Unfinished)
      /\ \A j \in 1..Len(Unfinished) : deque'[j].loc = LocOf(Unfinished[j])
  BY DEF CollectJobs
<1> QED
  BY <1>1, <1>3, <1>4

(* Every step of every thread keeps the waiting queries saved. *)
LEMMA SavedStep ==
  ASSUME TypeInv, PhaseInv, JobsSaved, [Next]_vars
  PROVE  JobsSaved'
<1> USE DEF dbVars, mainVars, queryVars, flagVars, cacheVars, workerVars
<1>1. CASE UNCHANGED <<jobs, cachePc, deque, inserted, query, queue, flushQueue>>
  BY <1>1 DEF JobsSaved, Waiting, Queued, Flushed, LocOf
<1>2. CASE cachePc' \notin {"insert", "done"}
  BY <1>2 DEF JobsSaved
<1>3. ASSUME UNCHANGED <<query, queue, flushQueue>>
      PROVE  \A q \in DOMAIN query' :
               /\ q \in DOMAIN query
               /\ Waiting(q)' => Waiting(q)
               /\ LocOf(q)' = LocOf(q)
  BY <1>3 DEF Waiting, Queued, Flushed, LocOf
<1>4. CASE CacheStep
  <2>1. CASE CollectJobs
    <3>1. /\ cachePc' = "insert" /\ UNCHANGED <<query, queue, flushQueue>>
      BY <2>1 DEF CollectJobs
    <3>2. ASSUME NEW q \in DOMAIN query', Waiting(q)' PROVE HasLoc(deque, LocOf(q))'
      <4>1. q \in DOMAIN query /\ Waiting(q) /\ LocOf(q)' = LocOf(q)
        BY <1>3, <3>1, <3>2
      <4> QED
        BY <2>1, <4>1, CollectedRows DEF HasLoc
    <3> QED
      BY <3>1, <3>2 DEF JobsSaved
  <2>2. CASE InsertJob
    <3>1. /\ cachePc = "insert" /\ cachePc' = "insert"
          /\ UNCHANGED <<query, queue, flushQueue>>
          /\ deque # << >> /\ deque \in Seq(JobRow) /\ deque' = Tail(deque)
          /\ inserted \in Seq(JobRow)
      BY <2>2 DEF InsertJob, TypeInv, TypeOK
    <3>2. PICK h : h = Head(deque) /\ h \in JobRow
      BY <3>1, HeadTailProperties
    <3>3. CASE HasLoc(inserted, h.loc) /\ inserted' = inserted
      <4>1. ASSUME NEW loc, HasLoc(inserted, loc) \/ HasLoc(deque, loc)
            PROVE  HasLoc(inserted', loc) \/ HasLoc(deque', loc)
        <5>1. HasLoc(deque, loc) => h.loc = loc \/ HasLoc(Tail(deque), loc)
          BY <3>1, <3>2, HeadOrTail
        <5> QED
          BY <3>1, <3>3, <4>1, <5>1
      <4> QED
        BY <1>3, <3>1, <4>1 DEF JobsSaved
    <3>4. CASE inserted' = Append(inserted, h)
      <4>0. /\ DOMAIN inserted = 1..Len(inserted) /\ Len(inserted) \in Nat
            /\ DOMAIN inserted' = 1..(Len(inserted) + 1)
            /\ \A i \in 1..Len(inserted) : inserted'[i] = inserted[i]
            /\ inserted'[Len(inserted) + 1] = h
        BY <3>1, <3>2, <3>4, AppendGrows, LenProperties
      <4>1. HasLoc(inserted', h.loc)
        BY <4>0 DEF HasLoc
      <4>2. \A loc : HasLoc(inserted, loc) => HasLoc(inserted', loc)
        BY <4>0 DEF HasLoc
      <4>3. ASSUME NEW loc, HasLoc(inserted, loc) \/ HasLoc(deque, loc)
            PROVE  HasLoc(inserted', loc) \/ HasLoc(deque', loc)
        <5>1. HasLoc(deque, loc) => h.loc = loc \/ HasLoc(Tail(deque), loc)
          BY <3>1, <3>2, HeadOrTail
        <5> QED
          BY <3>1, <4>1, <4>2, <4>3, <5>1
      <4> QED
        BY <1>3, <3>1, <4>3 DEF JobsSaved
    <3>5. \/ HasLoc(inserted, h.loc) /\ inserted' = inserted
          \/ inserted' = Append(inserted, h)
      <4>1. DOMAIN inserted = 1..Len(inserted)
        BY <3>1, LenProperties
      <4> QED
        BY <2>2, <3>2, <4>1 DEF InsertJob, HasLoc
    <3> QED
      BY <3>3, <3>4, <3>5
  <2>3. CASE CommitJobs
    <3>1. /\ cachePc = "insert" /\ cachePc' = "done" /\ deque = << >>
          /\ jobs' = inserted /\ UNCHANGED <<query, queue, flushQueue>>
      BY <2>3 DEF CommitJobs
    <3>2. \A loc : ~HasLoc(deque, loc)
      BY <3>1 DEF HasLoc
    <3> QED
      BY <1>3, <3>1, <3>2 DEF JobsSaved
  <2>4. CASE CacheCheck
    BY <1>2, <2>4 DEF CacheCheck
  <2> QED
    BY <1>2, <1>4, <2>1, <2>2, <2>3, <2>4 DEF CacheStep, LoadJobs, LoadJob,
       StartWorkers, CacheBlock, SetTerminate, AbortAnalyses, NotifyWorkers,
       JoinWorkers
<1>5. CASE MainStep
  <2>1. CASE mainPc \notin {"start", "join", "quit"}
    <3>1. cachePc \notin {"insert", "done"}
      BY <2>1 DEF PhaseInv, Stopping
    <3>2. cachePc' \notin {"insert", "done"}
      BY <1>5, <3>1 DEF MainStep, StartReturns, GetWaveform, Enqueue, StartRescan,
         RescanNext, RemoveWaveform, AnswerLibrary, Shutdown, JoinCache
    <3> QED
      BY <1>2, <3>2
  <2>2. CASE mainPc \in {"start", "join", "quit"}
    BY <1>1, <1>5, <2>2 DEF MainStep, StartReturns, GetWaveform, Enqueue,
       StartRescan, RescanNext, RemoveWaveform, AnswerLibrary, Shutdown, JoinCache
  <2> QED
    BY <2>1, <2>2
<1>6. ASSUME NEW w \in Worker, WorkerLockStep(w) \/ WorkerFileStep(w)
      PROVE  JobsSaved'
  <2>1. workerPc[w] # "exited" /\ UNCHANGED cachePc
    BY <1>6 DEF WorkerLockStep, WorkerTakes, WorkerKeeps, WorkerSleeps,
       WorkerExits, WorkerFileStep, WorkerBlocks, BeginFile, LibraryAnswered,
       LibraryGivenUp, OpenDecoder, RenderChunk, PutFile, PutWave, Elide,
       FlushAborted
  <2>2. cachePc \notin {"insert", "done"}
    BY <2>1 DEF PhaseInv, Joined
  <2> QED
    BY <1>2, <2>1, <2>2
<1>7. CASE Restart \/ Crash
  BY <1>2, <1>7 DEF Restart, Crash, StartProcess
<1>8. CASE SpuriousWake \/ Finished \/ UNCHANGED vars
  BY <1>1, <1>2, <1>8 DEF SpuriousWake, CacheSpuriousWake, WorkerSpuriousWake,
     Finished, vars
<1> QED
  BY <1>4, <1>5, <1>6, <1>7, <1>8 DEF Next

-----------------------------------------------------------------------------
(* The three facts about jobs and slots, in every state. *)
JobsInv == GoneHoldsNone /\ JobsAsked /\ JobsSaved

(* They hold together in every state. *)
LEMMA JobsAlways == Spec => []JobsInv
<1>1. Init => JobsInv
  BY DEF Init, FreshProcess, JobsInv, GoneHoldsNone, JobsAsked, JobsSaved
<1>2. TypeInv /\ PhaseInv /\ JobsInv /\ [Next]_vars => JobsInv'
  BY GoneStep, AskedStep, SavedStep DEF JobsInv
<1> QED
  BY <1>1, <1>2, TypeAlways, PhaseAlways, PTL DEF Spec

(* When the cache thread is done, every query that was in a queue or given
   back on abort has its location in the job table. *)
THEOREM WaitingQueriesSaved == Spec => []QueuedJobsSaved
<1>1. JobsInv => QueuedJobsSaved
  BY DEF JobsInv, JobsSaved, QueuedJobsSaved, Waiting, HasLoc
<1> QED
  BY <1>1, JobsAlways, PTL

(* A location leaves the job table only in a run that asked for it again and
   is done with that request. *)
THEOREM SavedJobsStay == Spec => SavedJobNotForgotten
<1> DEFINE Kept ==
      \A i \in DOMAIN jobs :
        (\A j \in DOMAIN jobs' : jobs'[j].loc # jobs[i].loc) =>
          \E q \in DOMAIN query :
            LocOf(q) = jobs[i].loc /\ outcome[q] \notin {"pending", "requeued"}
<1>1. ASSUME TypeInv, PhaseInv, PlaceInv, JobsInv, [Next]_vars PROVE [Kept]_vars
  <2> USE DEF dbVars
  <2>1. CASE UNCHANGED jobs
    BY <2>1
  <2>2. CASE CommitJobs
    <3>1. /\ cachePc = "insert" /\ deque = << >> /\ jobs' = inserted
      BY <2>2 DEF CommitJobs
    <3>2. ASSUME NEW i \in DOMAIN jobs,
                 \A j \in DOMAIN jobs' : jobs'[j].loc # jobs[i].loc
          PROVE  \E q \in DOMAIN query :
                   LocOf(q) = jobs[i].loc /\ outcome[q] \notin {"pending", "requeued"}
      <4>1. PICK q \in DOMAIN query : LocOf(q) = jobs[i].loc
        BY <1>1, <3>1 DEF JobsInv, JobsAsked, HasLoc, Asked
      <4>2. ~Waiting(q)
        <5>1. ~HasLoc(inserted, LocOf(q)) /\ ~HasLoc(deque, LocOf(q))
          BY <3>1, <3>2, <4>1 DEF HasLoc
        <5> QED
          BY <1>1, <3>1, <5>1 DEF JobsInv, JobsSaved
      <4>3. ~Held(q)
        <5>1. \A w \in Worker : workerPc[w] = "exited"
          BY <1>1, <3>1 DEF PhaseInv, Joined
        <5>2. \A w \in Worker, u \in Urgency : slots[w][u] = NoQuery
          BY <1>1, <5>1 DEF JobsInv, GoneHoldsNone, Gone
        <5>3. q # NoQuery
          BY <1>1, LenProperties DEF TypeInv, TypeOK, NoQuery
        <5> QED
          BY <5>2, <5>3 DEF Held
      <4>4. request # q
        <5>1. mainPc # "enqueue"
          BY <1>1, <3>1 DEF PhaseInv, Stopping
        <5>2. request = NoQuery
          BY <1>1, <5>1 DEF TypeInv, RequestHeld
        <5> QED
          BY <1>1, <5>2, LenProperties DEF TypeInv, TypeOK, NoQuery
      <4>5. QueryPlaced(q)
        BY <1>1 DEF PlaceInv
      <4> QED
        BY <4>1, <4>2, <4>3, <4>4, <4>5 DEF QueryPlaced, Waiting
    <3> QED
      BY <3>2
  <2>3. CASE MainStep
    BY <2>1, <2>3 DEF MainStep, StartReturns, GetWaveform, Enqueue, StartRescan,
       RescanNext, RemoveWaveform, AnswerLibrary, Shutdown, JoinCache
  <2>4. CASE CacheStep
    BY <2>1, <2>2, <2>4 DEF CacheStep, LoadJobs, LoadJob, StartWorkers, CacheCheck,
       CacheBlock, SetTerminate, AbortAnalyses, NotifyWorkers, JoinWorkers,
       CollectJobs, InsertJob
  <2>5. ASSUME NEW w \in Worker, WorkerLockStep(w) \/ WorkerFileStep(w)
        PROVE  UNCHANGED jobs
    BY <2>5 DEF WorkerLockStep, WorkerTakes, WorkerKeeps, WorkerSleeps,
       WorkerExits, WorkerFileStep, WorkerBlocks, BeginFile, LibraryAnswered,
       LibraryGivenUp, OpenDecoder, RenderChunk, PutFile, PutWave, Elide,
       FlushAborted
  <2>6. CASE SpuriousWake \/ Restart \/ Crash \/ Finished \/ UNCHANGED vars
    BY <2>1, <2>6 DEF SpuriousWake, CacheSpuriousWake, WorkerSpuriousWake,
       Restart, Crash, Finished, vars
  <2> QED
    BY <1>1, <2>1, <2>3, <2>4, <2>5, <2>6 DEF Next
<1> QED
  BY <1>1, TypeAlways, PhaseAlways, PlaceAlways, JobsAlways, PTL
     DEF Spec, SavedJobNotForgotten

-----------------------------------------------------------------------------
(* What shutting down has come to: the flags follow the cache thread, and only an
   analysis that noticed the abort is put off. *)
ClosingInv ==
  /\ shouldTerminate <=> cachePc \in Stopping \ {"terminate"}
  /\ aborting => shouldTerminate
  /\ \A w \in Worker : workerPc[w] = "flush" => aborting

(* Every step of every thread keeps the flags and the cache thread together. *)
LEMMA ClosingStep ==
  ASSUME TypeInv, PhaseInv, ClosingInv, [Next]_vars
  PROVE  ClosingInv'
<1> USE DEF ClosingInv, Stopping, dbVars, mainVars, queryVars, flagVars, cacheVars,
        workerVars
<1>t. workerPc \in [Worker -> WorkerPcs]
  BY DEF TypeInv, TypeOK
<1>1. CASE UNCHANGED <<shouldTerminate, cachePc, aborting, workerPc>>
  BY <1>1
<1>2. ASSUME UNCHANGED <<shouldTerminate, cachePc, aborting>>,
             NEW w \in Worker, NEW pc, pc = "flush" => aborting,
             workerPc' = [workerPc EXCEPT ![w] = pc]
      PROVE  ClosingInv'
  BY <1>t, <1>2
<1>3. CASE MainStep
  <2>1. CASE Enqueue
    BY <1>1, <1>2, <2>1 DEF Enqueue, NotifyOneWorker
  <2>2. CASE Shutdown
    BY <2>2 DEF Shutdown
  <2> QED
    BY <1>1, <1>3, <2>1, <2>2 DEF MainStep, StartReturns, GetWaveform, StartRescan,
       RescanNext, RemoveWaveform, AnswerLibrary, JoinCache
<1>4. CASE CacheStep \/ CacheSpuriousWake
  <2>1. CASE StartWorkers
    BY <2>1 DEF StartWorkers
  <2>2. CASE NotifyWorkers
    BY <2>2, <1>t DEF NotifyWorkers
  <2> QED
    BY <1>4, <2>1, <2>2 DEF CacheStep, LoadJobs, LoadJob, CacheCheck, CacheBlock,
       CacheSpuriousWake, SetTerminate, AbortAnalyses, JoinWorkers, CollectJobs,
       InsertJob, CommitJobs
<1>5. ASSUME NEW w \in Worker, WorkerLockStep(w) \/ WorkerSpuriousWake(w)
      PROVE  ClosingInv'
  BY <1>2, <1>5 DEF WorkerLockStep, WorkerTakes, WorkerKeeps, WorkerSleeps,
     WorkerExits, WorkerSpuriousWake
<1>6. ASSUME NEW w \in Worker, WorkerFileStep(w) PROVE ClosingInv'
  <2>1. CASE BeginFile(w)
    <3>1. storeOpen
      BY <2>1 DEF BeginFile, PhaseInv, Starting, Joined
    <3>2. \E pc : (pc = "flush" => aborting) /\ GoTo(w, pc)
      BY <2>1, <3>1 DEF BeginFile
    <3> QED
      BY <1>2, <2>1, <3>2 DEF BeginFile, GoTo
  <2>2. PICK pc : ~BeginFile(w) => (pc = "flush" => aborting)
                                   /\ workerPc' = [workerPc EXCEPT ![w] = pc]
    BY <1>6 DEF WorkerFileStep, WorkerBlocks, LibraryAnswered, LibraryGivenUp,
       OpenDecoder, RenderChunk, PutFile, PutWave, Elide, FlushAborted, GoTo,
       Release, NextSlot
  <2> QED
    BY <1>2, <1>6, <2>1, <2>2 DEF WorkerFileStep, WorkerBlocks, LibraryAnswered,
       LibraryGivenUp, OpenDecoder, RenderChunk, PutFile, PutWave, Elide,
       FlushAborted
<1>7. CASE Restart \/ Crash
  BY <1>7 DEF Restart, Crash, StartProcess
<1>8. CASE Finished \/ UNCHANGED vars
  BY <1>1, <1>8 DEF Finished, vars
<1> QED
  BY <1>3, <1>4, <1>5, <1>6, <1>7, <1>8 DEF Next, SpuriousWake

-----------------------------------------------------------------------------
(* The converse of JobsSaved: no row is inserted that no query asked for. *)
FromWaiting(row) == \E q \in DOMAIN query : Waiting(q) /\ LocOf(q) = row.loc

RowsWanted ==
  cachePc = "insert" =>
    /\ \A i \in DOMAIN inserted : FromWaiting(inserted[i])
    /\ \A i \in DOMAIN deque : FromWaiting(deque[i])

(* A concatenation holds nothing else. *)
LEMMA ConcatIn ==
  ASSUME NEW S, NEW s \in Seq(S), NEW t \in Seq(S), NEW x, In(s \o t, x)
  PROVE  In(s, x) \/ In(t, x)
<1>1. /\ Len(s) \in Nat /\ Len(t) \in Nat
      /\ DOMAIN s = 1..Len(s) /\ DOMAIN t = 1..Len(t)
      /\ s \o t \in Seq(S) /\ Len(s \o t) = Len(s) + Len(t)
      /\ \A i \in 1..(Len(s) + Len(t)) :
           (s \o t)[i] = IF i <= Len(s) THEN s[i] ELSE t[i - Len(s)]
  BY LenProperties, ConcatProperties
<1>2. PICK i \in 1..(Len(s) + Len(t)) : (s \o t)[i] = x
  BY <1>1, LenProperties DEF In
<1>3. CASE i <= Len(s)
  BY <1>1, <1>2, <1>3 DEF In
<1>4. CASE ~(i <= Len(s))
  <2>1. i - Len(s) \in 1..Len(t) /\ t[i - Len(s)] = x
    BY <1>1, <1>2, <1>4
  <2> QED
    BY <1>1, <2>1 DEF In
<1> QED
  BY <1>3, <1>4

(* flush_jobs collects only queries that wait. *)
LEMMA OnlyWaitingCollected ==
  ASSUME TypeInv
  PROVE  /\ Unfinished \in Seq(DOMAIN query)
         /\ \A i \in DOMAIN Unfinished :
              Unfinished[i] \in DOMAIN query /\ Waiting(Unfinished[i])
<1>1. /\ flushQueue \in Seq(DOMAIN query)
      /\ queue[Needed] \in Seq(DOMAIN query)
      /\ queue[Desired] \in Seq(DOMAIN query)
      /\ queue[Bulk] \in Seq(DOMAIN query)
  BY DEF TypeInv, TypeOK, Urgency, Needed, Desired, Bulk
<1> DEFINE a == flushQueue \o queue[Needed]
           b == a \o queue[Desired]
           c == b \o queue[Bulk]
<1>2. a \in Seq(DOMAIN query)
      /\ \A x : In(a, x) => In(flushQueue, x) \/ In(queue[Needed], x)
  BY <1>1, ConcatIn, ConcatProperties
<1> HIDE DEF a
<1>3. b \in Seq(DOMAIN query) /\ \A x : In(b, x) => In(a, x) \/ In(queue[Desired], x)
  BY <1>1, <1>2, ConcatIn, ConcatProperties
<1> HIDE DEF b
<1>4. c \in Seq(DOMAIN query) /\ \A x : In(c, x) => In(b, x) \/ In(queue[Bulk], x)
  BY <1>1, <1>3, ConcatIn, ConcatProperties
<1>5. c = Unfinished
  BY DEF Unfinished, a, b
<1> HIDE DEF c
<1>6. \A x : In(flushQueue, x) \/ In(queue[Needed], x) \/ In(queue[Desired], x)
             \/ In(queue[Bulk], x) => Waiting(x)
  BY DEF Waiting, Queued, Flushed, In, Urgency
<1>7. ASSUME NEW i \in DOMAIN c PROVE c[i] \in DOMAIN query /\ Waiting(c[i])
  <2>1. In(c, c[i])
    BY DEF In
  <2>2. c[i] \in DOMAIN query
    BY <1>4, LenProperties, ElementOfSeq
  <2> QED
    BY <1>2, <1>3, <1>4, <1>6, <2>1, <2>2
<1> QED
  BY <1>4, <1>5, <1>7

(* Every step of every thread keeps the rows to those asked for. *)
LEMMA WantedStep ==
  ASSUME TypeInv, PhaseInv, RowsWanted, [Next]_vars
  PROVE  RowsWanted'
<1> USE DEF dbVars, mainVars, queryVars, flagVars, cacheVars, workerVars
<1>1. ASSUME UNCHANGED <<query, queue, flushQueue>>
      PROVE  \A row : FromWaiting(row)' <=> FromWaiting(row)
  BY <1>1 DEF FromWaiting, Waiting, Queued, Flushed, LocOf
<1>2. CASE UNCHANGED <<cachePc, deque, inserted, query, queue, flushQueue>>
  BY <1>1, <1>2 DEF RowsWanted
<1>3. CASE cachePc' # "insert"
  BY <1>3 DEF RowsWanted
<1>4. CASE CacheStep
  <2>1. CASE CollectJobs
    <3>1. /\ DOMAIN deque' = 1..Len(Unfinished)
          /\ \A i \in 1..Len(Unfinished) : deque'[i].loc = LocOf(Unfinished[i])
          /\ inserted' = << >> /\ UNCHANGED <<query, queue, flushQueue>>
      BY <2>1 DEF CollectJobs
    <3>2. \A i \in DOMAIN deque' : FromWaiting(deque'[i])
      BY <3>1, OnlyWaitingCollected, LenProperties DEF FromWaiting
    <3> QED
      BY <1>1, <3>1, <3>2 DEF RowsWanted
  <2>2. CASE InsertJob
    <3>1. /\ cachePc = "insert" /\ UNCHANGED <<query, queue, flushQueue>>
          /\ deque # << >> /\ deque \in Seq(JobRow) /\ inserted \in Seq(JobRow)
          /\ deque' = Tail(deque)
          /\ inserted' \in {inserted, Append(inserted, Head(deque))}
      BY <2>2 DEF InsertJob, TypeInv, TypeOK
    <3>2. PICK h : h = Head(deque) /\ h = deque[1] /\ h \in JobRow /\ 1 \in DOMAIN deque
      BY <3>1, HeadTailProperties, EmptySeq, LenProperties
    <3>3. \A i \in DOMAIN deque' : \E k \in DOMAIN deque : deque'[i] = deque[k]
      <4>1. Len(deque) \in Nat /\ DOMAIN deque = 1..Len(deque)
        BY <3>1, LenProperties
      <4>2. /\ deque' \in Seq(JobRow) /\ Len(deque') = Len(deque) - 1
            /\ \A i \in 1..Len(deque') : deque'[i] = deque[i + 1]
        BY <3>1, HeadTailProperties
      <4>3. DOMAIN deque' = 1..(Len(deque) - 1)
        BY <4>2, LenProperties
      <4>4. \A i \in 1..(Len(deque) - 1) : i + 1 \in 1..Len(deque)
        BY <4>1
      <4> QED
        BY <4>1, <4>2, <4>3, <4>4
    <3>4. \A i \in DOMAIN inserted' :
            (i \in DOMAIN inserted /\ inserted'[i] = inserted[i]) \/ inserted'[i] = h
      <4>1. CASE inserted' = Append(inserted, h)
        BY <3>1, <3>2, <4>1, AppendGrows
      <4> QED
        BY <3>1, <3>2, <4>1
    <3> QED
      BY <1>1, <3>1, <3>2, <3>3, <3>4 DEF RowsWanted
  <2>3. CASE CacheCheck
    BY <1>3, <2>3 DEF CacheCheck
  <2> QED
    BY <1>3, <1>4, <2>1, <2>2, <2>3 DEF CacheStep, LoadJobs, LoadJob, StartWorkers,
       CacheBlock, SetTerminate, AbortAnalyses, NotifyWorkers, JoinWorkers, CommitJobs
<1>5. CASE MainStep
  <2>1. CASE mainPc \notin {"start", "join", "quit"}
    <3>1. cachePc # "insert"
      BY <2>1 DEF PhaseInv, Stopping
    <3>2. cachePc' # "insert"
      BY <1>5, <3>1 DEF MainStep, StartReturns, GetWaveform, Enqueue, StartRescan,
         RescanNext, RemoveWaveform, AnswerLibrary, Shutdown, JoinCache
    <3> QED
      BY <1>3, <3>2
  <2>2. CASE mainPc \in {"start", "join", "quit"}
    BY <1>2, <1>5, <2>2 DEF MainStep, StartReturns, GetWaveform, Enqueue,
       StartRescan, RescanNext, RemoveWaveform, AnswerLibrary, Shutdown, JoinCache
  <2> QED
    BY <2>1, <2>2
<1>6. ASSUME NEW w \in Worker, WorkerLockStep(w) \/ WorkerFileStep(w)
      PROVE  RowsWanted'
  <2>1. workerPc[w] # "exited" /\ UNCHANGED cachePc
    BY <1>6 DEF WorkerLockStep, WorkerTakes, WorkerKeeps, WorkerSleeps,
       WorkerExits, WorkerFileStep, WorkerBlocks, BeginFile, LibraryAnswered,
       LibraryGivenUp, OpenDecoder, RenderChunk, PutFile, PutWave, Elide,
       FlushAborted
  <2> QED
    BY <1>3, <2>1 DEF PhaseInv, Joined
<1>7. CASE Restart \/ Crash
  BY <1>3, <1>7 DEF Restart, Crash, StartProcess
<1>8. CASE SpuriousWake \/ Finished \/ UNCHANGED vars
  BY <1>2, <1>3, <1>8 DEF SpuriousWake, CacheSpuriousWake, WorkerSpuriousWake,
     Finished, vars
<1> QED
  BY <1>4, <1>5, <1>6, <1>7, <1>8 DEF Next

-----------------------------------------------------------------------------
(* The requests in the words of the ledger. *)
WithOutcome(o) == {q \in DOMAIN query : outcome[q] = o}
Unanswered == WithOutcome("pending")
PutOff  == WithOutcome("requeued")
Dropped == WithOutcome("dropped")

Exited == {w \in Worker : workerPc[w] = "exited"}
InSlots(w) == {q \in DOMAIN query : \E u \in Urgency : slots[w][u] = q}

(* A worker that leaves loses at most one query of each urgency. *)
LossBounded == Cardinality(Dropped) <= 3 * Cardinality(Exited)

(* A set of three, some of which may be the same. *)
LEMMA ThreeOrLess ==
  ASSUME NEW a, NEW b, NEW c
  PROVE  /\ IsFiniteSet({a, b, c}) /\ Cardinality({a, b, c}) \in 0..3
         /\ a # b /\ b # c /\ a # c => Cardinality({a, b, c}) = 3
<1>1. IsFiniteSet({a}) /\ Cardinality({a}) = 1
  BY FS_Singleton
<1>2. /\ IsFiniteSet({a} \cup {b})
      /\ Cardinality({a} \cup {b}) = IF b \in {a} THEN 1 ELSE 2
  BY <1>1, FS_AddElement
<1>3. /\ IsFiniteSet(({a} \cup {b}) \cup {c})
      /\ Cardinality(({a} \cup {b}) \cup {c}) =
           IF c \in {a} \cup {b} THEN Cardinality({a} \cup {b})
                                 ELSE Cardinality({a} \cup {b}) + 1
  BY <1>2, FS_AddElement
<1>4. ({a} \cup {b}) \cup {c} = {a, b, c}
  OBVIOUS
<1>5. PICK m, n : /\ m = Cardinality({a} \cup {b}) /\ n = Cardinality({a, b, c})
                  /\ m = IF b \in {a} THEN 1 ELSE 2
                  /\ n = IF c \in {a} \cup {b} THEN m ELSE m + 1
  BY <1>2, <1>3, <1>4
<1>6. n \in 0..3 /\ (a # b /\ b # c /\ a # c => n = 3)
  BY <1>5
<1> QED
  BY <1>3, <1>4, <1>5, <1>6

(* The sets that are counted are finite. *)
LEMMA Finite ==
  ASSUME TypeInv
  PROVE  /\ IsFiniteSet(DOMAIN query) /\ Cardinality(DOMAIN query) = Len(query)
         /\ IsFiniteSet(Dropped) /\ Cardinality(Dropped) \in Nat
         /\ IsFiniteSet(Exited) /\ Cardinality(Exited) \in Nat
         /\ Cardinality(Exited) <= Cardinality(Worker) /\ Cardinality(Worker) \in Nat
<1>1. Len(query) \in Nat /\ DOMAIN query = 1..Len(query)
  BY LenProperties DEF TypeInv, TypeOK
<1>2. PICK n \in Nat : n = Len(query)
  BY <1>1
<1>3. IsFiniteSet(1..n) /\ Cardinality(1..n) = n
  BY FS_Interval
<1>4. Dropped \in SUBSET DOMAIN query /\ Exited \in SUBSET Worker
  BY DEF Dropped, WithOutcome, Exited
<1>5. IsFiniteSet(Worker)
  BY ConstantsAssumption
<1> QED
  BY <1>1, <1>2, <1>3, <1>4, <1>5, FS_Subset, FS_CardinalityType

(* What a worker that leaves takes with it. *)
LEMMA ExitLoses ==
  ASSUME TypeInv, OrderInv, PlaceInv, NEW w \in Worker, WorkerExits(w)
  PROVE  /\ InSlots(w) \subseteq Unanswered
         /\ IsFiniteSet(InSlots(w)) /\ Cardinality(InSlots(w)) \in 0..3
         /\ Unanswered' = Unanswered \ InSlots(w)
         /\ PutOff' = PutOff
         /\ Dropped' = Dropped \cup InSlots(w)
         /\ Exited' = Exited \cup {w} /\ w \notin Exited
<1>1. /\ DOMAIN query = 1..Len(query) /\ DOMAIN outcome = 1..Len(query)
  BY Facts
<1>2. InSlots(w) \subseteq Unanswered
  BY DEF InSlots, Unanswered, WithOutcome, PlaceInv, QueryPlaced, Held
<1>3. /\ query' = query
      /\ outcome' = [q \in DOMAIN outcome |->
                       IF \E u \in Urgency : slots[w][u] = q
                       THEN "dropped" ELSE outcome[q]]
  BY DEF WorkerExits
<1>4. \A q \in DOMAIN query :
        outcome'[q] = IF q \in InSlots(w) THEN "dropped" ELSE outcome[q]
  BY <1>1, <1>3 DEF InSlots
<1>5. /\ Unanswered' = Unanswered \ InSlots(w)
      /\ PutOff' = PutOff
      /\ Dropped' = Dropped \cup InSlots(w)
  BY <1>2, <1>3, <1>4 DEF Unanswered, PutOff, Dropped, WithOutcome
<1>6. IsFiniteSet(InSlots(w)) /\ Cardinality(InSlots(w)) \in 0..3
  <2> DEFINE three == {slots[w][Needed], slots[w][Desired], slots[w][Bulk]}
  <2>1. InSlots(w) \in SUBSET three
    BY DEF InSlots, Urgency
  <2>2. IsFiniteSet(three) /\ Cardinality(three) \in 0..3
    BY ThreeOrLess
  <2> HIDE DEF three
  <2>3. /\ IsFiniteSet(InSlots(w)) /\ Cardinality(InSlots(w)) <= Cardinality(three)
        /\ Cardinality(InSlots(w)) \in Nat
    BY <2>1, <2>2, FS_Subset, FS_CardinalityType
  <2> QED
    BY <2>2, <2>3
<1>7. Exited' = Exited \cup {w} /\ w \notin Exited
  BY DEF WorkerExits, Exited, TypeInv, TypeOK
<1> QED
  BY <1>2, <1>5, <1>6, <1>7

(* The end of a query in a slot, seen by the ledger. *)
LEMMA ReleaseSettles ==
  ASSUME TypeInv, OrderInv, PlaceInv, NEW w \in Worker, workerPc[w] \in BusyPcs,
         NEW how, Release(w, how), how \notin {"pending", "dropped"}, UNCHANGED query
  PROVE  /\ Job(w) \in Unanswered
         /\ Unanswered' = Unanswered \ {Job(w)}
         /\ PutOff' = IF how = "requeued" THEN PutOff \cup {Job(w)} ELSE PutOff
         /\ Dropped' = Dropped
<1>1. /\ DOMAIN query = 1..Len(query) /\ DOMAIN outcome = 1..Len(query)
      /\ slots \in [Worker -> [Urgency -> {0} \cup 1..Len(query)]]
      /\ current \in [Worker -> Urgency] /\ NoQuery = 0
  BY Facts
<1>2. Job(w) \in DOMAIN query /\ Held(Job(w))
  BY <1>1 DEF TypeInv, BusyHolds, Holds, Job, Held
<1>3. outcome[Job(w)] = "pending"
  BY <1>2 DEF PlaceInv, QueryPlaced
<1>4. \A q \in DOMAIN query : outcome'[q] = IF q = Job(w) THEN how ELSE outcome[q]
  BY <1>1 DEF Release
<1> QED
  BY <1>2, <1>3, <1>4 DEF Unanswered, PutOff, Dropped, WithOutcome

(* Who loses nothing and lets nobody come back keeps the bound. *)
LEMMA NothingLost ==
  ASSUME TypeInv, TypeInv', LossBounded,
         Dropped' \subseteq Dropped, Exited \subseteq Exited'
  PROVE  LossBounded'
<1>1. /\ IsFiniteSet(Dropped) /\ Cardinality(Dropped) \in Nat
      /\ Cardinality(Exited) \in Nat
  BY Finite
<1>2. IsFiniteSet(Exited')
  <2>1. Exited' \in SUBSET Worker
    BY DEF Exited
  <2> QED
    BY <2>1, ConstantsAssumption, FS_Subset
<1>3. /\ Cardinality(Dropped') <= Cardinality(Dropped) /\ Cardinality(Dropped') \in Nat
      /\ Cardinality(Exited) <= Cardinality(Exited') /\ Cardinality(Exited') \in Nat
  BY <1>1, <1>2, FS_Subset, FS_CardinalityType
<1>4. PICK a, b, c, d \in Nat :
        /\ a = Cardinality(Dropped) /\ b = Cardinality(Dropped')
        /\ c = Cardinality(Exited) /\ d = Cardinality(Exited')
  BY <1>1, <1>3
<1> QED
  BY <1>3, <1>4 DEF LossBounded

(* A new query that has a result or waits for one is not lost. *)
LEMMA CreatedCounted ==
  ASSUME TypeInv, OrderInv, NEW r \in QueryRecord, NEW o \in {"pending", "stored"},
         query' = Append(query, r), outcome' = Append(outcome, o)
  PROVE  /\ DOMAIN query' = DOMAIN query \cup {Len(query) + 1}
         /\ Len(query) + 1 \notin DOMAIN query
         /\ \A q \in DOMAIN query : query'[q] = query[q]
         /\ query'[Len(query) + 1] = r
         /\ Unanswered' =
              IF o = "pending" THEN Unanswered \cup {Len(query) + 1} ELSE Unanswered
         /\ PutOff' = PutOff /\ Dropped' = Dropped
<1>1. PICK n : n = Len(query) + 1
  OBVIOUS
<1>2. Fresh(n, r, o)
  BY <1>1, FreshQuery DEF Outcome
<1>3. DOMAIN query = 1..Len(query)
  BY Facts
<1>4. /\ DOMAIN query' = DOMAIN query \cup {n} /\ n \notin DOMAIN query
      /\ \A q \in DOMAIN query : query'[q] = query[q] /\ outcome'[q] = outcome[q]
      /\ query'[n] = r /\ outcome'[n] = o
  BY <1>2, <1>3 DEF Fresh
<1> QED
  BY <1>1, <1>4 DEF Unanswered, PutOff, Dropped, WithOutcome

(* The steps in which a query is created. *)
LEMMA Creates ==
  ASSUME TypeInv, PhaseInv,
         \/ \E loc \in Location, kind \in RequestKinds : GetWaveform(loc, kind)
         \/ \E loc \in Location : RescanNext(loc)
         \/ LoadJob
  PROVE  /\ \E r \in QueryRecord, o \in {"pending", "stored"} :
              query' = Append(query, r) /\ outcome' = Append(outcome, o)
         /\ cachePc \notin Stopping
         /\ UNCHANGED <<jobs, workerPc, cachePc, shouldTerminate>>
<1> USE DEF dbVars, flagVars, cacheVars, workerVars
<1>1. ~Restart /\ ~Crash
  BY DEF GetWaveform, RescanNext, LoadJob, StartProcess, Restart, Crash
<1>2. [Next]_vars
  BY DEF Next, MainStep, CacheStep
<1>3. \E o \in {"pending", "stored"} : outcome' = Append(outcome, o)
  BY DEF GetWaveform, RescanNext, LoadJob
<1>4. PICK r : query' = Append(query, r)
  BY DEF GetWaveform, RescanNext, LoadJob, NewQuery
<1>5. query' # query
  <2>1. query \in Seq(QueryRecord) /\ Len(query) \in Nat
    BY LenProperties DEF TypeInv, TypeOK
  <2>2. PICK S : S = QueryRecord \cup {r}
    OBVIOUS
  <2>3. query \in Seq(S) /\ r \in S
    <3>1. query \in [1..Len(query) -> QueryRecord]
      BY <2>1
    <3> QED
      BY <2>1, <2>2, <3>1
  <2>4. Len(query') = Len(query) + 1
    BY <1>4, <2>3, AppendGrows
  <2> QED
    BY <2>1, <2>4
<1>6. \E x \in QueryRecord : query' = Append(query, x)
  BY <1>1, <1>2, <1>5, QueriesGrow
<1>7. cachePc \notin Stopping
  BY DEF PhaseInv, Starting, Stopping, GetWaveform, RescanNext, LoadJob
<1>8. UNCHANGED <<jobs, workerPc, cachePc, shouldTerminate>>
  BY DEF GetWaveform, RescanNext, LoadJob
<1> QED
  BY <1>3, <1>6, <1>7, <1>8

(* Every step of every thread keeps the loss in bounds. *)
LEMMA LossStep ==
  ASSUME TypeInv, TypeInv', PhaseInv, OrderInv, PlaceInv, LossBounded, [Next]_vars
  PROVE  LossBounded'
<1> USE DEF dbVars, mainVars, queryVars, flagVars, cacheVars, workerVars
<1>t. workerPc \in [Worker -> WorkerPcs]
  BY DEF TypeInv, TypeOK
<1>1. ASSUME UNCHANGED <<query, outcome>>, Exited \subseteq Exited' PROVE LossBounded'
  BY <1>1, NothingLost DEF Dropped, WithOutcome
<1>2. ASSUME NEW w \in Worker, workerPc[w] # "exited", NEW pc,
             workerPc' = [workerPc EXCEPT ![w] = pc]
      PROVE  Exited \subseteq Exited'
  BY <1>t, <1>2 DEF Exited
<1>3. UNCHANGED workerPc => Exited' = Exited
  BY DEF Exited
<1>4. CASE MainStep
  <2>1. ASSUME \/ \E loc \in Location, kind \in RequestKinds : GetWaveform(loc, kind)
               \/ \E loc \in Location : RescanNext(loc)
        PROVE  LossBounded'
    BY <1>3, <2>1, Creates, CreatedCounted, NothingLost
  <2>2. CASE Enqueue
    BY <1>1, <1>2, <1>3, <2>2 DEF Enqueue, NotifyOneWorker
  <2> QED
    BY <1>1, <1>3, <1>4, <2>1, <2>2 DEF MainStep, StartReturns, StartRescan,
       RemoveWaveform, AnswerLibrary, Shutdown, JoinCache
<1>5. CASE CacheStep
  <2>1. CASE LoadJob
    BY <1>3, <2>1, Creates, CreatedCounted, NothingLost
  <2>2. CASE StartWorkers
    <3>1. Exited = {}
      BY <2>2 DEF StartWorkers, PhaseInv, Starting, Exited
    <3> QED
      BY <1>1, <2>2, <3>1 DEF StartWorkers
  <2>3. CASE NotifyWorkers
    <3>1. Exited \subseteq Exited'
      BY <1>t, <2>3 DEF NotifyWorkers, Exited
    <3> QED
      BY <1>1, <2>3, <3>1 DEF NotifyWorkers
  <2> QED
    BY <1>1, <1>3, <1>5, <2>1, <2>2, <2>3 DEF CacheStep, LoadJobs, CacheCheck,
       CacheBlock, SetTerminate, AbortAnalyses, JoinWorkers, CollectJobs, InsertJob,
       CommitJobs
<1>6. ASSUME NEW w \in Worker, WorkerLockStep(w) PROVE LossBounded'
  <2>1. CASE WorkerExits(w)
    <3>1. /\ IsFiniteSet(Dropped) /\ IsFiniteSet(Exited)
          /\ Cardinality(Dropped) \in Nat /\ Cardinality(Exited) \in Nat
      BY Finite
    <3>2. /\ IsFiniteSet(InSlots(w)) /\ Cardinality(InSlots(w)) \in 0..3
          /\ Dropped' = Dropped \cup InSlots(w)
          /\ Exited' = Exited \cup {w} /\ w \notin Exited
      BY <2>1, ExitLoses
    <3>3. Cardinality(Exited') = Cardinality(Exited) + 1
      BY <3>1, <3>2, FS_AddElement
    <3>4. Cardinality(Dropped') <= Cardinality(Dropped) + Cardinality(InSlots(w))
      <4>1. Dropped \cap InSlots(w) \in SUBSET Dropped
        OBVIOUS
      <4>2. Cardinality(Dropped \cap InSlots(w)) \in Nat
        BY <3>1, <4>1, FS_Subset, FS_CardinalityType
      <4> QED
        BY <3>1, <3>2, <4>2, FS_Union
    <3>5. Cardinality(Dropped') \in Nat
      BY Finite, <3>1, <3>2, FS_Union, FS_CardinalityType
    <3>6. PICK a, b, c, d \in Nat :
            /\ a = Cardinality(Dropped) /\ b = Cardinality(Dropped')
            /\ c = Cardinality(Exited) /\ d = Cardinality(InSlots(w))
      BY <3>1, <3>2, <3>5
    <3> QED
      BY <3>2, <3>3, <3>4, <3>6 DEF LossBounded
  <2> QED
    BY <1>1, <1>2, <1>6, <2>1 DEF WorkerLockStep, WorkerTakes, WorkerKeeps,
       WorkerSleeps
<1>7. ASSUME NEW w \in Worker, WorkerFileStep(w) \/ WorkerSpuriousWake(w)
      PROVE  LossBounded'
  <2>1. PICK pc : workerPc' = [workerPc EXCEPT ![w] = pc]
    BY <1>7 DEF WorkerFileStep, WorkerBlocks, WorkerSpuriousWake, BeginFile,
       LibraryAnswered, LibraryGivenUp, OpenDecoder, RenderChunk, PutFile,
       PutWave, Elide, FlushAborted, GoTo, Release, NextSlot
  <2>2. workerPc[w] # "exited" /\ UNCHANGED query
    BY <1>7 DEF WorkerFileStep, WorkerBlocks, WorkerSpuriousWake, BeginFile,
       LibraryAnswered, LibraryGivenUp, OpenDecoder, RenderChunk, PutFile,
       PutWave, Elide, FlushAborted
  <2>3. \/ UNCHANGED outcome
        \/ /\ workerPc[w] \in BusyPcs
           /\ \E how : how \notin {"pending", "dropped"} /\ Release(w, how)
    BY <1>7 DEF WorkerFileStep, WorkerBlocks, WorkerSpuriousWake, BeginFile,
       LibraryAnswered, LibraryGivenUp, OpenDecoder, RenderChunk, PutFile,
       PutWave, Elide, FlushAborted, GoTo, BusyPcs
  <2>4. Exited \subseteq Exited'
    BY <1>2, <2>1, <2>2
  <2>5. Dropped' = Dropped
    BY <2>2, <2>3, ReleaseSettles DEF Dropped, WithOutcome
  <2> QED
    BY <2>4, <2>5, NothingLost
<1>8. CASE Restart \/ Crash
  <2>1. Dropped' = {}
    BY <1>8 DEF Restart, Crash, StartProcess, Dropped, WithOutcome
  <2>2. Exited' = {}
    BY <1>8 DEF Restart, Crash, StartProcess, Exited
  <2> QED
    BY <2>1, <2>2, FS_EmptySet DEF LossBounded
<1>9. CASE CacheSpuriousWake \/ Finished \/ UNCHANGED vars
  BY <1>1, <1>3, <1>9 DEF CacheSpuriousWake, Finished, vars
<1> QED
  BY <1>4, <1>5, <1>6, <1>7, <1>8, <1>9 DEF Next, SpuriousWake

-----------------------------------------------------------------------------
(* What the ledger sees of the cache, by the outcomes of the queries. *)
asked  == [q \in DOMAIN query |-> LocOf(q)]
saved  == {jobs[i].loc : i \in DOMAIN jobs}

View ==
  /\ {q \in DOMAIN query : request = q \/ Queued(q) \/ Held(q)} = Unanswered
  /\ {q \in DOMAIN query : Flushed(q)} = PutOff

(* The places a query can be in are the outcomes it can have. *)
LEMMA SeenByOutcome == (PlaceInv => View) /\ (PlaceInv' => View')
<1>1. PlaceInv => View
  BY DEF PlaceInv, QueryPlaced, View, Unanswered, PutOff, WithOutcome
<1>2. PlaceInv' => View'
  BY DEF PlaceInv, QueryPlaced, View, Unanswered, PutOff, WithOutcome
<1> QED
  BY <1>1, <1>2

(* The ledger counts as the cache does. *)
LEMMA SameCount == \A S : Ledger!Cardinality(S) = Cardinality(S)
BY DEF Ledger!Cardinality, Cardinality

(* A step that leaves outcomes, jobs and phase alone is a stutter of the ledger. *)
LEMMA Unnoticed ==
  ASSUME View, View', UNCHANGED <<jobs, query, outcome, LedgerPhase>>
  PROVE  UNCHANGED Ledger!vars
BY DEF View, Unanswered, PutOff, WithOutcome, LocOf, Ledger!vars

(* A query is created: the ledger accepts a request. *)
LEMMA CreateAccepts ==
  ASSUME TypeInv, OrderInv, View, View',
         NEW r \in QueryRecord, NEW o \in {"pending", "stored"},
         query' = Append(query, r), outcome' = Append(outcome, o),
         LedgerPhase = "serving", UNCHANGED <<jobs, LedgerPhase>>
  PROVE  Ledger!Next
<1>1. /\ DOMAIN query' = DOMAIN query \cup {Len(query) + 1}
      /\ Len(query) + 1 \notin DOMAIN query
      /\ \A q \in DOMAIN query : query'[q] = query[q]
      /\ query'[Len(query) + 1] = r
      /\ Unanswered' \in {Unanswered, Unanswered \cup {Len(query) + 1}}
      /\ PutOff' = PutOff /\ Dropped' = Dropped
  BY CreatedCounted
<1>2. PICK n : n = Len(query) + 1
  OBVIOUS
<1>3. DOMAIN asked = DOMAIN query /\ Cardinality(DOMAIN asked) + 1 = n
  BY <1>2, Finite DEF asked
<1>4. asked' = [q \in DOMAIN asked \cup {n} |-> IF q = n THEN r.loc ELSE asked[q]]
  BY <1>1, <1>2 DEF asked, LocOf
<1>5. r.loc \in Location
  BY DEF QueryRecord
<1>6. PICK t \in Location : t = r.loc
  BY <1>5
<1>7. Ledger!Accept(n, t)
  <2>1. n \notin DOMAIN asked
    BY <1>1, <1>2, <1>3
  <2>2. Unanswered' \in {Unanswered, Unanswered \cup {n}}
    BY <1>1, <1>2
  <2>3. asked' = [q \in DOMAIN asked \cup {n} |-> IF q = n THEN t ELSE asked[q]]
    BY <1>4, <1>6
  <2>4. PutOff' = PutOff /\ Dropped' = Dropped /\ saved' = saved
    BY <1>1 DEF saved
  <2> QED
    BY <2>1, <2>2, <2>3, <2>4
    DEF Ledger!Accept, View, Dropped, WithOutcome, asked, saved
<1> QED
  BY <1>3, <1>7, SameCount DEF Ledger!Next, asked

(* A worker is done with a query: the request is settled, or put off. *)
LEMMA ReleaseNoted ==
  ASSUME TypeInv, OrderInv, PlaceInv, View, View',
         NEW w \in Worker, workerPc[w] \in BusyPcs,
         NEW how, Release(w, how), how \notin {"pending", "dropped"},
         LedgerPhase # "closed", how = "requeued" => LedgerPhase = "closing",
         UNCHANGED <<jobs, query, LedgerPhase>>
  PROVE  Ledger!Next
<1>1. /\ Job(w) \in Unanswered
      /\ Unanswered' = Unanswered \ {Job(w)}
      /\ PutOff' = IF how = "requeued" THEN PutOff \cup {Job(w)} ELSE PutOff
      /\ Dropped' = Dropped
  BY ReleaseSettles
<1>2. asked' = asked
  BY DEF asked, LocOf
<1>3. PICK j : j = Job(w)
  OBVIOUS
<1>4. Ledger!Park(j) \/ Ledger!Settle(j)
  BY <1>1, <1>2, <1>3
  DEF Ledger!Park, Ledger!Settle, View, Dropped, WithOutcome, asked
<1> QED
  BY <1>1, <1>3, <1>4 DEF Ledger!Next, View

(* A worker leaves with queries in its slots: the requests are lost, no more than
   the ledger allows. *)
LEMMA ExitNoted ==
  ASSUME TypeInv, TypeInv', OrderInv, PlaceInv, View, View',
         LossBounded', NEW w \in Worker, WorkerExits(w), LedgerPhase = "closing",
         UNCHANGED <<jobs, query, LedgerPhase>>
  PROVE  Ledger!Next
<1>1. /\ InSlots(w) \subseteq Unanswered
      /\ Unanswered' = Unanswered \ InSlots(w)
      /\ PutOff' = PutOff
      /\ Dropped' = Dropped \cup InSlots(w)
  BY ExitLoses
<1>2. asked' = asked
  BY DEF asked, LocOf
<1>3. Cardinality(Urgency) = 3
  <2>1. Urgency = {0, 1, 2}
    BY DEF Urgency, Needed, Desired, Bulk
  <2>2. PICK a, b, c : a = 0 /\ b = 1 /\ c = 2
    OBVIOUS
  <2>3. a # b /\ b # c /\ a # c
    BY <2>2
  <2>4. Cardinality({a, b, c}) = 3
    BY <2>3, ThreeOrLess, Zenon
  <2> QED
    BY <2>1, <2>2, <2>4
<1>4. Cardinality(Dropped \cup InSlots(w)) <= Cardinality(Urgency) * Cardinality(Worker)
  <2>1. Exited' \in SUBSET Worker /\ IsFiniteSet(Worker)
    BY ConstantsAssumption DEF Exited
  <2>2. /\ Cardinality(Exited') <= Cardinality(Worker)
        /\ Cardinality(Exited') \in Nat /\ Cardinality(Worker) \in Nat
    BY <2>1, FS_Subset, FS_CardinalityType
  <2>3. Cardinality(Dropped') \in Nat
    <3>1. Dropped' \in SUBSET DOMAIN query
      BY DEF Dropped, WithOutcome
    <3> QED
      BY <3>1, Finite, FS_Subset, FS_CardinalityType
  <2>4. PICK a, b, c \in Nat : /\ a = Cardinality(Dropped') /\ b = Cardinality(Exited')
                               /\ c = Cardinality(Worker)
    BY <2>2, <2>3
  <2>5. a <= 3 * c
    BY <2>2, <2>4 DEF LossBounded
  <2> QED
    BY <1>1, <1>3, <2>4, <2>5
<1>5. PICK R : R = InSlots(w)
  OBVIOUS
<1>6. Ledger!Lose(R)
  BY <1>1, <1>2, <1>4, <1>5, SameCount
  DEF Ledger!Lose, View, Dropped, WithOutcome, asked
<1> QED
  BY <1>1, <1>5, <1>6 DEF Ledger!Next, View

(* The last step of cache_main seals the ledger: the rows inserted are those of the
   requests that wait or are put off. *)
LEMMA CommitSeals ==
  ASSUME TypeInv, PhaseInv, PlaceInv, JobsInv, RowsWanted, ClosingInv, View, View',
         CommitJobs
  PROVE  Ledger!Seal
<1>1. /\ cachePc = "insert" /\ cachePc' = "done" /\ deque = << >> /\ jobs' = inserted
      /\ UNCHANGED <<query, outcome>>
  BY DEF CommitJobs, queryVars
<1>2. LedgerPhase = "closing" /\ LedgerPhase' = "closed"
  BY <1>1 DEF LedgerPhase, ClosingInv, Stopping
<1>3. ASSUME NEW q \in DOMAIN query
      PROVE  Waiting(q) <=> q \in Unanswered \cup PutOff
  <2>1. ~Held(q)
    <3>1. \A w \in Worker, u \in Urgency : slots[w][u] = NoQuery
      BY <1>1 DEF JobsInv, GoneHoldsNone, Gone, PhaseInv, Joined
    <3>2. q # NoQuery
      BY LenProperties DEF TypeInv, TypeOK, NoQuery
    <3> QED
      BY <3>1, <3>2 DEF Held
  <2>2. request # q
    <3>1. request = NoQuery
      BY <1>1 DEF TypeInv, RequestHeld, PhaseInv, Stopping
    <3> QED
      BY <3>1, LenProperties DEF TypeInv, TypeOK, NoQuery
  <2> QED
    BY <2>1, <2>2 DEF View, Waiting
<1>4. \A loc : HasLoc(inserted, loc) <=>
                 \E q \in DOMAIN query : Waiting(q) /\ LocOf(q) = loc
  <2>1. \A loc : ~HasLoc(deque, loc)
    BY <1>1 DEF HasLoc
  <2>2. ASSUME NEW loc, HasLoc(inserted, loc)
        PROVE  \E q \in DOMAIN query : Waiting(q) /\ LocOf(q) = loc
    BY <1>1, <2>2 DEF HasLoc, RowsWanted, FromWaiting
  <2> QED
    BY <1>1, <2>1, <2>2 DEF JobsInv, JobsSaved
<1>5. saved' = {asked[q] : q \in Unanswered \cup PutOff}
  <2>1. saved' = {inserted[i].loc : i \in DOMAIN inserted}
    BY <1>1 DEF saved
  <2>2. Unanswered \cup PutOff \subseteq DOMAIN query
    BY DEF Unanswered, PutOff, WithOutcome
  <2> QED
    BY <1>3, <1>4, <2>1, <2>2 DEF HasLoc, asked
<1>6. Unanswered' = Unanswered /\ PutOff' = PutOff /\ Dropped' = Dropped /\ asked' = asked
  BY <1>1 DEF Unanswered, PutOff, Dropped, WithOutcome, asked, LocOf
<1> QED
  BY <1>2, <1>5, <1>6 DEF Ledger!Seal, View, Dropped, WithOutcome, asked, saved

(* A process starts over. *)
LEMMA StartNoted ==
  ASSUME View', StartProcess, UNCHANGED jobs
  PROVE  Ledger!NewRun
<1>1. query' = << >> /\ outcome' = << >> /\ DOMAIN query' = {}
  BY DEF StartProcess
<1>2. LedgerPhase' = "serving"
  BY DEF StartProcess, LedgerPhase
<1>3. Unanswered' = {} /\ PutOff' = {} /\ Dropped' = {}
  BY <1>1 DEF Unanswered, PutOff, Dropped, WithOutcome
<1>4. asked' = << >>
  BY <1>1 DEF asked
<1> QED
  BY <1>2, <1>3, <1>4 DEF Ledger!NewRun, View, Dropped, WithOutcome, asked

(* Which steps the ledger can see at all. *)
LEMMA StepsNoted ==
  ASSUME TypeInv, TypeInv', PhaseInv, OrderInv, PlaceInv, PlaceInv', JobsInv,
         ClosingInv, RowsWanted, LossBounded', [Next]_vars
  PROVE  [Ledger!Next]_(Ledger!vars)
<1> USE DEF dbVars, mainVars, queryVars, flagVars, cacheVars, workerVars
<1>v. View /\ View'
  BY SeenByOutcome
<1>1. ASSUME UNCHANGED <<jobs, query, outcome, LedgerPhase>>
      PROVE  UNCHANGED Ledger!vars
  BY <1>v, <1>1, Unnoticed
<1>2. CASE \/ \E loc \in Location, kind \in RequestKinds : GetWaveform(loc, kind)
           \/ \E loc \in Location : RescanNext(loc)
           \/ LoadJob
  <2>1. /\ cachePc \notin Stopping
        /\ UNCHANGED <<jobs, cachePc, shouldTerminate>>
        /\ \E r \in QueryRecord, o \in {"pending", "stored"} :
             query' = Append(query, r) /\ outcome' = Append(outcome, o)
    BY <1>2, Creates
  <2>2. LedgerPhase = "serving" /\ UNCHANGED LedgerPhase
    BY <2>1 DEF LedgerPhase, ClosingInv, Stopping
  <2> QED
    BY <1>v, <2>1, <2>2, CreateAccepts
<1>3. CASE SetTerminate
  <2>1. UNCHANGED <<jobs, query, outcome>>
    BY <1>3 DEF SetTerminate
  <2>2. LedgerPhase = "serving" /\ LedgerPhase' = "closing"
    BY <1>3 DEF SetTerminate, LedgerPhase, ClosingInv
  <2>3. Ledger!Close
    BY <1>v, <2>1, <2>2
    DEF Ledger!Close, View, Unanswered, PutOff, WithOutcome, LocOf
  <2> QED
    BY <2>3 DEF Ledger!Next
<1>4. CASE CommitJobs
  BY <1>v, <1>4, CommitSeals DEF Ledger!Next
<1>5. CASE CacheStep
  <2>1. CASE \/ LoadJobs \/ StartWorkers \/ CacheCheck \/ CacheBlock \/ AbortAnalyses
             \/ NotifyWorkers \/ JoinWorkers \/ CollectJobs \/ InsertJob
    <3>1. UNCHANGED <<jobs, query, outcome>>
      BY <2>1 DEF LoadJobs, StartWorkers, CacheCheck, CacheBlock, AbortAnalyses,
         NotifyWorkers, JoinWorkers, CollectJobs, InsertJob
    <3>2. cachePc # "done" /\ cachePc' # "done" /\ UNCHANGED shouldTerminate
      BY <2>1 DEF LoadJobs, StartWorkers, CacheCheck, CacheBlock, AbortAnalyses,
         NotifyWorkers, JoinWorkers, CollectJobs, InsertJob
    <3> QED
      BY <1>1, <3>1, <3>2 DEF LedgerPhase
  <2> QED
    BY <1>2, <1>3, <1>4, <1>5, <2>1 DEF CacheStep
<1>6. CASE MainStep
  <2>1. CASE \/ StartReturns \/ Enqueue \/ StartRescan \/ Shutdown \/ JoinCache
             \/ \E loc \in Location : RemoveWaveform(loc)
             \/ \E w \in Worker : AnswerLibrary(w)
    <3>1. UNCHANGED <<jobs, query, outcome, shouldTerminate>>
      BY <2>1 DEF StartReturns, Enqueue, StartRescan, Shutdown, JoinCache,
         RemoveWaveform, AnswerLibrary
    <3>2. cachePc = "done" <=> cachePc' = "done"
      BY <2>1 DEF StartReturns, Enqueue, StartRescan, Shutdown, JoinCache,
         RemoveWaveform, AnswerLibrary
    <3> QED
      BY <1>1, <3>1, <3>2 DEF LedgerPhase
  <2> QED
    BY <1>2, <1>6, <2>1 DEF MainStep
<1>7. ASSUME NEW w \in Worker, WorkerLockStep(w) \/ WorkerFileStep(w)
      PROVE  [Ledger!Next]_(Ledger!vars)
  <2>1. UNCHANGED <<jobs, query, cachePc, shouldTerminate>>
    BY <1>7 DEF WorkerLockStep, WorkerTakes, WorkerKeeps, WorkerSleeps, WorkerExits,
       WorkerFileStep, WorkerBlocks, BeginFile, LibraryAnswered, LibraryGivenUp,
       OpenDecoder, RenderChunk, PutFile, PutWave, Elide, FlushAborted
  <2>2. UNCHANGED LedgerPhase
    BY <2>1 DEF LedgerPhase
  <2>3. cachePc # "done"
    <3>1. workerPc[w] # "exited"
      BY <1>7 DEF WorkerLockStep, WorkerTakes, WorkerKeeps, WorkerSleeps, WorkerExits,
         WorkerFileStep, WorkerBlocks, BeginFile, LibraryAnswered, LibraryGivenUp,
         OpenDecoder, RenderChunk, PutFile, PutWave, Elide, FlushAborted
    <3> QED
      BY <3>1 DEF PhaseInv, Joined
  <2>4. LedgerPhase # "closed" /\ (shouldTerminate => LedgerPhase = "closing")
    BY <2>3 DEF LedgerPhase
  <2>5. CASE WorkerExits(w)
    <3>1. LedgerPhase = "closing"
      BY <2>4, <2>5 DEF WorkerExits
    <3> QED
      BY <1>v, <2>1, <2>2, <2>5, <3>1, ExitNoted
  <2>6. CASE FlushAborted(w)
    <3>1. workerPc[w] \in BusyPcs /\ Release(w, "requeued") /\ workerPc[w] = "flush"
      BY <2>6 DEF FlushAborted, BusyPcs
    <3>2. LedgerPhase = "closing"
      BY <2>4, <3>1 DEF ClosingInv
    <3> QED
      BY <1>v, <2>1, <2>2, <2>4, <3>1, <3>2, ReleaseNoted
  <2>7. ASSUME NEW how \in {"failed", "analysed", "stored", "nothing"},
               workerPc[w] \in BusyPcs, Release(w, how)
        PROVE  [Ledger!Next]_(Ledger!vars)
    BY <1>v, <2>1, <2>2, <2>4, <2>7, ReleaseNoted
  <2>8. ~WorkerExits(w) /\ ~FlushAborted(w) =>
          \/ UNCHANGED outcome
          \/ /\ workerPc[w] \in BusyPcs
             /\ \E how \in {"failed", "analysed", "stored", "nothing"} : Release(w, how)
    BY <1>7 DEF WorkerLockStep, WorkerTakes, WorkerKeeps, WorkerSleeps,
       WorkerFileStep, WorkerBlocks, BeginFile, LibraryAnswered, LibraryGivenUp,
       OpenDecoder, RenderChunk, PutFile, PutWave, Elide, GoTo, BusyPcs
  <2> QED
    BY <1>1, <2>1, <2>2, <2>5, <2>6, <2>7, <2>8
<1>8. CASE Restart \/ Crash
  BY <1>v, <1>8, StartNoted DEF Restart, Crash, Ledger!Next
<1>9. CASE SpuriousWake \/ Finished \/ UNCHANGED vars
  <2>1. UNCHANGED <<jobs, query, outcome, shouldTerminate>>
    BY <1>9 DEF SpuriousWake, CacheSpuriousWake, WorkerSpuriousWake, Finished, vars
  <2>2. cachePc = "done" <=> cachePc' = "done"
    BY <1>9 DEF SpuriousWake, CacheSpuriousWake, WorkerSpuriousWake, Finished, vars
  <2> QED
    BY <1>1, <2>1, <2>2 DEF LedgerPhase
<1> QED
  BY <1>5, <1>6, <1>7, <1>8, <1>9 DEF Next

(* A fresh process is a fresh ledger with some tracks on disk. *)
LEMMA InitNoted ==
  ASSUME Init, View
  PROVE  Ledger!Init
<1>1. query = << >> /\ outcome = << >> /\ DOMAIN query = {}
  BY DEF Init, FreshProcess
<1>2. LedgerPhase = "serving"
  BY DEF Init, FreshProcess, LedgerPhase
<1>3. Unanswered = {} /\ PutOff = {} /\ Dropped = {} /\ asked = << >>
  BY <1>1 DEF Unanswered, PutOff, Dropped, WithOutcome, asked
<1>4. saved \in SUBSET Location
  <2>1. jobs \in Seq(JobRow)
    BY InitTypeInv, ConstantsAssumption DEF TypeInv, TypeOK
  <2>2. \A i \in DOMAIN jobs : jobs[i] \in JobRow
    BY <2>1, LenProperties, ElementOfSeq
  <2> QED
    BY <2>2 DEF saved, JobRow
<1> QED
  BY <1>2, <1>3, <1>4 DEF Ledger!Init, View, Dropped, WithOutcome, asked, saved

LedgerInv == ClosingInv /\ RowsWanted /\ LossBounded

(* The three invariants hold in every state of every run. *)
LEMMA LedgerAlways == Spec => []LedgerInv
<1>1. Init => LedgerInv
  <2>1. Init => Dropped = {} /\ Exited = {}
    BY DEF Init, FreshProcess, Dropped, WithOutcome, Exited
  <2>2. Init => LossBounded
    BY <2>1, FS_EmptySet DEF LossBounded
  <2> QED
    BY <2>2 DEF Init, FreshProcess, LedgerInv, ClosingInv, RowsWanted, Stopping
<1>2. TypeInv /\ TypeInv' /\ PhaseInv /\ OrderInv /\ PlaceInv /\ LedgerInv
        /\ [Next]_vars => LedgerInv'
  BY ClosingStep, WantedStep, LossStep DEF LedgerInv
<1> QED
  BY <1>1, <1>2, TypeAlways, PhaseAlways, OrderAlways, PlaceAlways, PTL DEF Spec

(* The threads, the queues and the job table keep the promise of RequestLedger, for
   any tracks, finitely many workers and any number of requests and runs: no request
   is ever between two hands, and a clean exit saves the tracks of exactly the
   requests that wait or were put off (CacheImpl.cc 154-168, 199-232, 335-424,
   468-494). *)
THEOREM CacheImplementsLedger == Spec => LedgerSpec
<1>1. Init /\ PlaceInv => Ledger!Init
  BY SeenByOutcome, InitNoted
<1>2. TypeInv /\ TypeInv' /\ PhaseInv /\ OrderInv /\ PlaceInv /\ PlaceInv' /\ JobsInv
        /\ LedgerInv /\ LedgerInv' /\ [Next]_vars => [Ledger!Next]_(Ledger!vars)
  BY StepsNoted DEF LedgerInv
<1> QED
  BY <1>1, <1>2, TypeAlways, PhaseAlways, OrderAlways, PlaceAlways, JobsAlways,
     LedgerAlways, PTL DEF Spec, LedgerSpec, Ledger!Spec
-----------------------------------------------------------------------------
(* Who sleeps while what is queued. *)
Dozing(w) == workerPc[w] \in {"blocking", "waiting"}

SomeQueued == \E u \in Urgency : queue[u] # << >>

SleepInv ==
  /\ \A w \in Worker : Dozing(w) => \A u \in Urgency : slots[w][u] = NoQuery
  /\ (\E w \in Worker : workerPc[w] = "blocking") => ~SomeQueued
  /\ \A w \in Worker : workerPc[w] = "exited" => shouldTerminate
  /\ SomeQueued /\ cachePc \notin Starting /\ ~shouldTerminate /\ Worker # {}
       => \E w \in Worker : Awake(w)

(* A worker that comes to be awake, or stays so, while no queue is added to. *)
LEMMA StaysAwake ==
  ASSUME TypeInv, SleepInv, NEW w \in Worker,
         NEW pc, pc \notin {"unborn", "blocking", "waiting", "exited"},
         workerPc' = [workerPc EXCEPT ![w] = pc],
         \A x \in Worker : x # w => slots'[x] = slots[x],
         SomeQueued' => SomeQueued, UNCHANGED <<cachePc, shouldTerminate>>
  PROVE  SleepInv'
<1>t. workerPc \in [Worker -> WorkerPcs]
  BY DEF TypeInv, TypeOK
<1>1. workerPc'[w] = pc /\ \A x \in Worker : x # w => workerPc'[x] = workerPc[x]
  BY <1>t
<1>2. \A x \in Worker : Dozing(x)' => x # w /\ Dozing(x)
  BY <1>1 DEF Dozing
<1>3. \A x \in Worker : Dozing(x)' => \A u \in Urgency : slots'[x][u] = NoQuery
  BY <1>2 DEF SleepInv
<1>4. Awake(w)'
  BY <1>1 DEF Awake
<1> QED
  BY <1>1, <1>3, <1>4 DEF SleepInv

(* get_waveform finds every worker awake or waiting, and leaves one awake. *)
LEMMA EnqueueWakes ==
  ASSUME TypeInv, PhaseInv, SleepInv, Enqueue
  PROVE  SleepInv'
<1>t. workerPc \in [Worker -> WorkerPcs]
  BY DEF TypeInv, TypeOK
<1>1. /\ UNCHANGED <<slots, cachePc, shouldTerminate>>
      /\ NotifyOneWorker
      /\ \A w \in Worker : workerPc[w] # "blocking"
      /\ mainPc = "enqueue"
  BY DEF Enqueue, WorkerMutexFree, cacheVars, flagVars
<1>2. CASE \E w \in Worker : workerPc[w] = "waiting"
  <2>1. PICK w \in Worker : workerPc[w] = "waiting"
                            /\ workerPc' = [workerPc EXCEPT ![w] = "top"]
    BY <1>1, <1>2 DEF NotifyOneWorker
  <2>2. workerPc'[w] = "top" /\ \A x \in Worker : x # w => workerPc'[x] = workerPc[x]
    BY <1>t, <2>1
  <2>3. Awake(w)'
    BY <2>2 DEF Awake
  <2>4. \A x \in Worker : workerPc'[x] # "blocking"
    BY <1>1, <2>2
  <2>5. \A x \in Worker : Dozing(x)' => Dozing(x)
    BY <2>2 DEF Dozing
  <2>6. \A x \in Worker : workerPc'[x] = "exited" => shouldTerminate'
    BY <1>1, <2>2 DEF SleepInv
  <2>7. \A x \in Worker : Dozing(x)' => \A u \in Urgency : slots'[x][u] = NoQuery
    BY <1>1, <2>5 DEF SleepInv
  <2> QED
    BY <2>3, <2>4, <2>6, <2>7 DEF SleepInv
<1>3. CASE ~\E w \in Worker : workerPc[w] = "waiting"
  <2>1. workerPc' = workerPc
    BY <1>1, <1>3 DEF NotifyOneWorker
  <2>2. ASSUME ~shouldTerminate', Worker # {} PROVE \E w \in Worker : Awake(w)'
    <3>1. PICK w \in Worker : TRUE
      BY <2>2
    <3>2. workerPc[w] # "exited"
      BY <1>1, <2>2 DEF SleepInv
    <3>3. workerPc[w] # "unborn"
      <4>1. cachePc \notin Starting
        BY <1>1 DEF PhaseInv
      <4> QED
        BY <1>1, <4>1 DEF PhaseInv
    <3> QED
      BY <1>1, <1>3, <2>1, <3>2, <3>3 DEF Awake
  <2> QED
    BY <1>1, <2>1, <2>2 DEF SleepInv, Dozing
<1> QED
  BY <1>2, <1>3

(* A step of a worker: it sleeps only when there is nothing to do, and leaves only
   at the end. *)
LEMMA WorkerSleepStep ==
  ASSUME TypeInv, SleepInv, NEW w \in Worker,
         WorkerLockStep(w) \/ WorkerFileStep(w) \/ WorkerSpuriousWake(w)
  PROVE  SleepInv'
<1> USE DEF dbVars, mainVars, queryVars, flagVars, cacheVars, workerVars
<1>t. /\ workerPc \in [Worker -> WorkerPcs]
      /\ slots \in [Worker -> [Urgency -> {NoQuery} \cup DOMAIN query]]
      /\ queue \in [Urgency -> Seq(DOMAIN query)]
  BY DEF TypeInv, TypeOK
<1>1. UNCHANGED <<cachePc, shouldTerminate>>
  BY DEF WorkerLockStep, WorkerTakes, WorkerKeeps, WorkerSleeps, WorkerExits,
     WorkerSpuriousWake, WorkerFileStep, WorkerBlocks, BeginFile, LibraryAnswered,
     LibraryGivenUp, OpenDecoder, RenderChunk, PutFile, PutWave, Elide, FlushAborted
<1>2. CASE WorkerSleeps(w)
  <2>1. ~SomeQueued' /\ UNCHANGED slots /\ \A u \in Urgency : slots[w][u] = NoQuery
    BY <1>2 DEF WorkerSleeps, SomeQueued, Holds
  <2>2. /\ workerPc'[w] = "blocking"
        /\ \A x \in Worker : x # w => workerPc'[x] = workerPc[x]
    BY <1>2, <1>t DEF WorkerSleeps
  <2>3. \A x \in Worker : Dozing(x)' => x = w \/ Dozing(x)
    BY <2>2 DEF Dozing
  <2>4. \A x \in Worker : Dozing(x)' => \A u \in Urgency : slots'[x][u] = NoQuery
    BY <2>1, <2>3 DEF SleepInv
  <2>5. \A x \in Worker : workerPc'[x] = "exited" => shouldTerminate'
    BY <1>1, <2>2 DEF SleepInv
  <2> QED
    BY <2>1, <2>4, <2>5 DEF SleepInv
<1>3. CASE WorkerBlocks(w)
  <2>1. ~SomeQueued' /\ UNCHANGED slots /\ Dozing(w)
    BY <1>3 DEF WorkerBlocks, SomeQueued, SleepInv, Dozing
  <2>2. /\ workerPc'[w] = "waiting"
        /\ \A x \in Worker : x # w => workerPc'[x] = workerPc[x]
    BY <1>3, <1>t DEF WorkerBlocks
  <2>3. \A x \in Worker : Dozing(x)' => Dozing(x)
    BY <2>1, <2>2 DEF Dozing
  <2>4. \A x \in Worker : Dozing(x)' => \A u \in Urgency : slots'[x][u] = NoQuery
    BY <2>1, <2>3 DEF SleepInv
  <2>5. \A x \in Worker : workerPc'[x] = "exited" => shouldTerminate'
    BY <1>1, <2>2 DEF SleepInv
  <2> QED
    BY <2>1, <2>4, <2>5 DEF SleepInv
<1>4. CASE WorkerExits(w)
  <2>1. shouldTerminate /\ queue' = queue
        /\ slots' = [slots EXCEPT ![w] = [u \in Urgency |-> NoQuery]]
    BY <1>4 DEF WorkerExits
  <2>2. /\ workerPc'[w] = "exited"
        /\ \A x \in Worker : x # w => workerPc'[x] = workerPc[x]
        /\ \A x \in Worker : x # w => slots'[x] = slots[x]
    BY <1>4, <1>t, <2>1 DEF WorkerExits
  <2>3. \A x \in Worker : Dozing(x)' => x # w /\ Dozing(x)
    BY <2>2 DEF Dozing
  <2>4. \A x \in Worker : Dozing(x)' => \A u \in Urgency : slots'[x][u] = NoQuery
    BY <2>2, <2>3 DEF SleepInv
  <2>5. (\E x \in Worker : workerPc'[x] = "blocking") => ~SomeQueued'
    BY <2>1, <2>2 DEF SleepInv, SomeQueued
  <2> QED
    BY <1>1, <2>1, <2>4, <2>5 DEF SleepInv
<1>5. ASSUME NEW u \in Urgency, WorkerTakes(w, u) PROVE SleepInv'
  <2>1. SomeQueued' => SomeQueued
    <3>1. queue[u] # << >>
      BY <1>5 DEF WorkerTakes, StopsAt
    <3> QED
      BY <3>1 DEF SomeQueued
  <2>2. /\ workerPc' = [workerPc EXCEPT ![w] = "process"]
        /\ \A x \in Worker : x # w => slots'[x] = slots[x]
    BY <1>5, <1>t DEF WorkerTakes
  <2> QED
    BY <1>1, <2>1, <2>2, StaysAwake
<1>6. CASE ~WorkerSleeps(w) /\ ~WorkerBlocks(w) /\ ~WorkerExits(w)
           /\ ~\E u \in Urgency : WorkerTakes(w, u)
  <2>1. queue' = queue
    BY <1>6 DEF WorkerLockStep, WorkerKeeps, WorkerSpuriousWake, WorkerFileStep,
       BeginFile, LibraryAnswered, LibraryGivenUp, OpenDecoder, RenderChunk, PutFile,
       PutWave, Elide, FlushAborted
  <2>2. PICK pc : /\ pc \notin {"unborn", "blocking", "waiting", "exited"}
                  /\ workerPc' = [workerPc EXCEPT ![w] = pc]
    BY <1>6 DEF WorkerLockStep, WorkerKeeps, WorkerSpuriousWake, WorkerFileStep,
       BeginFile, LibraryAnswered, LibraryGivenUp, OpenDecoder, RenderChunk, PutFile,
       PutWave, Elide, FlushAborted, GoTo, Release, NextSlot
  <2>3. \A x \in Worker : x # w => slots'[x] = slots[x]
    BY <1>6, <1>t DEF WorkerLockStep, WorkerKeeps, WorkerSpuriousWake, WorkerFileStep,
       BeginFile, LibraryAnswered, LibraryGivenUp, OpenDecoder, RenderChunk, PutFile,
       PutWave, Elide, FlushAborted, GoTo, Release
  <2>4. SomeQueued' => SomeQueued
    BY <2>1 DEF SomeQueued
  <2> QED
    BY <1>1, <2>2, <2>3, <2>4, StaysAwake
<1> QED
  BY <1>2, <1>3, <1>4, <1>5, <1>6

(* Every step of every thread leaves a worker awake for what is queued. *)
LEMMA SleepStep ==
  ASSUME TypeInv, PhaseInv, ClosingInv, SleepInv, [Next]_vars
  PROVE  SleepInv'
<1> USE DEF dbVars, mainVars, queryVars, flagVars, cacheVars, workerVars
<1>t. workerPc \in [Worker -> WorkerPcs]
  BY DEF TypeInv, TypeOK
<1>1. ASSUME UNCHANGED <<workerPc, slots, queue, shouldTerminate>>,
             cachePc' \notin Starting => cachePc \notin Starting
      PROVE  SleepInv'
  BY <1>1 DEF SleepInv, Dozing, SomeQueued, Awake
<1>2. CASE MainStep
  <2>1. CASE Shutdown
    <3>1. cachePc' \in {cachePc, "check"} /\ cachePc \notin Starting
      BY <2>1 DEF Shutdown, PhaseInv
    <3> QED
      BY <1>1, <2>1, <3>1 DEF Shutdown
  <2> QED
    BY <1>1, <1>2, <2>1, EnqueueWakes DEF MainStep, StartReturns, GetWaveform,
       StartRescan, RescanNext, RemoveWaveform, AnswerLibrary, JoinCache
<1>3. CASE LoadJob
  <2>1. /\ cachePc' \in Starting /\ UNCHANGED <<workerPc, slots, shouldTerminate>>
        /\ \A w \in Worker : workerPc[w] = "unborn"
    BY <1>3 DEF LoadJob, PhaseInv, Starting
  <2> QED
    BY <2>1 DEF SleepInv, Dozing
<1>4. CASE StartWorkers
  <2>1. /\ workerPc' = [w \in Worker |-> "top"]
        /\ UNCHANGED <<slots, queue, shouldTerminate>>
    BY <1>4 DEF StartWorkers
  <2>2. \A w \in Worker : workerPc'[w] = "top"
    BY <2>1
  <2> QED
    BY <2>2 DEF SleepInv, Dozing, Awake
<1>5. CASE NotifyWorkers
  <2>1. /\ shouldTerminate' /\ UNCHANGED <<slots, queue>>
        /\ \A w \in Worker : workerPc'[w] = IF workerPc[w] = "waiting" THEN "top"
                                            ELSE workerPc[w]
    BY <1>5 DEF NotifyWorkers, ClosingInv, Stopping
  <2>2. \A w \in Worker : Dozing(w)' => Dozing(w)
    BY <2>1 DEF Dozing
  <2>3. \A w \in Worker : Dozing(w)' => \A u \in Urgency : slots'[w][u] = NoQuery
    BY <2>1, <2>2 DEF SleepInv
  <2>4. (\E w \in Worker : workerPc'[w] = "blocking") => ~SomeQueued'
    BY <2>1 DEF SleepInv, SomeQueued
  <2> QED
    BY <2>1, <2>3, <2>4 DEF SleepInv
<1>6. CASE SetTerminate
  <2>1. shouldTerminate' /\ UNCHANGED <<workerPc, slots, queue>>
    BY <1>6 DEF SetTerminate
  <2> QED
    BY <2>1 DEF SleepInv, Dozing, SomeQueued
<1>7. CASE CacheStep \/ CacheSpuriousWake
  <2>1. CASE LoadJobs \/ CacheCheck \/ CacheBlock \/ AbortAnalyses \/ JoinWorkers
             \/ CollectJobs \/ InsertJob \/ CommitJobs \/ CacheSpuriousWake
    <3>1. /\ UNCHANGED <<workerPc, slots, queue, shouldTerminate>>
          /\ cachePc' \notin Starting => cachePc \notin Starting
      BY <2>1 DEF LoadJobs, CacheCheck, CacheBlock, AbortAnalyses, JoinWorkers,
         CollectJobs, InsertJob, CommitJobs, CacheSpuriousWake, Starting
    <3> QED
      BY <1>1, <3>1
  <2> QED
    BY <1>3, <1>4, <1>5, <1>6, <1>7, <2>1 DEF CacheStep
<1>8. CASE Restart \/ Crash
  <2>1. cachePc' \in Starting /\ \A w \in Worker : workerPc'[w] = "unborn"
    BY <1>8 DEF Restart, Crash, StartProcess, Starting
  <2> QED
    BY <2>1 DEF SleepInv, Dozing
<1>9. CASE Finished \/ UNCHANGED vars
  BY <1>1, <1>9 DEF Finished, vars
<1> QED
  BY <1>2, <1>7, <1>8, <1>9, WorkerSleepStep DEF Next, SpuriousWake

(* No wakeup of a worker is lost by get_waveform, whatever the workers do by
   themselves: nothing waits in a queue, or in a slot, for a worker that sleeps. *)
THEOREM RequestsAreAttended == Spec => []NoRequestForgotten
<1>1. Init => SleepInv
  <2>1. Init => cachePc \in Starting /\ \A w \in Worker : workerPc[w] = "unborn"
    BY DEF Init, FreshProcess, Starting
  <2> QED
    BY <2>1 DEF SleepInv, Dozing
<1>2. TypeInv /\ PhaseInv /\ LedgerInv /\ SleepInv /\ [Next]_vars => SleepInv'
  BY SleepStep DEF LedgerInv
<1>3. ASSUME TypeInv, PhaseInv, PlaceInv, JobsInv, SleepInv PROVE NoRequestForgotten
  <2>1. SUFFICES ASSUME cachePc \notin {"open", "loading"}, ~shouldTerminate,
                        Worker # {}, NEW q \in DOMAIN query, outcome[q] = "pending",
                        request # q
                 PROVE  \E w \in Worker :
                          Awake(w) /\ (Queued(q) \/ \E u \in Urgency : slots[w][u] = q)
    BY DEF NoRequestForgotten
  <2>2. CASE Queued(q)
    <3>1. SomeQueued
      BY <2>2, EmptySeq, LenProperties DEF Queued, SomeQueued
    <3> QED
      BY <1>3, <2>1, <2>2, <3>1 DEF SleepInv, Starting
  <2>3. CASE Held(q)
    <3>1. PICK w \in Worker, u \in Urgency : slots[w][u] = q
      BY <2>3 DEF Held
    <3>2. q # NoQuery
      BY <1>3, LenProperties DEF TypeInv, TypeOK, NoQuery
    <3>3. ~Dozing(w) /\ workerPc[w] \notin Gone
      BY <1>3, <3>1, <3>2 DEF SleepInv, JobsInv, GoneHoldsNone
    <3> QED
      BY <3>1, <3>3 DEF Awake, Dozing, Gone
  <2> QED
    BY <1>3, <2>1, <2>2, <2>3 DEF PlaceInv, QueryPlaced
<1> QED
  BY <1>1, <1>2, <1>3, TypeAlways, PhaseAlways, PlaceAlways, JobsAlways, LedgerAlways,
     PTL DEF Spec
=============================================================================
