------------------------------ MODULE WaveCache ------------------------------
(***************************************************************************)
(* The waveform cache of the seekbar component: the main thread that asks  *)
(* for waveforms, the cache thread (cache_main), the worker threads        *)
(* (worker_main) that analyse tracks, and the database that outlives the   *)
(* process.                                                                *)
(*                                                                         *)
(* A step is a stretch of code between two points where another thread can *)
(* be noticed: taking or releasing a mutex, blocking on a condition        *)
(* variable, touching the database.  The evaluation of a wait predicate    *)
(* and the blocking that follows are two steps, because the flags the      *)
(* predicates read are set without the mutex of the waiter.                *)
(***************************************************************************)
EXTENDS Naturals, Sequences, FiniteSets

CONSTANTS
  Location,      \* the tracks (path and subsong); a whitespace path is refused
                 \* by get_waveform before anything happens and is not a member
  Forbidden,     \* the tracks is_of_forbidden_protocol matches
  Worker,        \* the analysis threads, at most g_max_concurrent_jobs of them
  Slices,        \* audio chunks that make up one track
  CheckLibrary,  \* TRUE iff g_analyse_tracks_outside_library is off
  MaxQueries,    \* bound: queries created in one run of the process
  MaxRuns        \* bound: runs of the process

ASSUME ConstantsAssumption ==
  /\ Forbidden \subseteq Location
  /\ Slices \in Nat \ {0}
  /\ CheckLibrary \in BOOLEAN
  /\ IsFiniteSet(Location) /\ IsFiniteSet(Worker)
  /\ MaxQueries \in Nat /\ Cardinality(Location) <= MaxQueries
  /\ MaxRuns \in Nat \ {0}

(* query_urgency, in the order in which worker_main looks at the queues. *)
Needed  == 0
Desired == 1
Bulk    == 2
Urgency == {Needed, Desired, Bulk}

NoQuery == 0

QueryRecord == [loc : Location, urgency : Urgency, forced : BOOLEAN]
JobRow      == [loc : Location, user : BOOLEAN]

(* What the code asks for: the player and the window want a track now, the
   window wants the next one soon, the context menu enqueues for later. *)
RequestKinds == { [urgency |-> Needed,  forced |-> FALSE],
                  [urgency |-> Desired, forced |-> FALSE],
                  [urgency |-> Bulk,    forced |-> FALSE],
                  [urgency |-> Bulk,    forced |-> TRUE] }

(* How set_waveform was last called for a query, or why it never will be:
   "pending" is not a result, "requeued" is the empty result of an aborted
   analysis, "dropped" a query released at termination without any. *)
Outcome == {"pending", "analysed", "stored", "nothing", "failed",
            "requeued", "dropped"}

MainPcs   == {"start", "idle", "enqueue", "rescan", "join", "quit"}
CachePcs  == {"open", "loading", "check", "blocking", "waiting", "terminate",
              "abort", "notify", "join", "collect", "insert", "done"}
WorkerPcs == {"unborn", "top", "blocking", "waiting", "process", "library",
              "decode", "putwave", "elide", "flush", "exited"}
Answers   == {"none", "asked", "in", "out"}

VARIABLES
  files, waves, jobs,      \* database: rows of file, of wave, of job by jid
  run,                     \* how many times the process was started
  mainPc, request, todo,   \* main thread: the query get_waveform holds, the
                           \* locations rescan_waveforms has left
  query, outcome,          \* the queries of this run by id, and their fate
  queue, flushQueue,       \* requests_by_urgency, job_flush_queue
  storeOpen,               \* store is not null
  shouldShutdown, shouldTerminate, aborting,
  cachePc, deque, inserted,  \* cache thread: its jobs local, rows not committed
  workerPc, slots, progress, current, library
                           \* per worker: jobs[3], states[3] (0: null, n+1: n
                           \* chunks decoded), the i of the second loop, the
                           \* library promise

dbVars     == <<files, waves, jobs>>
mainVars   == <<mainPc, request, todo>>
queryVars  == <<query, outcome>>
flagVars   == <<shouldShutdown, shouldTerminate, aborting>>
cacheVars  == <<cachePc, deque, inserted, storeOpen>>
workerVars == <<workerPc, slots, progress, current, library>>
vars == <<dbVars, run, mainVars, queryVars, queue, flushQueue, flagVars,
          cacheVars, workerVars>>

-----------------------------------------------------------------------------
(* Reading the state. *)

Holds(w, u) == slots[w][u] # NoQuery
Job(w)      == slots[w][current[w]]
LocOf(q)    == query[q].loc
ForcedOf(q) == query[q].forced
Has(loc)    == loc \in files /\ loc \in waves

(* Variants of the operators below with a plausible mistake in each; every
   property is checked to fail under one of them. *)
PushAtBack(q) ==
  queue' = [queue EXCEPT ![query'[q].urgency] = Append(@, q)]
NoNotification == workerPc' = workerPc
StopsAtAny(w, u) == Holds(w, u) \/ queue[u] # <<>>
PeekOnly(u) == queue' = queue
KeepState(w) == progress' = progress
OneChunkTooMany(w) == progress[w][current[w]] \in 1..(Slices + 1)
WaveRowAnyway(loc) == waves' = waves \cup {loc}
WaitForAnswer == FALSE
WorkersDetached == TRUE
QueuesOnly == queue[Needed] \o queue[Desired] \o queue[Bulk]
BulkForgotten == flushQueue \o queue[Needed] \o queue[Desired]

-----------------------------------------------------------------------------
(* Locks.  A mutex is held across steps only at the points named here, so
   who holds it can be read off the program counters. *)

WorkerMutexFree == \A w \in Worker : workerPc[w] # "blocking"
RunMutexFree    == cachePc \notin {"blocking", "terminate", "abort", "notify"}
CacheMutexFree  == \A w \in Worker : workerPc[w] # "putwave"

(* worker_bump.notify_one: some waiting worker, if there is one, wakes. *)
NotifyOneWorker ==
  IF \E w \in Worker : workerPc[w] = "waiting"
  THEN \E w \in Worker :
         /\ workerPc[w] = "waiting"
         /\ workerPc' = [workerPc EXCEPT ![w] = "top"]
  ELSE workerPc' = workerPc

(* The switch of get_waveform: needed in front, the others at the back. *)
Push(q) ==
  queue' = [queue EXCEPT ![query'[q].urgency] =
              IF query'[q].urgency = Needed THEN <<q>> \o @ ELSE Append(@, q)]

-----------------------------------------------------------------------------
(* Start of the process. *)

FreshProcess ==
  /\ mainPc = "start" /\ request = NoQuery /\ todo = {}
  /\ query = <<>> /\ outcome = <<>>
  /\ queue = [u \in Urgency |-> <<>>] /\ flushQueue = <<>>
  /\ storeOpen = FALSE
  /\ shouldShutdown = FALSE /\ shouldTerminate = FALSE /\ aborting = FALSE
  /\ cachePc = "open" /\ deque = <<>> /\ inserted = <<>>
  /\ workerPc = [w \in Worker |-> "unborn"]
  /\ slots    = [w \in Worker |-> [u \in Urgency |-> NoQuery]]
  /\ progress = [w \in Worker |-> [u \in Urgency |-> 0]]
  /\ current  = [w \in Worker |-> Needed]
  /\ library  = [w \in Worker |-> "none"]

(* The job table as the UNIQUE constraint on (location, subsong) keeps it. *)
JobTable ==
  { t \in UNION { [1..n -> JobRow] : n \in 0..Cardinality(Location) } :
      \A i, j \in DOMAIN t : t[i].loc = t[j].loc => i = j }

Init ==
  /\ files \in SUBSET Location
  /\ waves = files
  /\ jobs \in JobTable
  /\ run = 1
  /\ FreshProcess

-----------------------------------------------------------------------------
(* Main thread. *)

(* cache_impl::start returns once the cache thread reached init_sync. *)
StartReturns ==
  /\ mainPc = "start"
  /\ cachePc \notin {"open", "loading"}
  /\ mainPc' = "idle"
  /\ UNCHANGED <<dbVars, run, request, todo, queryVars, queue, flushQueue,
                 flagVars, cacheVars, workerVars>>

NewQuery(loc, kind) ==
  query' = Append(query,
             [loc |-> loc, urgency |-> kind.urgency, forced |-> kind.forced])

(* get_waveform up to the lock: the answer is in the store, or worker_mutex
   has to be taken.  has() is evaluated here, without any mutex. *)
GetWaveform(loc, kind) ==
  /\ mainPc = "idle"
  /\ Len(query) < MaxQueries
  /\ NewQuery(loc, kind)
  /\ IF kind.forced \/ ~Has(loc)
     THEN /\ outcome' = Append(outcome, "pending")
          /\ mainPc' = "enqueue"
          /\ request' = Len(query) + 1
     ELSE /\ outcome' = Append(outcome, "stored")
          /\ UNCHANGED <<mainPc, request>>
  /\ UNCHANGED <<dbVars, run, todo, queue, flushQueue, flagVars, cacheVars,
                 workerVars>>

(* The rest of get_waveform, under worker_mutex. *)
Enqueue ==
  /\ mainPc = "enqueue"
  /\ WorkerMutexFree
  /\ UNCHANGED query
  /\ Push(request)
  /\ NotifyOneWorker
  /\ request' = NoQuery
  /\ mainPc' = IF todo = {} THEN "idle" ELSE "rescan"
  /\ UNCHANGED <<dbVars, run, todo, outcome, flushQueue, flagVars, cacheVars,
                 slots, progress, current, library>>

(* rescan_waveforms: every row of file, whether or not it has a wave row,
   becomes a forced bulk query; get_waveform is called for one at a time. *)
StartRescan ==
  /\ mainPc = "idle"
  /\ files # {}
  /\ Len(query) + Cardinality(files) <= MaxQueries
  /\ todo' = files
  /\ mainPc' = "rescan"
  /\ UNCHANGED <<dbVars, run, request, queryVars, queue, flushQueue, flagVars,
                 cacheVars, workerVars>>

RescanNext(loc) ==
  /\ mainPc = "rescan"
  /\ loc \in todo
  /\ NewQuery(loc, [urgency |-> Bulk, forced |-> TRUE])
  /\ outcome' = Append(outcome, "pending")
  /\ request' = Len(query) + 1
  /\ todo' = todo \ {loc}
  /\ mainPc' = "enqueue"
  /\ UNCHANGED <<dbVars, run, queue, flushQueue, flagVars, cacheVars,
                 workerVars>>

(* remove_waveform: deletes the file row and, by trigger, its wave row.  It
   takes no mutex, so it can fall between the two statements of put. *)
RemoveWaveform(loc) ==
  /\ mainPc = "idle"
  /\ loc \in files
  /\ files' = files \ {loc}
  /\ waves' = waves \ {loc}
  /\ UNCHANGED <<jobs, run, mainVars, queryVars, queue, flushQueue, flagVars,
                 cacheVars, workerVars>>

(* The lambda a worker posted with in_main_thread: it runs only while the
   main thread is in its message loop. *)
AnswerLibrary(w) ==
  /\ mainPc = "idle"
  /\ library[w] = "asked"
  /\ \E a \in {"in", "out"} : library' = [library EXCEPT ![w] = a]
  /\ UNCHANGED <<dbVars, run, mainVars, queryVars, queue, flushQueue, flagVars,
                 cacheVars, workerPc, slots, progress, current>>

(* shutdown: the flag and the notification under cache_mutex, which is not
   the mutex cache_main waits with; then join. *)
Shutdown ==
  /\ mainPc = "idle"
  /\ CacheMutexFree
  /\ shouldShutdown' = TRUE
  /\ cachePc' = IF cachePc = "waiting" THEN "check" ELSE cachePc
  /\ mainPc' = "join"
  /\ UNCHANGED <<dbVars, run, request, todo, queryVars, queue, flushQueue,
                 shouldTerminate, aborting, deque, inserted, storeOpen,
                 workerVars>>

JoinCache ==
  /\ mainPc = "join"
  /\ cachePc = "done"
  /\ mainPc' = "quit"
  /\ UNCHANGED <<dbVars, run, request, todo, queryVars, queue, flushQueue,
                 flagVars, cacheVars, workerVars>>

-----------------------------------------------------------------------------
(* Cache thread. *)

(* load_data: open the store and read the job table. *)
LoadJobs ==
  /\ cachePc = "open"
  /\ storeOpen' = TRUE
  /\ deque' = jobs
  /\ cachePc' = "loading"
  /\ UNCHANGED <<dbVars, run, mainVars, queryVars, queue, flushQueue, flagVars,
                 inserted, workerVars>>

(* One turn of its loop: a bulk query through get_waveform.  The main thread
   waits at init_sync and no worker exists, so nobody can interfere. *)
LoadJob ==
  /\ cachePc = "loading"
  /\ deque # <<>>
  /\ LET row == Head(deque) IN
       /\ NewQuery(row.loc, [urgency |-> Bulk, forced |-> row.user])
       /\ IF row.user \/ ~Has(row.loc)
          THEN /\ outcome' = Append(outcome, "pending")
               /\ Push(Len(query) + 1)
          ELSE /\ outcome' = Append(outcome, "stored")
               /\ UNCHANGED queue
  /\ deque' = Tail(deque)
  /\ UNCHANGED <<dbVars, run, mainVars, flushQueue, flagVars, cachePc,
                 inserted, storeOpen, workerVars>>

(* init_sync passed, the workers are started. *)
StartWorkers ==
  /\ cachePc = "loading"
  /\ deque = <<>>
  /\ cachePc' = "check"
  /\ workerPc' = [w \in Worker |-> "top"]
  /\ UNCHANGED <<dbVars, run, mainVars, queryVars, queue, flushQueue, flagVars,
                 deque, inserted, storeOpen, slots, progress, current,
                 library>>

(* bump.wait: take run_state.mutex and evaluate the predicate.  Nothing is
   ever put into worker_results, so only should_shutdown can make it true. *)
CacheCheck ==
  /\ cachePc = "check"
  /\ cachePc' = IF shouldShutdown THEN "terminate" ELSE "blocking"
  /\ UNCHANGED <<dbVars, run, mainVars, queryVars, queue, flushQueue, flagVars,
                 deque, inserted, storeOpen, workerVars>>

(* ... and block, giving up run_state.mutex. *)
CacheBlock ==
  /\ cachePc = "blocking"
  /\ cachePc' = "waiting"
  /\ UNCHANGED <<dbVars, run, mainVars, queryVars, queue, flushQueue, flagVars,
                 deque, inserted, storeOpen, workerVars>>

CacheSpuriousWake ==
  /\ cachePc = "waiting"
  /\ cachePc' = "check"
  /\ UNCHANGED <<dbVars, run, mainVars, queryVars, queue, flushQueue, flagVars,
                 deque, inserted, storeOpen, workerVars>>

(* The three statements after the wait, with run_state.mutex but without
   worker_mutex: a worker may run, and evaluate its predicate, in between. *)
SetTerminate ==
  /\ cachePc = "terminate"
  /\ shouldTerminate' = TRUE
  /\ cachePc' = "abort"
  /\ UNCHANGED <<dbVars, run, mainVars, queryVars, queue, flushQueue,
                 shouldShutdown, aborting, deque, inserted, storeOpen,
                 workerVars>>

AbortAnalyses ==
  /\ cachePc = "abort"
  /\ aborting' = TRUE
  /\ cachePc' = "notify"
  /\ UNCHANGED <<dbVars, run, mainVars, queryVars, queue, flushQueue,
                 shouldShutdown, shouldTerminate, deque, inserted, storeOpen,
                 workerVars>>

NotifyWorkers ==
  /\ cachePc = "notify"
  /\ workerPc' = [w \in Worker |->
                    IF workerPc[w] = "waiting" THEN "top" ELSE workerPc[w]]
  /\ cachePc' = "join"
  /\ UNCHANGED <<dbVars, run, mainVars, queryVars, queue, flushQueue, flagVars,
                 deque, inserted, storeOpen, slots, progress, current,
                 library>>

AllWorkersJoined == \A w \in Worker : workerPc[w] = "exited"

JoinWorkers ==
  /\ cachePc = "join"
  /\ AllWorkersJoined
  /\ cachePc' = "collect"
  /\ UNCHANGED <<dbVars, run, mainVars, queryVars, queue, flushQueue, flagVars,
                 deque, inserted, storeOpen, workerVars>>

(* flush_jobs: the aborted queries, then the queues by urgency; put_jobs
   begins its transaction with an empty job table. *)
Unfinished == flushQueue \o queue[Needed] \o queue[Desired] \o queue[Bulk]

CollectJobs ==
  /\ cachePc = "collect"
  /\ deque' = [i \in 1..Len(Unfinished) |->
                 [loc |-> LocOf(Unfinished[i]), user |-> ForcedOf(Unfinished[i])]]
  /\ inserted' = <<>>
  /\ cachePc' = "insert"
  /\ UNCHANGED <<dbVars, run, mainVars, queryVars, queue, flushQueue, flagVars,
                 storeOpen, workerVars>>

(* One INSERT of put_jobs: a second row for a location breaks the UNIQUE
   constraint, which the code does not notice. *)
InsertJob ==
  /\ cachePc = "insert"
  /\ deque # <<>>
  /\ inserted' = IF \E i \in 1..Len(inserted) : inserted[i].loc = Head(deque).loc
                 THEN inserted
                 ELSE Append(inserted, Head(deque))
  /\ deque' = Tail(deque)
  /\ UNCHANGED <<dbVars, run, mainVars, queryVars, queue, flushQueue, flagVars,
                 cachePc, storeOpen, workerVars>>

(* COMMIT, and store.reset(). *)
CommitJobs ==
  /\ cachePc = "insert"
  /\ deque = <<>>
  /\ jobs' = inserted
  /\ storeOpen' = FALSE
  /\ cachePc' = "done"
  /\ UNCHANGED <<files, waves, run, mainVars, queryVars, queue, flushQueue,
                 flagVars, deque, inserted, workerVars>>

-----------------------------------------------------------------------------
(* Workers.  Each turn of worker_main's loop takes at most one query, then   *)
(* gives every query the worker holds one call of process_file.              *)

(* The slot at which the loop under the lock stops, if there is one. *)
StopsAt(w, u) ==
  /\ Holds(w, u) \/ queue[u] # <<>>
  /\ \A v \in Urgency : v < u => ~Holds(w, v) /\ queue[v] = <<>>

PopFront(u) == queue' = [queue EXCEPT ![u] = Tail(@)]

WorkerTakes(w, u) ==
  /\ workerPc[w] = "top" /\ WorkerMutexFree /\ ~shouldTerminate
  /\ StopsAt(w, u) /\ ~Holds(w, u)
  /\ slots' = [slots EXCEPT ![w][u] = Head(queue[u])]
  /\ PopFront(u)
  /\ current' = [current EXCEPT ![w] = u]
  /\ workerPc' = [workerPc EXCEPT ![w] = "process"]
  /\ UNCHANGED <<dbVars, run, mainVars, queryVars, flushQueue, flagVars,
                 cacheVars, progress, library>>

WorkerKeeps(w, u) ==
  /\ workerPc[w] = "top" /\ WorkerMutexFree /\ ~shouldTerminate
  /\ StopsAt(w, u) /\ Holds(w, u)
  /\ current' = [current EXCEPT ![w] = u]
  /\ workerPc' = [workerPc EXCEPT ![w] = "process"]
  /\ UNCHANGED <<dbVars, run, mainVars, queryVars, queue, flushQueue, flagVars,
                 cacheVars, slots, progress, library>>

(* worker_bump.wait with a false predicate: worker_mutex is still held. *)
WorkerSleeps(w) ==
  /\ workerPc[w] = "top" /\ WorkerMutexFree /\ ~shouldTerminate
  /\ \A u \in Urgency : ~Holds(w, u) /\ queue[u] = <<>>
  /\ workerPc' = [workerPc EXCEPT ![w] = "blocking"]
  /\ UNCHANGED <<dbVars, run, mainVars, queryVars, queue, flushQueue, flagVars,
                 cacheVars, slots, progress, current, library>>

WorkerBlocks(w) ==
  /\ workerPc[w] = "blocking"
  /\ workerPc' = [workerPc EXCEPT ![w] = "waiting"]
  /\ UNCHANGED <<dbVars, run, mainVars, queryVars, queue, flushQueue, flagVars,
                 cacheVars, slots, progress, current, library>>

WorkerSpuriousWake(w) ==
  /\ workerPc[w] = "waiting"
  /\ workerPc' = [workerPc EXCEPT ![w] = "top"]
  /\ UNCHANGED <<dbVars, run, mainVars, queryVars, queue, flushQueue, flagVars,
                 cacheVars, slots, progress, current, library>>

(* should_workers_terminate: jobs and states are released, nothing else. *)
WorkerExits(w) ==
  /\ workerPc[w] = "top" /\ WorkerMutexFree /\ shouldTerminate
  /\ outcome' = [q \in DOMAIN outcome |->
                   IF \E u \in Urgency : slots[w][u] = q
                   THEN "dropped" ELSE outcome[q]]
  /\ slots'    = [slots    EXCEPT ![w] = [u \in Urgency |-> NoQuery]]
  /\ progress' = [progress EXCEPT ![w] = [u \in Urgency |-> 0]]
  /\ workerPc' = [workerPc EXCEPT ![w] = "exited"]
  /\ UNCHANGED <<dbVars, run, mainVars, query, queue, flushQueue, flagVars,
                 cacheVars, current, library>>

(* On to the next slot that holds a query, or back to the top of the loop. *)
NextSlot(w) ==
  LET rest == {u \in Urgency : u > current[w] /\ Holds(w, u)} IN
  \/ /\ rest = {}
     /\ workerPc' = [workerPc EXCEPT ![w] = "top"]
     /\ current' = [current EXCEPT ![w] = Needed]
  \/ \E u \in rest :
       /\ \A v \in rest : u <= v
       /\ workerPc' = [workerPc EXCEPT ![w] = "process"]
       /\ current' = [current EXCEPT ![w] = u]

(* s.reset(): decoder, builder and audio source go. *)
ResetState(w) == progress' = [progress EXCEPT ![w][current[w]] = 0]

(* Any result but not_done: set_waveform, then q.release() and s.reset(). *)
Release(w, how) ==
  /\ outcome'  = [outcome  EXCEPT ![Job(w)] = how]
  /\ slots'    = [slots    EXCEPT ![w][current[w]] = NoQuery]
  /\ ResetState(w)
  /\ NextSlot(w)

GoTo(w, pc) == /\ workerPc' = [workerPc EXCEPT ![w] = pc]
               /\ UNCHANGED <<outcome, slots, progress, current>>

(* process_file without a state, up to the library check: what it finds
   under cache_mutex, or before it for a forbidden protocol. *)
BeginFile(w) ==
  /\ workerPc[w] = "process"
  /\ progress[w][current[w]] = 0
  /\ LET loc == LocOf(Job(w))
         forced == ForcedOf(Job(w)) IN
       \/ /\ loc \in Forbidden /\ ~forced
          /\ GoTo(w, "elide")
          /\ UNCHANGED library
       \/ /\ loc \notin Forbidden \/ forced
          /\ CacheMutexFree
          /\ \/ /\ ~storeOpen \/ aborting
                /\ GoTo(w, "flush")
                /\ UNCHANGED library
             \/ /\ storeOpen /\ ~aborting /\ ~forced /\ Has(loc)
                /\ GoTo(w, "elide")
                /\ UNCHANGED library
             \/ /\ storeOpen /\ ~aborting /\ (forced \/ ~Has(loc))
                /\ IF CheckLibrary
                   THEN /\ GoTo(w, "library")
                        /\ library' = [library EXCEPT ![w] = "asked"]
                   ELSE /\ GoTo(w, "decode")
                        /\ UNCHANGED library
  /\ UNCHANGED <<dbVars, run, mainVars, query, queue, flushQueue, flagVars,
                 cacheVars>>

(* The wait for the promise, 200 ms at a time while nobody aborts. *)
LibraryAnswered(w) ==
  /\ workerPc[w] = "library"
  /\ library[w] \in {"in", "out"}
  /\ GoTo(w, IF library[w] = "in" THEN "decode" ELSE "elide")
  /\ library' = [library EXCEPT ![w] = "none"]
  /\ UNCHANGED <<dbVars, run, mainVars, query, queue, flushQueue, flagVars,
                 cacheVars>>

GivesUpWaiting == aborting

LibraryGivenUp(w) ==
  /\ workerPc[w] = "library"
  /\ GivesUpWaiting
  /\ GoTo(w, "decode")
  /\ library' = [library EXCEPT ![w] = "none"]
  /\ UNCHANGED <<dbVars, run, mainVars, query, queue, flushQueue, flagVars,
                 cacheVars>>

(* The rest of the first call: the decoder is opened and the result is
   not_done, or the track cannot be analysed, or the input throws on abort. *)
OpenDecoder(w) ==
  /\ workerPc[w] = "decode"
  /\ \/ /\ progress' = [progress EXCEPT ![w][current[w]] = 1]
        /\ NextSlot(w)
        /\ UNCHANGED <<outcome, slots>>
     \/ Release(w, "failed")
     \/ aborting /\ GoTo(w, "flush")
  /\ UNCHANGED <<dbVars, run, mainVars, query, queue, flushQueue, flagVars,
                 cacheVars, library>>

(* waveform_builder::finished() is not reached yet. *)
AudioLeft(w) == progress[w][current[w]] \in 1..Slices

(* A later call with audio left: one chunk, an error, or the abort. *)
RenderChunk(w) ==
  /\ workerPc[w] = "process"
  /\ AudioLeft(w)
  /\ \/ /\ ~aborting
        /\ progress' = [progress EXCEPT ![w][current[w]] = @ + 1]
        /\ NextSlot(w)
        /\ UNCHANGED <<outcome, slots>>
     \/ /\ ~aborting
        /\ Release(w, "failed")
     \/ /\ aborting
        /\ GoTo(w, "flush")
  /\ UNCHANGED <<dbVars, run, mainVars, query, queue, flushQueue, flagVars,
                 cacheVars, library>>

(* The last call: finalize_waveform, which may notice the abort, then put
   under cache_mutex: INSERT INTO file, ... *)
PutFile(w) ==
  /\ workerPc[w] = "process"
  /\ progress[w][current[w]] > Slices
  /\ \/ /\ aborting
        /\ GoTo(w, "flush")
        /\ UNCHANGED files
     \/ /\ ~aborting
        /\ CacheMutexFree
        /\ files' = files \cup {LocOf(Job(w))}
        /\ GoTo(w, "putwave")
  /\ UNCHANGED <<waves, jobs, run, mainVars, query, queue, flushQueue,
                 flagVars, cacheVars, library>>

PutWaveRow(loc) == waves' = IF loc \in files THEN waves \cup {loc} ELSE waves

(* ... REPLACE INTO wave SELECT ... FROM file, which adds nothing when the
   file row is gone again.  The result is done all the same. *)
PutWave(w) ==
  /\ workerPc[w] = "putwave"
  /\ PutWaveRow(LocOf(Job(w)))
  /\ Release(w, "analysed")
  /\ UNCHANGED <<files, jobs, run, mainVars, query, queue, flushQueue,
                 flagVars, cacheVars, library>>

(* Result elided: store->get, whatever it finds by now. *)
Elide(w) ==
  /\ workerPc[w] = "elide"
  /\ Release(w, IF Has(LocOf(Job(w))) THEN "stored" ELSE "nothing")
  /\ UNCHANGED <<dbVars, run, mainVars, query, queue, flushQueue, flagVars,
                 cacheVars, library>>

(* Result aborted: kept for the next run, under run_state.mutex. *)
FlushAborted(w) ==
  /\ workerPc[w] = "flush"
  /\ RunMutexFree
  /\ flushQueue' = Append(flushQueue, Job(w))
  /\ Release(w, "requeued")
  /\ UNCHANGED <<dbVars, run, mainVars, query, queue, flagVars, cacheVars,
                 library>>

-----------------------------------------------------------------------------
(* End of a run: a clean exit or a crash at any moment.  Only the database   *)
(* is left; the transaction of put_jobs is undone if it was not committed.   *)

(* A new process: everything but the database starts over. *)
StartProcess ==
  /\ mainPc' = "start" /\ request' = NoQuery /\ todo' = {}
  /\ query' = <<>> /\ outcome' = <<>>
  /\ queue' = [u \in Urgency |-> <<>>] /\ flushQueue' = <<>>
  /\ storeOpen' = FALSE
  /\ shouldShutdown' = FALSE /\ shouldTerminate' = FALSE /\ aborting' = FALSE
  /\ cachePc' = "open" /\ deque' = <<>> /\ inserted' = <<>>
  /\ workerPc' = [w \in Worker |-> "unborn"]
  /\ slots'    = [w \in Worker |-> [u \in Urgency |-> NoQuery]]
  /\ progress' = [w \in Worker |-> [u \in Urgency |-> 0]]
  /\ current'  = [w \in Worker |-> Needed]
  /\ library'  = [w \in Worker |-> "none"]

Restart ==
  /\ mainPc = "quit"
  /\ run < MaxRuns
  /\ run' = run + 1
  /\ StartProcess
  /\ UNCHANGED dbVars

Crash ==
  /\ mainPc # "quit"
  /\ run < MaxRuns
  /\ run' = run + 1
  /\ StartProcess
  /\ UNCHANGED dbVars

Finished ==
  /\ mainPc = "quit"
  /\ run = MaxRuns
  /\ UNCHANGED vars

MainStep ==
  \/ StartReturns
  \/ \E loc \in Location, kind \in RequestKinds : GetWaveform(loc, kind)
  \/ Enqueue
  \/ StartRescan
  \/ \E loc \in Location : RescanNext(loc) \/ RemoveWaveform(loc)
  \/ \E w \in Worker : AnswerLibrary(w)
  \/ Shutdown
  \/ JoinCache

CacheStep ==
  \/ LoadJobs \/ LoadJob \/ StartWorkers
  \/ CacheCheck \/ CacheBlock
  \/ SetTerminate \/ AbortAnalyses \/ NotifyWorkers
  \/ JoinWorkers \/ CollectJobs \/ InsertJob \/ CommitJobs

(* The steps of a worker that take worker_mutex, and the others. *)
WorkerLockStep(w) ==
  \/ \E u \in Urgency : WorkerTakes(w, u) \/ WorkerKeeps(w, u)
  \/ WorkerSleeps(w)
  \/ WorkerExits(w)

WorkerFileStep(w) ==
  \/ WorkerBlocks(w)
  \/ BeginFile(w) \/ LibraryAnswered(w) \/ LibraryGivenUp(w)
  \/ OpenDecoder(w) \/ RenderChunk(w) \/ PutFile(w) \/ PutWave(w)
  \/ Elide(w) \/ FlushAborted(w)

SpuriousWake ==
  \/ CacheSpuriousWake
  \/ \E w \in Worker : WorkerSpuriousWake(w)

Next ==
  \/ MainStep
  \/ CacheStep
  \/ \E w \in Worker : WorkerLockStep(w) \/ WorkerFileStep(w)
  \/ SpuriousWake
  \/ Restart \/ Crash \/ Finished

Spec == Init /\ [][Next]_vars

(* Every thread that can run does, the message loop runs what was posted to
   it, and a thread that keeps asking for worker_mutex gets it.  Nobody has
   to ask for a waveform or to quit, and no wakeup is spurious on demand. *)
Fairness ==
  /\ WF_vars(StartReturns) /\ WF_vars(JoinCache)
  /\ WF_vars(\E loc \in Location : RescanNext(loc))
  /\ \A w \in Worker : WF_vars(AnswerLibrary(w))
  /\ SF_vars(Enqueue)
  /\ WF_vars(CacheStep)
  /\ \A w \in Worker : SF_vars(WorkerLockStep(w)) /\ WF_vars(WorkerFileStep(w))

FairSpec == Spec /\ Fairness

-----------------------------------------------------------------------------
(* Properties. *)

(* Every variable stays in its range; in particular a slot or a queue never
   names a query that was not created. *)
TypeOK ==
  /\ files \in SUBSET Location /\ waves \in SUBSET Location
  /\ jobs \in Seq(JobRow)
  /\ run \in 1..MaxRuns
  /\ mainPc \in MainPcs
  /\ request \in {NoQuery} \cup DOMAIN query
  /\ todo \in SUBSET Location
  /\ query \in Seq(QueryRecord)
  /\ outcome \in Seq(Outcome) /\ Len(outcome) = Len(query)
  /\ queue \in [Urgency -> Seq(DOMAIN query)]
  /\ flushQueue \in Seq(DOMAIN query)
  /\ storeOpen \in BOOLEAN
  /\ shouldShutdown \in BOOLEAN /\ shouldTerminate \in BOOLEAN
  /\ aborting \in BOOLEAN
  /\ cachePc \in CachePcs
  /\ deque \in Seq(JobRow) /\ inserted \in Seq(JobRow)
  /\ workerPc \in [Worker -> WorkerPcs]
  /\ slots \in [Worker -> [Urgency -> {NoQuery} \cup DOMAIN query]]
  /\ progress \in [Worker -> [Urgency -> 0..(Slices + 1)]]
  /\ current \in [Worker -> Urgency]
  /\ library \in [Worker -> Answers]

Queued(q)  == \E u \in Urgency : \E i \in DOMAIN queue[u] : queue[u][i] = q
Held(q)    == \E w \in Worker, u \in Urgency : slots[w][u] = q
Flushed(q) == \E i \in DOMAIN flushQueue : flushQueue[i] = q

(* A query without a result is in exactly one place: with get_waveform on
   its way into a queue, in one queue, or in one slot of one worker; a query
   whose analysis was aborted is in job_flush_queue; any other is nowhere.
   No two workers ever analyse the same query (CacheImpl.cc 220-230,
   361-370, 400-415). *)
EveryQueryInOnePlace ==
  /\ \A q \in DOMAIN query :
       /\ outcome[q] = "pending" <=> (request = q \/ Queued(q) \/ Held(q))
       /\ outcome[q] = "requeued" <=> Flushed(q)
       /\ ~(request = q /\ Queued(q)) /\ ~(request = q /\ Held(q))
       /\ ~(Queued(q) /\ Held(q))
  /\ \A w, x \in Worker, u, v \in Urgency :
       slots[w][u] = slots[x][v] /\ Holds(w, u) => w = x /\ u = v
  /\ \A i, j \in DOMAIN flushQueue : flushQueue[i] = flushQueue[j] => i = j

(* Order of the queues: the needed queue has the newest request in front,
   the two others the oldest, whichever thread asked (CacheImpl.cc 221-229;
   "Promote needed files to front of queue").  Ids grow with age.
   ServedInOrder rests on it. *)
QueueOrder ==
  /\ \A i, j \in DOMAIN queue[Needed] :
       i < j => queue[Needed][i] > queue[Needed][j]
  /\ \A u \in {Desired, Bulk} : \A i, j \in DOMAIN queue[u] :
       i < j => queue[u][i] < queue[u][j]

(* The store is open while anyone may use it without asking: the main thread
   in any cache call, a worker anywhere in its loop, although cache_main
   resets it without a mutex (CacheImpl.cc 202-218, 398, 494). *)
StoreOutlivesUsers ==
  \/ mainPc \in {"idle", "enqueue", "rescan"}
  \/ \E w \in Worker : workerPc[w] \notin {"unborn", "exited"}
  => storeOpen

(* A decoder and its half-built waveform never outlive the query they were
   opened for, so the next query in the same slot cannot inherit them
   (CacheImpl.cc 412-415, CacheImpl.ProcessFile.cc 399). *)
StateBelongsToQuery ==
  \A w \in Worker, u \in Urgency : progress[w][u] # 0 => Holds(w, u)

(* No wave row without its file row, although remove_waveform takes no mutex
   and can fall between the two statements of put (BackingStore.cc 64,
   212-254). *)
NoOrphanWave == waves \subseteq files

(* When the cache thread is done, every query that was still in a queue or
   that a worker gave back on abort has its location in the job table
   (CacheImpl.cc 481-493). *)
QueuedJobsSaved ==
  cachePc = "done" =>
    \A q \in DOMAIN query :
      Queued(q) \/ Flushed(q) => \E i \in DOMAIN jobs : jobs[i].loc = LocOf(q)

(* A worker that looks at the queues again without being woken. *)
Awake(w) == workerPc[w] \notin {"unborn", "blocking", "waiting", "exited"}

(* No request is left to sleeping workers: one that has no result yet is with
   get_waveform still, or in a slot of a worker that is awake, or queued while
   some worker is.  get_waveform wakes one worker and does not look which, and
   workers go to sleep by themselves (CacheImpl.cc 220-231, 345-357).  Excepted
   are the time before the workers start, the end of the cache, and a machine
   that says it has no processors. *)
NoRequestForgotten ==
  cachePc \notin {"open", "loading"} /\ ~shouldTerminate /\ Worker # {} =>
    \A q \in DOMAIN query :
      outcome[q] = "pending" =>
        \/ request = q
        \/ \E w \in Worker :
             Awake(w) /\ (Queued(q) \/ \E u \in Urgency : slots[w][u] = q)

(* Which of two queued queries is to be served first. *)
GoesBefore(t, q) ==
  \/ query[t].urgency < query[q].urgency
  \/ /\ query[t].urgency = query[q].urgency
     /\ IF query[t].urgency = Needed THEN t > q ELSE t < q

(* The query a worker takes goes before all that stay queued, whichever threads
   asked for them and in whatever order: it is more urgent, or as urgent and
   newer if needed now, older if not.  The worker holds no more urgent one
   (CacheImpl.cc 221-229, 361-370). *)
ServedInOrder ==
  [][ \A w \in Worker, u \in Urgency :
        LET t == slots'[w][u] IN
        t \notin {slots[w][u], NoQuery} =>
          /\ query[t].urgency = u
          /\ \A v \in Urgency : v < u => ~Holds(w, v)
          /\ \A q \in DOMAIN query : Queued(q) /\ q # t => GoesBefore(t, q) ]_vars

(* A location leaves the job table only in a run that asked for it again and
   is done with that request, by a result or by dropping it: neither a crash
   nor a clean exit that finds it waiting loses it (CacheImpl.cc 154-168, 484-493). *)
SavedJobNotForgotten ==
  [][ \A i \in DOMAIN jobs :
        (\A j \in DOMAIN jobs' : jobs'[j].loc # jobs[i].loc) =>
          \E q \in DOMAIN query :
            LocOf(q) = jobs[i].loc /\ outcome[q] \notin {"pending", "requeued"}
    ]_vars

Pending(q) == q \in DOMAIN query /\ outcome[q] = "pending"

(* Every request the cache accepted is settled, unless the program quits
   first: no wakeup of a worker is lost by get_waveform, and no queue
   starves (CacheImpl.cc 220-231, 354-417). *)
AcceptedIsSettled ==
  \A q \in 1..MaxQueries : Pending(q) ~> ~Pending(q) \/ shouldShutdown

(* A thread that blocked after it found its predicate false and after the
   notification meant for it had been sent. *)
MissedWakeup ==
  \/ shouldShutdown /\ cachePc = "waiting"
  \/ shouldTerminate /\ cachePc = "join"
     /\ \E w \in Worker : workerPc[w] = "waiting"

(* Quitting hangs on a missed wakeup or not at all: neither the main thread,
   which cannot answer the library check any more, nor a mutex, nor a
   decoder can keep it from finishing (CacheImpl.cc 323-333, 464-494;
   CacheImpl.ProcessFile.cc 439-449). *)
QuitHangsOnlyOnMissedWakeup ==
  mainPc = "join" ~> mainPc # "join" \/ MissedWakeup

(* "Flushes pending jobs to disk" (foo_wave-changelog.txt 2) at every exit: once the
   main thread waits for the cache thread, put_jobs is reached.  Not what
   the code does: either wakeup can be missed. *)
QuitFlushesJobs == mainPc = "join" ~> cachePc = "done"
=============================================================================
