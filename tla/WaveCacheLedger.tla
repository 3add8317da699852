--------------------------- MODULE WaveCacheLedger ---------------------------
(* WaveCache implements RequestLedger: the threads, the queues and the job  *)
(* table together keep the cache's promise about requests.                  *)
EXTENDS WaveCache

LedgerPhase ==
  CASE cachePc = "done"                         -> "closed"
    [] cachePc # "done" /\ shouldTerminate      -> "closing"
    [] cachePc # "done" /\ ~shouldTerminate     -> "serving"

Ledger == INSTANCE RequestLedger WITH
  Track   <- Location,
  MaxLost <- Cardinality(Urgency) * Cardinality(Worker),
  phase   <- LedgerPhase,
  asked   <- [q \in DOMAIN query |-> LocOf(q)],
  waiting <- {q \in DOMAIN query : request = q \/ Queued(q) \/ Held(q)},
  parked  <- {q \in DOMAIN query : Flushed(q)},
  lost    <- {q \in DOMAIN query : outcome[q] = "dropped"},
  saved   <- {jobs[i].loc : i \in DOMAIN jobs}

(* The cache keeps the promise of RequestLedger.  A request is waiting iff
   some thread or queue really holds it, so a query that falls between two
   of them is a step the ledger does not have; and the job table is replaced
   by exactly the queued and the parked requests, at the end of a clean run
   and at no other time (CacheImpl.cc 154-168, 199-232, 335-424, 468-494). *)
LedgerSpec == Ledger!Spec
=============================================================================
