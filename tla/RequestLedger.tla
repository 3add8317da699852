--------------------------- MODULE RequestLedger ----------------------------
(***************************************************************************)
(* What the waveform cache promises about the requests it is given, with   *)
(* no threads, queues or locks: a request waits until it is settled; when  *)
(* the cache closes, a waiting request may be parked, or may be lost, but  *)
(* only so many; and the last thing a run that closes does is to save the  *)
(* locations of exactly the requests that still wait or are parked.        *)
(***************************************************************************)
EXTENDS Naturals, FiniteSets

CONSTANTS
  Track,    \* what a request can be about
  MaxLost   \* how many requests one closing may lose

VARIABLES
  phase,    \* "serving", "closing", "closed"
  asked,    \* the track of every request of this run
  waiting, parked, lost,   \* requests: no result yet, put off, given up
  saved     \* the tracks on disk that wait for the next run

vars == <<phase, asked, waiting, parked, lost, saved>>

Init ==
  /\ phase = "serving" /\ asked = <<>>
  /\ waiting = {} /\ parked = {} /\ lost = {}
  /\ saved \in SUBSET Track

(* A new request is settled on the spot or waits. *)
Accept(q, t) ==
  /\ phase = "serving"
  /\ q \notin DOMAIN asked
  /\ asked' = [r \in DOMAIN asked \cup {q} |-> IF r = q THEN t ELSE asked[r]]
  /\ waiting' \in {waiting, waiting \cup {q}}
  /\ UNCHANGED <<phase, parked, lost, saved>>

Settle(q) ==
  /\ phase # "closed"
  /\ q \in waiting
  /\ waiting' = waiting \ {q}
  /\ UNCHANGED <<phase, asked, parked, lost, saved>>

Close ==
  /\ phase = "serving"
  /\ phase' = "closing"
  /\ UNCHANGED <<asked, waiting, parked, lost, saved>>

Park(q) ==
  /\ phase = "closing"
  /\ q \in waiting
  /\ waiting' = waiting \ {q}
  /\ parked' = parked \cup {q}
  /\ UNCHANGED <<phase, asked, lost, saved>>

Lose(R) ==
  /\ phase = "closing"
  /\ R \subseteq waiting
  /\ Cardinality(lost \cup R) <= MaxLost
  /\ waiting' = waiting \ R
  /\ lost' = lost \cup R
  /\ UNCHANGED <<phase, asked, parked, saved>>

Seal ==
  /\ phase = "closing"
  /\ phase' = "closed"
  /\ saved' = {asked[q] : q \in waiting \cup parked}
  /\ UNCHANGED <<asked, waiting, parked, lost>>

(* The process starts over, after it closed or out of the blue. *)
NewRun ==
  /\ phase' = "serving" /\ asked' = <<>>
  /\ waiting' = {} /\ parked' = {} /\ lost' = {}
  /\ UNCHANGED saved

Next ==
  \/ \E t \in Track : \E q \in {Cardinality(DOMAIN asked) + 1} : Accept(q, t)
  \/ \E q \in waiting : Settle(q) \/ Park(q)
  \/ \E R \in SUBSET waiting : Lose(R)
  \/ Close \/ Seal \/ NewRun

Spec == Init /\ [][Next]_vars
=============================================================================
