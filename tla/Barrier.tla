------------------------------- MODULE Barrier -------------------------------
(* The spinning barrier of util/Barrier.h: each thread of Thread calls wait, any
   number of times.  The counter and the generation are atomic; between two
   accesses the others may run. *)
EXTENDS Naturals, FiniteSets

CONSTANT Thread  \* as many threads as count says

VARIABLES spaces,      \* how many may still arrive in this round
          generation,  \* how many rounds have been completed
          stage,       \* where each thread is in wait, "out" when not in it
          mine         \* its my_generation

barrier == <<spaces, generation, stage, mine>>

count == Cardinality(Thread)

BarrierInit ==
  /\ spaces = count /\ generation = 0
  /\ stage = [t \in Thread |-> "out"] /\ mine = [t \in Thread |-> 0]

Goes(t, s) == stage' = [stage EXCEPT ![t] = s]

ReadGeneration(t) ==
  /\ stage[t] = "out" /\ Goes(t, "arriving")
  /\ mine' = [mine EXCEPT ![t] = generation]
  /\ UNCHANGED <<spaces, generation>>

(* A barrier that lets everybody through at once. *)
ArriveAlone(t) ==
  /\ stage[t] = "arriving" /\ Goes(t, "restoring")
  /\ UNCHANGED <<spaces, generation, mine>>

Arrive(t) ==
  /\ stage[t] = "arriving" /\ spaces' = spaces - 1
  /\ Goes(t, IF spaces = 1 THEN "restoring" ELSE "spinning")
  /\ UNCHANGED <<generation, mine>>

(* The last one opens the barrier: counter first, then generation. *)
Restore(t) ==
  /\ stage[t] = "restoring" /\ spaces' = count /\ Goes(t, "advancing")
  /\ UNCHANGED <<generation, mine>>

Advance(t) ==
  /\ stage[t] = "advancing" /\ generation' = generation + 1 /\ Goes(t, "out")
  /\ UNCHANGED <<spaces, mine>>

Spin(t) ==
  /\ stage[t] = "spinning" /\ generation # mine[t] /\ Goes(t, "out")
  /\ UNCHANGED <<spaces, generation, mine>>

WaitStep(t) == Arrive(t) \/ Restore(t) \/ Advance(t) \/ Spin(t)
==============================================================================
