-------------------------- MODULE WindowStartupProofs --------------------------
(* What holds of the seekbar window and of the loading it waits for, for any
   frontends, any settings and any points of the client area. *)
EXTENDS WindowStartup, FiniteSetTheorems, TLAPS

-----------------------------------------------------------------------------
(* The window. *)

(* The host of the default user interface makes one window, before any drag. *)
OneWindow ==
  /\ hwnd => created
  /\ host = "dui" /\ ~created => drag = "none"

(* Once a move of the drag was handled the mouse is where it went, so what is ignored
   then changes nothing; before that only another callback object ends the seeking. *)
FirstMove ==
  /\ moved => pointer = lastPoint
  /\ drag = "seeking" /\ hwnd /\ ~moved /\ ~seeking => host = "cui"

(* The invariants of the window need each other: that the timer is off without a
   frontend rests on a frontend living in a window only. *)
WindowInv == TypeOK /\ TimerMatches /\ DragFollowsPointer /\ OneWindow /\ FirstMove

LEMMA InitWindowInv == Init => WindowInv
BY WindowAssumption DEF Init, WindowInv, TypeOK, TimerMatches, DragFollowsPointer, OneWindow,
                        FirstMove

(* What initialize_frontend makes: the frontend is the one the settings name
   afterwards. *)
LEMMA FrontendMade ==
  ASSUME NEW k, NEW succeeds
  PROVE  /\ FrontendFor(k, succeeds) \in Kind
         /\ FrontendFor(k, succeeds) # NoFrontend
         /\ KindAfter(k, succeeds) = FrontendFor(k, succeeds)
BY WindowAssumption DEF FrontendFor, KindAfter

LEMMA OperateKeepsWindowInv == WindowInv /\ Operate => WindowInv'
<1> SUFFICES ASSUME WindowInv, Operate PROVE WindowInv'
  OBVIOUS
<1> USE DEF WindowInv, TypeOK, TimerMatches, DragFollowsPointer, NoFrontend,
            StaleJump, RemadeInDrag, OneWindow, FirstMove, life, view, graphics, mouse
<1>1. CASE Destroy
  BY <1>1 DEF Destroy
<1>2. CASE PaintNothing
  BY <1>2 DEF PaintNothing
<1>3. CASE Expose
  BY <1>3 DEF Expose
<1>4. ASSUME NEW k \in Kind, SetFrontend(k) PROVE WindowInv'
  BY <1>4 DEF SetFrontend, FlushFrontend
<1>5. ASSUME NEW k \in Kind \cup {Bad}, SetConfiguration(k) PROVE WindowInv'
  BY <1>5 DEF SetConfiguration, FlushFrontend
<1>6. ASSUME NEW k \in Kind \cup {Bad}, SetConfigurationFails(k) PROVE WindowInv'
  BY <1>6 DEF SetConfigurationFails
<1>7. ASSUME NEW k \in Kind \cup {Bad}, SetConfig(k) PROVE WindowInv'
  BY <1>7 DEF SetConfig
<1>8. CASE PlaybackStarts
  BY <1>8 DEF PlaybackStarts
<1>9. CASE Play
  BY <1>9 DEF Play, RestartTimer
<1>10. CASE Stop
  BY <1>10 DEF Stop
<1>11. ASSUME NEW c \in BOOLEAN, NEW p \in Point, ButtonDown(c, p) PROVE WindowInv'
  BY <1>11 DEF ButtonDown
<1>12. ASSUME NEW p \in Point, MouseMove(p) PROVE WindowInv'
  BY <1>12 DEF MouseMove, Remember
<1>13. ASSUME NEW p \in Point, MoveIgnored(p) PROVE WindowInv'
  BY <1>13 DEF MoveIgnored
<1>14. CASE ButtonUp
  BY <1>14 DEF ButtonUp
<1> QED
  BY <1>1, <1>2, <1>3, <1>4, <1>5, <1>6, <1>7, <1>8, <1>9, <1>10, <1>11, <1>12,
     <1>13, <1>14
  DEF Operate

LEMMA NextKeepsWindowInv == WindowInv /\ [Next]_vars => WindowInv'
<1> SUFFICES ASSUME WindowInv, [Next]_vars PROVE WindowInv'
  OBVIOUS
<1> USE DEF WindowInv, TypeOK, TimerMatches, DragFollowsPointer, NoFrontend,
            StaleJump, RemadeInDrag, OneWindow, FirstMove, life, view, graphics, mouse
<1>1. CASE Create
  BY <1>1 DEF Create
<1>2. CASE Paint
  <2>1. CASE frontend = NoFrontend /\ ~initializing
    BY <1>2, <2>1, FrontendMade DEF Paint, RestartTimer
  <2>2. CASE ~(frontend = NoFrontend /\ ~initializing)
    BY <1>2, <2>2 DEF Paint
  <2> QED
    BY <2>1, <2>2
<1>3. CASE UNCHANGED vars
  BY <1>3 DEF vars
<1> QED
  BY <1>1, <1>2, <1>3, OperateKeepsWindowInv DEF Next

(* Only settings that are taken over in part give a frontend another name. *)
LEMMA FrontendKeepsName ==
  ASSUME Next, frontend \in {NoFrontend, kind}, frontend' \notin {NoFrontend, kind'}
  PROVE  \E k \in Kind \cup {Bad} : SetConfigurationFails(k)
<1> USE DEF life, view, graphics, mouse
<1>1. ~Create
  BY DEF Create
<1>2. ~Paint
  BY FrontendMade DEF Paint
<1>3. ~Destroy /\ ~PaintNothing /\ ~Expose
  BY DEF Destroy, PaintNothing, Expose
<1>4. \A k : ~SetFrontend(k) /\ ~SetConfiguration(k) /\ ~SetConfig(k)
  BY DEF SetFrontend, SetConfiguration, SetConfig, FlushFrontend
<1>5. ~PlaybackStarts /\ ~Play /\ ~Stop
  BY DEF PlaybackStarts, Play, Stop
<1>6. /\ \A c, p : ~ButtonDown(c, p)
      /\ \A p : ~MouseMove(p) /\ ~MoveIgnored(p)
      /\ ~ButtonUp
  BY DEF ButtonDown, MouseMove, MoveIgnored, ButtonUp
<1> QED
  BY <1>1, <1>2, <1>3, <1>4, <1>5, <1>6 DEF Next, Operate

-----------------------------------------------------------------------------
(* The loading. *)

(* A thread is past the point at which it calls wait. *)
Called(t) ==
  IF t = Main THEN mainAt \notin {"start", "entering"}
              ELSE loaderAt \notin {"none", "start", "lock", "entering"}

Coming(t) == stage[t] = "arriving" \/ (stage[t] = "out" /\ ~Called(t))
Through(t) == stage[t] = "out" /\ Called(t)

(* The barrier, which both threads go through once: the counter says who is still
   coming, and the generation changes when nobody is. *)
Round(n, a, b) ==
  /\ spaces = n /\ generation = 0
  /\ CASE n = 2 -> \/ Coming(a) /\ Coming(b)
                   \/ stage[a] = "advancing" /\ stage[b] = "spinning"
       [] n = 1 -> Coming(a) /\ stage[b] = "spinning"
       [] n = 0 -> stage[a] = "restoring" /\ stage[b] = "spinning"

BarrierInv ==
  /\ stage \in [Thread -> {"out", "arriving", "spinning", "restoring", "advancing"}]
  /\ mine \in [Thread -> Nat]
  /\ \A t \in Thread : stage[t] # "out" => Called(t) /\ mine[t] = 0
  /\ \/ \E n \in 0..2 : Round(n, Main, Loader) \/ Round(n, Loader, Main)
     \/ /\ spaces = 2 /\ generation = 1
        /\ \A t \in Thread : Through(t) \/ stage[t] = "spinning"

(* Who holds the mutex, and how far the list has come. *)
MutexInv ==
  /\ mutexOwner = Loader <=>
       loaderAt \in {"entering", "barrier", "loading", "publishing", "unlock"}
  /\ mutexOwner = Main <=> mainAt \in {"join", "unlock"}
  /\ mutexOwner \in Thread \cup {Nobody}

ListInv ==
  /\ loaderAt \in {"none", "start", "lock", "entering", "barrier"} => listed = 0
  /\ loaderAt = "loading" => listed \in 0..(ModuleCount - 1)
  /\ loaderAt \in {"publishing", "unlock", "ended"} => listed = ModuleCount
  /\ loaded \in BOOLEAN /\ (loaded => loaderAt \in {"unlock", "ended"})

PlaceInv ==
  /\ mainAt \in {"start", "entering", "barrier", "idle", "lock", "join", "unlock", "ready"}
  /\ loaderAt \in {"none", "start", "lock", "entering", "barrier", "loading",
                   "publishing", "unlock", "ended"}
  /\ loadThread \in BOOLEAN
  /\ stage[Main] # "out" => mainAt = "barrier"
  /\ stage[Loader] # "out" => loaderAt = "barrier"
  /\ mainAt = "start" <=> loaderAt = "none"
  /\ mainAt \in {"join", "unlock"} => loaderAt = "ended"

LoaderInv ==
  BarrierInv /\ MutexInv /\ ListInv /\ PlaceInv /\ ListComplete

LEMMA TwoThreads == count = 2
<1>1. Cardinality({Main}) = 1 /\ IsFiniteSet({Main}) /\ Loader \notin {Main}
  BY LoaderAssumption, FS_Singleton
<1>2. Cardinality({Main} \cup {Loader}) = 2
  BY <1>1, FS_AddElement
<1> QED
  BY <1>2, LoaderAssumption DEF count

LEMMA InitLoaderInv == LoaderInit => LoaderInv
<1> SUFFICES ASSUME LoaderInit PROVE LoaderInv
  OBVIOUS
<1>1. BarrierInv
  <2>1. Round(2, Main, Loader)
    BY LoaderAssumption, TwoThreads DEF LoaderInit, BarrierInit, Round, Coming, Called
  <2> QED
    BY <2>1 DEF LoaderInit, BarrierInit, BarrierInv
<1>2. MutexInv /\ ListInv /\ PlaceInv /\ ListComplete
  BY LoaderAssumption
  DEF LoaderInit, BarrierInit, MutexInv, ListInv, PlaceInv, ListComplete, Nobody
<1> QED
  BY <1>1, <1>2 DEF LoaderInv

(* Whoever is through the barrier knows that both threads have called wait. *)
LEMMA ThroughMeansBoth ==
  ASSUME LoaderInv, NEW t \in Thread, Through(t)
  PROVE  Called(Main) /\ Called(Loader)
BY LoaderAssumption
DEF LoaderInv, BarrierInv, Round, Coming, Through, Called

(* The steps inside the barrier concern nothing else. *)
LEMMA BarrierStepKeepsInv ==
  ASSUME LoaderInv, NEW t \in Thread, InBarrier(t)
  PROVE  LoaderInv'
<1>1. UNCHANGED <<mainAt, loaderAt, loaded, mutexOwner, loadThread, listed>>
  BY DEF InBarrier
<1>2. stage[t] # "out"
  BY DEF InBarrier, WaitStep, Arrive, Restore, Advance, Spin
<1>3. PICK s \in {"out", "restoring", "spinning", "advancing"} : Goes(t, s)
  BY DEF InBarrier, WaitStep, Arrive, Restore, Advance, Spin
<1>4. MutexInv' /\ ListInv' /\ ListComplete'
  BY <1>1 DEF LoaderInv, MutexInv, ListInv, ListComplete
<1>5. PlaceInv'
  BY <1>1, <1>2, <1>3, LoaderAssumption DEF LoaderInv, PlaceInv, BarrierInv, Goes
<1>6. BarrierInv'
  <2> USE LoaderAssumption, <1>1, TwoThreads
      DEF LoaderInv, BarrierInv, Round, Coming, Through, Called, Goes
  <2>1. CASE Arrive(t)
    BY <2>1 DEF Arrive
  <2>2. CASE Restore(t)
    BY <2>2 DEF Restore
  <2>3. CASE Advance(t)
    BY <2>3 DEF Advance
  <2>4. CASE Spin(t)
    BY <2>4 DEF Spin
  <2> QED
    BY <2>1, <2>2, <2>3, <2>4 DEF InBarrier, WaitStep
<1> QED
  BY <1>4, <1>5, <1>6 DEF LoaderInv

(* A thread calls wait. *)
LEMMA EnteringKeepsInv ==
  ASSUME LoaderInv, MainEnters \/ LoaderEnters
  PROVE  LoaderInv'
<1> USE LoaderAssumption DEF LoaderInv
<1>1. generation = 0
  BY DEF BarrierInv, Round, Coming, Through, Called, MainEnters, LoaderEnters,
         ReadGeneration
<1>2. BarrierInv'
  <2> USE <1>1 DEF BarrierInv, Round, Coming, Through, Called, ReadGeneration, Goes
  <2>1. CASE MainEnters
    BY <2>1 DEF MainEnters, MainGoes
  <2>2. CASE LoaderEnters
    BY <2>2 DEF LoaderEnters, LoaderGoes
  <2> QED
    BY <2>1, <2>2
<1>3. MutexInv' /\ ListInv' /\ PlaceInv' /\ ListComplete'
  <2> USE DEF MutexInv, ListInv, PlaceInv, ListComplete, BarrierInv, ReadGeneration, Goes
  <2>1. CASE MainEnters
    BY <2>1 DEF MainEnters, MainGoes
  <2>2. CASE LoaderEnters
    BY <2>2 DEF LoaderEnters, LoaderGoes
  <2> QED
    BY <2>1, <2>2
<1> QED
  BY <1>2, <1>3

(* The barrier does not notice what the threads do outside of it. *)
LEMMA BarrierUntouched ==
  ASSUME BarrierInv, UNCHANGED barrier,
         \A t \in Thread : Called(t)' <=> Called(t)
  PROVE  BarrierInv'
BY LoaderAssumption DEF BarrierInv, Round, Coming, Through, barrier

(* The steps of the main thread outside the barrier. *)
LEMMA MainKeepsLoaderInv ==
  ASSUME LoaderInv,
         StartLoading \/ MainPasses \/ CheckLoaded \/ MainLocks \/ MainJoins
           \/ MainUnlocks \/ (mainAt = "ready" /\ MainGoes("idle")
                              /\ UNCHANGED <<barrier, loaderAt, loaded, mutexOwner,
                                             loadThread, listed>>)
  PROVE  LoaderInv'
<1> USE LoaderAssumption DEF LoaderInv, MainGoes, LoaderGoes, barrier
<1> DEFINE Back == /\ mainAt = "ready" /\ MainGoes("idle")
                   /\ UNCHANGED <<barrier, loaderAt, loaded, mutexOwner, loadThread,
                                  listed>>
<1>1. BarrierInv'
  <2>1. UNCHANGED barrier
    BY DEF StartLoading, MainPasses, CheckLoaded, MainLocks, MainJoins, MainUnlocks
  <2>2. \A t \in Thread : Called(t)' <=> Called(t)
    BY DEF Called, PlaceInv, StartLoading, MainPasses, CheckLoaded, MainLocks,
           MainJoins, MainUnlocks
  <2> QED
    BY <2>1, <2>2, BarrierUntouched
<1>2. MainLocks => loaderAt = "ended"
  <2>1. MainLocks => Through(Main)
    BY DEF MainLocks, PlaceInv, Through, Called
  <2> QED
    BY <2>1, ThroughMeansBoth DEF MainLocks, MutexInv, PlaceInv, Called, Nobody
<1>3. MutexInv' /\ ListInv' /\ PlaceInv' /\ ListComplete'
  <2> USE DEF MutexInv, ListInv, PlaceInv, ListComplete
  <2>1. CASE StartLoading
    BY <2>1 DEF StartLoading, BarrierInv, Called
  <2>2. CASE MainPasses
    BY <2>2 DEF MainPasses
  <2>3. CASE CheckLoaded
    BY <2>3 DEF CheckLoaded
  <2>4. CASE MainLocks
    BY <1>2, <2>4 DEF MainLocks, Nobody
  <2>5. CASE MainJoins
    BY <2>5 DEF MainJoins
  <2>6. CASE MainUnlocks
    BY <2>6 DEF MainUnlocks, Nobody
  <2>7. CASE Back
    BY <2>7
  <2> QED
    BY <2>1, <2>2, <2>3, <2>4, <2>5, <2>6, <2>7
<1> QED
  BY <1>1, <1>3

(* The steps of the load thread outside the barrier. *)
LEMMA LoaderKeepsLoaderInv ==
  ASSUME LoaderInv,
         ClearLoaded \/ LoaderLocks \/ LoaderPasses \/ ListModule \/ Publish
           \/ LoaderUnlocks
  PROVE  LoaderInv'
<1> USE LoaderAssumption DEF LoaderInv, MainGoes, LoaderGoes, barrier, ModuleCount
<1>1. BarrierInv'
  BY BarrierUntouched
  DEF Called, ClearLoaded, LoaderLocks, LoaderPasses, ListModule, Publish, LoaderUnlocks
<1>2. MutexInv' /\ ListInv' /\ PlaceInv' /\ ListComplete'
  <2> USE DEF MutexInv, ListInv, PlaceInv, ListComplete
  <2>1. CASE ClearLoaded
    BY <2>1 DEF ClearLoaded
  <2>2. CASE LoaderLocks
    BY <2>2 DEF LoaderLocks, Nobody
  <2>3. CASE LoaderPasses
    BY <2>3 DEF LoaderPasses
  <2>4. CASE ListModule
    BY <2>4 DEF ListModule
  <2>5. CASE Publish
    BY <2>5 DEF Publish
  <2>6. CASE LoaderUnlocks
    BY <2>6 DEF LoaderUnlocks, Nobody
  <2> QED
    BY <2>1, <2>2, <2>3, <2>4, <2>5, <2>6
<1> QED
  BY <1>1, <1>2

LEMMA LoaderUntouched ==
  ASSUME LoaderInv, UNCHANGED loader
  PROVE  LoaderInv'
<1> USE DEF loader, LoaderInv
<1>1. UNCHANGED barrier /\ \A t \in Thread : Called(t)' <=> Called(t)
  BY DEF Called
<1>2. BarrierInv'
  BY <1>1, BarrierUntouched
<1>3. MutexInv' /\ ListInv' /\ PlaceInv' /\ ListComplete'
  BY DEF MutexInv, ListInv, PlaceInv, ListComplete, barrier
<1> QED
  BY <1>2, <1>3

-----------------------------------------------------------------------------
(* The composition. *)

(* Seen without the loading, the composition is the window: waiting for the load
   thread changes nothing in it and takes nothing away. *)
LEMMA StepsOfTheWindow == [StartupNext]_startupVars => [Next]_vars
BY DEF StartupNext, startupVars, CallWait, UseModules, WindowStep, Loading, Next

THEOREM StartupImplementsWindow == StartupSpec => Spec
<1>1. StartupInit => Init
  BY DEF StartupInit
<1> QED
  BY <1>1, StepsOfTheWindow, PTL DEF StartupSpec, Spec

LEMMA StepsOfTheLoader == LoaderInv /\ [StartupNext]_startupVars => LoaderInv'
<1> SUFFICES ASSUME LoaderInv, [StartupNext]_startupVars PROVE LoaderInv'
  OBVIOUS
<1>1. CASE CallWait
  BY <1>1, MainKeepsLoaderInv DEF CallWait
<1>2. CASE UseModules
  BY <1>2, MainKeepsLoaderInv DEF UseModules
<1>3. CASE Loading
  <2>1. Main \in Thread /\ Loader \in Thread
    BY LoaderAssumption
  <2>2. CASE MainLoadStep
    BY <2>1, <2>2, MainKeepsLoaderInv, EnteringKeepsInv, BarrierStepKeepsInv
    DEF MainLoadStep
  <2>3. CASE LoaderStep
    BY <2>1, <2>3, LoaderKeepsLoaderInv, EnteringKeepsInv, BarrierStepKeepsInv
    DEF LoaderStep
  <2> QED
    BY <1>3, <2>2, <2>3 DEF Loading
<1>4. CASE WindowStep \/ UNCHANGED startupVars
  BY <1>4, LoaderUntouched DEF WindowStep, startupVars
<1> QED
  BY <1>1, <1>2, <1>3, <1>4 DEF StartupNext

LEMMA LoaderInvHolds == StartupSpec => []LoaderInv
<1>1. StartupInit => LoaderInv
  BY InitLoaderInv DEF StartupInit
<1> QED
  BY <1>1, StepsOfTheLoader, PTL DEF StartupSpec

LEMMA WindowInvHolds == StartupSpec => []WindowInv
BY StartupImplementsWindow, InitWindowInv, NextKeepsWindowInv, PTL DEF Spec

(* Type correctness of the window, the loader and the barrier. *)
THEOREM StartupTypeCorrect == StartupSpec => []StartupTypeOK
<1>1. LoaderInv => LoaderTypeOK
  <2> SUFFICES ASSUME LoaderInv PROVE LoaderTypeOK
    OBVIOUS
  <2>1. spaces \in 0..count /\ generation \in Nat
    BY TwoThreads DEF LoaderInv, BarrierInv, Round
  <2>2. listed \in 0..ModuleCount
    BY DEF LoaderInv, ListInv, PlaceInv, ModuleCount
  <2> QED
    BY <2>1, <2>2 DEF LoaderInv, BarrierInv, MutexInv, ListInv, PlaceInv, LoaderTypeOK
<1>2. WindowInv /\ LoaderInv => StartupTypeOK
  BY <1>1 DEF WindowInv, StartupTypeOK
<1> QED
  BY <1>2, WindowInvHolds, LoaderInvHolds, PTL

(* The main thread uses the list of modules only when it is complete, although it
   reads the flag, and copies the list, without the mutex. *)
THEOREM ModulesListed == StartupSpec => []ListComplete
<1>1. LoaderInv => ListComplete
  BY DEF LoaderInv
<1> QED
  BY <1>1, LoaderInvHolds, PTL

(* The repaint timer runs while a frontend shows a playing track, and never
   without a frontend or after the end of playback. *)
THEOREM TimerAlwaysMatches == StartupSpec => []TimerMatches
<1>1. WindowInv => TimerMatches
  BY DEF WindowInv
<1> QED
  BY <1>1, WindowInvHolds, PTL

(* In a seeking drag a release would seek iff the pointer is not outside, also before
   the first move and after any earlier drags.  It may be otherwise only as long as no
   move of the drag was handled: when the pointer has jumped to exactly where an earlier
   drag's last move went, outside, which on_wm_mousemove ignores, or when Columns UI has
   made the window again in the drag. *)
THEOREM DragAlwaysFollows == StartupSpec => []DragFollowsPointer
<1>1. WindowInv => DragFollowsPointer
  BY DEF WindowInv
<1> QED
  BY <1>1, WindowInvHolds, PTL

(* The frontend is the one the settings name unless they were taken over in
   part. *)
THEOREM FrontendAlwaysFollows == StartupSpec => FrontendFollowsSettings
<1>1. [Next]_vars =>
        [(frontend \in {NoFrontend, kind} /\ frontend' \notin {NoFrontend, kind'})
         => \E k \in Kind \cup {Bad} : SetConfigurationFails(k)]_vars
  BY FrontendKeepsName
<1> QED
  BY <1>1, StartupImplementsWindow, PTL DEF Spec, FrontendFollowsSettings
=============================================================================
