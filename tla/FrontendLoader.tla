---------------------------- MODULE FrontendLoader ----------------------------
(* FrontendLoader.cc: a thread of its own fills the list of frontend modules
   while the main thread goes on, and the main thread waits for it before it uses
   the list.  The barrier makes sure that the load thread holds the mutex before
   the main thread can ask for it. *)
EXTENDS Barrier

CONSTANTS Main, Loader

Nobody == "nobody"

ASSUME LoaderAssumption ==
  Thread = {Main, Loader} /\ Main # Loader /\ Nobody \notin Thread

VARIABLES
  mainAt,      \* where the main thread is in loading or waiting, or "idle"
  loaderAt,    \* where the load thread is
  loaded,      \* modules_loaded
  mutexOwner,  \* who holds module_load_mutex, or Nobody
  loadThread,  \* load_thread # 0
  listed       \* length of frontend_modules

loader == <<barrier, mainAt, loaderAt, loaded, mutexOwner, loadThread, listed>>

ModuleCount == 3  \* GDI, Direct3D 9, Direct2D

LoaderInit ==
  /\ BarrierInit
  /\ mainAt = "start" /\ loaderAt = "none" /\ loaded = FALSE
  /\ mutexOwner = Nobody /\ loadThread = FALSE /\ listed = 0

MainGoes(p) == mainAt' = p
LoaderGoes(p) == loaderAt' = p

(* load_frontend_modules, on before_config_read. *)
StartLoading ==
  /\ mainAt = "start" /\ MainGoes("entering")
  /\ loadThread' = TRUE /\ LoaderGoes("start")
  /\ UNCHANGED <<barrier, loaded, mutexOwner, listed>>

MainEnters ==
  /\ mainAt = "entering" /\ ReadGeneration(Main) /\ MainGoes("barrier")
  /\ UNCHANGED <<loaderAt, loaded, mutexOwner, loadThread, listed>>

MainPasses ==
  /\ mainAt = "barrier" /\ stage[Main] = "out" /\ MainGoes("idle")
  /\ UNCHANGED <<barrier, loaderAt, loaded, mutexOwner, loadThread, listed>>

(* wait_for_frontend_module_load: the flag is read without the mutex. *)
CheckLoaded ==
  /\ mainAt = "idle" /\ MainGoes(IF loaded THEN "ready" ELSE "lock")
  /\ UNCHANGED <<barrier, loaderAt, loaded, mutexOwner, loadThread, listed>>

MainLocks ==
  /\ mainAt = "lock" /\ mutexOwner = Nobody /\ mutexOwner' = Main
  /\ MainGoes(IF loadThread THEN "join" ELSE "unlock")
  /\ UNCHANGED <<barrier, loaderAt, loaded, loadThread, listed>>

MainJoins ==
  /\ mainAt = "join" /\ loaderAt = "ended"
  /\ loadThread' = FALSE /\ MainGoes("unlock")
  /\ UNCHANGED <<barrier, loaderAt, loaded, mutexOwner, listed>>

MainUnlocks ==
  /\ mainAt = "unlock" /\ mutexOwner' = Nobody /\ MainGoes("ready")
  /\ UNCHANGED <<barrier, loaderAt, loaded, loadThread, listed>>

(* The load thread. *)
ClearLoaded ==
  /\ loaderAt = "start" /\ loaded' = FALSE /\ LoaderGoes("lock")
  /\ UNCHANGED <<barrier, mainAt, mutexOwner, loadThread, listed>>

LoaderLocks ==
  /\ loaderAt = "lock" /\ mutexOwner = Nobody /\ mutexOwner' = Loader
  /\ LoaderGoes("entering")
  /\ UNCHANGED <<barrier, mainAt, loaded, loadThread, listed>>

LoaderEnters ==
  /\ loaderAt = "entering" /\ ReadGeneration(Loader) /\ LoaderGoes("barrier")
  /\ UNCHANGED <<mainAt, loaded, mutexOwner, loadThread, listed>>

LoaderPasses ==
  /\ loaderAt = "barrier" /\ stage[Loader] = "out" /\ LoaderGoes("loading")
  /\ UNCHANGED <<barrier, mainAt, loaded, mutexOwner, loadThread, listed>>

(* The flag set before the list is complete. *)
ListModuleEarly ==
  /\ loaderAt = "loading" /\ listed' = listed + 1 /\ loaded' = TRUE
  /\ LoaderGoes(IF listed' = ModuleCount THEN "publishing" ELSE "loading")
  /\ UNCHANGED <<barrier, mainAt, mutexOwner, loadThread>>

ListModule ==
  /\ loaderAt = "loading" /\ listed' = listed + 1
  /\ LoaderGoes(IF listed' = ModuleCount THEN "publishing" ELSE "loading")
  /\ UNCHANGED <<barrier, mainAt, loaded, mutexOwner, loadThread>>

Publish ==
  /\ loaderAt = "publishing" /\ loaded' = TRUE /\ LoaderGoes("unlock")
  /\ UNCHANGED <<barrier, mainAt, mutexOwner, loadThread, listed>>

LoaderUnlocks ==
  /\ loaderAt = "unlock" /\ mutexOwner' = Nobody /\ LoaderGoes("ended")
  /\ UNCHANGED <<barrier, mainAt, loaded, loadThread, listed>>

InBarrier(t) ==
  /\ WaitStep(t)
  /\ UNCHANGED <<mainAt, loaderAt, loaded, mutexOwner, loadThread, listed>>

MainLoadStep ==
  \/ StartLoading \/ MainEnters \/ InBarrier(Main) \/ MainPasses
  \/ MainLocks \/ MainJoins \/ MainUnlocks

LoaderStep ==
  \/ ClearLoaded \/ LoaderLocks \/ LoaderEnters \/ InBarrier(Loader)
  \/ LoaderPasses \/ ListModule \/ Publish \/ LoaderUnlocks

-----------------------------------------------------------------------------
(* Type invariant. *)
LoaderTypeOK ==
  /\ spaces \in 0..count /\ generation \in Nat /\ mine \in [Thread -> Nat]
  /\ stage \in [Thread -> {"out", "arriving", "spinning", "restoring", "advancing"}]
  /\ mainAt \in {"start", "entering", "barrier", "idle", "lock", "join", "unlock", "ready"}
  /\ loaderAt \in {"none", "start", "lock", "entering", "barrier", "loading",
                   "publishing", "unlock", "ended"}
  /\ loaded \in BOOLEAN /\ loadThread \in BOOLEAN /\ listed \in 0..ModuleCount
  /\ mutexOwner \in Thread \cup {Nobody}

(* Whenever the main thread uses the list of modules it is complete and the load
   thread is done with it: the flag is read, and the list copied, without the
   mutex under which the list is filled. *)
ListComplete ==
  mainAt = "ready" => listed = ModuleCount /\ loaderAt \in {"unlock", "ended"}

(* The main thread gets through loading and through every wait for it: it never
   holds the mutex that the load thread still needs while it waits for the load
   thread to end. *)
LoadEnds == mainAt # "idle" ~> mainAt = "idle"
==============================================================================
