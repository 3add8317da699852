---------------------------- MODULE WindowStartup ----------------------------
(* The seekbar window together with the loading of the frontend modules.  The
   main thread is the one that paints: while it waits for the load thread it
   handles no message, and on_wm_create and the first WM_PAINT wait for it. *)
EXTENDS SeekbarWindow, FrontendLoader

StartupInit == Init /\ LoaderInit

CanCreate == ~hwnd /\ (host = "dui" => ~created)
MustInitialize == hwnd /\ invalid /\ usable /\ frontend = NoFrontend /\ ~initializing

(* on_wm_create, or initialize_frontend by way of create_frontend, begins ... *)
CallWait == (CanCreate \/ MustInitialize) /\ CheckLoaded /\ UNCHANGED vars

(* ... and goes on once the wait has returned. *)
UseModules ==
  /\ mainAt = "ready" /\ MainGoes("idle")
  /\ Create \/ (MustInitialize /\ Paint)
  /\ UNCHANGED <<barrier, loaderAt, loaded, mutexOwner, loadThread, listed>>

WindowStep ==
  /\ mainAt = "idle" /\ UNCHANGED loader
  /\ Operate \/ (~MustInitialize /\ Paint)

Loading == (MainLoadStep \/ LoaderStep) /\ UNCHANGED vars

StartupNext == CallWait \/ UseModules \/ WindowStep \/ Loading

startupVars == <<vars, loader>>

(* Both threads run; Windows sends WM_PAINT when there is nothing more urgent. *)
Painting ==
  \/ (MustInitialize /\ CallWait)
  \/ (mainAt = "idle" /\ UNCHANGED loader /\ (PaintNothing \/ (~MustInitialize /\ Paint)))

StartupSpec ==
  /\ StartupInit /\ [][StartupNext]_startupVars
  /\ WF_startupVars((MainLoadStep /\ UNCHANGED vars) \/ UseModules)
  /\ WF_startupVars(LoaderStep /\ UNCHANGED vars)
  /\ WF_startupVars(Painting)

(* Type invariant. *)
StartupTypeOK == TypeOK /\ LoaderTypeOK
==============================================================================
