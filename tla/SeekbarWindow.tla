---------------------------- MODULE SeekbarWindow ----------------------------
(* One seekbar window: its life cycle, its frontend, its repaint timer and its
   mouse drags (SeekbarWindow.cc, SeekbarWindow.Events.cc,
   SeekbarWindow.Callbacks.cc), driven by its host (SeekbarDui, SeekbarCui), the
   playback callbacks and the messages of Windows.  Everything runs in the main
   thread: one action is one message or call. *)
EXTENDS Naturals

CONSTANTS Kind,     \* frontends to choose from
          Gdi,      \* the one that can always be created
          Bad,      \* an active_frontend_kind that names none of them
          Point,    \* mouse positions
          Outside,  \* those of is_outside
          Origin    \* what last_seek_point is at first

NoFrontend == "none"

ASSUME WindowAssumption ==
  /\ Gdi \in Kind /\ Bad \notin Kind /\ NoFrontend \notin Kind
  /\ Outside \subseteq Point /\ Origin \in Point

VARIABLES
  host,          \* "dui" or "cui"
  hwnd,          \* m_hWnd: the window exists
  created,       \* the window has existed before or exists
  usable,        \* the client area is larger than one pixel
  invalid,       \* Windows will send WM_PAINT
  frontend,      \* fe->frontend, "none" if empty
  initializing,  \* initializing_graphics
  kind,          \* settings.active_frontend_kind
  timer,         \* repaint_timer_id # 0
  playback,      \* "stopped", "starting" (before on_play) or "playing"
  drag,          \* drag_state: "none", "seeking" or "selection"
  seeking,       \* fe->callback->is_seeking
  lastPoint,     \* last_seek_point
  pointer,       \* where the mouse was at the last message of a drag
  moved          \* a move was handled in the drag, in this window

life == <<host, hwnd, created>>
view == <<usable, invalid>>
graphics == <<frontend, initializing, kind, timer>>
mouse == <<drag, seeking, lastPoint, pointer, moved>>
vars == <<life, view, graphics, playback, mouse>>

Init ==
  /\ host \in {"dui", "cui"}
  /\ hwnd = FALSE /\ created = FALSE /\ usable = FALSE /\ invalid = FALSE
  /\ frontend = NoFrontend /\ initializing = FALSE
  /\ kind \in Kind \cup {Bad} /\ timer = FALSE
  /\ playback = "stopped"
  /\ drag = "none" /\ seeking = FALSE /\ moved = FALSE
  /\ lastPoint = Origin /\ pointer = Origin

(* Variants of the operators below with a plausible mistake in each; every
   property is checked to fail with one of them in the operator's place. *)
FlushKeepsInitializing ==
  /\ frontend' = NoFrontend /\ timer' = FALSE /\ UNCHANGED initializing
  /\ invalid' = (invalid \/ hwnd)
FlushKeepsFrontend ==
  /\ initializing' = FALSE /\ UNCHANGED <<frontend, timer>>
  /\ invalid' = (invalid \/ hwnd)
KindUntouched(k, succeeds) == k
TimerUntouched(on) == timer' = timer
RememberInside(p) == lastPoint' = IF p \in Outside THEN lastPoint ELSE p

(* initialize_frontend: the chosen frontend, or GDI if it cannot be created; then
   the settings name GDI as well. *)
FrontendFor(k, succeeds) == IF k \in Kind /\ succeeds THEN k ELSE Gdi
KindAfter(k, succeeds) == FrontendFor(k, succeeds)

(* initialize_frontend: an old timer is replaced while a track plays. *)
RestartTimer(on) == timer' = on

(* The host creates the window; Columns UI may do so again.  on_wm_create makes
   a new callback object, on_wm_size follows. *)
Create ==
  /\ ~hwnd /\ (host = "dui" => ~created)
  /\ hwnd' = TRUE /\ created' = TRUE /\ invalid' = TRUE /\ usable' \in BOOLEAN
  /\ seeking' = FALSE /\ moved' = FALSE
  /\ UNCHANGED <<host, graphics, playback, drag, lastPoint, pointer>>

(* on_wm_destroy. *)
Destroy ==
  /\ hwnd /\ hwnd' = FALSE /\ invalid' = FALSE
  /\ timer' = FALSE /\ frontend' = NoFrontend /\ seeking' = FALSE
  /\ UNCHANGED <<host, created, usable, initializing, kind, playback, drag,
                 lastPoint, pointer, moved>>

(* on_wm_paint with a client area, and initialize_frontend inside it. *)
Paint ==
  /\ hwnd /\ invalid /\ usable
  /\ IF frontend = NoFrontend /\ ~initializing
     THEN \E succeeds \in BOOLEAN :
            /\ frontend' = FrontendFor(kind, succeeds)
            /\ kind' = KindAfter(kind, succeeds)
            /\ initializing' = TRUE
            /\ RestartTimer(playback # "stopped")
     ELSE UNCHANGED graphics
  /\ invalid' = FALSE
  /\ UNCHANGED <<life, usable, playback, mouse>>

(* on_wm_paint without one. *)
PaintNothing ==
  /\ hwnd /\ invalid /\ ~usable /\ invalid' = FALSE
  /\ UNCHANGED <<life, usable, graphics, playback, mouse>>

(* The window is uncovered, or its size changes. *)
Expose ==
  /\ hwnd /\ invalid' = TRUE /\ usable' \in BOOLEAN
  /\ UNCHANGED <<life, graphics, playback, mouse>>

(* flush_frontend. *)
FlushFrontend ==
  /\ frontend' = NoFrontend /\ initializing' = FALSE /\ timer' = FALSE
  /\ invalid' = (invalid \/ hwnd)

(* on_frontend_select of the configuration dialog, and set_frontend. *)
SetFrontend(k) ==
  /\ hwnd /\ k # kind
  /\ kind' = k /\ FlushFrontend
  /\ UNCHANGED <<life, usable, playback, mouse>>

(* seekbar_dui::set_configuration, with settings that can be read or not: the
   kind is the first setting that is taken over, and a later one may be the one
   that fails. *)
SetConfiguration(k) ==
  /\ host = "dui" /\ (created => hwnd)
  /\ kind' = k /\ FlushFrontend
  /\ UNCHANGED <<life, usable, playback, mouse>>

SetConfigurationFails(k) ==
  /\ host = "dui" /\ (created => hwnd)
  /\ kind' = k
  /\ UNCHANGED <<life, view, frontend, initializing, timer, playback, mouse>>

(* seekbar_uie_base::set_config; the host configures before it creates. *)
SetConfig(k) ==
  /\ host = "cui" /\ ~hwnd
  /\ kind' = k /\ frontend' = NoFrontend
  /\ UNCHANGED <<life, view, initializing, timer, playback, mouse>>

(* The player starts a track; is_playing is true before on_play is called. *)
PlaybackStarts ==
  /\ playback = "stopped" /\ playback' = "starting"
  /\ UNCHANGED <<life, view, graphics, mouse>>

(* on_play, for the first track and for each that follows. *)
Play ==
  /\ playback # "stopped" /\ playback' = "playing"
  /\ IF hwnd /\ frontend # NoFrontend THEN RestartTimer(TRUE) ELSE UNCHANGED timer
  /\ UNCHANGED <<life, view, frontend, initializing, kind, mouse>>

(* on_stop. *)
Stop ==
  /\ playback # "stopped" /\ playback' = "stopped"
  /\ timer' = IF hwnd /\ frontend # NoFrontend THEN FALSE ELSE timer
  /\ UNCHANGED <<life, view, frontend, initializing, kind, mouse>>

(* on_wm_lbuttondown, with and without the control key, in the client area and so not
   outside; the release of an earlier drag may have gone to another window. *)
ButtonDown(control, p) ==
  /\ hwnd /\ p \notin Outside
  /\ IF control THEN drag' = "selection" /\ UNCHANGED seeking
                ELSE drag' = "seeking" /\ seeking' = TRUE
  /\ pointer' = p /\ moved' = FALSE
  /\ UNCHANGED <<life, view, graphics, playback, lastPoint>>

Remember(p) == lastPoint' = p

(* on_wm_mousemove. *)
MouseMove(p) ==
  /\ hwnd /\ drag # "none" /\ p # lastPoint
  /\ Remember(p) /\ pointer' = p /\ moved' = TRUE
  /\ seeking' = IF drag = "seeking" THEN p \notin Outside ELSE seeking
  /\ UNCHANGED <<life, view, graphics, playback, drag>>

(* A move to last_seek_point, to which the last one that was handled went, in this
   drag or in an earlier one, is ignored. *)
MoveIgnored(p) ==
  /\ hwnd /\ drag # "none" /\ p = lastPoint
  /\ pointer' = p
  /\ UNCHANGED <<life, view, graphics, playback, drag, seeking, lastPoint, moved>>

(* on_wm_lbuttonup: playback_seek is called if still seeking. *)
ButtonUp ==
  /\ hwnd
  /\ seeking' = (drag # "seeking" /\ seeking)
  /\ drag' = "none" /\ moved' = FALSE
  /\ UNCHANGED <<life, view, graphics, playback, lastPoint, pointer>>

(* Everything that uses no frontend modules. *)
Operate ==
  \/ Destroy \/ PaintNothing \/ Expose
  \/ \E k \in Kind : SetFrontend(k)
  \/ \E k \in Kind \cup {Bad} : SetConfiguration(k) \/ SetConfigurationFails(k) \/ SetConfig(k)
  \/ PlaybackStarts \/ Play \/ Stop
  \/ \E c \in BOOLEAN, p \in Point : ButtonDown(c, p)
  \/ \E p \in Point : MouseMove(p) \/ MoveIgnored(p)
  \/ ButtonUp

Next == Create \/ Paint \/ Operate

Spec == Init /\ [][Next]_vars

-----------------------------------------------------------------------------
(* Type invariant; a frontend exists only in a window and once graphics have
   been initialized. *)
TypeOK ==
  /\ host \in {"dui", "cui"}
  /\ {hwnd, created, usable, invalid, initializing, timer, seeking, moved} \subseteq BOOLEAN
  /\ frontend \in Kind \cup {NoFrontend} /\ kind \in Kind \cup {Bad}
  /\ playback \in {"stopped", "starting", "playing"}
  /\ drag \in {"none", "seeking", "selection"} 
  /\ lastPoint \in Point /\ pointer \in Point
  /\ frontend # NoFrontend => hwnd /\ initializing

(* The repaint timer runs while a frontend shows a playing track, and never
   without a frontend or after the end of playback, whatever the order in which
   windows, frontends and tracks come and go. *)
TimerMatches ==
  /\ timer => frontend # NoFrontend /\ playback # "stopped"
  /\ frontend # NoFrontend /\ playback = "playing" => timer

(* The frontend stays the one the settings name, unless settings are taken over
   in part: then the old frontend goes on under the new name. *)
FrontendFollowsSettings ==
  [][(frontend \in {NoFrontend, kind} /\ frontend' \notin {NoFrontend, kind'})
     => \E k \in Kind \cup {Bad} : SetConfigurationFails(k)]_vars

(* A window with a client area gets a frontend, whatever happens to the settings
   and to the chosen frontend.  Excepted is a window that was destroyed and made
   again: initializing_graphics is left over from the first. *)
LeftOver == host = "cui" /\ initializing /\ frontend = NoFrontend
FrontendComes ==
  hwnd /\ usable ~> frontend # NoFrontend \/ ~usable \/ ~hwnd \/ LeftOver

(* In a seeking drag a release, which seeks to where the pointer is, would do so iff
   the pointer is not outside, whatever drags and windows came before; with two
   exceptions, each only while no move of the drag has been handled.  StaleJump: the
   first move goes exactly to where the last move of an earlier drag went; it is
   ignored, and the release seeks although the pointer is outside.  RemadeInDrag: the
   window was made again with a new callback object, and the release does not seek.
   So no later move of a drag is taken for an old one, and going back inside always
   makes the release seek again. *)
StaleJump == seeking /\ pointer \in Outside /\ pointer = lastPoint
RemadeInDrag == ~seeking /\ host = "cui"
DragFollowsPointer ==
  drag = "seeking" /\ hwnd =>
    \/ seeking <=> pointer \notin Outside
    \/ ~moved /\ (StaleJump \/ RemadeInDrag)
=============================================================================
