----------------------------- MODULE ImageCache -----------------------------
(* The Direct2D frontend and its image_cache (frontend_direct2d/Direct2D1.cc), from
   the end of its construction to its destruction.  The main thread issues tasks
   with growing serials; the pump thread takes all of them, renders the newest into
   a bitmap and posts a function to the main thread that publishes it; draw copies
   the published bitmap to the window.  Colours are not part of a task: the pump
   reads those of the cache while it renders, without the mutex. *)
EXTENDS Naturals, Sequences

CONSTANTS Content,    \* waveform, channels, size, orientation and flip of a task
          Color,      \* palettes
          Unset,      \* the palette of a cache that was not given one
          NoBitmap,
          MaxIssued   \* bound on last_serial_issued

ASSUME CacheAssumption ==
  Unset \notin Color /\ Content # {} /\ Color # {} /\ MaxIssued \in Nat /\ MaxIssued >= 2

VARIABLES
  content, color,   \* what the callback object says
  playing,          \* the repaint timer of the window runs
  mainAt,           \* position of the main thread in the frontend
  invalid,          \* Windows will send WM_PAINT
  issued,           \* last_serial_issued
  tasks,            \* cache->tasks
  terminate,        \* should_terminate
  colors,           \* cache->colors
  pump,             \* position of the pump thread
  job,              \* the task it renders, with the palettes read so far
  posted,           \* functions it posted that have not run, oldest first
  published,        \* last_bitmap
  cacheSerial,      \* bitmap_serial of the cache
  ownSerial,        \* bitmap_serial of the frontend
  waveBitmap,       \* wave_bitmap
  shown             \* what the window shows

callback == <<content, color, playing>>
window == <<invalid, ownSerial, waveBitmap, shown>>
queue == <<issued, tasks, terminate>>
pumping == <<pump, job>>
bitmaps == <<posted, published, cacheSerial>>
vars == <<callback, mainAt, window, queue, colors, pumping, bitmaps>>

Bitmap == [serial : 1..MaxIssued, content : Content,
           brushes : Color \cup {Unset}, background : Color \cup {Unset}]

(* initialize_frontend has constructed the frontend, which started its pump, and
   calls on_state_changed with all bits set. *)
Init ==
  /\ content \in Content /\ color \in Color /\ playing \in BOOLEAN
  /\ mainAt = "resize" /\ invalid = TRUE
  /\ issued = 0 /\ tasks = <<>> /\ terminate = FALSE /\ colors = Unset
  /\ pump = "check" /\ job = NoBitmap
  /\ posted = <<>> /\ published = NoBitmap /\ cacheSerial = 0
  /\ ownSerial = 0 /\ waveBitmap = NoBitmap /\ shown = NoBitmap

-----------------------------------------------------------------------------
(* Some definitions below come after a variant of them with a plausible mistake;
   every property is checked to fail with one of them in place of the original. *)

(* Without a notification. *)
NotifyNobody == UNCHANGED pump

(* pump_alert.notify_all. *)
Notify == pump' = IF pump = "asleep" THEN "check" ELSE pump

(* thread_func: the task with the greatest serial. *)
Newest(ts) ==
  CHOOSE t \in {ts[i] : i \in DOMAIN ts} : \A i \in DOMAIN ts : ts[i].serial <= t.serial

(* trigger_texture_update under the mutex: a task, and the pump is told. *)
Issue ==
  /\ issued' = issued + 1
  /\ tasks' = Append(tasks, [serial |-> issued', content |-> content])
  /\ Notify

-----------------------------------------------------------------------------
(* Main thread. *)

(* A setter of the window changes the callback object and calls
   on_state_changed. *)
ChangeContent(c) ==
  /\ mainAt = "idle" /\ issued < MaxIssued /\ c # content
  /\ content' = c /\ mainAt' = "trigger"
  /\ UNCHANGED <<color, playing, window, queue, colors, pumping, bitmaps>>

ChangeColor(k) ==
  /\ mainAt = "idle" /\ issued < MaxIssued /\ k # color
  /\ color' = k /\ mainAt' = "regenerate"
  /\ UNCHANGED <<content, playing, window, queue, colors, pumping, bitmaps>>

(* update_size of the first on_state_changed: a task before there are colours. *)
UpdateSize ==
  /\ mainAt = "resize" /\ Issue /\ mainAt' = "regenerate"
  /\ UNCHANGED <<callback, window, terminate, colors, job, bitmaps>>

(* The frontend's palette is replaced and not the cache's. *)
RegenerateOwnOnly ==
  /\ mainAt = "regenerate" /\ mainAt' = "trigger"
  /\ UNCHANGED <<callback, window, queue, colors, pumping, bitmaps>>

(* The mutex is held while the palette of the cache is replaced; the pump does not
   take it to read. *)
RegenerateBrushes ==
  /\ mainAt = "regenerate" /\ colors' = color /\ mainAt' = "trigger"
  /\ UNCHANGED <<callback, window, queue, pumping, bitmaps>>

(* update_data, or update_size of a later change, and InvalidateRect. *)
UpdateData ==
  /\ mainAt = "trigger" /\ Issue
  /\ invalid' = TRUE /\ mainAt' = "idle"
  /\ UNCHANGED <<callback, ownSerial, waveBitmap, shown, terminate, colors, job, bitmaps>>

(* The repaint timer and an uncovered window only invalidate, as do the start and
   the stop of playback. *)
Invalidate ==
  /\ mainAt = "idle" /\ invalid' = TRUE
  /\ UNCHANGED <<callback, mainAt, ownSerial, waveBitmap, shown, queue, colors,
                 pumping, bitmaps>>

Timer == playing /\ Invalidate

PlayOrStop ==
  /\ mainAt = "idle" /\ playing' = ~playing /\ invalid' = TRUE
  /\ UNCHANGED <<content, color, mainAt, ownSerial, waveBitmap, shown, queue, colors,
                 pumping, bitmaps>>

(* The bitmap to draw with: the published one replaces the frontend's when its
   serial is greater than the frontend's own. *)
Fetched(old) ==
  IF published # NoBitmap /\ ownSerial < cacheSerial THEN published ELSE old

(* A frontend that remembers the serial it has fetched. *)
RememberSerial == ownSerial' = cacheSerial
KeepSerial == UNCHANGED ownSerial

(* on_wm_paint.  EndDraw may report that the target must be made again; the
   bitmaps of the target are released and the loop starts over. *)
Paint(recreate) ==
  /\ mainAt = "idle" /\ invalid
  /\ waveBitmap' = Fetched(IF recreate THEN NoBitmap ELSE waveBitmap)
  /\ shown' = waveBitmap' /\ KeepSerial /\ invalid' = FALSE
  /\ UNCHANGED <<callback, mainAt, queue, colors, pumping, bitmaps>>

(* The message loop runs a posted function. *)
Deliver ==
  /\ mainAt = "idle" /\ posted # <<>> /\ posted' = Tail(posted)
  /\ published' = Head(posted) /\ cacheSerial' = Head(posted).serial
  /\ UNCHANGED <<callback, mainAt, window, queue, colors, pumping>>

(* After the destruction it writes to the memory the cache was in. *)
DeliverLate ==
  /\ mainAt = "gone" /\ posted # <<>> /\ posted' = Tail(posted)
  /\ UNCHANGED <<callback, mainAt, window, queue, colors, pumping, published, cacheSerial>>

(* The destructor of image_cache. *)
TellPump ==
  /\ mainAt = "idle" /\ mainAt' = "join" /\ terminate' = TRUE /\ Notify
  /\ UNCHANGED <<callback, window, issued, tasks, colors, job, bitmaps>>

(* A destructor that does not wait for the pump. *)
DetachPump ==
  /\ mainAt = "join" /\ mainAt' = "gone" /\ tasks' = <<>>
  /\ UNCHANGED <<callback, window, issued, terminate, colors, pumping, bitmaps>>

JoinPump ==
  /\ mainAt = "join" /\ pump = "ended" /\ mainAt' = "gone" /\ tasks' = <<>>
  /\ UNCHANGED <<callback, window, issued, terminate, colors, pumping, bitmaps>>

-----------------------------------------------------------------------------
(* Pump thread: thread_func and update_texture_target. *)

PumpChecks ==
  /\ pump = "check"
  /\ \/ /\ terminate /\ pump' = "ended" /\ UNCHANGED <<tasks, job>>
     \/ /\ ~terminate /\ tasks = <<>> /\ pump' = "asleep" /\ UNCHANGED <<tasks, job>>
     \/ /\ ~terminate /\ tasks # <<>> /\ pump' = "brushes" /\ tasks' = <<>>
        /\ job' = [serial |-> Newest(tasks).serial, content |-> Newest(tasks).content,
                   brushes |-> Unset, background |-> Unset]
  /\ UNCHANGED <<callback, mainAt, window, issued, terminate, colors, bitmaps>>

SpuriousWake ==
  /\ pump = "asleep" /\ pump' = "check"
  /\ UNCHANGED <<callback, mainAt, window, queue, colors, job, bitmaps>>

CreateBrushes ==
  /\ pump = "brushes" /\ pump' = "background"
  /\ job' = [job EXCEPT !.brushes = colors]
  /\ UNCHANGED <<callback, mainAt, window, queue, colors, bitmaps>>

ClearBackground ==
  /\ pump = "background" /\ pump' = "drawn"
  /\ job' = [job EXCEPT !.background = colors]
  /\ UNCHANGED <<callback, mainAt, window, queue, colors, bitmaps>>

(* EndDraw fails: everything is drawn again, with a new target. *)
DrawAgain ==
  /\ pump = "drawn" /\ pump' = "brushes"
  /\ UNCHANGED <<callback, mainAt, window, queue, colors, job, bitmaps>>

Post ==
  /\ pump = "drawn" /\ pump' = "check" /\ job' = NoBitmap
  /\ posted' = Append(posted, job)
  /\ UNCHANGED <<callback, mainAt, window, queue, colors, published, cacheSerial>>

-----------------------------------------------------------------------------
MainStep == UpdateSize \/ RegenerateBrushes \/ UpdateData \/ JoinPump

PumpStep == PumpChecks \/ CreateBrushes \/ ClearBackground

(* Nothing is left to do once the frontend is gone. *)
Over == mainAt = "gone" /\ posted = <<>> /\ UNCHANGED vars

Next ==
  \/ \E c \in Content : ChangeContent(c)
  \/ \E k \in Color : ChangeColor(k)
  \/ MainStep \/ Invalidate \/ PlayOrStop
  \/ \E r \in BOOLEAN : Paint(r)
  \/ Deliver \/ DeliverLate \/ TellPump
  \/ PumpStep \/ SpuriousWake \/ DrawAgain \/ Post \/ Over

Spec == Init /\ [][Next]_vars

(* Both threads run, drawing succeeds in the end, the message loop runs what is
   posted, fires timers and sends WM_PAINT. *)
FairSpec ==
  /\ Spec
  /\ WF_vars(MainStep) /\ WF_vars(PumpStep) /\ SF_vars(Post)
  /\ SF_vars(Deliver) /\ SF_vars(Timer) /\ SF_vars(\E r \in BOOLEAN : Paint(r))

-----------------------------------------------------------------------------
(* Type invariant; the pump has ended before the cache is gone. *)
TypeOK ==
  /\ content \in Content /\ color \in Color
  /\ {playing, invalid, terminate} \subseteq BOOLEAN
  /\ mainAt \in {"resize", "regenerate", "trigger", "idle", "join", "gone"}
  /\ issued \in 0..MaxIssued /\ cacheSerial \in 0..issued /\ ownSerial \in 0..issued
  /\ colors \in Color \cup {Unset}
  /\ pump \in {"check", "asleep", "brushes", "background", "drawn", "ended"}
  /\ {job, published, waveBitmap, shown} \subseteq Bitmap \cup {NoBitmap}
  /\ mainAt = "gone" => pump = "ended"

(* Whoever has drawn it and whatever changed meanwhile: when the main thread is not
   in the middle of a change, a published bitmap with the newest serial has the
   contents and, in both reads, the palette of now.  Colours are not in the task
   and are read without the mutex, so only the order of regenerate_brushes and
   update_data makes this true. *)
LatestIsCurrent ==
  mainAt = "idle" /\ cacheSerial = issued =>
    published = [serial |-> issued, content |-> content,
                 brushes |-> color, background |-> color]

(* The destructor returns: the pump never sleeps through the notification. *)
DestroyEnds == mainAt = "join" ~> mainAt = "gone"

(* If a track plays on and the frontend stays, the window shows the present
   contents and palette in the end, also when targets have to be made again.
   Without the timer nothing would invalidate the window after a bitmap has been
   published. *)
ShownWhilePlaying ==
  <>[](playing /\ mainAt = "idle") =>
    <>[](shown # NoBitmap /\ shown.content = content /\ shown.brushes = color)
==============================================================================
