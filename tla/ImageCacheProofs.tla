--------------------------- MODULE ImageCacheProofs ---------------------------
(* What holds of the texture thread's bitmaps for any contents, any palettes and
   any number of tasks. *)
EXTENDS ImageCache, SequenceTheorems, TLAPS

Task == [serial : 1..MaxIssued, content : Content]

(* The palette is behind only between a change of colours and the call of
   regenerate_brushes; a task follows every change. *)
MainInv ==
  /\ content \in Content /\ color \in Color /\ playing \in BOOLEAN
  /\ invalid \in BOOLEAN /\ terminate \in BOOLEAN
  /\ mainAt \in {"resize", "regenerate", "trigger", "idle", "join", "gone"}
  /\ issued \in 0..MaxIssued
  /\ mainAt = "resize" => issued = 0
  /\ mainAt \in {"regenerate", "trigger"} => issued < MaxIssued
  /\ mainAt # "resize" => issued > 0
  /\ colors \in Color \cup {Unset}
  /\ mainAt \in {"trigger", "idle"} => colors = color
  /\ pump \in {"check", "asleep", "brushes", "background", "drawn", "ended"}
  /\ mainAt = "gone" => pump = "ended"

(* The newest task, as long as it waits, is the last in the queue; when the main
   thread is in the message loop it has the contents of now. *)
TaskOK(t) ==
  /\ t \in Task /\ t.serial <= issued
  /\ mainAt = "idle" /\ t.serial = issued => t.content = content
TasksInv ==
  /\ tasks \in Seq(Task)
  /\ \A i \in 1..Len(tasks) : TaskOK(tasks[i])
  /\ tasks # << >> => tasks[Len(tasks)].serial = issued

(* What the pump has drawn of the newest task, it has drawn in the palette of
   now. *)
JobOK(j) ==
  /\ j \in Bitmap /\ j.serial <= issued
  /\ mainAt = "idle" /\ j.serial = issued =>
       /\ j.content = content
       /\ pump \in {"background", "drawn"} => j.brushes = color
       /\ pump = "drawn" => j.background = color
JobInv ==
  IF pump \in {"brushes", "background", "drawn"} THEN JobOK(job) ELSE job = NoBitmap

BitmapOK(b) ==
  /\ b \in Bitmap /\ b.serial <= issued
  /\ mainAt = "idle" /\ b.serial = issued =>
       b.content = content /\ b.brushes = color /\ b.background = color
PostedInv ==
  posted \in Seq(Bitmap) /\ \A i \in 1..Len(posted) : BitmapOK(posted[i])
PublishedInv ==
  \/ published = NoBitmap /\ cacheSerial = 0
  \/ BitmapOK(published) /\ cacheSerial = published.serial

WindowInv ==
  /\ {waveBitmap, shown} \subseteq Bitmap \cup {NoBitmap}
  /\ ownSerial \in 0..issued

CacheInv ==
  MainInv /\ TasksInv /\ JobInv /\ PostedInv /\ PublishedInv /\ WindowInv

-----------------------------------------------------------------------------
(* What is in order stays so as long as the main thread does not come back to the
   message loop without a new task. *)
Undisturbed ==
  /\ issued' \in Nat
  /\ \/ UNCHANGED <<mainAt, issued, content, color>>
     \/ mainAt' # "idle" /\ issued' >= issued
     \/ issued' = issued + 1

LEMMA OldStaysOK ==
  ASSUME MainInv, Undisturbed
  PROVE  /\ \A t : TaskOK(t) => TaskOK(t)'
         /\ \A b : BitmapOK(b) => BitmapOK(b)'
         /\ pump' = pump => \A j : JobOK(j) => JobOK(j)'
<1> USE DEF Undisturbed, MainInv
<1>1. \A t : TaskOK(t) => TaskOK(t)'
  BY DEF TaskOK, Task
<1>2. \A b : BitmapOK(b) => BitmapOK(b)'
  BY DEF BitmapOK, Bitmap
<1>3. ASSUME pump' = pump, NEW j, JobOK(j) PROVE JobOK(j)'
  BY <1>3 DEF JobOK, Bitmap
<1> QED
  BY <1>1, <1>2, <1>3

LEMMA BitmapsStayOK ==
  ASSUME MainInv, PostedInv, PublishedInv, Undisturbed, UNCHANGED bitmaps
  PROVE  PostedInv' /\ PublishedInv'
BY OldStaysOK DEF PostedInv, PublishedInv, bitmaps

LEMMA QueueStaysOK ==
  ASSUME MainInv, TasksInv, Undisturbed, UNCHANGED <<tasks, issued>>
  PROVE  TasksInv'
BY OldStaysOK DEF TasksInv

LEMMA InitCacheInv == Init => CacheInv
<1> SUFFICES ASSUME Init PROVE CacheInv
  OBVIOUS
<1>1. Len(<< >>) = 0 /\ << >> \in Seq(Task) /\ << >> \in Seq(Bitmap)
  BY EmptySeq
<1>2. MainInv
  <2>1. mainAt = "resize" /\ issued = 0 /\ 0 \in 0..MaxIssued
    BY CacheAssumption DEF Init
  <2>2. playing \in BOOLEAN /\ invalid \in BOOLEAN /\ terminate \in BOOLEAN
    BY DEF Init
  <2> QED
    BY <2>1, <2>2 DEF Init, MainInv
<1>5. WindowInv
  BY DEF Init, WindowInv
<1>4. JobInv /\ PublishedInv
  BY DEF Init, JobInv, PublishedInv
<1>3. TasksInv /\ PostedInv
  BY <1>1 DEF Init, TasksInv, PostedInv
<1> QED
  BY <1>2, <1>3, <1>4, <1>5 DEF CacheInv

(* Of the tasks in the queue the last is the newest. *)
LEMMA NewestIsLast ==
  ASSUME TasksInv, issued \in Nat, tasks # << >>
  PROVE  Newest(tasks) \in Task /\ Newest(tasks).serial = issued /\ TaskOK(Newest(tasks))
<1> DEFINE all == {tasks[i] : i \in DOMAIN tasks}
<1>1. DOMAIN tasks = 1..Len(tasks) /\ Len(tasks) \in 1..Len(tasks)
  BY EmptySeq, LenProperties DEF TasksInv
<1>2. \A t \in all : TaskOK(t) /\ t \in Task /\ t.serial \in Nat /\ t.serial <= issued
  BY <1>1 DEF TasksInv, TaskOK, Task
<1>3. tasks[Len(tasks)] \in all /\ tasks[Len(tasks)].serial = issued
  BY <1>1 DEF TasksInv
<1>4. \A i \in DOMAIN tasks : tasks[i].serial <= tasks[Len(tasks)].serial
  BY <1>2, <1>3
<1>5. /\ Newest(tasks) \in all
      /\ \A i \in DOMAIN tasks : tasks[i].serial <= Newest(tasks).serial
  BY <1>3, <1>4 DEF Newest
<1>6. issued <= Newest(tasks).serial
  BY <1>1, <1>3, <1>5
<1> QED
  BY <1>2, <1>5, <1>6

-----------------------------------------------------------------------------
(* The steps of the main thread. *)

(* Nobody who renders is disturbed by a notification. *)
LEMMA NotifiedJobOK ==
  ASSUME MainInv, JobInv, Undisturbed, Notify \/ UNCHANGED pump, UNCHANGED job
  PROVE  JobInv' /\ pump' \in {"check", "asleep", "brushes", "background", "drawn", "ended"}
<1>1. CASE pump \in {"brushes", "background", "drawn"}
  <2>1. pump' = pump /\ job' = job
    BY <1>1 DEF Notify
  <2> QED
    BY <1>1, <2>1, OldStaysOK DEF JobInv
<1>2. CASE pump \notin {"brushes", "background", "drawn"}
  BY <1>2 DEF Notify, JobInv, MainInv
<1> QED
  BY <1>1, <1>2

(* A new task is in order, and the tasks before it are not the newest. *)
LEMMA IssueKeepsTasks ==
  ASSUME MainInv, TasksInv, Issue, issued < MaxIssued, content' = content
  PROVE  TasksInv' /\ Undisturbed
<1>0. PICK new : new = [serial |-> issued + 1, content |-> content]
  OBVIOUS
<1>1. issued' = issued + 1 /\ tasks' = Append(tasks, new)
  BY <1>0 DEF Issue
<1>2. Undisturbed
  BY <1>1 DEF Undisturbed, MainInv
<1>3. new \in Task
  BY <1>0, CacheAssumption DEF Task, MainInv
<1>4. TaskOK(new)'
  BY <1>0, <1>1, <1>3 DEF TaskOK, MainInv
<1>5. /\ tasks' \in Seq(Task) /\ Len(tasks') = Len(tasks) + 1
      /\ tasks'[Len(tasks) + 1] = new
      /\ \A i \in 1..Len(tasks) : tasks'[i] = tasks[i]
  BY <1>1, <1>3, AppendProperties DEF TasksInv
<1>6. Len(tasks) \in Nat
  BY LenProperties DEF TasksInv
<1>7. \A i \in 1..Len(tasks') : TaskOK(tasks[i])'
  <2> SUFFICES ASSUME NEW i \in 1..Len(tasks') PROVE TaskOK(tasks[i])'
    OBVIOUS
  <2>1. CASE i = Len(tasks) + 1
    BY <2>1, <1>4, <1>5, <1>1 DEF TaskOK
  <2>2. CASE i \in 1..Len(tasks)
    BY <2>2, <1>2, <1>5, OldStaysOK DEF TasksInv
  <2> QED
    BY <2>1, <2>2, <1>5, <1>6
<1>8. tasks'[Len(tasks')].serial = issued'
  BY <1>0, <1>1, <1>5
<1> QED
  BY <1>2, <1>5, <1>7, <1>8 DEF TasksInv

LEMMA ChangesKeepCacheInv ==
  ASSUME CacheInv,
         \/ \E c \in Content : ChangeContent(c)
         \/ \E k \in Color : ChangeColor(k)
         \/ RegenerateBrushes
  PROVE  CacheInv'
<1> USE DEF CacheInv
<1>1. /\ mainAt' \in {"trigger", "regenerate"}
      /\ UNCHANGED <<queue, pumping, bitmaps, window>>
  BY DEF ChangeContent, ChangeColor, RegenerateBrushes
<1>2. Undisturbed
  BY <1>1 DEF Undisturbed, MainInv, queue
<1>3. MainInv'
  <2>0. UNCHANGED <<issued, terminate, invalid, pump>>
    BY <1>1 DEF queue, window, pumping
  <2>1. ASSUME NEW c \in Content, ChangeContent(c) PROVE MainInv'
    BY <2>0, <2>1 DEF MainInv, ChangeContent
  <2>2. ASSUME NEW k \in Color, ChangeColor(k) PROVE MainInv'
    BY <2>0, <2>2 DEF MainInv, ChangeColor
  <2>3. CASE RegenerateBrushes
    BY <2>0, <2>3 DEF MainInv, RegenerateBrushes, callback
  <2> QED
    BY <2>1, <2>2, <2>3
<1>4. TasksInv' /\ PostedInv' /\ PublishedInv'
  BY <1>1, <1>2, QueueStaysOK, BitmapsStayOK DEF queue
<1>5. JobInv'
  BY <1>1, <1>2, NotifiedJobOK DEF pumping
<1>6. WindowInv'
  BY <1>1 DEF WindowInv, window, queue
<1> QED
  BY <1>3, <1>4, <1>5, <1>6

LEMMA IssuesKeepCacheInv ==
  ASSUME CacheInv, UpdateSize \/ UpdateData
  PROVE  CacheInv'
<1> USE DEF CacheInv
<1>1. /\ Issue /\ issued < MaxIssued
      /\ UNCHANGED <<content, color, playing, ownSerial, waveBitmap, shown, terminate,
                     colors, job, bitmaps>>
      /\ issued' = issued + 1
      /\ invalid' \in BOOLEAN
      /\ \/ mainAt = "resize" /\ mainAt' = "regenerate"
         \/ mainAt = "trigger" /\ mainAt' = "idle"
  <2>1. CASE UpdateSize
    BY <2>1, CacheAssumption DEF UpdateSize, MainInv, callback, window, Issue
  <2>2. CASE UpdateData
    BY <2>2, CacheAssumption DEF UpdateData, MainInv, callback, Issue
  <2> QED
    BY <2>1, <2>2
<1>2. TasksInv' /\ Undisturbed
  BY <1>1, IssueKeepsTasks
<1>3. PostedInv' /\ PublishedInv'
  BY <1>1, <1>2, BitmapsStayOK
<1>4. JobInv' /\ pump' \in {"check", "asleep", "brushes", "background", "drawn", "ended"}
  BY <1>1, <1>2, NotifiedJobOK DEF Issue
<1>5. MainInv'
  BY <1>1, <1>4, CacheAssumption DEF MainInv
<1>6. WindowInv'
  BY <1>1 DEF WindowInv, MainInv
<1> QED
  BY <1>2, <1>3, <1>4, <1>5, <1>6

(* The steps that change neither what the main thread knows nor what is drawn. *)
LEMMA PaintingKeepsCacheInv ==
  ASSUME CacheInv, Invalidate \/ PlayOrStop \/ \E r \in BOOLEAN : Paint(r)
  PROVE  CacheInv'
<1> USE DEF CacheInv
<1>1. /\ UNCHANGED <<content, color, mainAt, queue, colors, pumping, bitmaps>>
      /\ mainAt = "idle" /\ ownSerial' = ownSerial
      /\ invalid' \in BOOLEAN /\ playing' \in BOOLEAN
  BY DEF Invalidate, PlayOrStop, Paint, KeepSerial, callback, MainInv
<1>2. Undisturbed
  BY <1>1 DEF Undisturbed, MainInv, queue
<1>3. MainInv'
  BY <1>1 DEF MainInv, queue, pumping
<1>4. TasksInv' /\ PostedInv' /\ PublishedInv' /\ JobInv'
  BY <1>1, <1>2, QueueStaysOK, BitmapsStayOK, NotifiedJobOK DEF queue, pumping
<1>5. {waveBitmap', shown'} \subseteq Bitmap \cup {NoBitmap}
  <2>1. published \in Bitmap \cup {NoBitmap}
    BY DEF PublishedInv, BitmapOK
  <2>2. CASE Invalidate \/ PlayOrStop
    BY <2>2 DEF WindowInv, Invalidate, PlayOrStop
  <2>3. ASSUME NEW r \in BOOLEAN, Paint(r)
        PROVE  {waveBitmap', shown'} \subseteq Bitmap \cup {NoBitmap}
    BY <2>1, <2>3 DEF Paint, Fetched, WindowInv
  <2> QED
    BY <2>2, <2>3
<1>6. WindowInv'
  BY <1>1, <1>5 DEF WindowInv, queue
<1> QED
  BY <1>3, <1>4, <1>6

(* What the message loop publishes is the head of what has been posted. *)
LEMMA DeliveriesKeepCacheInv ==
  ASSUME CacheInv, Deliver \/ DeliverLate
  PROVE  CacheInv'
<1> USE DEF CacheInv
<1>1. /\ UNCHANGED <<callback, mainAt, window, queue, colors, pumping>>
      /\ posted # << >> /\ posted' = Tail(posted)
  BY DEF Deliver, DeliverLate
<1>2. Undisturbed
  BY <1>1 DEF Undisturbed, MainInv, queue, callback
<1>3. /\ posted' \in Seq(Bitmap) /\ Len(posted') = Len(posted) - 1
      /\ \A i \in 1..Len(posted') : posted'[i] = posted[i + 1]
      /\ Head(posted) = posted[1] /\ Len(posted) \in Nat \ {0}
  BY <1>1, HeadTailProperties, EmptySeq, LenProperties DEF PostedInv
<1>4. PICK b : b = Head(posted) /\ BitmapOK(b)'
  <2>1. \E b : b = Head(posted) /\ BitmapOK(b)
    BY <1>3 DEF PostedInv
  <2> QED
    BY <2>1, <1>2, OldStaysOK
<1>5. PostedInv'
  <2> SUFFICES ASSUME NEW i \in 1..Len(posted') PROVE BitmapOK(posted[i])'
    BY <1>3 DEF PostedInv
  <2>1. i + 1 \in 1..Len(posted) /\ posted'[i] = posted[i + 1]
    BY <1>3
  <2> QED
    BY <2>1, <1>2, OldStaysOK DEF PostedInv
<1>6. PublishedInv'
  <2>1. CASE Deliver
    BY <2>1, <1>4 DEF Deliver, PublishedInv
  <2>2. CASE DeliverLate
    BY <2>2, <1>2, OldStaysOK DEF DeliverLate, PublishedInv
  <2> QED
    BY <2>1, <2>2
<1>7. MainInv' /\ TasksInv' /\ JobInv' /\ WindowInv'
  <2>1. MainInv'
    BY <1>1 DEF MainInv, queue, pumping, window, callback
  <2>2. TasksInv' /\ JobInv'
    BY <1>1, <1>2, QueueStaysOK, NotifiedJobOK DEF queue, pumping
  <2>3. WindowInv'
    BY <1>1 DEF WindowInv, window, queue
  <2> QED
    BY <2>1, <2>2, <2>3
<1> QED
  BY <1>5, <1>6, <1>7

LEMMA DestructionKeepsCacheInv ==
  ASSUME CacheInv, TellPump \/ JoinPump
  PROVE  CacheInv'
<1> USE DEF CacheInv
<1>1. /\ UNCHANGED <<callback, window, issued, colors, job, bitmaps>>
      /\ mainAt' \in {"join", "gone"} /\ mainAt \in {"idle", "join"}
      /\ terminate' \in BOOLEAN /\ (Notify \/ UNCHANGED pump)
      /\ mainAt' = "gone" => pump' = "ended"
  BY DEF TellPump, JoinPump, MainInv, pumping
<1>2. Undisturbed
  BY <1>1 DEF Undisturbed, MainInv
<1>3. JobInv' /\ pump' \in {"check", "asleep", "brushes", "background", "drawn", "ended"}
  BY <1>1, <1>2, NotifiedJobOK
<1>4. MainInv'
  BY <1>1, <1>3 DEF MainInv, window, callback
<1>5. TasksInv'
  <2>1. CASE TellPump
    BY <2>1, <1>1, <1>2, QueueStaysOK DEF TellPump
  <2>2. CASE JoinPump
    BY <2>2, EmptySeq DEF JoinPump, TasksInv
  <2> QED
    BY <2>1, <2>2
<1>6. PostedInv' /\ PublishedInv' /\ WindowInv'
  BY <1>1, <1>2, BitmapsStayOK DEF WindowInv, window
<1> QED
  BY <1>3, <1>4, <1>5, <1>6

-----------------------------------------------------------------------------
(* The steps of the pump.  The main thread stands still, so what was in order
   stays so; what remains is the task at hand. *)
LEMMA PumpKeepsTheRest ==
  ASSUME CacheInv, UNCHANGED <<callback, mainAt, window, issued, terminate, colors>>,
         pump' \in {"check", "asleep", "brushes", "background", "drawn", "ended"},
         mainAt # "gone" \/ pump' = "ended"
  PROVE  Undisturbed /\ MainInv' /\ WindowInv'
<1> USE DEF CacheInv
<1>1. Undisturbed
  BY DEF Undisturbed, MainInv, callback
<1>2. MainInv'
  BY DEF MainInv, callback, window
<1>3. WindowInv'
  BY DEF WindowInv, window
<1> QED
  BY <1>1, <1>2, <1>3

LEMMA PumpChecksKeepsCacheInv ==
  ASSUME CacheInv, PumpChecks
  PROVE  CacheInv'
<1> USE DEF CacheInv
<1>1. /\ UNCHANGED <<callback, mainAt, window, issued, terminate, colors, bitmaps>>
      /\ pump = "check" /\ pump' \in {"ended", "asleep", "brushes"}
  BY DEF PumpChecks
<1>2. Undisturbed /\ MainInv' /\ WindowInv'
  BY <1>1, PumpKeepsTheRest DEF MainInv
<1>3. PostedInv' /\ PublishedInv'
  BY <1>1, <1>2, BitmapsStayOK
<1>4. CASE UNCHANGED <<tasks, job>> /\ pump' # "brushes"
  BY <1>1, <1>2, <1>3, <1>4, QueueStaysOK DEF JobInv
<1>5. CASE /\ tasks # << >> /\ tasks' = << >> /\ pump' = "brushes"
           /\ job' = [serial |-> Newest(tasks).serial, content |-> Newest(tasks).content,
                      brushes |-> Unset, background |-> Unset]
  <2>1. TasksInv'
    BY <1>5, EmptySeq DEF TasksInv
  <2>2. Newest(tasks) \in Task /\ TaskOK(Newest(tasks))
    BY <1>5, NewestIsLast DEF MainInv
  <2>3. JobOK(job)'
    BY <1>1, <1>5, <2>2 DEF JobOK, TaskOK, Task, Bitmap, callback
  <2>4. JobInv'
    BY <1>5, <2>3 DEF JobInv
  <2> QED
    BY <1>2, <1>3, <2>1, <2>4
<1> QED
  BY <1>4, <1>5 DEF PumpChecks

LEMMA WakeKeepsCacheInv ==
  ASSUME CacheInv, SpuriousWake
  PROVE  CacheInv'
<1> USE DEF CacheInv
<1>1. /\ UNCHANGED <<callback, mainAt, window, queue, colors, job, bitmaps>>
      /\ pump = "asleep" /\ pump' = "check"
  BY DEF SpuriousWake
<1>2. Undisturbed /\ MainInv' /\ WindowInv'
  BY <1>1, PumpKeepsTheRest DEF MainInv, queue
<1>3. PostedInv' /\ PublishedInv' /\ TasksInv'
  BY <1>1, <1>2, BitmapsStayOK, QueueStaysOK DEF queue
<1>4. JobInv'
  BY <1>1 DEF JobInv
<1> QED
  BY <1>2, <1>3, <1>4

(* The palette read is that of the cache at this moment. *)
LEMMA DrawingKeepsCacheInv ==
  ASSUME CacheInv, CreateBrushes \/ ClearBackground \/ DrawAgain
  PROVE  CacheInv'
<1> USE DEF CacheInv
<1>1. /\ UNCHANGED <<callback, mainAt, window, queue, colors, bitmaps>>
      /\ pump \in {"brushes", "background", "drawn"}
      /\ pump' \in {"brushes", "background", "drawn"}
  BY DEF CreateBrushes, ClearBackground, DrawAgain
<1>2. Undisturbed /\ MainInv' /\ WindowInv'
  BY <1>1, PumpKeepsTheRest DEF MainInv, queue
<1>3. PostedInv' /\ PublishedInv' /\ TasksInv'
  BY <1>1, <1>2, BitmapsStayOK, QueueStaysOK DEF queue
<1>4. JobOK(job) /\ UNCHANGED <<mainAt, issued, content, color>>
  BY <1>1 DEF JobInv, queue, callback
<1>5. JobOK(job)'
  <2>1. CASE CreateBrushes
    BY <2>1, <1>4 DEF CreateBrushes, JobOK, Bitmap, MainInv
  <2>2. CASE ClearBackground
    BY <2>2, <1>4 DEF ClearBackground, JobOK, Bitmap, MainInv
  <2>3. CASE DrawAgain
    BY <2>3, <1>4 DEF DrawAgain, JobOK
  <2> QED
    BY <2>1, <2>2, <2>3
<1>6. JobInv'
  BY <1>1, <1>5 DEF JobInv
<1> QED
  BY <1>2, <1>3, <1>6

LEMMA PostKeepsCacheInv ==
  ASSUME CacheInv, Post
  PROVE  CacheInv'
<1> USE DEF CacheInv
<1>1. /\ UNCHANGED <<callback, mainAt, window, queue, colors, published, cacheSerial>>
      /\ pump = "drawn" /\ pump' = "check" /\ job' = NoBitmap
      /\ posted' = Append(posted, job)
  BY DEF Post
<1>2. Undisturbed /\ MainInv' /\ WindowInv'
  BY <1>1, PumpKeepsTheRest DEF MainInv, queue
<1>3. TasksInv' /\ JobInv'
  BY <1>1, <1>2, QueueStaysOK DEF queue, JobInv
<1>4. PublishedInv'
  BY <1>1, <1>2, OldStaysOK DEF PublishedInv
<1>5. PICK b : b = job /\ b \in Bitmap /\ BitmapOK(b)'
  BY <1>1 DEF JobInv, JobOK, BitmapOK, queue, callback
<1>6. /\ posted' \in Seq(Bitmap) /\ Len(posted') = Len(posted) + 1
      /\ posted'[Len(posted) + 1] = b
      /\ \A i \in 1..Len(posted) : posted'[i] = posted[i]
      /\ Len(posted) \in Nat
  BY <1>1, <1>5, AppendProperties, LenProperties DEF PostedInv
<1>7. \A i \in 1..Len(posted') : BitmapOK(posted[i])'
  <2> SUFFICES ASSUME NEW i \in 1..Len(posted') PROVE BitmapOK(posted[i])'
    OBVIOUS
  <2>1. CASE i = Len(posted) + 1
    BY <2>1, <1>5, <1>6
  <2>2. CASE i \in 1..Len(posted)
    BY <2>2, <1>2, <1>6, OldStaysOK DEF PostedInv
  <2> QED
    BY <2>1, <2>2, <1>6
<1> QED
  BY <1>2, <1>3, <1>4, <1>6, <1>7 DEF PostedInv

LEMMA NextKeepsCacheInv == CacheInv /\ [Next]_vars => CacheInv'
<1> SUFFICES ASSUME CacheInv, [Next]_vars PROVE CacheInv'
  OBVIOUS
<1>1. CASE UNCHANGED vars
  <2>1. UNCHANGED <<content, color, playing, mainAt, invalid, issued, tasks, terminate,
                    colors, pump, job, posted, published, cacheSerial, ownSerial,
                    waveBitmap, shown>>
    BY <1>1 DEF vars, callback, window, queue, pumping, bitmaps
  <2> QED
    BY <2>1 DEF CacheInv, MainInv, TasksInv, JobInv, PostedInv, PublishedInv, WindowInv,
                TaskOK, JobOK, BitmapOK
<1>2. CASE MainStep \/ \E c \in Content : ChangeContent(c) \/ \E k \in Color : ChangeColor(k)
  BY <1>2, ChangesKeepCacheInv, IssuesKeepCacheInv, DestructionKeepsCacheInv DEF MainStep
<1>3. CASE Next /\ ~MainStep
  BY <1>1, <1>2, <1>3, ChangesKeepCacheInv, PaintingKeepsCacheInv, DeliveriesKeepCacheInv,
     DestructionKeepsCacheInv, PumpChecksKeepsCacheInv, WakeKeepsCacheInv,
     DrawingKeepsCacheInv, PostKeepsCacheInv DEF Next, PumpStep, Over
<1> QED
  BY <1>1, <1>2, <1>3

-----------------------------------------------------------------------------
LEMMA CacheInvGivesTypeOK == CacheInv => TypeOK
<1> SUFFICES ASSUME CacheInv PROVE TypeOK
  OBVIOUS
<1> USE DEF CacheInv
<1>1. /\ published \in Bitmap \cup {NoBitmap} /\ job \in Bitmap \cup {NoBitmap}
      /\ cacheSerial \in 0..issued
  BY DEF PublishedInv, BitmapOK, JobInv, JobOK, Bitmap, MainInv
<1> QED
  BY <1>1 DEF TypeOK, MainInv, WindowInv

LEMMA CacheInvGivesLatest == CacheInv => LatestIsCurrent
<1> SUFFICES ASSUME CacheInv, mainAt = "idle", cacheSerial = issued
             PROVE  published = [serial |-> issued, content |-> content,
                                 brushes |-> color, background |-> color]
  BY DEF LatestIsCurrent
<1>1. BitmapOK(published) /\ published.serial = issued
  BY DEF CacheInv, MainInv, PublishedInv
<1>2. /\ published \in Bitmap /\ published.content = content
      /\ published.brushes = color /\ published.background = color
  BY <1>1 DEF BitmapOK
<1> QED
  BY <1>1, <1>2 DEF Bitmap

LEMMA CacheInvAlways == Spec => []CacheInv
<1>1. Init => CacheInv
  BY InitCacheInv
<1>2. CacheInv /\ [Next]_vars => CacheInv'
  BY NextKeepsCacheInv
<1> QED
  BY <1>1, <1>2, PTL DEF Spec

(* Every variable of the Direct2D frontend keeps its type, serials never pass the
   last one issued, and the pump has ended before the cache is gone. *)
THEOREM CacheTypeCorrect == Spec => []TypeOK
BY CacheInvAlways, CacheInvGivesTypeOK, PTL

(* When the main thread is in its message loop, a published bitmap with the newest
   serial is drawn from the contents and in the palette of now, although colours
   are read without the mutex (regenerate_brushes before trigger_texture_update). *)
THEOREM NewestBitmapIsCurrent == Spec => []LatestIsCurrent
BY CacheInvAlways, CacheInvGivesLatest, PTL
=============================================================================
