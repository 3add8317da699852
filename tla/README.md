# foo_wave_seekbar in TLA+

A verification development for the waveform seekbar component of foobar2000
(`src/foobar2000/foo_wave_seekbar`).  The component analyses audio tracks in
background threads, keeps the resulting waveforms in an SQLite database, and
draws the waveform of the playing track in a seekbar window.  Everything else in
the repository (foobar2000 SDK, pfc, WTL, Columns UI SDK, SQLite, zlib, LZMA,
JsonCpp, Scintilla) is third-party code and is assumed, not modelled.

File names below are relative to `src/foobar2000/foo_wave_seekbar`.

## 1. Inventory

| Component | State | Operations | Talks to | What makes it correct |
|---|---|---|---|---|
| Waveform cache (`CacheImpl.cc`) | three request queues, `job_flush_queue`, per worker three jobs and three analysis states, `store`, `should_shutdown`, `should_workers_terminate`, `flush_callback`; mutexes `worker_mutex`, `run_state.mutex`, `cache_mutex`; condition variables `worker_bump`, `run_state.bump` | `get_waveform`, `rescan_waveforms`, `remove_waveform`, `start`, `shutdown`, `worker_main`, `cache_main` | main thread, workers, database, callbacks of the queries | no request lost or done twice; urgent requests first; everything accepted is answered or saved; quitting ends; nothing uses a closed store |
| Analysis (`CacheImpl.ProcessFile.cc`) | decoder, bucket counters, sample counters | `process_file`, `audio_source::render`, `waveform_builder::consume_input`, `finalize_waveform` | worker, decoder, main thread (library check), database | every sample in exactly one bucket; finishes iff all buckets are full; abort at any call leaves nothing behind |
| Backing store (`BackingStore.cc`, `Pack.*`) | tables `file`, `wave`, `job`, a cascade trigger | `has`, `get`, `put`, `remove`, `remove_dead`, `get_jobs`, `put_jobs`, `get_all`, `compact` | cache | no wave without file; the job table changes only as a whole; a stored waveform is found again; old and corrupt rows are converted or removed |
| Player (`Player.cc`) | `current_playing_request`, listeners | playback callbacks, `on_query_result`, listener registration | cache, window, message loop | a listener only gets the waveform of the track that plays; the playing track's waveform arrives in the end |
| Seekbar window (`SeekbarWindow*.cc`) | frontend, its callback and configuration objects, `initializing_graphics`, repaint timer, drag state | creation, destruction, paint, timer, play/stop, settings, mouse | player, frontend, cache, hosts | a visible window gets a frontend; the timer runs iff a frontend shows a playing track; a drag seeks iff it is released inside |
| Hosts (`SeekbarDui.*`, `SeekbarCui.*`) | window, settings | create, configure, destroy | window | settings survive; an old frontend is not used with new settings |
| Frontend loader (`FrontendLoader.cc`) | `load_thread`, `module_load_mutex`, `modules_loaded`, list of modules | load, wait, list | window | nobody reads the list while it is filled; nobody waits for ever |
| Barrier (`util/Barrier.h`) | count, spaces, generation | `wait` | cache start, frontend loader (two threads each, used once) | nobody leaves before everybody entered |
| Direct2D (`frontend_direct2d/`) | texture thread, task queue, serials, last bitmap, render target | draw, resize, state changes, destruction | window, waveform | the newest waveform is drawn in the end; destruction ends |
| Direct3D 9 (`frontend_direct3d9/`) | device, `device_lost`, default-pool resources, effects | draw, resize, reset | window | resources exist iff the device is usable |
| GDI (`GdiFallback.cc`) | bitmaps, cursor positions | `compute_waveform_regions`, updates | window | what is drawn fits the cursors; what changes is repainted |
| Settings (`PersistentSettings.cc`, configuration dialog) | settings record | to and from property tree, legacy format | hosts | what was saved is loaded; old versions get defaults; the channel order stays a permutation |
| Waveform objects (`waveform_sdk/`) | reference count, fields, downmix coefficients of the first call | `ref_ptr`, `downmix_waveform`, `get_field` | everybody | no use after release; coefficients fit the channel count |
| Clipboard (`Clipboard.cc`) | block, frames written | `append`, `render_audio` | window | exactly the selected frames, never more than allocated |
| Menus (`ProcessingContext.cc`, `MenuCommands.cc`) | none | commands | cache | they are callers only |

The hard parts, in the order of how much of the program hangs on them: the
threads of the cache and their shutdown; what survives in the database; the
message-loop callbacks between cache, player and window; the life cycle of
window and frontend; the texture thread; device loss; the numeric code of the
analysis and of the region computation.  `PROJECT.json` lists each hazard at its
line, with the property that covers it, or the reason why none does.

## 2. Plan

Modelled and checked:

1. `WaveCache` with `RequestLedger` (abstract specification) and the refinement
   `WaveCacheLedger`; its safety properties and the refinement are proved.
2. `BackingStore` against the abstract `TrackStore`.
3. `WaveformBuilder`.
4. `Player`.
5. `SeekbarWindow`, `Barrier`, `FrontendLoader`, and `WindowStartup`, which
   composes the window with the loading it waits for.
6. `ImageCache`, the texture thread of the Direct2D frontend.
7. `Direct3D9`, device loss and effects.
8. `GdiFallback`, regions and partial repaints.

Not going to be modelled (section 5 says why): settings, waveform objects but for
the mix to mono, clipboard.

Proved (section 4): every safety property that a run checks and that holds.

## 3. What is modelled

Sections 3.1 to 3.4 are about the waveform cache, the core of the system; the
other modules follow.

### 3.1 `WaveCache.tla`

Main thread, cache thread, worker threads and database.  One action is a stretch
of code between two points at which another thread can be noticed.

| Code | Model |
|---|---|
| main thread position | `mainPc`, `request` (query held before `worker_mutex`), `todo` (what rescan has left) |
| `requests_by_urgency[3]`, `job_flush_queue` | `queue`, `flushQueue` (sequences of query ids) |
| queries of this run | `query` (location, urgency, forced), `outcome` (how `set_waveform` was called last) |
| `cache_main` position; its locals | `cachePc`, `deque`, `inserted` |
| `worker_main` position; `jobs[3]`, `states[3]`, loop index | `workerPc`, `slots`, `progress` (0 null, n+1 after n chunks), `current` |
| promise of the library check | `library` |
| `should_shutdown`, `should_workers_terminate`, `flush_callback` | `shouldShutdown`, `shouldTerminate`, `aborting` |
| `store != nullptr` | `storeOpen` |
| tables `file`, `wave`, `job` | `files`, `waves`, `jobs` |

Mutexes are not variables: each is held across steps at a few points only, and
who holds it is read off the program counters (`WorkerMutexFree`,
`RunMutexFree`, `CacheMutexFree`).  Waiting on a condition variable is split in
two: the predicate is evaluated (`WorkerSleeps`, `CacheCheck`), then the thread
blocks (`WorkerBlocks`, `CacheBlock`), because the flags are set and the
notifications sent without the mutex of the waiter; spurious wakeups are actions
of their own.  `put` is two steps because `remove_waveform` takes no mutex;
`put_jobs` is a transaction, so only `CommitJobs` changes `jobs`.

`Restart` starts a new process after a clean exit, `Crash` at any other moment;
only the database survives.  `Init` starts with any set of stored waveforms and
any job table the UNIQUE constraint allows.

Abstractions.  Locations are model values; the whitespace path `get_waveform`
refuses is not one of them.  A track is `Slices` chunks of audio; opening and
each chunk may fail or notice the abort.  Waveforms carry no data.  The partial
results of an unfinished analysis are left out: `render_waveform` returns
`state->wf`, which is null until the analysis is finished, so they carry no
waveform and change no state of the cache.  `get` is a read (its conversions
belong to `BackingStore`).  `remove_dead_waveforms` and
`compact_storage` are left out, as is quiet mode, in which nothing is started.

### 3.2 `RequestLedger.tla` and `WaveCacheLedger.tla`

`RequestLedger` is the promise without threads: a request waits until it is
settled; while the cache closes, waiting requests may be parked, and at most
`MaxLost` may be lost; the last step of a run that closes saves the tracks of
exactly the requests that wait or are parked; a crash saves nothing and loses
nothing that was saved.  `WaveCacheLedger` maps the cache to it: waiting is
"held by `get_waveform`, a queue or a slot", parked is "in `job_flush_queue`",
lost is "released at termination", at most three per worker.

### 3.3 Runs of the cache

| Run | Bounds | Shows |
|---|---|---|
| `races` | 2 workers (symmetric), 2 tracks, one forbidden, 2 requests, 2 runs of the process | `TypeOK`, `EveryQueryInOnePlace`, `StoreOutlivesUsers`, `StateBelongsToQuery`, `NoOrphanWave`, `NoRequestForgotten`, `ServedInOrder`, `QueuedJobsSaved`, `SavedJobNotForgotten`, and `LedgerSpec`: the cache implements the ledger |
| `ends` | 2 workers, 1 track, 2 requests, library check on, fair | `AcceptedIsSettled`, `QuitHangsOnlyOnMissedWakeup` |
| `missed` | 1 worker, 1 track, 1 request, fair | `QuitFlushesJobs` is violated |

`NoRequestForgotten` is about the wakeups `get_waveform` sends: it notifies one
waiter and does not look who is busy, while workers evaluate their predicate and go
to sleep by themselves.  No request is ever left to workers that sleep; this, unlike
`AcceptedIsSettled`, is also proved for any number of workers.  `ServedInOrder`
relates what a worker takes to everything that is queued at that moment, by whichever
thread and however long ago.

Why the bounds are enough to be interesting.  Two workers and two requests are
what it takes for a race on a queue, for one worker to hold the store's mutex
while another wants it, and for a notification to reach the wrong worker; the
requests that come from the job table and from `rescan_waveforms` count as well.
A worker can hold several queries at once only if more urgent ones arrive while
it works, which two requests give, and two queries are what an order is about
(that it holds for any number is proved, section 4).  One chunk per track already
separates opening, a chunk and the end.  Two runs are enough for everything that
passes from one process to the next, as only the database does.  `MaxQueries` and `MaxRuns` appear only in guards that create queries and
start processes; at a bound the system can still finish everything it has.

Fairness (`FairSpec`).  Each thread that can run does (weak fairness of its
steps), the message loop runs what was posted to it while the main thread is in
it, and a thread that asks for `worker_mutex` again and again gets it (strong
fairness of `Enqueue` and of a worker's steps under that mutex: the operating
system wakes a thread blocked on a mutex that keeps being released).  Nothing is
assumed about the arrival of requests, about quitting, about a decoder's success
or about spurious wakeups.

### 3.4 What the violated property shows, and observations

`QuitFlushesJobs`: `cache_main` sets the termination flag and notifies without
`worker_mutex` (`CacheImpl.cc` 464-466), so a worker that has just found its
predicate false can block after the notification; `join` then waits for ever.
`shutdown` has the same shape with `cache_mutex` in place of `run_state.mutex`.
`QuitHangsOnlyOnMissedWakeup` shows that nothing else can make quitting hang.

A worker that terminates between two chunks releases the queries in its slots
without putting them in `job_flush_queue` (`CacheImpl.cc` 358-360, 419-422);
only an analysis that notices the abort inside `process_file` is saved.  The
ledger calls such requests lost, and bounds them by three per worker.

No property states that the menu text promises to
overwrite any previous signature (`ProcessingContext.cc` 86): `put_jobs`
ignores that an INSERT failed, so of two queries for one track the first row
stays, and with it its forced flag.  `QueuedJobsSaved` therefore speaks of
locations only.

### 3.5 `WaveformBuilder.tla`: the analysis of one track

`process_file` after the decoder is open.  A sample is a pair of a frame and a
channel, and an entry of the flat lists `minimum`, `maximum` and `rms` is the set
of the samples it was computed from, so "min, max and sum over the right samples"
becomes equality of sets.  Init is after `builder.reset`; each `RenderDecoded` or
`RenderSilence` is the first half of a call of `process_file`, each `ConsumePart`
one turn of the loop of `consume_input`, `ChunkConsumed` the return of
`not_done`.  The decoder may deliver any chunk, change its channel count, end
early, deliver more than the tags promised, or fail; an abort may come at any
time.  The mix to mono (`downmix_to_mono`) keeps the coefficients of its first call
in the process, so `mixLayout`, the channel count they are for, starts with any
value an earlier track can have left and may be set by another worker
(`OtherTrackMixed`).  Sample values, the incremental output (its sink is always null) and the
search for the track's length are left out; a chunk has at least one frame.

| Run | Bounds | Shows |
|---|---|---|
| `buckets` | 3 buckets, tracks of 1 to 7 frames, 1 or 2 channels, chunks of at most 3 frames, silence of 2 frames at a time, fair | `TypeOK`, `EverySampleCounted`, `NoSentinelLeft`, `ResultExact`, `WorkAdvances`, `AnalysisEnds` |
| `mono` | 2 buckets, tracks of 2 or 3 frames, 1 or 2 channels | `MixedFromAllChannels` is violated |

Lengths below, equal to and above the number of buckets, divisible by it or not,
are what the rounding of `bucket_ends` distinguishes; a chunk can span two bucket
bounds, end on one, or lie within a bucket.  Fairness: the worker goes on calling
`process_file` (what `WaveCache` shows of it).  An observation that
`NoSentinelLeft` makes exact: in a track with fewer samples than buckets some
buckets are empty, and `finalize_bucket` zeroes their extremes but divides their
sum by a size of zero, so their rms is not a number.

`ResultExact` says of a mono mix that it is made of all channels, for a track whose
own coefficients are used (`OwnCoefficients`).  That they need not be is a
disagreement of the code with its own words, and a finding: the coefficients are
static and made for the channel count of the first track that the process mixes down
(`Downmix.h` 69).  A stereo track that follows a mono one has none for its second
channel; the one read is a zero behind the end of the list, which lies in a static
array of 18, and the waveform stored is that of the left channel.  The table of
coefficients says "{ left , right }" for two channels (`Downmix.h` 22), and the setting
is called "Store analysed tracks in mono" (`CacheImpl.ProcessFile.cc` 28).
`MixedFromAllChannels` states the mix without the condition, and `mono` shows it
violated; the layout may be left by an earlier track or set by another worker
meanwhile.

### 3.6 `BackingStore.tla` and `TrackStore.tla`: the tables

The tables `file` and `wave` with their keys, one action per statement.  The
main thread and the workers share a connection and no mutex covers a whole
operation: `get` is called by both (`get_waveform_sync`, and the worker for an
elided query), `put` by the workers, `remove` and `remove_dead` by the main
thread.  `get` is followed through all its branches: it removes rows that claim
too much or do not unpack, and puts rows without compression or with zlib again.
A row is the track it was computed from, its format and whether its blobs
unpack; blobs of uncompressed rows are not checked by the code and assumed to be
whole.  A crash may come between any two statements.

`TrackStore` is the promise: a track becomes known before it gets a waveform, and
is forgotten together with it.  The mapping is `has`, seen for all tracks.

| Run | Bounds | Shows |
|---|---|---|
| `tracks` | 2 tracks, main thread and 1 worker, 4 keys | `TypeOK`, `WaveOfItsTrack`, `LossOnlyByRemovalStaleGetOrWideRow`, `GetLeavesReadable`, `TrackStoreSpec` |
| `corrupt` | 1 track, main thread only | `CorruptIsUseless` is violated |

`GetLeavesReadable` holds whatever the other threads are in the middle of, as
the proof shows (section 4): they too write only rows that need no conversion.

Two threads and two tracks are enough for a statement of one operation to fall
between two of another, on the same track or not; four keys allow each track to
be removed and stored again.  `LossOnlyByRemovalStaleGetOrWideRow` names all ways in
which a readable waveform can go.  A removal is meant to.  A stale `get` is the race the
code has: `get` removes by track and not by key, so a `get` that read an unusable
row removes the fresh waveform that a worker has put in the meantime; likewise
the conversion may write an old waveform over a fresh one.  A wide row: `put` does not
ask for the number of channels, so a waveform of more than 18, of a new analysis or
converted by a `get` that has just taken it for corrupt, replaces a readable one, and
every later `get` throws it away (`BackingStore.cc` 134-138).  `corrupt` shows that
`get` goes on to `put` with a null waveform after it removed a zlib row that does
not unpack: a row of `file` is inserted and the null pointer dereferenced.

### 3.7 `Player.tla`: requests and results of the playing track

Playback callbacks and posted functions are actions of the main thread; a
worker's `set_waveform` posts a function that runs later.  The cache is reduced to
the set of tracks with a stored waveform and the queries it still works on;
somebody else may store or remove waveforms at any time.  A window is told of a
track (`location`), and what it shows is the last result it was given (`shown`).
`abort` of a query sets a flag nobody reads, so a dropped query still delivers.

| Run | Bounds | Shows |
|---|---|---|
| `results` | 3 tracks, 1 forbidden; 2 queries, 2 posted functions, 1 window, fair | `LateResultIgnored`, `WindowGetsAnswer` |

Two queries and two other tracks are enough for a result to arrive while another
track plays, and for a request to be dropped in favour of the next.  Fairness:
the message loop runs what is posted (weak), and the cache answers every query
it accepted (strong, as `MaxPosted` may block an answer now and then; that it
answers is `AcceptedIsSettled` of `WaveCache`).  `WindowGetsAnswer` excepts
tracks that were answered before: the request is not emptied when it is answered,
so playing the same track again asks for nothing, although there may still be no
waveform (the comment at `Player.cc` 83 says "if not, schedule a scan").

### 3.8 `SeekbarWindow.tla`: life cycle, timer, drag

One action is one message of Windows, one call of the host or one playback
callback; all run in the main thread.  A frontend other than GDI may fail to be
created.  `playback` has a state "starting", in which `is_playing` is true and
`on_play` has not been called.  Windows sends `WM_PAINT` only while part of the
window is invalid, so it matters that `flush_frontend` invalidates it.  Columns
UI may destroy a window and create it again with the same object
(`create_or_transfer_window`) and configures before it creates; the default UI
creates once and may configure at any time.  The reading of settings may fail
half-way (`SetConfigurationFails`).  Two variables have no counterpart: `pointer`, where
the mouse was at the last message of a drag, handled or ignored, and `moved`, whether a
move was handled in the current drag.  `DragFollowsPointer` compares the code's flag,
on which the release decides, with the first of them.

Three exceptions in the properties are observations about the code.  A Columns UI
window that was destroyed and created again never gets a frontend, as
`initializing_graphics` is left set.  `last_seek_point` outlives a drag
(`SeekbarWindow.Events.cc` 243), so a first move to the very point at which the last
move of an earlier drag ended is ignored, and a release there seeks although it is
outside (`StaleJump`); if Columns UI makes the window again in the middle of a drag,
the new callback object is not seeking until the next move (`RemadeInDrag`).  The
property confines both to the time before a move of the drag was handled.  Settings that
fail to load half-way leave the old frontend under the name of another.

### 3.9 `Barrier.tla`, `FrontendLoader.tla` and `WindowStartup.tla`: startup

`Barrier` is the spinning barrier of `util/Barrier.h` for any set of threads, one
step per access to one of its two atomics.  `FrontendLoader` is the load thread
that fills the list of frontend modules under `module_load_mutex`, and the main
thread that starts it and later waits for it: it reads `modules_loaded` without
the mutex, and joins the load thread with the mutex held that the load thread
needs.  The barrier is what makes the second safe, as the main thread cannot ask
for the mutex before the load thread has it.

`WindowStartup` conjoins window and loader.  They share the main thread:
`on_wm_create` and the `WM_PAINT` that makes the frontend begin with a wait
(`CallWait`) and go on when it has returned (`UseModules`); in between the main
thread handles no other message while the load thread runs on.

| Run | Bounds | Shows |
|---|---|---|
| `lives` | GDI and one more frontend, an invalid kind, 3 points, both hosts, 3 modules to load, fair | `StartupTypeOK`, `TimerMatches`, `DragFollowsPointer`, `ListComplete`, `FrontendFollowsSettings`, `FrontendComes`, `LoadEnds` |

Nothing in it is bounded: the state is finite, about 43,000 states.  Fairness:
both threads run (weak fairness of each one's steps, the wait's return included),
and Windows sends `WM_PAINT` in the end while part of the window is invalid.
Hosts, the user and playback may do nothing at all.

### 3.10 `ImageCache.tla`: the texture thread of Direct2D

From the end of the constructor to the destructor.  `on_state_changed` is split
at its accesses to what the texture thread shares: the size task of the first
call, which comes before any colours (`UpdateSize`), the palette
(`RegenerateBrushes`), the task for the new contents (`UpdateData`).  The texture
thread takes all tasks and keeps the newest, reads the palette twice while it
draws, without the mutex, may have to draw again, and posts a function that
publishes the bitmap in the main thread.  Content stands for everything a task
carries; positions of the cursors are read at each paint and left out.

| Run | Bounds | Shows |
|---|---|---|
| `texture` | 2 contents, 2 palettes, 3 tasks in the life of the frontend, fair | `TypeOK`, `LatestIsCurrent`, `DestroyEnds`, `ShownWhilePlaying` |

Three tasks (the two of the start and one change, which may fall anywhere in the
work on the others) are what it takes for a stale palette or stale contents to
compete with a newer task in the queue, in the drawing and in the posted
functions.  `MaxIssued` appears in the guards of the changes only.  Fairness:
both threads run, drawing succeeds in the end (`Post`), and the message loop runs
posted functions, timers and `WM_PAINT` (strong: the main thread is back in the
loop again and again, not always).

Observations.  Publishing a bitmap does not invalidate the window, so without the
repaint timer of a playing track the last change may stay unseen; this is why
`ShownWhilePlaying` asks for a playing track.  The frontend never advances its
own `bitmap_serial` (`Direct2D1.cc` 199), so it fetches the bitmap at every
paint; this does no harm, and is what brings the bitmap back when targets had to
be made again.  A function posted before the destruction runs after it and writes
to the freed cache (`DeliverLate`).

### 3.11 `Direct3D9.tla`: device loss and effects

Everything runs in the main thread, but calls nest: `on_state_changed` asks
whether the device is still lost, which resets it, which calls `on_state_changed`
with all bits, which resizes, which resets it again.  Each `Reset` and each
`Present` may report a lost device, so each of the nested functions is modelled
as the set of states it may return in, and an action takes one of them.
`stale` has no counterpart: the aspects of the callback object that the frontend
has not copied since they last changed.  The second half is the configuration
dialog, which compiles the text on every change, previews what compiles, applies
and stores it.  An effect is its source; effects compile or they do not.

The window drops its frontend and makes it anew (`Flush`, `Start`): when another kind
is chosen, which closes the dialog before (`SelectFrontend`), when the host sets the
configuration, which does not (`SetConfiguration`), and when the window is destroyed.
The dialog holds a reference to its frontend (`ConfigDialog.cc` 29-30), so one that is
not closed keeps a frontend alive that nobody draws with.  Of such dialogs the model
keeps whether there is one (`left`) and lets it apply any text that its button could
(`LeftApply`).  The host also changes the stored text, and may do so without a flush
when a later setting is missing (`SetConfigurationFails`).

| Run | Bounds | Shows |
|---|---|---|
| `devices` | the default effect and 2 more, 1 source that does not compile | `ReadyUnlessLost`, `AppliedIsDrawn` |

The state is finite without bounds, about 160,000 states.  Two effects besides the
default let the stored, the applied and the previewed effect all differ.

`AppliedIsDrawn` says what is on top of the stack of effects: the stored one, or the
default if that does not compile.  Three steps may lead out of that, and are
observations: Apply in a dialog that was left over stores a text for the new frontend
and pushes the effect on the old one; settings that fail half-way change the text under
the frontend; applying an emptied text stores the empty text while the effect compiled
before goes on the stack (`ConfigDialog.cc` 91, 135).  From there, whatever next changes
the text or the stack leads back, as every reset and every new frontend does.  What is
drawn is the top of the stack unless an effect was tried out: a preview is drawn in its
place, stays when the dialog is closed, and is lost on a resize.

Other observations.  `device_lost` is not initialised by the constructor;
`ReadyUnlessLost` shows that either value is made up for by the call that
follows.  The constructor throws even when its second `CreateDevice` succeeded
(`Direct3D9.cc` 137-140), and GDI is used.

### 3.12 `GdiFallback.tla`: regions and partial repaints

A column of the model is a line of pixels across the window's shorter axis.
`Content` is what `draw` would put in a column now: a cursor's bar, the plain
bitmap, the shaded one, or nothing.  `invalid` is the update region, `lastPlay`
and `lastSeek` the cached rectangles from which the next update computes what to
invalidate.  Regions are computed from columns that are reversed afterwards and
bars from fractions that are reversed before, so that the two fit is a matter of
arithmetic; and what is invalidated after a sequence of moves, jumps, drags,
stops and settings has to cover every column whose content changed.

| Run | Bounds | Shows |
|---|---|---|
| `gdi` | canvases with sides of 2, 4 and 5 pixels, positions in quarters of the track | `RegionsFitTheBars`, `RepaintCoversChanges` |

The extents divide, equal and do not divide the number of positions, so columns
fall on, and between, exact fractions; in 5 columns two cursors can be equal,
adjacent, one apart, and at either edge.  The state is finite without bounds.
Fractions are exact where the code rounds to float.

The exceptions the properties name are observations: a single column between two
cursors, or between a cursor and an edge, belongs to no region, so draw leaves it
as it is, and a bar that stood there may stay (`GapCloses`); with a seek cursor
alone everything is shaded, but neither its coming nor its going repaints the
rest (`WithoutCursor`); `reorient_rect` reverses along the horizontal axis before
it turns, so the origin of a vertical reversed wave is misplaced
(`OriginMisplaced`); a reversed bar is rounded twice and may be one column off.
The fourth, `ShadeSwitched`: a switch of the shade drops the cached rectangles and
invalidates nothing, although the comment says "invalidate shaded side"
(`GdiFallback.cc` 224).  The old shade stays in view until the next change of
position, which does not come while playback is paused; that change invalidates the
whole window, which `RepaintCoversChanges` states as well.

## 4. What is proved

The runs check small instances; the theorems hold for every value of the
constants: any tracks, workers, queries, buckets, chunks, effects, windows, canvases.
Each module of theorems extends the module it is about, so that both speak of the
same definitions.

| Theorem | Statement |
|---|---|
| `WaveCacheProofs` | about `WaveCache` and `WaveCacheLedger` |
| `TypeCorrect` | `Spec => []TypeOK` |
| `WavesHaveFiles` | `Spec => []NoOrphanWave` |
| `StateGoesWithQuery` | `Spec => []StateBelongsToQuery` |
| `StoreIsOpenInUse` | `Spec => []StoreOutlivesUsers` |
| `QueuesInOrder` | `Spec => []QueueOrder` |
| `QueriesInOnePlace` | `Spec => []EveryQueryInOnePlace` |
| `MostUrgentTaken` | `Spec => ServedInOrder` |
| `WaitingQueriesSaved` | `Spec => []QueuedJobsSaved` |
| `SavedJobsStay` | `Spec => SavedJobNotForgotten` |
| `CacheImplementsLedger` | `Spec => LedgerSpec`, the refinement of `RequestLedger` |
| `RequestsAreAttended` | `Spec => []NoRequestForgotten`, the safety core of `AcceptedIsSettled` |
| `BackingStoreProofs` | about `BackingStore` |
| `TablesTypeCorrect` | `Spec => []TypeOK` |
| `WavesBelongToTracks` | `Spec => []WaveOfItsTrack` |
| `OnlyRemovalStaleGetOrWideRowLoses` | `Spec => LossOnlyByRemovalStaleGetOrWideRow` |
| `OperationsLeaveReadable` | `Spec => GetLeavesReadable` |
| `StoreImplementsTrackStore` | `Spec => TrackStoreSpec`, the refinement |
| `WindowStartupProofs` | about `WindowStartup`, `SeekbarWindow`, `FrontendLoader`, `Barrier` |
| `StartupImplementsWindow` | `StartupSpec => Spec`: the composition implements the window |
| `StartupTypeCorrect` | `StartupSpec => []StartupTypeOK` |
| `ModulesListed` | `StartupSpec => []ListComplete` |
| `TimerAlwaysMatches` | `StartupSpec => []TimerMatches` |
| `DragAlwaysFollows` | `StartupSpec => []DragFollowsPointer` |
| `FrontendAlwaysFollows` | `StartupSpec => FrontendFollowsSettings` |
| `ImageCacheProofs` | about `ImageCache` |
| `CacheTypeCorrect` | `Spec => []TypeOK` |
| `NewestBitmapIsCurrent` | `Spec => []LatestIsCurrent` |
| `Direct3D9Proofs` | about `Direct3D9` |
| `ReadyOrLost` | `Spec => []ReadyUnlessLost` |
| `StoredEffectIsDrawn` | `Spec => AppliedIsDrawn` |
| `PlayerProofs` | about `Player` |
| `LateResultsIgnored` | `Spec => LateResultIgnored` |
| `WaveformBuilderProofs` | about `WaveformBuilder` |
| `BuilderTypeCorrect` | `Spec => []TypeOK` |
| `FullAtTheEnd` | `Spec => []FinishedAtTheEnd` |
| `SamplesCountedOnce` | `Spec => []EverySampleCounted` |
| `SentinelsGone` | `Spec => []NoSentinelLeft` |
| `ResultAlwaysExact` | `Spec => []ResultExact` |
| `AnalysisAdvances` | `Spec => WorkAdvances`, the variant behind `AnalysisEnds` |
| `GdiFallbackProofs` | about `GdiFallback` |
| `RegionsAlwaysFit` | `Spec => []RegionsFitTheBars` |
| `RepaintsCover` | `Spec => RepaintCoversChanges` |

### 4.1 Assumptions

Each is named and stands in the module that declares the constants; the runs
evaluate it.

* `ConstantsAssumption` (`WaveCache`): finitely many tracks, no more than
  `MaxQueries`, so that the job table of an earlier run can be loaded; finitely
  many workers, as the code caps them (`g_max_concurrent_jobs`) and the bound on
  lost requests counts them; at least one chunk and one run.
* `StoreAssumption` (`BackingStore`): the main thread is no worker; finitely many
  tracks, no more than there are keys, so that every track can have a row at the
  start.
* `LoaderAssumption` (`FrontendLoader`): the threads at the barrier are two, as
  the code constructs it; "nobody holds the mutex" is neither of them.
* `WindowAssumption` (`SeekbarWindow`): GDI is a kind of frontend; an invalid kind
  and "no frontend" are none.
* `CacheAssumption` (`ImageCache`): there are contents and palettes, and at least
  the two tasks of the start.
* `EffectAssumption` (`Direct3D9`): the default effect compiles; no text does and
  does not; the empty text and the null pointer are neither.
* `PlayerAssumption` (`Player`): what stands for "no track" and "no waveform" is
  no track.
* `BuilderAssumption` (`WaveformBuilder`): at least one bucket, one frame in a
  chunk and in a stretch of silence, and no empty track.
* `CanvasAssumption` (`GdiFallback`): a client area has at least one pixel each way,
  the position at least one step, and what stands for "no rectangle" is no column.

### 4.2 The arguments

Hardly a property is inductive as it stands.  What each needed besides:

`WaveCache`: a chain of invariants, each of which uses the ones before it.

* `TypeInv`: `TypeOK` is not inductive.  A step of a busy worker applies
  `outcome[Job(w)]` and needs a query in the slot (`BusyHolds`); `Enqueue` pushes
  `request` and needs it to exist (`RequestHeld`).
* `PhaseInv`: how far the cache thread, the main thread and the workers have come
  relative to each other.  `init_sync` and the two joins are what make it true;
  it is what `StoreOutlivesUsers` says, and it keeps requests and workers away
  from the queues while `flush_jobs` and `put_jobs` read them.
* `OrderInv`: the queues are sorted by age, and the query that `get_waveform`
  holds is newer than everything queued.  Sorted means duplicate-free, which the
  placement needs; with the placement it gives `ServedInOrder`.
* `PlaceInv`: `EveryQueryInOnePlace` in parts, with `UrgencyKept`: a query waits
  in the queue of its own urgency.  Without the latter a query could be in two
  queues, and taking it from one would leave it waiting and held.
* `JobsInv`: a worker that does not run holds nothing; every job found at the
  start is still in the local deque of `load_data` or has become a query; from
  `flush_jobs` on, every waiting query is in the rows inserted or to be inserted.
* `LedgerInv`, for the refinement.  `ClosingInv`: the flags say how far the cache
  thread is, and only a worker that noticed the abort is about to put a query off,
  so nothing is put off or lost before the ledger closes.  `RowsWanted`: the
  converse of the last part of `JobsInv`, no row is inserted that no waiting query
  asked for; the two make the saved tracks exactly those of the ledger.
  `LossBounded`: three lost queries for each worker that left, which is stronger
  than the ledger's bound and, other than that, inductive.

* `SleepInv`: a worker between predicate and wait has found all queues empty and holds
  `worker_mutex`, so nobody can fill them; a worker that dozes holds no query; a
  worker leaves only when told to; and while anything is queued some worker is awake.
  The last part alone is not inductive: it is the mutex held between predicate and
  wait that makes it so (`EnqueueWakes`).  The flags of the shutdown are set without
  that mutex, which is why the same fails there (`QuitFlushesJobs`).

The ledger's three sets are read off the outcomes of the queries, which `PlaceInv`
justifies (`SeenByOutcome`).  Then each step that creates, releases, drops or saves
a query is one step of the ledger (`CreateAccepts`, `ReleaseNoted`, `ExitNoted`,
`CommitSeals`), the end of a process is one, and all others are stutters
(`StepsNoted`).

`BackingStore`: `StoreInv` adds to `WaveOfItsTrack` what an operation holds
between two statements.  `CallInv`: a row of its own track, of a kind `get` can
have read, and what it will write is in the current format, or the null waveform
that ends the process.  `ReadStaysModern`: once a `get` has read a row that needs
no conversion, the track never again has one that does, since whoever could
replace it writes such rows only and whoever removes it removes the key.  With it
`GetLeavesReadable` needs no condition on the other threads.  The refinement maps
each statement to one step of `TrackStore` or to a stutter.

`WindowStartup`: a wait in the middle of a message handler changes nothing that
`SeekbarWindow` sees, so the composition implements the window
(`StartupImplementsWindow`) and the window's theorems carry over.  `WindowInv` is
the conjunction of the window's properties, which need each other, and two facts about
drags: the default UI makes its window once, before any drag (`OneWindow`), and once a
move was handled the mouse is at `last_seek_point`, so that what is ignored from then on
changes nothing (`FirstMove`).  For
`ListComplete`, `LoaderInv` describes the barrier by who is still coming, who has
passed and what counter and generation say (`BarrierInv`), who holds the mutex
(`MutexInv`), and how full the list is at each position of the load thread
(`ListInv`); whoever is through the barrier knows that both threads called it,
and from then on the main thread can have the mutex only after the load thread.

`ImageCache`: `LatestIsCurrent` speaks of published bitmaps, so the same has to be
known of each place a bitmap comes through.  `TasksInv`: the newest task is last
in the queue and has the contents of now.  `JobInv`: of the newest task, what has
been drawn so far was drawn in the palette of now.  `PostedInv`, `PublishedInv`:
likewise for what waits in the message loop.  All hold only while the main thread
is in the message loop; `MainInv` says that it comes back with a new task after
every change, and that the palette is behind only until `regenerate_brushes`.

`Direct3D9`: the stored effect is not always on top of the stack, so no invariant can
say so; what is invariant is that there is a stack and nothing was missed (`Sound`).
Of each nested function it is shown, from the innermost out, that every state in which
it may return is `Sound` and has lost the device, has the stored effect on top, or has
the stack it was called with (`Kept`).  That is what `AppliedIsDrawn` asks of a step.
`DialogInv` says what the apply button would push: the text in the box, or what it held
before it was emptied.

`Player`: `ToldOfNow`: a listener that was told of a track was told of the one
that plays.  It relates each window to the player and is what an `on_query_result`
for another track fails against.

`WaveformBuilder`: `PlaceInv` says that the current bucket is the one in which the
next sample falls, or an empty one before it; `ChunkInv` that the chunk under way
begins where the samples processed end; `ListsInv` what the flat lists hold.  They
rest on arithmetic: the bucket bounds increase from 0 to the number of samples
(`Cuts`), the entries of two buckets are never the same (`FlatIndex`), and the
frames `process` is given fall into the entries of their channels
(`TakenFrames`).  For a waveform that is mixed down, `ResultExact` needs what a fold
computes whose steps overwrite the list they read.  `Mixed` is its closed form.  It
solves the recursion of the fold, since the step of a bucket reads only entries that
no earlier step has written (`MixedStep`), so the recursion has a solution and the
function chosen for it is one; and the two agree on every prefix of the buckets,
because there is no least prefix on which they do not (`DownmixedIs`).  The induction
is a choice of a least natural number (`Least`, from the library's fact that the
order on the naturals is well-founded), since the library's induction theorems take
an operator as a parameter and cannot be used.  `WorkAdvances` is as much of
`AnalysisEnds` as a proof reaches: a counter with a bound that each step of the
analysis raises, because a slice renders at least one frame while samples are missing
(`RendersSomething`) and a turn of the loop takes a frame or closes a bucket.  What is
left to TLC is that the worker's steps are enabled until then, and fairness.

`GdiFallback`: `GdiInv` says that the cached rectangles, while valid, are those of
the cursors; everything else is arithmetic and geometry.  `ColumnFacts`: the column
of a fraction counted from the end is the reversed column or the one after it, since
the product is divided once from either side.  `UncoveredFacts`: with the next point
behind a column and `low_bound` before it, a column outside every region is a point
or adjacent to one.  `CoveredFacts`: a region reaches over no cursor, so whether it
is shaded says on which side of the playback cursor all of it lies.
`RepaintCoversChanges` then follows by cases on which cursors are shown before and
after (`MovesCovered`): with the shade fitted to the bar in both states, a column
whose bitmap changes lies between the old bar and the new one, or the origin; and a
cursor that appears does so at the edge (`StartColumn`), where nothing has been
played.

The lemmas about sequences (what appending, prepending, concatenating and taking
the head do to the elements and their order) and about tables (which rows a
deletion or a replacement leaves) are stated once, for any sequence or table,
where they are first needed.

## 5. What is only model-checked, and what is not covered

* Liveness (`AcceptedIsSettled`, `QuitHangsOnlyOnMissedWakeup`, `AnalysisEnds`,
  `WindowGetsAnswer`, `FrontendComes`, `LoadEnds`, `DestroyEnds`,
  `ShownWhilePlaying`): fairness and ENABLED are outside what the proof system
  handles.
* The three properties that are violated, which state what comments, the name of a
  setting and the changelog say.

Not modelled:

* Settings and the configuration dialog (`PersistentSettings.cc`,
  `SeekbarWindow.ConfigDialog.cc`): a record is copied to and from a property tree, or from the
  legacy format, by straight-line code; nothing interleaves with it and it keeps
  no state.  That it may fail half-way is an action of `SeekbarWindow`.
* Waveform objects (`waveform_sdk/`): immutable data behind an atomic intrusive
  counter.  The coefficients of `Downmix.h` are numbers, which no model carries; which
  channels a mono mix is made of is in `WaveformBuilder`.
* Clipboard: one sequential loop from a decoder into one block of memory.
* `remove_dead_waveforms` and `compact_storage` in `WaveCache` (the statements of
  the former are in `BackingStore`), and quiet mode, in which nothing is started.
* Drawing itself in all three frontends; failures of constructors, after which
  `SeekbarWindow` uses GDI; the screenshot of Direct3D 9.
* A track of length zero in `GdiFallback`, whose position is not a number.

Five matters of object lifetime are not covered, as the models have no state for
memory: the promise that the library-check callback holds by reference after the
worker gave up waiting (`CacheImpl.ProcessFile.cc` 427-450); callbacks of queries
whose owner was deleted on exit (`Player.cc` 158-161); frontends that are
destroyed after the callback object they refer to (`SeekbarWindow.h` 23-27); a dialog
left over from a window that was made again, whose configuration object is gone
(`SeekbarWindow.Events.cc` 125), while `LeftApply` lets it write; and the function that the texture thread posted with a pointer to the cache
(`Direct2D1.cc` 466), which `ImageCache` shows to be run late but whose write it
cannot express.

The vendored libraries and SDKs are most of the repository's lines.  They are
third-party code, and only what this component relies on is assumed of them.
