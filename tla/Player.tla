------------------------------- MODULE Player --------------------------------
(* The playback callbacks of Player.cc between the player, the cache and the
   seekbar windows that listen.

   Playback callbacks and posted functions run in the main thread, one after the
   other.  Results of queries come from worker threads at any time and are posted
   to the main thread, which may be at another track when it gets to them.  The
   cache is reduced to what the callbacks see of it: which tracks have a stored
   waveform, and the queries it still works on. *)
EXTENDS Naturals, Sequences

CONSTANTS Location,    \* tracks
          Forbidden,   \* those of is_location_forbidden
          Window,      \* seekbar windows
          NoTrack,     \* nothing plays, nothing displayed
          Null,        \* a null waveform
          Placeholder, \* the waveform a new window shows
          MaxQueries,  \* bound: queries of the player
          MaxPosted    \* bound: functions posted and not run

ASSUME PlayerAssumption ==
  /\ Forbidden \subseteq Location
  /\ {NoTrack, Null, Placeholder} \cap Location = {}
  /\ MaxQueries \in Nat /\ MaxPosted \in Nat

VARIABLES
  nowPlaying,  \* get_now_playing
  request,     \* current_playing_request: an index of query, 0 if empty
  query,       \* queries created: track, and whether the cache works on it
  stored,      \* tracks with a stored waveform
  posted,      \* main_thread_callback_manager: results to deliver, in order
  listening,   \* _listeners
  location,    \* per window: track it was told of last
  shown        \* per window: fe->callback's waveform, and of which result

vars == <<nowPlaying, request, query, stored, posted, listening, location, shown>>

(* on_wm_create: a window starts with the placeholder. *)
Nothing == [of |-> NoTrack, wf |-> Placeholder]

Init ==
  /\ nowPlaying = NoTrack /\ request = 0 /\ query = << >>
  /\ stored \in SUBSET Location
  /\ posted = << >> /\ listening = {}
  /\ location = [w \in Window |-> NoTrack]
  /\ shown = [w \in Window |-> Nothing]

(* Variants of PlayUnknown and Deliver with a plausible mistake in each; every property is checked to fail with one of them in their place. *)
PlayUnknownOnce(l) ==
  /\ l \notin stored \cup Forbidden
  /\ IF request # 0
     THEN UNCHANGED <<request, query>>
     ELSE request' = Len(query) + 1 /\ query' = Append(query, [loc |-> l, open |-> TRUE])
  /\ UNCHANGED <<posted, stored>>
DeliverAlways ==
  /\ posted # << >>
  /\ shown' = [w \in Window |->
                 IF w \in listening
                 THEN [of |-> Head(posted).loc, wf |-> Head(posted).wf] ELSE shown[w]]
  /\ posted' = Tail(posted)
  /\ UNCHANGED <<nowPlaying, request, query, stored, listening, location>>

(* on_waveform_result: a function is posted. *)
Post(loc, wf) ==
  /\ Len(posted) < MaxPosted
  /\ posted' = Append(posted, [loc |-> loc, wf |-> wf])

Pending(loc) == [loc |-> loc, open |-> TRUE]

(* The callbacks on_location and on_play of the listeners. *)
TellListeners(l) ==
  location' = [w \in Window |-> IF w \in listening THEN l ELSE location[w]]

(* on_playback_new_track: there is a waveform, or there will never be one. *)
PlayKnown(l) ==
  /\ l \in stored \cup Forbidden
  /\ Post(l, IF l \in stored THEN l ELSE Null)
  /\ UNCHANGED <<request, query, stored>>

(* on_playback_new_track: a request for another track is dropped, and a new one
   made unless there is one; the cache takes it, or answers at once: with what a
   worker has stored in the meantime, or with nothing if there is a row that get
   cannot use. *)
PlayUnknown(l) ==
  /\ l \notin stored \cup Forbidden
  /\ IF request # 0 /\ query[request].loc = l
     THEN UNCHANGED <<request, query, posted, stored>>
     ELSE /\ Len(query) < MaxQueries
          /\ request' = Len(query) + 1
          /\ \/ query' = Append(query, Pending(l)) /\ UNCHANGED <<posted, stored>>
             \/ /\ query' = Append(query, [Pending(l) EXCEPT !.open = FALSE])
                /\ \/ Post(l, l) /\ stored' = stored \cup {l}
                   \/ Post(l, Null) /\ UNCHANGED stored

PlayTrack(l) ==
  /\ nowPlaying' = l
  /\ PlayKnown(l) \/ PlayUnknown(l)
  /\ TellListeners(l)
  /\ UNCHANGED <<listening, shown>>

(* on_playback_stop. *)
Stop ==
  /\ nowPlaying # NoTrack /\ nowPlaying' = NoTrack
  /\ UNCHANGED <<request, query, stored, posted, listening, location, shown>>

(* A worker has analysed a part of the track: set_waveform without a waveform. *)
Progress(q) ==
  /\ query[q].open
  /\ Post(query[q].loc, Null)
  /\ UNCHANGED <<nowPlaying, request, query, stored, listening, location, shown>>

(* A worker is done with the query: the waveform is stored and handed over, or
   there is none. *)
Answer(q) ==
  /\ query[q].open
  /\ query' = [query EXCEPT ![q].open = FALSE]
  /\ \/ Post(query[q].loc, query[q].loc) /\ stored' = stored \cup {query[q].loc}
     \/ Post(query[q].loc, Null) /\ UNCHANGED stored
  /\ UNCHANGED <<nowPlaying, request, listening, location, shown>>

(* The user removes a waveform; somebody else's query stores one. *)
RemoveWaveform(l) ==
  /\ l \in stored /\ stored' = stored \ {l}
  /\ UNCHANGED <<nowPlaying, request, query, posted, listening, location, shown>>

StoredByOthers(l) ==
  /\ l \notin stored /\ stored' = stored \cup {l}
  /\ UNCHANGED <<nowPlaying, request, query, posted, listening, location, shown>>

(* The posted function: listeners get the result if its track plays. *)
Deliver ==
  /\ posted # << >>
  /\ LET r == Head(posted)
     IN  shown' = [w \in Window |->
                     IF w \in listening /\ nowPlaying = r.loc
                     THEN [of |-> r.loc, wf |-> r.wf] ELSE shown[w]]
  /\ posted' = Tail(posted)
  /\ UNCHANGED <<nowPlaying, request, query, stored, listening, location>>

(* A window is created or destroyed; it knows nothing of the past. *)
Register(w) ==
  /\ w \notin listening /\ listening' = listening \cup {w}
  /\ location' = [location EXCEPT ![w] = NoTrack]
  /\ shown' = [shown EXCEPT ![w] = Nothing]
  /\ UNCHANGED <<nowPlaying, request, query, stored, posted>>

Deregister(w) ==
  /\ w \in listening /\ listening' = listening \ {w}
  /\ location' = [location EXCEPT ![w] = NoTrack]
  /\ UNCHANGED <<nowPlaying, request, query, stored, posted, shown>>

CacheStep == \E q \in DOMAIN query : Progress(q) \/ Answer(q)

Next ==
  \/ \E l \in Location : PlayTrack(l) \/ RemoveWaveform(l) \/ StoredByOthers(l)
  \/ Stop \/ Deliver \/ CacheStep
  \/ \E w \in Window : Register(w) \/ Deregister(w)

Spec == Init /\ [][Next]_vars

(* The message loop runs what is posted; the cache settles what it accepted. *)
FairSpec ==
  /\ Spec /\ WF_vars(Deliver)
  /\ \A q \in 1..MaxQueries : SF_vars(q \in DOMAIN query /\ Answer(q))

-----------------------------------------------------------------------------
(* However late results come and whatever has been played since, a listening
   window that was told of a track is given waveforms of that track only; a
   waveform is never replaced by that of a track the window does not display. *)
LateResultIgnored ==
  [][\A w \in listening :
       shown'[w] # shown[w] /\ w \in listening' =>
         /\ location[w] # NoTrack => shown'[w].of = location[w]
         /\ shown'[w].wf \in {shown'[w].of, Null}]_vars

(* A window that was told of the playing track gets an answer for it, unless the
   track changes or the window goes away: from the store, or from the cache when
   it is done.  Excepted are tracks the cache has answered before: the comment of
   on_playback_new_track says "if not, schedule a scan", but the request is not
   emptied when it is answered, so playing its track again makes no query. *)
Answered(l) == \E q \in DOMAIN query : query[q].loc = l /\ ~query[q].open
Told(w, l) == w \in listening /\ location[w] = l /\ nowPlaying = l
WindowGetsAnswer ==
  \A w \in Window, l \in Location :
    (Told(w, l) /\ ~Answered(l)) ~> (shown[w].of = l \/ ~Told(w, l))
=============================================================================
