----------------------------- MODULE PlayerProofs -----------------------------
(* What holds between the player and the seekbar windows for any set of tracks, any
   number of windows, queries and posted results. *)
EXTENDS Player, SequenceTheorems, TLAPS

(* A result belongs to a track, and its waveform is that of the track or none. *)
Result ==
  {r \in [loc : Location, wf : Location \cup {Null}] : r.wf \in {r.loc, Null}}
Query == [loc : Location, open : BOOLEAN]

TypeInv ==
  /\ nowPlaying \in Location \cup {NoTrack}
  /\ request \in 0..Len(query) /\ query \in Seq(Query)
  /\ stored \subseteq Location
  /\ posted \in Seq(Result)
  /\ listening \subseteq Window
  /\ location \in [Window -> Location \cup {NoTrack}]
  /\ DOMAIN shown = Window

(* Nobody who listens has missed a change of track. *)
ToldOfNow ==
  \A w \in listening :
    location[w] # NoTrack /\ nowPlaying # NoTrack => location[w] = nowPlaying

PlayerInv == TypeInv /\ ToldOfNow

-----------------------------------------------------------------------------
LEMMA InitPlayerInv == Init => PlayerInv
<1> SUFFICES ASSUME Init PROVE PlayerInv
  OBVIOUS
<1>1. Len(<< >>) = 0 /\ << >> \in Seq(Query) /\ << >> \in Seq(Result)
  BY EmptySeq
<1>2. TypeInv
  BY <1>1 DEF Init, TypeInv
<1>3. ToldOfNow
  BY DEF Init, ToldOfNow
<1> QED
  BY <1>2, <1>3 DEF PlayerInv

LEMMA PostedResult ==
  ASSUME TypeInv, NEW l \in Location, NEW wf \in {l, Null}, Post(l, wf)
  PROVE  posted' \in Seq(Result)
<1>1. [loc |-> l, wf |-> wf] \in Result
  BY DEF Result
<1> QED
  BY <1>1, AppendProperties DEF Post, TypeInv

LEMMA NewQuery ==
  ASSUME TypeInv, NEW q \in Query, query' = Append(query, q),
         request' \in {request, Len(query) + 1}
  PROVE  query' \in Seq(Query) /\ request' \in 0..Len(query')
<1>1. query' \in Seq(Query) /\ Len(query') = Len(query) + 1 /\ Len(query) \in Nat
  BY AppendProperties, LenProperties DEF TypeInv
<1> QED
  BY <1>1 DEF TypeInv

LEMMA PlayTrackKeepsInv ==
  ASSUME PlayerInv, NEW l \in Location, PlayTrack(l)
  PROVE  PlayerInv'
<1> USE DEF PlayerInv
<1>1. /\ nowPlaying' = l /\ UNCHANGED <<listening, shown>>
      /\ location' = [w \in Window |-> IF w \in listening THEN l ELSE location[w]]
  BY DEF PlayTrack, TellListeners
<1>2. /\ posted' \in Seq(Result) /\ query' \in Seq(Query)
      /\ request' \in 0..Len(query') /\ stored' \subseteq Location
  <2>1. CASE PlayKnown(l)
    <3>1. posted' \in Seq(Result)
      BY <2>1, PostedResult DEF PlayKnown
    <3> QED
      BY <2>1, <3>1 DEF PlayKnown, TypeInv
  <2>2. CASE PlayUnknown(l) /\ UNCHANGED query
    BY <2>2, AppendProperties, LenProperties DEF PlayUnknown, TypeInv
  <2>3. ASSUME PlayUnknown(l), ~UNCHANGED <<request, query, posted, stored>>
        PROVE  /\ posted' \in Seq(Result) /\ query' \in Seq(Query)
               /\ request' \in 0..Len(query') /\ stored' \subseteq Location
    <3>0. Pending(l) \in Query /\ [Pending(l) EXCEPT !.open = FALSE] \in Query
      BY DEF Pending, Query
    <3>1. /\ request' = Len(query) + 1
          /\ \/ query' = Append(query, Pending(l))
             \/ query' = Append(query, [Pending(l) EXCEPT !.open = FALSE])
      BY <2>3 DEF PlayUnknown
    <3>2. query' \in Seq(Query) /\ request' \in 0..Len(query')
      BY <3>0, <3>1, NewQuery
    <3>3. \/ UNCHANGED <<posted, stored>>
          \/ /\ Post(l, l) \/ Post(l, Null)
             /\ stored' \in {stored, stored \cup {l}}
      BY <2>3 DEF PlayUnknown
    <3>4. posted' \in Seq(Result)
      BY <3>3, PostedResult DEF TypeInv
    <3> QED
      BY <3>2, <3>3, <3>4 DEF TypeInv
  <2> QED
    BY <1>1, <2>1, <2>2, <2>3 DEF PlayTrack, TypeInv
<1>3. TypeInv'
  BY <1>1, <1>2 DEF TypeInv
<1>4. ToldOfNow'
  BY <1>1 DEF ToldOfNow, TypeInv
<1> QED
  BY <1>3, <1>4

LEMMA CacheStepKeepsInv ==
  ASSUME PlayerInv, NEW q \in DOMAIN query, Progress(q) \/ Answer(q)
  PROVE  PlayerInv'
<1> USE DEF PlayerInv
<1>1. q \in 1..Len(query) /\ query[q] \in Query /\ query[q].loc \in Location
  <2>1. q \in 1..Len(query)
    BY LenProperties DEF TypeInv
  <2>2. query[q] \in Query
    BY <2>1, ElementOfSeq DEF TypeInv
  <2> QED
    BY <2>1, <2>2 DEF Query
<1>2. UNCHANGED <<nowPlaying, request, listening, location, shown>>
  BY DEF Progress, Answer
<1>3. posted' \in Seq(Result)
  BY <1>1, PostedResult DEF Progress, Answer
<1>4. query' \in Seq(Query) /\ Len(query') = Len(query) /\ stored' \subseteq Location
  <2>1. CASE Progress(q)
    BY <2>1 DEF Progress, TypeInv
  <2>2. CASE Answer(q)
    <3>1. [query[q] EXCEPT !.open = FALSE] \in Query
      BY <1>1 DEF Query
    <3>2. query' = [query EXCEPT ![q] = [query[q] EXCEPT !.open = FALSE]]
      BY <2>2 DEF Answer
    <3>3. query' \in Seq(Query) /\ Len(query') = Len(query)
      BY <1>1, <3>1, <3>2, ExceptSeq DEF TypeInv
    <3>4. stored' \in {stored, stored \cup {query[q].loc}}
      BY <2>2 DEF Answer
    <3> QED
      BY <1>1, <3>3, <3>4 DEF TypeInv
  <2> QED
    BY <2>1, <2>2
<1>5. TypeInv'
  BY <1>2, <1>3, <1>4 DEF TypeInv
<1>6. ToldOfNow'
  BY <1>2 DEF ToldOfNow
<1> QED
  BY <1>5, <1>6

LEMMA NextKeepsPlayerInv == PlayerInv /\ [Next]_vars => PlayerInv'
<1> SUFFICES ASSUME PlayerInv, [Next]_vars PROVE PlayerInv'
  OBVIOUS
<1>1. ASSUME NEW l \in Location, PlayTrack(l) PROVE PlayerInv'
  BY <1>1, PlayTrackKeepsInv
<1>2. CASE CacheStep
  BY <1>2, CacheStepKeepsInv DEF CacheStep
<1>3. ASSUME NEW l \in Location, RemoveWaveform(l) \/ StoredByOthers(l) PROVE PlayerInv'
  BY <1>3 DEF PlayerInv, TypeInv, ToldOfNow, RemoveWaveform, StoredByOthers
<1>4. CASE Stop \/ UNCHANGED vars
  BY <1>4 DEF PlayerInv, TypeInv, ToldOfNow, Stop, vars
<1>5. CASE Deliver
  <2>1. posted' \in Seq(Result)
    BY <1>5, HeadTailProperties DEF Deliver, PlayerInv, TypeInv
  <2> QED
    BY <1>5, <2>1 DEF PlayerInv, TypeInv, ToldOfNow, Deliver
<1>6. ASSUME NEW w \in Window, Register(w) \/ Deregister(w) PROVE PlayerInv'
  BY <1>6 DEF PlayerInv, TypeInv, ToldOfNow, Register, Deregister
<1> QED
  BY <1>1, <1>2, <1>3, <1>4, <1>5, <1>6 DEF Next

LEMMA PlayerInvAlways == Spec => []PlayerInv
<1>1. Init => PlayerInv
  BY InitPlayerInv
<1>2. PlayerInv /\ [Next]_vars => PlayerInv'
  BY NextKeepsPlayerInv
<1> QED
  BY <1>1, <1>2, PTL DEF Spec

(* What a step may do to the waveform of a window that goes on listening. *)
LateIgnored(w) ==
  shown'[w] # shown[w] /\ w \in listening' =>
    /\ location[w] # NoTrack => shown'[w].of = location[w]
    /\ shown'[w].wf \in {shown'[w].of, Null}

LEMMA StepIgnoresLate ==
  ASSUME PlayerInv, Next, NEW w \in listening
  PROVE  LateIgnored(w)
<1> SUFFICES ASSUME shown'[w] # shown[w] PROVE LateIgnored(w)
  BY DEF LateIgnored
<1>1. CASE Deliver
  <2>1. Head(posted) \in Result
    BY <1>1, HeadTailProperties DEF Deliver, PlayerInv, TypeInv
  <2>2. /\ nowPlaying = Head(posted).loc
        /\ shown'[w] = [of |-> Head(posted).loc, wf |-> Head(posted).wf]
    BY <1>1 DEF Deliver, PlayerInv, TypeInv
  <2>3. nowPlaying # NoTrack
    BY <2>1, <2>2, PlayerAssumption DEF Result
  <2> QED
    BY <2>1, <2>2, <2>3 DEF LateIgnored, PlayerInv, ToldOfNow, Result
<1>2. ASSUME NEW v \in Window, Register(v) PROVE FALSE
  BY <1>2 DEF Register, PlayerInv, TypeInv
<1>3. CASE UNCHANGED shown
  BY <1>3
<1> QED
  BY <1>1, <1>2, <1>3 DEF Next, PlayTrack, RemoveWaveform, StoredByOthers, Stop,
     CacheStep, Progress, Answer, Deregister

(* A window that listens and was told of a track is only ever given waveforms of that
   track, or none, however late results arrive in the main thread and whatever has
   been played meanwhile (on_waveform_result and the function it posts). *)
THEOREM LateResultsIgnored == Spec => LateResultIgnored
<1>1. ASSUME PlayerInv, [Next]_vars
      PROVE  [\A w \in listening : LateIgnored(w)]_vars
  BY <1>1, StepIgnoresLate
<1> QED
  BY <1>1, PlayerInvAlways, PTL DEF Spec, LateResultIgnored, LateIgnored
=============================================================================
