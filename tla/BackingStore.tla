---------------------------- MODULE BackingStore -----------------------------
(* The tables file and wave of BackingStore.cc, statement by statement.

   The main thread and the workers share one SQLite connection: a statement is
   atomic, an operation of several statements is not, and no mutex covers all of
   them.  get does more than read: it removes rows that it cannot use and writes
   rows of older formats back in the current one. *)
EXTENDS Integers, FiniteSets

CONSTANTS Location,  \* tracks
          Main,      \* the main thread
          Worker,    \* the worker threads of the cache
          MaxFid     \* bound: keys that may be assigned

ASSUME StoreAssumption ==
  /\ Main \notin Worker /\ IsFiniteSet(Location)
  /\ MaxFid \in Nat /\ MaxFid >= Cardinality(Location)

Thread == {Main} \cup Worker

(* A row of wave: the track it was computed from, its format, whether its blobs
   unpack to what they should be, and whether it claims more than 18 channels.
   "raw" is a NULL compression, "zlib" 0, "lzma" 1, "newer" above, "bad" below.
   Blobs of raw rows are not checked, and assumed to be whole. *)
Format == {"raw", "zlib", "lzma", "newer", "bad"}
Row == [of : Location, comp : Format, whole : BOOLEAN, wide : BOOLEAN]
NoRow == [of |-> "none"]
Possible(r) ==
  /\ r.comp \in {"raw", "newer", "bad"} => r.whole
  /\ r.wide => r.whole /\ r.comp \in {"raw", "zlib", "lzma"}

VARIABLES
  files,    \* table file: from the keys in use to tracks
  waves,    \* table wave: from keys to rows
  nextFid,  \* what AUTOINCREMENT assigns next
  call,     \* per thread: what it does, for which track, with which waveform
  alive     \* FALSE between the death of the process and the next start

vars == <<files, waves, nextFid, call, alive>>

Idle == [pc |-> "idle"]
FidsOf(l) == { f \in DOMAIN files : files[f] = l }
Without(fn, S) == [x \in DOMAIN fn \ S |-> fn[x]]
With(fn, S, v) == [x \in DOMAIN fn \cup S |-> IF x \in S THEN v ELSE fn[x]]

Init ==
  /\ \E known \in SUBSET Location :
       /\ nextFid = Cardinality(known) + 1
       /\ files \in { fn \in [1..Cardinality(known) -> known] :
                        \A l \in known : \E f \in DOMAIN fn : fn[f] = l }
  /\ \E kept \in SUBSET DOMAIN files :
       waves \in { fn \in [kept -> { r \in Row : Possible(r) }] :
                     \A f \in kept : fn[f].of = files[f] }
  /\ call = [t \in Thread |-> Idle]
  /\ alive = TRUE

(* Variants of the operators below with a plausible mistake in each; every
   property is checked to fail with one of them in the operator's place. *)
NewFileSameKey(l) ==
  files' = With(files, {nextFid}, l) /\ UNCHANGED nextFid
DeleteFilesUncascaded(S) ==
  /\ files' = Without(files, UNION { FidsOf(l) : l \in S })
  /\ UNCHANGED waves
DeleteWavesOnly(S) ==
  /\ waves' = Without(waves, UNION { FidsOf(l) : l \in S })
  /\ UNCHANGED files
UnpacksZlibOnly(r) == r.comp = "raw" \/ (r.comp = "zlib" /\ r.whole)
IsRaw(r) == r.comp = "raw"

(* has: some wave row joins a file row of the track. *)
has(l) == FidsOf(l) \cap DOMAIN waves # {}

(* DELETE FROM file for the tracks in S; the trigger resonance_cascade deletes
   the wave rows first. *)
DeleteFiles(S) ==
  LET gone == UNION { FidsOf(l) : l \in S }
  IN  files' = Without(files, gone) /\ waves' = Without(waves, gone)

GoTo(t, next) == call' = [call EXCEPT ![t] = next]

(* get: the SELECT.  Without a row, or with a row of a newer version, get returns
   false, which changes nothing. *)
GetSelect(t, l) ==
  /\ alive /\ call[t] = Idle
  /\ \E f \in FidsOf(l) \cap DOMAIN waves :
       /\ waves[f].comp # "newer"
       /\ GoTo(t, [pc |-> IF waves[f].comp = "bad" \/ waves[f].wide
                          THEN "suspect" ELSE "unpack",
                   loc |-> l, row |-> waves[f]])
  /\ UNCHANGED <<files, waves, nextFid, alive>>

(* get: "corrupt entry" is removed, and get goes on. *)
GetSuspect(t) ==
  /\ alive /\ call[t].pc = "suspect"
  /\ DeleteFiles({call[t].loc})
  /\ GoTo(t, [call[t] EXCEPT !.pc = "unpack"])
  /\ UNCHANGED <<nextFid, alive>>

Unpacks(r) == r.comp = "raw" \/ (r.comp \in {"zlib", "lzma"} /\ r.whole)
IsOld(r) == r.comp \in {"raw", "zlib"}

(* get: the fields are unpacked, or the row is removed; then a row of an older
   format is put again, whatever became of it. *)
GetUnpack(t) ==
  /\ alive /\ call[t].pc = "unpack"
  /\ IF Unpacks(call[t].row) THEN UNCHANGED <<files, waves>>
                             ELSE DeleteFiles({call[t].loc})
  /\ GoTo(t, IF IsOld(call[t].row)
             THEN [pc |-> "insert", loc |-> call[t].loc,
                   row |-> IF Unpacks(call[t].row)
                           THEN [call[t].row EXCEPT !.comp = "lzma"] ELSE NoRow]
             ELSE Idle)
  /\ UNCHANGED <<nextFid, alive>>

(* put, called by a worker with the result of an analysis. *)
PutStart(t, l, wide) ==
  /\ alive /\ call[t] = Idle /\ t \in Worker
  /\ GoTo(t, [pc |-> "insert", loc |-> l,
              row |-> [of |-> l, comp |-> "lzma", whole |-> TRUE, wide |-> wide]])
  /\ UNCHANGED <<files, waves, nextFid, alive>>

NewFile(l) ==
  /\ nextFid <= MaxFid
  /\ files' = With(files, {nextFid}, l)
  /\ nextFid' = nextFid + 1

(* put: INSERT INTO file, which fails if the track is there; then the fields of
   the waveform are read, and without a waveform the process dies. *)
PutInsert(t) ==
  /\ alive /\ call[t].pc = "insert"
  /\ IF FidsOf(call[t].loc) # {}
     THEN UNCHANGED <<files, nextFid>>
     ELSE NewFile(call[t].loc)
  /\ IF call[t].row = NoRow
     THEN alive' = FALSE /\ UNCHANGED call
     ELSE GoTo(t, [call[t] EXCEPT !.pc = "replace"]) /\ UNCHANGED alive
  /\ UNCHANGED waves

(* put: REPLACE INTO wave for the key the track has now, if any. *)
PutReplace(t) ==
  /\ alive /\ call[t].pc = "replace"
  /\ waves' = With(waves, FidsOf(call[t].loc), call[t].row)
  /\ GoTo(t, Idle)
  /\ UNCHANGED <<files, nextFid, alive>>

(* remove, and remove_dead with the tracks whose files are gone. *)
Remove(l) ==
  /\ alive /\ call[Main] = Idle
  /\ DeleteFiles({l}) /\ UNCHANGED <<nextFid, call, alive>>

RemoveDead(S) ==
  /\ alive /\ call[Main] = Idle
  /\ DeleteFiles(S) /\ UNCHANGED <<nextFid, call, alive>>

(* The process dies at any moment; the constructor finds the tables as they
   are. *)
Crash == alive /\ alive' = FALSE /\ UNCHANGED <<files, waves, nextFid, call>>

Open ==
  /\ ~alive /\ alive' = TRUE
  /\ call' = [t \in Thread |-> Idle]
  /\ UNCHANGED <<files, waves, nextFid>>

GetStep(t) ==
  GetSuspect(t) \/ GetUnpack(t) \/ \E l \in Location : GetSelect(t, l)

PutStep(t) ==
  PutInsert(t) \/ PutReplace(t)
  \/ \E l \in Location, wide \in BOOLEAN : PutStart(t, l, wide)

Next ==
  \/ \E t \in Thread : GetStep(t) \/ PutStep(t)
  \/ \E l \in Location : Remove(l)
  \/ \E S \in SUBSET Location : RemoveDead(S)
  \/ Crash \/ Open

Spec == Init /\ [][Next]_vars

-----------------------------------------------------------------------------
(* Type invariant; the keys in use are older than the one assigned next. *)
TypeOK ==
  /\ nextFid \in 1..(MaxFid + 1)
  /\ DOMAIN files \subseteq 1..(nextFid - 1)
  /\ \A f \in DOMAIN files : files[f] \in Location
  /\ \A f \in DOMAIN waves : waves[f] \in Row
  /\ \A t \in Thread :
       \/ call[t] = Idle
       \/ /\ call[t].pc \in {"suspect", "unpack", "insert", "replace"}
          /\ call[t].loc \in Location /\ call[t].row \in Row \cup {NoRow}
  /\ alive \in BOOLEAN

(* A track is found under one key only, and what is found under the key of a
   track was computed from that track: put looks the key up again after a remove
   that came between its statements, and keys are not used again. *)
WaveOfItsTrack ==
  /\ \A f \in DOMAIN waves : f \in DOMAIN files /\ waves[f].of = files[f]
  /\ \A f, g \in DOMAIN files : files[f] = files[g] => f = g

(* A usable waveform is lost in three ways only.  Forgets: remove and remove_dead.
   StaleGet: a get that has read an unusable row of the track which was replaced since,
   as get removes by track, not by key.  WideWritten: put writes a row of more than 18
   channels over it, of a new analysis or converted from an old row that get has taken
   for corrupt and goes on with; put does not ask for the channels, and every get will
   take the row for corrupt and remove it (BackingStore.cc 134-138).  A crash, a put or
   a conversion of a waveform of at most 18 channels loses none, whatever the threads
   interleave. *)
Usable(r) == r.comp \in {"raw", "zlib", "lzma"} /\ r.whole /\ ~r.wide
UsableNow(l) == \E f \in FidsOf(l) \cap DOMAIN waves : Usable(waves[f])
Forgets(l) == call[Main] = Idle /\ call' = call /\ ~UsableNow(l)'
StaleGet(l) ==
  \E t \in Thread : /\ call[t].pc \in {"suspect", "unpack"} /\ call[t].loc = l
                    /\ call'[t] # call[t] /\ ~Usable(call[t].row)
WideWritten(l) ==
  \E t \in Thread : /\ call[t].pc = "replace" /\ call[t].loc = l
                    /\ call'[t] # call[t] /\ call[t].row.wide
LossOnlyByRemovalStaleGetOrWideRow ==
  [][\A l \in Location :
       UsableNow(l) => UsableNow(l)' \/ Forgets(l) \/ StaleGet(l) \/ WideWritten(l)]_vars

(* When an operation ends, whatever the other threads are in the middle of, the
   track has a row in the current format that unpacks, or none: has then promises
   what the next get delivers. *)
GetLeavesReadable ==
  [][\A t \in Thread :
       call[t] # Idle /\ call'[t] = Idle /\ alive
       => \A f \in DOMAIN waves' :
            files'[f] = call[t].loc => waves'[f].comp = "lzma" /\ waves'[f].whole]_vars

(* The tables, seen by track as has sees them, implement TrackStore: whatever the
   threads interleave, a track gets its waveform after its key and loses both at
   once. *)
Tracks == INSTANCE TrackStore WITH
            known <- { l \in Location : FidsOf(l) # {} },
            stored <- { l \in Location : has(l) }
TrackStoreSpec == Tracks!Spec

(* The comment on the second remove of get: "it's corrupt, and thus useless".
   get never goes on with a waveform it could not unpack. *)
CorruptIsUseless ==
  \A t \in Thread : call[t].pc = "insert" => call[t].row # NoRow
=============================================================================
