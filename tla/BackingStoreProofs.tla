-------------------------- MODULE BackingStoreProofs --------------------------
(* What holds of the tables for any set of tracks, any number of worker threads
   and of keys: the keys, what a get may destroy, what it leaves behind, and that
   the tables implement TrackStore. *)
EXTENDS BackingStore, FiniteSetTheorems, TLAPS

(* What put writes: the current format, from a waveform that was whole. *)
Modern(r) == r.comp = "lzma" /\ r.whole

(* An operation under way holds a row of its own track; put holds one it may
   write, or the null waveform that kills the process. *)
PossibleRow == { r \in Row : Possible(r) }
Reading == [pc : {"suspect", "unpack"}, loc : Location, row : PossibleRow]
Writing == [pc : {"insert", "replace"}, loc : Location, row : Row]
CallOK(c) ==
  \/ c = Idle
  \/ c \in Reading /\ c.row.of = c.loc /\ (c.pc = "suspect" => ~Usable(c.row))
  \/ c \in Writing /\ c.row.of = c.loc /\ Modern(c.row)
  \/ \E l \in Location : c = [pc |-> "insert", loc |-> l, row |-> NoRow]

TablesTyped ==
  /\ nextFid \in 1..(MaxFid + 1)
  /\ DOMAIN files \subseteq 1..(nextFid - 1)
  /\ \A f \in DOMAIN files : files[f] \in Location
  /\ \A f \in DOMAIN waves : waves[f] \in PossibleRow
  /\ alive \in BOOLEAN

TableInv == TablesTyped /\ WaveOfItsTrack

CallInv == DOMAIN call = Thread /\ \A t \in Thread : CallOK(call[t])

(* Once a get has read a row in the current format that unpacks, the track never
   has a row of another kind: the conversions of other threads write only such
   rows, and whoever removes the row removes the key. *)
RowsModern(l) == \A f \in FidsOf(l) \cap DOMAIN waves : Modern(waves[f])
ReadModern(c) == c.pc \in {"suspect", "unpack"} /\ Modern(c.row)
ReadStaysModern == \A t \in Thread : ReadModern(call[t]) => RowsModern(call[t].loc)

StoreInv == TableInv /\ CallInv /\ ReadStaysModern

-----------------------------------------------------------------------------
(* Tracks that are deleted lose their keys and rows, the others keep theirs. *)
LEMMA DeletedTracksOnly ==
  ASSUME NEW S, DeleteFiles(S)
  PROVE  /\ \A f \in DOMAIN files' : f \in DOMAIN files /\ files'[f] = files[f]
         /\ \A f \in DOMAIN waves' : f \in DOMAIN waves /\ waves'[f] = waves[f]
         /\ \A f \in DOMAIN files : f \in DOMAIN files' <=> files[f] \notin S
         /\ \A f \in DOMAIN files \cap DOMAIN waves :
              f \in DOMAIN waves' <=> files[f] \notin S
         /\ \A f \in DOMAIN waves \ DOMAIN files : f \in DOMAIN waves'
         /\ \A l : FidsOf(l)' = IF l \in S THEN {} ELSE FidsOf(l)
<1> DEFINE gone == UNION { FidsOf(l) : l \in S }
<1>1. \A f : f \in gone <=> f \in DOMAIN files /\ files[f] \in S
  BY DEF FidsOf
<1>2. files' = [f \in DOMAIN files \ gone |-> files[f]]
  BY DEF DeleteFiles, Without
<1>3. waves' = [f \in DOMAIN waves \ gone |-> waves[f]]
  BY DEF DeleteFiles, Without
<1> HIDE DEF gone
<1>4. \A f \in DOMAIN files' : f \in DOMAIN files /\ files'[f] = files[f]
  BY <1>2
<1>5. \A f \in DOMAIN files : f \in DOMAIN files' <=> files[f] \notin S
  BY <1>1, <1>2
<1>6. \A l : FidsOf(l)' = IF l \in S THEN {} ELSE FidsOf(l)
  BY <1>4, <1>5 DEF FidsOf
<1> QED
  BY <1>1, <1>3, <1>4, <1>5, <1>6

(* A new file gets a key that no table has seen. *)
LEMMA NewKeyIsFresh ==
  ASSUME TableInv, NEW l \in Location, NewFile(l)
  PROVE  /\ DOMAIN files' = DOMAIN files \cup {nextFid}
         /\ nextFid \notin DOMAIN files /\ nextFid \notin DOMAIN waves
         /\ files'[nextFid] = l
         /\ \A f \in DOMAIN files : files'[f] = files[f]
         /\ \A k : FidsOf(k)' = IF k = l THEN FidsOf(k) \cup {nextFid} ELSE FidsOf(k)
<1>1. files' = [f \in DOMAIN files \cup {nextFid} |->
                  IF f \in {nextFid} THEN l ELSE files[f]]
  BY DEF NewFile, With
<1>2. nextFid \notin DOMAIN files /\ nextFid \notin DOMAIN waves
  BY DEF TableInv, TablesTyped, WaveOfItsTrack
<1> QED
  BY <1>1, <1>2 DEF FidsOf

(* A row is written for every key of the track, of which there is at most one. *)
LEMMA ReplacedRows ==
  ASSUME NEW t \in Thread, PutReplace(t)
  PROVE  /\ DOMAIN waves' = DOMAIN waves \cup FidsOf(call[t].loc)
         /\ \A f \in FidsOf(call[t].loc) : waves'[f] = call[t].row
         /\ \A f \in DOMAIN waves \ FidsOf(call[t].loc) : waves'[f] = waves[f]
         /\ \A l : FidsOf(l)' = FidsOf(l)
<1>1. waves' = [f \in DOMAIN waves \cup FidsOf(call[t].loc) |->
                  IF f \in FidsOf(call[t].loc) THEN call[t].row ELSE waves[f]]
  BY DEF PutReplace, With
<1> QED
  BY <1>1 DEF FidsOf, PutReplace

-----------------------------------------------------------------------------
(* The tables a process finds have one key per track: as many keys as tracks,
   and every track under one of them. *)
LEMMA InitStoreInv == Init => StoreInv
<1> SUFFICES ASSUME Init PROVE StoreInv
  OBVIOUS
<1>1. PICK known \in SUBSET Location :
        /\ nextFid = Cardinality(known) + 1
        /\ files \in { fn \in [1..Cardinality(known) -> known] :
                         \A l \in known : \E f \in DOMAIN fn : fn[f] = l }
  BY DEF Init
<1>2. PICK kept \in SUBSET DOMAIN files :
        waves \in { fn \in [kept -> { r \in Row : Possible(r) }] :
                      \A f \in kept : fn[f].of = files[f] }
  BY DEF Init
<1> DEFINE n == Cardinality(known)
<1>3. /\ IsFiniteSet(known) /\ n \in Nat /\ n <= MaxFid
  <2>1. IsFiniteSet(known) /\ n <= Cardinality(Location)
    BY FS_Subset, StoreAssumption
  <2>2. n \in Nat /\ Cardinality(Location) \in Nat
    BY <2>1, FS_CardinalityType, StoreAssumption
  <2> QED
    BY <2>1, <2>2, StoreAssumption
<1>4. files \in Injection(1..n, known)
  <2>1. files \in Surjection(1..n, known)
    BY <1>1, SMT DEF Surjection
  <2>2. IsFiniteSet(1..n) /\ Cardinality(1..n) = n
    BY <1>3, FS_Interval
  <2> QED
    BY <2>1, <2>2, FS_SurjSameCardinalityImpliesInj
<1>5. \A f, g \in DOMAIN files : files[f] = files[g] => f = g
  BY <1>4 DEF Injection, IsInjective
<1>6. TableInv
  <2>1. nextFid \in 1..(MaxFid + 1) /\ DOMAIN files = 1..(nextFid - 1)
    BY <1>1, <1>3, StoreAssumption
  <2>2. \A f \in DOMAIN files : files[f] \in Location
    BY <1>1
  <2>3. \A f \in DOMAIN waves :
          waves[f] \in PossibleRow /\ f \in DOMAIN files /\ waves[f].of = files[f]
    BY <1>2 DEF PossibleRow
  <2> QED
    BY <2>1, <2>2, <2>3, <1>5 DEF TableInv, TablesTyped, WaveOfItsTrack, Init
<1>7. CallInv /\ ReadStaysModern
  BY DEF Init, CallInv, CallOK, ReadStaysModern, ReadModern, Idle
<1> QED
  BY <1>6, <1>7 DEF StoreInv

(* Deleting tracks keeps the tables consistent, and leaves no row behind that a
   get has to fear. *)
LEMMA DeleteKeepsTables ==
  ASSUME TableInv, NEW S, DeleteFiles(S), UNCHANGED nextFid, alive' \in BOOLEAN
  PROVE  TableInv'
BY DeletedTracksOnly DEF TableInv, TablesTyped, WaveOfItsTrack

LEMMA NewFileKeepsTables ==
  ASSUME TableInv, NEW l \in Location, FidsOf(l) = {}, NewFile(l),
         UNCHANGED waves, alive' \in BOOLEAN
  PROVE  TableInv'
<1>1. nextFid' \in 1..(MaxFid + 1) /\ nextFid' = nextFid + 1
  BY StoreAssumption DEF NewFile, TableInv, TablesTyped
<1>2. \A f \in DOMAIN files : files[f] # l
  BY DEF FidsOf
<1> QED
  BY <1>1, <1>2, NewKeyIsFresh DEF TableInv, TablesTyped, WaveOfItsTrack

LEMMA ReplaceKeepsTables ==
  ASSUME TableInv, CallInv, NEW t \in Thread, PutReplace(t)
  PROVE  /\ TableInv'
         /\ Modern(call[t].row) /\ call[t].row \in Row /\ call[t].loc \in Location
<1>1. call[t].row \in Row /\ call[t].row.of = call[t].loc /\ Modern(call[t].row)
      /\ call[t].loc \in Location
  BY DEF CallInv, CallOK, PutReplace, Idle, Reading, Writing
<1>2. \A f \in DOMAIN waves' :
        waves'[f] \in PossibleRow /\ f \in DOMAIN files /\ waves'[f].of = files[f]
  <2> SUFFICES ASSUME NEW f \in DOMAIN waves'
               PROVE  waves'[f] \in PossibleRow /\ f \in DOMAIN files /\ waves'[f].of = files[f]
    OBVIOUS
  <2>1. CASE f \in FidsOf(call[t].loc)
    BY <2>1, <1>1, ReplacedRows DEF FidsOf, PossibleRow, Possible, Modern
  <2>2. CASE f \notin FidsOf(call[t].loc)
    BY <2>2, ReplacedRows DEF TableInv, TablesTyped, WaveOfItsTrack
  <2> QED
    BY <2>1, <2>2
<1> QED
  BY <1>1, <1>2 DEF TableInv, TablesTyped, WaveOfItsTrack, PutReplace

(* A thread goes on with a call that is all right, and the tables keep what the
   readers have seen. *)
LEMMA CallsStayOK ==
  ASSUME CallInv, ReadStaysModern, NEW t \in Thread, NEW c, CallOK(c), GoTo(t, c),
         \A l : RowsModern(l) => RowsModern(l)',
         ReadModern(c) => RowsModern(c.loc)'
  PROVE  CallInv' /\ ReadStaysModern'
<1>1. /\ DOMAIN call' = Thread /\ call'[t] = c
      /\ \A u \in Thread \ {t} : call'[u] = call[u]
  BY DEF CallInv, GoTo
<1>2. CallInv'
  BY <1>1 DEF CallInv, CallOK, Idle, Reading, Writing
<1>3. ReadStaysModern'
  BY <1>1 DEF ReadStaysModern, ReadModern
<1> QED
  BY <1>2, <1>3

LEMMA CallsUntouched ==
  ASSUME CallInv, ReadStaysModern, UNCHANGED call,
         \A l : RowsModern(l) => RowsModern(l)'
  PROVE  CallInv' /\ ReadStaysModern'
<1>1. CallInv'
  BY DEF CallInv, CallOK, Idle, Reading, Writing
<1>2. ReadStaysModern'
  BY DEF ReadStaysModern, ReadModern
<1> QED
  BY <1>1, <1>2

(* Neither deleting tracks nor a new key makes a row appear. *)
LEMMA DeleteKeepsModern ==
  ASSUME NEW S, DeleteFiles(S)
  PROVE  \A l : RowsModern(l) => RowsModern(l)'
BY DeletedTracksOnly DEF RowsModern

LEMMA NewFileKeepsModern ==
  ASSUME TableInv, NEW l \in Location, NewFile(l), UNCHANGED waves
  PROVE  \A k : RowsModern(k) => RowsModern(k)'
BY NewKeyIsFresh DEF RowsModern

-----------------------------------------------------------------------------
(* The steps of get. *)
LEMMA GetKeepsStoreInv ==
  ASSUME StoreInv, NEW t \in Thread, GetStep(t)
  PROVE  StoreInv'
<1>1. ASSUME NEW l \in Location, GetSelect(t, l) PROVE StoreInv'
  <2>1. PICK f \in FidsOf(l) \cap DOMAIN waves :
          GoTo(t, [pc |-> IF waves[f].comp = "bad" \/ waves[f].wide
                          THEN "suspect" ELSE "unpack",
                   loc |-> l, row |-> waves[f]])
    BY <1>1 DEF GetSelect
  <2> DEFINE c == [pc |-> IF waves[f].comp = "bad" \/ waves[f].wide
                          THEN "suspect" ELSE "unpack",
                   loc |-> l, row |-> waves[f]]
  <2>2. waves[f] \in PossibleRow /\ waves[f].of = l /\ FidsOf(l) = {f}
    BY DEF FidsOf, StoreInv, TableInv, TablesTyped, WaveOfItsTrack
  <2>3. CallOK(c)
    BY <2>2 DEF CallOK, Reading, Usable
  <2>4. UNCHANGED <<files, waves, nextFid, alive>>
    BY <1>1 DEF GetSelect
  <2>5. \A k : RowsModern(k)' <=> RowsModern(k)
    BY <2>4 DEF RowsModern, FidsOf
  <2>6. ReadModern(c) => RowsModern(c.loc)
    BY <2>2 DEF ReadModern, RowsModern
  <2>7. CallInv' /\ ReadStaysModern'
    <3> HIDE DEF c
    <3> QED
      BY <2>1, <2>3, <2>5, <2>6, CallsStayOK DEF StoreInv, c
  <2>8. TableInv'
    BY <2>4 DEF StoreInv, TableInv, TablesTyped, WaveOfItsTrack
  <2> QED
    BY <2>7, <2>8 DEF StoreInv
<1>2. CASE GetSuspect(t)
  <2>1. call[t] \in Reading /\ call[t].row.of = call[t].loc
    BY <1>2 DEF GetSuspect, StoreInv, CallInv, CallOK, Idle, Writing
  <2> DEFINE c == [call[t] EXCEPT !.pc = "unpack"]
  <2>2. c \in Reading /\ c.pc = "unpack" /\ c.row = call[t].row /\ c.loc = call[t].loc
    BY <2>1 DEF Reading
  <2>3. CallOK(c)
    BY <2>1, <2>2 DEF CallOK
  <2>4. \A l : l = call[t].loc => RowsModern(l)'
    BY <1>2, DeletedTracksOnly DEF GetSuspect, RowsModern
  <2>5. CallInv' /\ ReadStaysModern'
    BY <1>2, <2>2, <2>3, <2>4, DeleteKeepsModern, CallsStayOK DEF GetSuspect, StoreInv
  <2> QED
    BY <1>2, <2>5, DeleteKeepsTables DEF GetSuspect, StoreInv, TableInv, TablesTyped
<1>3. CASE GetUnpack(t)
  <2>1. call[t] \in Reading /\ call[t].row.of = call[t].loc
    BY <1>3 DEF GetUnpack, StoreInv, CallInv, CallOK, Idle, Writing
  <2> DEFINE row == IF Unpacks(call[t].row)
                    THEN [call[t].row EXCEPT !.comp = "lzma"] ELSE NoRow
             c == IF IsOld(call[t].row)
                  THEN [pc |-> "insert", loc |-> call[t].loc, row |-> row] ELSE Idle
  <2>2. call[t].row \in Row /\ Possible(call[t].row) /\ call[t].loc \in Location
    BY <2>1 DEF Reading, PossibleRow
  <2>3. CallOK(c) /\ c.pc \notin {"suspect", "unpack"}
    <3>1. CASE ~IsOld(call[t].row)
      BY <3>1 DEF CallOK, Idle
    <3>2. CASE IsOld(call[t].row) /\ ~Unpacks(call[t].row)
      BY <3>2, <2>2 DEF CallOK
    <3>3. CASE IsOld(call[t].row) /\ Unpacks(call[t].row)
      <4>1. /\ row \in Row /\ row.of = call[t].row.of /\ row.comp = "lzma"
            /\ row.whole = call[t].row.whole
        BY <3>3, <2>2 DEF Row, Format
      <4>2. call[t].row.whole
        BY <3>3, <2>2 DEF Unpacks, IsOld, Possible
      <4> HIDE DEF row
      <4> QED
        BY <3>3, <4>1, <4>2, <2>1, <2>2 DEF CallOK, Writing, Modern
    <3> QED
      BY <3>1, <3>2, <3>3
  <2>4. CASE Unpacks(call[t].row)
    <3>1. UNCHANGED <<files, waves, nextFid, alive>> /\ GoTo(t, c)
      BY <1>3, <2>4 DEF GetUnpack
    <3>2. \A l : RowsModern(l) => RowsModern(l)'
      BY <3>1 DEF RowsModern, FidsOf
    <3>3. CallInv' /\ ReadStaysModern'
      <4> HIDE DEF c
      <4> QED
        BY <2>3, <3>1, <3>2, CallsStayOK DEF StoreInv, ReadModern
    <3> QED
      BY <3>1, <3>3 DEF StoreInv, TableInv, TablesTyped, WaveOfItsTrack
  <2>5. CASE ~Unpacks(call[t].row)
    <3>1. DeleteFiles({call[t].loc}) /\ UNCHANGED <<nextFid, alive>> /\ GoTo(t, c)
      BY <1>3, <2>5 DEF GetUnpack
    <3>2. CallInv' /\ ReadStaysModern'
      <4> HIDE DEF c
      <4> QED
        BY <2>3, <3>1, DeleteKeepsModern, CallsStayOK DEF StoreInv, ReadModern
    <3> QED
      BY <3>1, <3>2, DeleteKeepsTables DEF StoreInv, TableInv, TablesTyped
  <2> QED
    BY <2>4, <2>5
<1> QED
  BY <1>1, <1>2, <1>3 DEF GetStep

(* The steps of put. *)
LEMMA PutKeepsStoreInv ==
  ASSUME StoreInv, NEW t \in Thread, PutStep(t)
  PROVE  StoreInv'
<1>1. ASSUME NEW l \in Location, NEW wide \in BOOLEAN, PutStart(t, l, wide)
      PROVE  StoreInv'
  <2> DEFINE row == [of |-> l, comp |-> "lzma", whole |-> TRUE, wide |-> wide]
             c == [pc |-> "insert", loc |-> l, row |-> row]
  <2>1. row \in Row /\ row.of = l /\ Modern(row)
    BY DEF Row, Format, Modern
  <2>2. CallOK(c) /\ c.pc = "insert"
    <3> HIDE DEF row
    <3> QED
      BY <2>1 DEF CallOK, Writing
  <2>3. UNCHANGED <<files, waves, nextFid, alive>> /\ GoTo(t, c)
    BY <1>1 DEF PutStart
  <2>4. \A k : RowsModern(k) => RowsModern(k)'
    BY <2>3 DEF RowsModern, FidsOf
  <2>5. CallInv' /\ ReadStaysModern'
    <3> HIDE DEF c
    <3> QED
      BY <2>2, <2>3, <2>4, CallsStayOK DEF StoreInv, ReadModern
  <2> QED
    BY <2>3, <2>5 DEF StoreInv, TableInv, TablesTyped, WaveOfItsTrack
<1>2. CASE PutInsert(t)
  <2>1. /\ call[t].loc \in Location
        /\ \/ call[t] \in Writing /\ call[t].row.of = call[t].loc /\ Modern(call[t].row)
           \/ call[t].row = NoRow
    BY <1>2 DEF PutInsert, StoreInv, CallInv, CallOK, Idle, Reading, Writing
  <2>2. UNCHANGED waves /\ alive' \in BOOLEAN
    BY <1>2 DEF PutInsert, StoreInv, TableInv, TablesTyped
  <2>3. TableInv' /\ \A l : RowsModern(l) => RowsModern(l)'
    <3>1. CASE FidsOf(call[t].loc) # {}
      <4>1. UNCHANGED <<files, nextFid, waves>>
        BY <1>2, <2>2, <3>1 DEF PutInsert
      <4> QED
        BY <4>1, <2>2
        DEF StoreInv, TableInv, TablesTyped, WaveOfItsTrack, RowsModern, FidsOf
    <3>2. CASE FidsOf(call[t].loc) = {}
      <4>1. NewFile(call[t].loc)
        BY <1>2, <3>2 DEF PutInsert
      <4> QED
        BY <4>1, <3>2, <2>1, <2>2, NewFileKeepsTables, NewFileKeepsModern DEF StoreInv
    <3> QED
      BY <3>1, <3>2
  <2>4. CallInv' /\ ReadStaysModern'
    <3>1. CASE call[t].row = NoRow
      <4>1. UNCHANGED call
        BY <1>2, <3>1 DEF PutInsert
      <4> QED
        BY <4>1, <2>3, CallsUntouched DEF StoreInv
    <3>2. CASE call[t].row # NoRow
      <4> DEFINE c == [call[t] EXCEPT !.pc = "replace"]
      <4>1. GoTo(t, c)
        BY <1>2, <3>2 DEF PutInsert
      <4>2. CallOK(c) /\ c.pc = "replace"
        BY <2>1, <3>2 DEF CallOK, Writing
      <4> HIDE DEF c
      <4> QED
        BY <4>1, <4>2, <2>3, CallsStayOK DEF StoreInv, ReadModern
    <3> QED
      BY <3>1, <3>2
  <2> QED
    BY <2>3, <2>4 DEF StoreInv
<1>3. CASE PutReplace(t)
  <2>1. TableInv' /\ Modern(call[t].row)
    BY <1>3, ReplaceKeepsTables DEF StoreInv
  <2>2. \A l : RowsModern(l) => RowsModern(l)'
    BY <1>3, <2>1, ReplacedRows DEF RowsModern
  <2>3. GoTo(t, Idle) /\ CallOK(Idle) /\ ~ReadModern(Idle)
    BY <1>3 DEF PutReplace, CallOK, ReadModern, Idle
  <2>4. CallInv' /\ ReadStaysModern'
    BY <2>2, <2>3, CallsStayOK DEF StoreInv
  <2> QED
    BY <2>1, <2>4 DEF StoreInv
<1> QED
  BY <1>1, <1>2, <1>3 DEF PutStep

(* The other steps: removal by the user, death and restart of the process. *)
LEMMA OthersKeepStoreInv ==
  ASSUME StoreInv,
         \/ \E l \in Location : Remove(l)
         \/ \E S \in SUBSET Location : RemoveDead(S)
         \/ Crash \/ Open \/ UNCHANGED vars
  PROVE  StoreInv'
<1>1. ASSUME NEW S, DeleteFiles(S), UNCHANGED <<nextFid, call, alive>> PROVE StoreInv'
  BY <1>1, DeleteKeepsTables, DeleteKeepsModern, CallsUntouched
  DEF StoreInv, TableInv, TablesTyped
<1>2. ASSUME UNCHANGED <<files, waves, nextFid, call>>, alive' \in BOOLEAN
      PROVE  StoreInv'
  <2>1. \A l : RowsModern(l) => RowsModern(l)'
    BY <1>2 DEF RowsModern, FidsOf
  <2> QED
    BY <1>2, <2>1, CallsUntouched
    DEF StoreInv, TableInv, TablesTyped, WaveOfItsTrack
<1>3. CASE Open
  <2>1. CallInv' /\ ReadStaysModern'
    BY <1>3 DEF Open, CallInv, CallOK, ReadStaysModern, ReadModern, Idle
  <2> QED
    BY <1>3, <2>1 DEF Open, StoreInv, TableInv, TablesTyped, WaveOfItsTrack
<1> QED
  BY <1>1, <1>2, <1>3
  DEF Remove, RemoveDead, Crash, vars, StoreInv, TableInv, TablesTyped

LEMMA NextKeepsStoreInv == StoreInv /\ [Next]_vars => StoreInv'
BY GetKeepsStoreInv, PutKeepsStoreInv, OthersKeepStoreInv DEF Next

LEMMA StoreInvHolds == Spec => []StoreInv
BY InitStoreInv, NextKeepsStoreInv, PTL DEF Spec

(* Type correctness: keys in use are older than the one assigned next. *)
THEOREM TablesTypeCorrect == Spec => []TypeOK
<1>1. StoreInv => TypeOK
  BY DEF StoreInv, TableInv, TablesTyped, CallInv, CallOK, Idle, Reading, Writing,
         PossibleRow, TypeOK
<1> QED
  BY <1>1, StoreInvHolds, PTL

(* A track has one key, and what is found under it was computed from the track,
   whatever a get, a put and a removal interleave. *)
THEOREM WavesBelongToTracks == Spec => []WaveOfItsTrack
<1>1. StoreInv => WaveOfItsTrack
  BY DEF StoreInv, TableInv
<1> QED
  BY <1>1, StoreInvHolds, PTL

-----------------------------------------------------------------------------
(* A usable row that is still there, under a key that is still the track's. *)
LEMMA UsableStays ==
  ASSUME NEW l,
         \A f \in FidsOf(l) \cap DOMAIN waves : Usable(waves[f]) =>
           f \in FidsOf(l)' \cap DOMAIN waves' /\ Usable(waves'[f])
  PROVE  UsableNow(l) => UsableNow(l)'
BY DEF UsableNow

LEMMA UsableUntouched ==
  ASSUME UNCHANGED <<files, waves>>
  PROVE  \A l : UsableNow(l) => UsableNow(l)'
BY DEF UsableNow, FidsOf

LEMMA UsableOutlivesDelete ==
  ASSUME NEW S, DeleteFiles(S), NEW l, l \notin S
  PROVE  UsableNow(l) => UsableNow(l)'
BY DeletedTracksOnly, UsableStays DEF FidsOf

(* A get that deletes has read a row that is not usable. *)
LEMMA GetLosesNothingElse ==
  ASSUME StoreInv, NEW t \in Thread, GetStep(t), NEW l \in Location, UsableNow(l)
  PROVE  UsableNow(l)' \/ StaleGet(l)
<1>1. ASSUME NEW k \in Location, GetSelect(t, k) PROVE UsableNow(l)'
  BY <1>1, UsableUntouched DEF GetSelect
<1>2. CASE GetSuspect(t)
  <2>1. call[t] \in Reading /\ ~Usable(call[t].row)
    BY <1>2 DEF GetSuspect, StoreInv, CallInv, CallOK, Idle, Writing
  <2>2. call'[t].pc = "unpack"
    BY <1>2, <2>1 DEF GetSuspect, GoTo, StoreInv, CallInv, Reading
  <2>3. call[t].loc = l => StaleGet(l)
    BY <1>2, <2>1, <2>2 DEF GetSuspect, StaleGet
  <2>4. call[t].loc # l => UsableNow(l)'
    BY <1>2, UsableOutlivesDelete DEF GetSuspect
  <2> QED
    BY <2>3, <2>4
<1>3. CASE GetUnpack(t)
  <2>1. CASE Unpacks(call[t].row)
    BY <1>3, <2>1, UsableUntouched DEF GetUnpack
  <2>2. CASE ~Unpacks(call[t].row)
    <3>1. call[t].loc # l => UsableNow(l)'
      BY <1>3, <2>2, UsableOutlivesDelete DEF GetUnpack
    <3>2. ~Usable(call[t].row)
      BY <2>2 DEF Unpacks, Usable
    <3>3. call'[t].pc \in {"insert", "idle"}
      BY <1>3 DEF GetUnpack, GoTo, StoreInv, CallInv, Idle
    <3>4. call[t].loc = l => StaleGet(l)
      BY <1>3, <3>2, <3>3 DEF GetUnpack, StaleGet
    <3> QED
      BY <3>1, <3>4
  <2> QED
    BY <2>1, <2>2
<1> QED
  BY <1>1, <1>2, <1>3 DEF GetStep

(* A put loses a usable row only if it writes a waveform of too many channels
   over it. *)
LEMMA PutLosesNothingElse ==
  ASSUME StoreInv, NEW t \in Thread, PutStep(t), NEW l \in Location, UsableNow(l)
  PROVE  UsableNow(l)' \/ WideWritten(l)
<1>1. ASSUME NEW k \in Location, NEW wide \in BOOLEAN, PutStart(t, k, wide)
      PROVE  UsableNow(l)'
  BY <1>1, UsableUntouched DEF PutStart
<1>2. CASE PutInsert(t)
  <2>1. CASE FidsOf(call[t].loc) # {}
    BY <1>2, <2>1, UsableUntouched DEF PutInsert
  <2>2. CASE FidsOf(call[t].loc) = {}
    <3>1. NewFile(call[t].loc) /\ UNCHANGED waves /\ call[t].loc \in Location
      BY <1>2, <2>2
      DEF PutInsert, StoreInv, CallInv, CallOK, Idle, Reading, Writing
    <3>2. \A f \in FidsOf(l) : f \in FidsOf(l)'
      BY <3>1, NewKeyIsFresh DEF StoreInv
    <3> QED
      BY <3>1, <3>2, UsableStays
  <2> QED
    BY <2>1, <2>2
<1>3. CASE PutReplace(t)
  <2>1. Modern(call[t].row) /\ call[t].row \in Row /\ call[t].pc = "replace"
    BY <1>3, ReplaceKeepsTables DEF StoreInv, PutReplace
  <2>2. CASE call[t].loc = l /\ ~call[t].row.wide
    BY <1>3, <2>1, <2>2, ReplacedRows, UsableStays DEF Modern, Usable
  <2>3. CASE call[t].loc = l /\ call[t].row.wide
    <3>1. call'[t] = Idle /\ call[t] # Idle
      BY <1>3, <2>1 DEF PutReplace, GoTo, StoreInv, CallInv, Idle
    <3> QED
      BY <2>1, <2>3, <3>1 DEF WideWritten
  <2>4. CASE call[t].loc # l
    <3>1. FidsOf(l) \cap FidsOf(call[t].loc) = {}
      BY <2>4 DEF FidsOf
    <3> QED
      BY <1>3, <3>1, ReplacedRows, UsableStays
  <2> QED
    BY <2>2, <2>3, <2>4
<1> QED
  BY <1>1, <1>2, <1>3 DEF PutStep

(* A usable waveform is lost only when the user removes it, when a get removes what it
   took for unusable, or when one of more than 18 channels is written over it, by a put
   or a conversion: no crash loses one, and no put or conversion of up to 18 channels
   (get, put, remove, remove_dead). *)
THEOREM OnlyRemovalStaleGetOrWideRowLoses == Spec => LossOnlyByRemovalStaleGetOrWideRow
<1> DEFINE Loss(l) ==
      UsableNow(l) => UsableNow(l)' \/ Forgets(l) \/ StaleGet(l) \/ WideWritten(l)
<1>1. ASSUME StoreInv, Next, NEW l \in Location PROVE Loss(l)
  <2>1. ASSUME NEW t \in Thread, GetStep(t) \/ PutStep(t) PROVE Loss(l)
    BY <1>1, <2>1, GetLosesNothingElse, PutLosesNothingElse
  <2>2. ASSUME NEW S, call[Main] = Idle, DeleteFiles(S), UNCHANGED call PROVE Loss(l)
    BY <2>2 DEF Forgets
  <2>3. CASE Crash \/ Open
    BY <2>3, UsableUntouched DEF Crash, Open
  <2> QED
    BY <1>1, <2>1, <2>2, <2>3 DEF Next, Remove, RemoveDead
<1>2. StoreInv /\ [Next]_vars => [\A l \in Location : Loss(l)]_vars
  BY <1>1
<1> QED
  BY <1>2, StoreInvHolds, PTL DEF Spec, LossOnlyByRemovalStaleGetOrWideRow

-----------------------------------------------------------------------------
(* The two steps with which an operation ends. *)
LEMMA UnpackLeavesReadable ==
  ASSUME StoreInv, NEW t \in Thread, GetUnpack(t), call'[t] = Idle
  PROVE  \A f \in DOMAIN waves' : files'[f] = call[t].loc => Modern(waves'[f])
<1>1. call[t] \in Reading /\ call[t].pc = "unpack"
  BY DEF GetUnpack, StoreInv, CallInv, CallOK, Idle, Writing
<1>2. ~IsOld(call[t].row)
  BY DEF GetUnpack, GoTo, StoreInv, CallInv, Idle
<1>3. CASE Unpacks(call[t].row)
  <2>1. Modern(call[t].row) /\ UNCHANGED <<files, waves>>
    BY <1>2, <1>3 DEF GetUnpack, Unpacks, IsOld, Modern
  <2>2. RowsModern(call[t].loc)
    BY <1>1, <2>1 DEF StoreInv, ReadStaysModern, ReadModern
  <2> QED
    BY <2>1, <2>2 DEF RowsModern, FidsOf, StoreInv, TableInv, WaveOfItsTrack
<1>4. CASE ~Unpacks(call[t].row)
  <2>1. DeleteFiles({call[t].loc})
    BY <1>4 DEF GetUnpack
  <2> QED
    BY <2>1, DeletedTracksOnly DEF StoreInv, TableInv, WaveOfItsTrack
<1> QED
  BY <1>3, <1>4

LEMMA ReplaceLeavesReadable ==
  ASSUME StoreInv, NEW t \in Thread, PutReplace(t)
  PROVE  \A f \in DOMAIN waves' : files'[f] = call[t].loc => Modern(waves'[f])
<1>1. Modern(call[t].row) /\ UNCHANGED files
  BY ReplaceKeepsTables DEF StoreInv, PutReplace
<1>2. \A f \in DOMAIN waves' : f \in DOMAIN files
  BY ReplacedRows DEF FidsOf, StoreInv, TableInv, WaveOfItsTrack
<1> QED
  BY <1>1, <1>2, ReplacedRows DEF FidsOf

(* A get or a put ends with a row of its track that the next get can read, or
   with none, however the other threads interfere. *)
THEOREM OperationsLeaveReadable == Spec => GetLeavesReadable
<1> DEFINE Left(t) ==
      call[t] # Idle /\ call'[t] = Idle /\ alive =>
        \A f \in DOMAIN waves' :
          files'[f] = call[t].loc => waves'[f].comp = "lzma" /\ waves'[f].whole
<1>1. ASSUME StoreInv, Next, NEW t \in Thread,
             call[t] # Idle, call'[t] = Idle, alive
      PROVE  \A f \in DOMAIN waves' : files'[f] = call[t].loc => Modern(waves'[f])
  <2>1. ASSUME NEW u \in Thread, GetStep(u) \/ PutStep(u)
        PROVE  GetUnpack(t) \/ PutReplace(t)
    <3>1. PICK c : GoTo(u, c) \/ UNCHANGED call
      BY <2>1 DEF GetStep, PutStep, GetSelect, GetSuspect, GetUnpack, PutStart,
                  PutInsert, PutReplace
    <3>2. u = t
      BY <1>1, <3>1 DEF GoTo, StoreInv, CallInv
    <3>3. ~GetSuspect(t) /\ ~PutInsert(t)
      BY <1>1 DEF GetSuspect, PutInsert, GoTo, StoreInv, CallInv, CallOK, Idle,
                  Reading, Writing
    <3> QED
      BY <1>1, <2>1, <3>2, <3>3 DEF GetStep, PutStep, GetSelect, PutStart
  <2>2. GetUnpack(t) \/ PutReplace(t)
    BY <1>1, <2>1 DEF Next, Remove, RemoveDead, Crash, Open
  <2> QED
    BY <1>1, <2>2, UnpackLeavesReadable, ReplaceLeavesReadable
<1>2. StoreInv /\ [Next]_vars => [\A t \in Thread : Left(t)]_vars
  BY <1>1 DEF Modern
<1> QED
  BY <1>2, StoreInvHolds, PTL DEF Spec, GetLeavesReadable

-----------------------------------------------------------------------------
(* The abstract state, as has sees the tables. *)
known == { l \in Location : FidsOf(l) # {} }
stored == { l \in Location : has(l) }

(* Every step is one of TrackStore, or changes nothing that it knows. *)
Abstracted == Tracks!Next \/ UNCHANGED <<known, stored>>

LEMMA TablesUntouched ==
  ASSUME UNCHANGED <<files, waves>>
  PROVE  Abstracted
BY DEF Abstracted, known, stored, FidsOf, has

LEMMA DeleteForgets ==
  ASSUME TableInv, NEW S \in SUBSET Location, DeleteFiles(S)
  PROVE  Tracks!Forget(S)
<1>1. \A l : FidsOf(l)' = IF l \in S THEN {} ELSE FidsOf(l)
  BY DeletedTracksOnly
<1>2. known' = known \ S
  BY <1>1 DEF known
<1>3. \A l \in Location \ S : has(l)' <=> has(l)
  BY DeletedTracksOnly DEF has, FidsOf
<1>4. \A l \in S : ~has(l)'
  BY <1>1 DEF has
<1>5. stored' = stored \ S
  BY <1>3, <1>4 DEF stored
<1> QED
  BY <1>2, <1>5 DEF Tracks!Forget, known, stored

LEMMA NewFileLearns ==
  ASSUME TableInv, NEW l \in Location, NewFile(l), UNCHANGED waves
  PROVE  Tracks!Learn(l)
<1>1. \A k : FidsOf(k)' = IF k = l THEN FidsOf(k) \cup {nextFid} ELSE FidsOf(k)
  BY NewKeyIsFresh
<1>2. known' = known \cup {l}
  BY <1>1 DEF known
<1>3. \A k : has(k)' <=> has(k)
  BY <1>1, NewKeyIsFresh DEF has
<1>4. stored' = stored
  BY <1>3 DEF stored
<1> QED
  BY <1>2, <1>4 DEF Tracks!Learn, known, stored

LEMMA ReplaceWrites ==
  ASSUME StoreInv, NEW t \in Thread, PutReplace(t)
  PROVE  Abstracted
<1>1. call[t].loc \in Location
  BY ReplaceKeepsTables DEF StoreInv
<1>0. /\ DOMAIN waves' = DOMAIN waves \cup FidsOf(call[t].loc)
      /\ \A l : FidsOf(l)' = FidsOf(l)
  BY ReplacedRows
<1>2. known' = known
  BY <1>0 DEF known
<1>3. \A l : FidsOf(l) \cap FidsOf(call[t].loc) = IF l = call[t].loc THEN FidsOf(l) ELSE {}
  BY DEF FidsOf
<1>4. \A l : has(l)' <=> has(l) \/ (l = call[t].loc /\ FidsOf(l) # {})
  BY <1>0, <1>3 DEF has
<1>5. CASE call[t].loc \in known
  <2>1. stored' = stored \cup {call[t].loc}
    BY <1>1, <1>4, <1>5 DEF stored, known
  <2>2. Tracks!Write(call[t].loc)
    BY <1>2, <1>5, <2>1 DEF Tracks!Write, known, stored
  <2> QED
    BY <1>1, <2>2 DEF Abstracted, Tracks!Next
<1>6. CASE call[t].loc \notin known
  <2>1. stored' = stored
    BY <1>1, <1>4, <1>6 DEF stored, known
  <2> QED
    BY <1>2, <2>1 DEF Abstracted
<1> QED
  BY <1>5, <1>6

LEMMA StepsAbstracted == StoreInv /\ [Next]_vars => [Tracks!Next]_<<known, stored>>
<1> SUFFICES ASSUME StoreInv, [Next]_vars PROVE Abstracted
  BY DEF Abstracted
<1>1. ASSUME NEW S \in SUBSET Location, DeleteFiles(S) PROVE Abstracted
  BY <1>1, DeleteForgets DEF StoreInv, Abstracted, Tracks!Next
<1>2. ASSUME NEW t \in Thread, GetStep(t) PROVE Abstracted
  <2>1. GetSuspect(t) \/ GetUnpack(t) => call[t].loc \in Location
    BY DEF GetSuspect, GetUnpack, StoreInv, CallInv, CallOK, Idle, Reading, Writing
  <2>2. UNCHANGED <<files, waves>> \/ \E S \in SUBSET Location : DeleteFiles(S)
    BY <1>2, <2>1 DEF GetStep, GetSelect, GetSuspect, GetUnpack
  <2> QED
    BY <1>1, <2>2, TablesUntouched
<1>3. ASSUME NEW t \in Thread, PutStep(t) PROVE Abstracted
  <2>1. PutInsert(t) => call[t].loc \in Location
    BY DEF PutInsert, StoreInv, CallInv, CallOK, Idle, Reading, Writing
  <2>2. \/ UNCHANGED <<files, waves>> \/ PutReplace(t)
        \/ NewFile(call[t].loc) /\ UNCHANGED waves /\ call[t].loc \in Location
    BY <1>3, <2>1 DEF PutStep, PutStart, PutInsert
  <2>3. ASSUME NEW l \in Location, NewFile(l), UNCHANGED waves PROVE Abstracted
    BY <2>3, NewFileLearns DEF StoreInv, Abstracted, Tracks!Next
  <2> QED
    BY <2>2, <2>3, TablesUntouched, ReplaceWrites
<1> QED
  BY <1>1, <1>2, <1>3, TablesUntouched
  DEF Next, Remove, RemoveDead, Crash, Open, vars

(* The tables implement TrackStore. *)
THEOREM StoreImplementsTrackStore == Spec => TrackStoreSpec
<1>1. Init => Tracks!Init
  <2> SUFFICES ASSUME Init PROVE Tracks!Init
    OBVIOUS
  <2>1. stored \subseteq known
    BY DEF stored, known, has
  <2> QED
    BY <2>1 DEF Tracks!Init, known, stored
<1> QED
  BY <1>1, StepsAbstracted, StoreInvHolds, PTL
  DEF Spec, TrackStoreSpec, Tracks!Spec, known, stored
=============================================================================
