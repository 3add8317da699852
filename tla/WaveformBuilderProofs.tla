------------------------ MODULE WaveformBuilderProofs ------------------------
(* What holds of the analysis of a track for any number of buckets and channels, any
   length of the track and whatever chunks the decoder delivers. *)
EXTENDS WaveformBuilder, WellFoundedInduction, TLAPS

(* The current bucket is the one in which the next sample falls, or an empty one
   before that. *)
PlaceInv ==
  /\ bucketBegins = Begin(bucket)
  /\ finished => processed = sampleCount
  /\ ~finished =>
       /\ Begin(bucket) <= processed /\ processed <= Begin(bucket + 1)
       /\ processed = Begin(bucket + 1) => Begin(bucket) = Begin(bucket + 1)

(* No sample that was rendered is left out and none is consumed twice. *)
ChunkInv ==
  /\ pc = "slice" /\ ~finished => generated = processed
  /\ pc = "consume" =>
       /\ channels # 0 /\ chunkPos <= chunkLen
       /\ chunkAt + chunkPos = processed
       /\ chunkAt + chunkLen <= sampleCount
       /\ chunkAt + chunkLen \in {generated, sampleCount}
  /\ trackChannels = channels
  /\ channels = 0 => bucket = 0 /\ processed = 0

(* Only finalized buckets are silenced. *)
SilencedInv == \A e \in silenced : e < bucket * channels

ListsInv == BucketsExact /\ SilencedInv /\ NoSentinelLeft

(* With whatever coefficients: the stored waveform holds the samples of each channel, or
   the mix of those for which there are coefficients. *)
ResultMixed ==
  pc = "done" =>
    /\ Len(result) = IF shouldDownmix THEN 1 ELSE channels
    /\ \A c \in DOMAIN result, b \in 1..BucketCount :
         result[c][b] =
           IF shouldDownmix
           THEN UNION { SamplesOf(b - 1, ch) : ch \in 0..(Lowest(channels, mixLayout) - 1) }
           ELSE SamplesOf(b - 1, c - 1)

(* Who has mixed a waveform down has made the coefficients. *)
ResultInv ==
  /\ ResultMixed
  /\ pc = "done" /\ shouldDownmix => mixLayout # 0

BuilderInv == TypeOK /\ PlaceInv /\ ChunkInv /\ ListsInv /\ ResultInv

-----------------------------------------------------------------------------
(* Arithmetic. *)

(* The buckets cut the track in order and without a gap, and the last of them is
   not empty. *)
LEMMA Cuts ==
  ASSUME sampleCount \in Nat \ {0}
  PROVE  /\ \A b \in 0..BucketCount : Begin(b) \in 0..sampleCount
         /\ \A b, c \in 0..BucketCount : b <= c => Begin(b) <= Begin(c)
         /\ \A b \in 0..(BucketCount - 1) : Begin(b) < sampleCount
         /\ Begin(0) = 0 /\ Begin(BucketCount) = sampleCount
<1> USE BuilderAssumption
<1>1. ASSUME NEW b \in 0..BucketCount, NEW c \in 0..BucketCount, b <= c
      PROVE  Begin(b) \in Nat /\ Begin(b) <= Begin(c)
  <2>1. b * sampleCount \in Nat /\ c * sampleCount \in Nat
        /\ b * sampleCount <= c * sampleCount
    BY <1>1
  <2> QED
    BY <2>1 DEF Begin
<1>2. Begin(0) = 0 /\ Begin(BucketCount) = sampleCount
  BY DEF Begin
<1>3. \A b \in 0..BucketCount : Begin(b) \in 0..sampleCount
  BY <1>1, <1>2
<1>4. ASSUME NEW b \in 0..(BucketCount - 1) PROVE Begin(b) < sampleCount
  <2>1. b * sampleCount \in Nat /\ b * sampleCount < BucketCount * sampleCount
    OBVIOUS
  <2> QED
    BY <2>1 DEF Begin
<1> QED
  BY <1>1, <1>2, <1>3, <1>4

(* The entries of the buckets lie side by side in the flat lists. *)
LEMMA FlatIndex ==
  ASSUME NEW c \in Nat \ {0}
  PROVE  /\ \A b \in 0..(BucketCount - 1), ch \in 0..(c - 1) :
              /\ b * c + ch \in 0..(c * BucketCount - 1)
              /\ (b * c + ch) \div c = b
         /\ \A a, b \in Nat, r, s \in 0..(c - 1) : a * c + r = b * c + s => a = b /\ r = s
         /\ \A a, b \in Nat, r \in 0..(c - 1) : a * c + r < b * c <=> a < b
<1>1. ASSUME NEW b \in 0..(BucketCount - 1), NEW ch \in 0..(c - 1)
      PROVE  /\ b * c + ch \in 0..(c * BucketCount - 1)
             /\ (b * c + ch) \div c = b
  <2>1. b * c + ch \in Nat /\ (b * c + ch) \div c = b
    BY BuilderAssumption
  <2>2. (b + 1) * c <= BucketCount * c
    BY BuilderAssumption
  <2>3. b * c + ch < (b + 1) * c
    BY BuilderAssumption
  <2> QED
    BY <2>1, <2>2, <2>3, BuilderAssumption
<1>2. ASSUME NEW a \in Nat, NEW b \in Nat, NEW r \in 0..(c - 1), NEW s \in 0..(c - 1),
             a * c + r = b * c + s
      PROVE  a = b /\ r = s
  BY <1>2
<1>3. ASSUME NEW a \in Nat, NEW b \in Nat, NEW r \in 0..(c - 1)
      PROVE  a * c + r < b * c <=> a < b
  OBVIOUS
<1> QED
  BY <1>1, <1>2, <1>3

(* process takes the frames it is given, each channel to its own entry of the
   current bucket. *)
LEMMA TakenFrames ==
  ASSUME channels \in Nat \ {0}, bucket \in Nat, NEW b \in Nat,
         NEW ch \in 0..(channels - 1), NEW at \in Nat, NEW n \in Nat
  PROVE  Taken(b * channels + ch, at, n) =
           IF b = bucket THEN { <<f, ch>> : f \in at..(at + n - 1) } ELSE {}
<1> DEFINE ks == { k \in 0..(n * channels - 1) :
                     bucket * channels + (k % channels) = b * channels + ch }
<1>0. n * channels \in Nat
  OBVIOUS
<1>1. Taken(b * channels + ch, at, n) = { <<at + k \div channels, k % channels>> : k \in ks }
  BY DEF Taken
<1>2. ASSUME NEW k \in ks
      PROVE  b = bucket /\ k % channels = ch /\ at + k \div channels \in at..(at + n - 1)
  <2>1. k \in Nat /\ k < n * channels
    BY <1>0
  <2>2. k \div channels \in Nat /\ k % channels \in 0..(channels - 1)
        /\ k = channels * (k \div channels) + (k % channels)
    BY <2>1
  <2>3. b = bucket /\ k % channels = ch
    <3>1. PICK r \in 0..(channels - 1) : r = k % channels
      BY <2>2
    <3>2. bucket * channels + r = b * channels + ch
      BY <3>1
    <3>3. bucket = b /\ r = ch
      BY <3>2
    <3> QED
      BY <3>1, <3>3
  <2>4. k \div channels < n
    BY <2>1, <2>2
  <2> QED
    BY <2>2, <2>3, <2>4
<1>3. ASSUME b = bucket, NEW f \in at..(at + n - 1)
      PROVE  \E k \in ks : <<at + k \div channels, k % channels>> = <<f, ch>>
  <2>0. PICK k : k = (f - at) * channels + ch
    OBVIOUS
  <2>1. f - at \in 0..(n - 1) /\ (f - at) * channels \in Nat
    OBVIOUS
  <2>2. k \in Nat /\ k \div channels = f - at /\ k % channels = ch
    BY <2>0, <2>1
  <2>3. k < n * channels
    BY <2>0, <2>1
  <2>4. k \in ks
    BY <1>0, <1>3, <2>2, <2>3
  <2>5. at + k \div channels = f
    BY <2>1, <2>2
  <2> QED
    BY <2>2, <2>4, <2>5
<1>4. CASE b = bucket
  <2>1. ASSUME NEW x \in Taken(b * channels + ch, at, n)
        PROVE  x \in { <<f, ch>> : f \in at..(at + n - 1) }
    <3>1. PICK k \in ks : x = <<at + k \div channels, k % channels>>
      BY <1>1, <2>1
    <3> QED
      BY <1>2, <3>1
  <2>2. ASSUME NEW f \in at..(at + n - 1)
        PROVE  <<f, ch>> \in Taken(b * channels + ch, at, n)
    <3>1. PICK k \in ks : <<at + k \div channels, k % channels>> = <<f, ch>>
      BY <1>3, <1>4
    <3> QED
      BY <1>1, <3>1
  <2> QED
    BY <1>4, <2>1, <2>2
<1>5. CASE b # bucket
  BY <1>1, <1>2, <1>5
<1> QED
  BY <1>4, <1>5

-----------------------------------------------------------------------------
LEMMA SizesOK ==
  ASSUME TypeOK
  PROVE  /\ sampleCount \in Nat \ {0} /\ BucketCount \in Nat \ {0}
         /\ channels \in Nat /\ bucket \in 0..BucketCount
         /\ finished <=> bucket = BucketCount
         /\ processed \in Nat /\ generated \in Nat
BY BuilderAssumption DEF TypeOK, finished, valid_bucket

LEMMA InitBuilderInv == Init => BuilderInv
<1> SUFFICES ASSUME Init PROVE BuilderInv
  OBVIOUS
<1> USE BuilderAssumption DEF Init
<1>1. TypeOK
  <2>1. /\ sampleCount \in Nat /\ 0 \in 0..sampleCount /\ 0 \in 0..BucketCount
        /\ bucket = 0 /\ bucketBegins = 0 /\ processed = 0
    OBVIOUS
  <2>2. entries = << >> /\ rms = << >> /\ DOMAIN << >> = {} /\ channels = 0
    OBVIOUS
  <2> QED
    BY <2>1, <2>2 DEF TypeOK
<1>2. PlaceInv
  <2>1. Begin(0) = 0 /\ Begin(1) \in Nat
    BY <1>1, SizesOK, Cuts
  <2> QED
    BY <2>1 DEF PlaceInv, finished, valid_bucket
<1>3. ChunkInv /\ ListsInv /\ ResultInv
  BY DEF ChunkInv, ListsInv, BucketsExact, SilencedInv, NoSentinelLeft, ResultInv, ResultMixed
<1> QED
  BY <1>1, <1>2, <1>3 DEF BuilderInv

(* Until a sample has been processed, nothing is in the lists. *)
LEMMA NothingYet ==
  ASSUME sampleCount \in Nat \ {0}, NEW b \in 0..(BucketCount - 1), NEW ch
  PROVE  { s \in SamplesOf(b, ch) : s[1] < 0 } = {}
<1>1. Begin(b) \in Nat /\ Begin(b + 1) \in Nat
  BY Cuts, BuilderAssumption
<1> QED
  BY <1>1 DEF SamplesOf, FramesOf

LEMMA ListsStay ==
  ASSUME ListsInv, UNCHANGED <<sampleCount, builderVars>>
  PROVE  ListsInv'
BY DEF ListsInv, BucketsExact, SilencedInv, NoSentinelLeft, SamplesOf, FramesOf, Begin,
       builderVars

(* initialize makes a list of empty entries. *)
LEMMA FreshLists ==
  ASSUME BuilderInv, channels = 0, NEW cc \in ChannelCounts, Initialized(cc),
         UNCHANGED <<sampleCount, bucket, processed, silenced>>
  PROVE  /\ channels' = cc /\ bucket = 0 /\ processed = 0 /\ silenced = {}
         /\ DOMAIN entries' = 0..(cc * BucketCount - 1) /\ DOMAIN rms' = DOMAIN entries'
         /\ ListsInv'
<1> USE DEF BuilderInv
<1>1. /\ channels' = cc /\ bucket = 0 /\ processed = 0 /\ silenced = {}
      /\ entries' = [e \in 0..(cc * BucketCount - 1) |-> {}]
      /\ rms' = [e \in 0..(cc * BucketCount - 1) |-> "sum"]
  BY DEF Initialized, ChunkInv, TypeOK
<1>2. cc \in Nat \ {0} /\ sampleCount \in Nat \ {0}
  BY SizesOK, BuilderAssumption
<1>3. BucketsExact'
  <2> SUFFICES ASSUME NEW b \in 0..(BucketCount - 1), NEW ch \in 0..(cc - 1)
               PROVE  entries'[b * cc + ch] = { s \in SamplesOf(b, ch) : s[1] < 0 }
    <3>1. processed' = 0 /\ sampleCount' = sampleCount /\ channels' = cc
      BY <1>1
    <3>2. \A b, ch : SamplesOf(b, ch)' = SamplesOf(b, ch)
      BY <3>1 DEF SamplesOf, FramesOf, Begin
    <3> QED
      BY <3>1, <3>2 DEF BucketsExact
  <2>1. b * cc + ch \in 0..(cc * BucketCount - 1)
    BY <1>2, FlatIndex
  <2> QED
    BY <1>1, <1>2, <2>1, NothingYet
<1>4. SilencedInv' /\ NoSentinelLeft'
  BY <1>1 DEF SilencedInv, NoSentinelLeft
<1> QED
  BY <1>1, <1>3, <1>4 DEF ListsInv

LEMMA RenderedKeepsInv ==
  ASSUME BuilderInv, pc = "slice", ~finished, NEW len \in Nat, NEW cc \in ChannelCounts,
         Rendered(len, cc), exhausted' \in BOOLEAN
  PROVE  BuilderInv'
<1> USE DEF BuilderInv
<1>1. /\ generated' = generated + len /\ pc' \in {"failed", "consume"}
      /\ trackChannels' = (IF trackChannels = 0 THEN cc ELSE trackChannels)
      /\ UNCHANGED <<aborting, shouldDownmix, sampleCount, bucket, bucketBegins,
                     processed, silenced, mixLayout, result>>
  BY DEF Rendered
<1>2. /\ cc \in Nat \ {0} /\ sampleCount \in Nat \ {0} /\ channels \in Nat
      /\ generated = processed /\ processed \in 0..sampleCount
  BY SizesOK, BuilderAssumption DEF ChunkInv, TypeOK
<1>3. ListsInv' /\ trackChannels' = channels' /\ channels' \in ChannelCounts
      /\ DOMAIN entries' = 0..(channels' * BucketCount - 1)
      /\ DOMAIN rms' = DOMAIN entries'
      /\ silenced' \subseteq DOMAIN entries'
  <2>1. CASE channels # 0
    <3>1. UNCHANGED <<channels, entries, rms>>
      BY <1>1, <2>1 DEF Rendered, Initialized
    <3>2. ListsInv'
      BY <1>1, <3>1, ListsStay DEF builderVars
    <3> QED
      BY <1>1, <2>1, <3>1, <3>2 DEF ChunkInv, TypeOK
  <2>2. CASE channels = 0
    <3>1. trackChannels' = cc /\ Initialized(cc)
      BY <1>1, <2>2 DEF Rendered, ChunkInv
    <3> QED
      BY <1>1, <2>2, <3>1, FreshLists
  <2> QED
    BY <2>1, <2>2
<1>4. CASE pc' = "failed"
  <2>1. UNCHANGED chunkVars
    BY <1>4 DEF Rendered
  <2>2. TypeOK'
    BY <1>1, <1>2, <1>3, <1>4, <2>1 DEF TypeOK, chunkVars
  <2>3. ChunkInv'
    BY <1>1, <1>2, <1>3, <1>4 DEF ChunkInv
  <2>4. PlaceInv' /\ ResultInv'
    BY <1>1, <1>4 DEF PlaceInv, ResultInv, ResultMixed, finished, valid_bucket, Begin
  <2> QED
    BY <1>3, <2>2, <2>3, <2>4
<1>5. CASE pc' = "consume"
  <2>1. chunkAt' = generated /\ chunkPos' = 0
        /\ chunkLen' = Lowest(sampleCount - processed, len)
    BY <1>5 DEF Rendered, samples_remaining
  <2>2. chunkLen' \in Nat /\ chunkLen' \in {sampleCount - processed, len}
        /\ chunkLen' <= sampleCount - processed
    BY <1>2, <2>1 DEF Lowest
  <2>3. TypeOK'
    BY <1>1, <1>2, <1>3, <1>5, <2>1, <2>2 DEF TypeOK
  <2>4. ChunkInv'
    BY <1>1, <1>2, <1>3, <1>5, <2>1, <2>2, BuilderAssumption DEF ChunkInv
  <2>5. PlaceInv' /\ ResultInv'
    BY <1>1, <1>5 DEF PlaceInv, ResultInv, ResultMixed, finished, valid_bucket, Begin
  <2> QED
    BY <1>3, <2>3, <2>4, <2>5
<1> QED
  BY <1>1, <1>4, <1>5

LEMMA RenderKeepsInv ==
  ASSUME BuilderInv, RenderDecoded \/ RenderSilence
  PROVE  BuilderInv'
<1>1. CASE RenderDecoded
  BY <1>1, RenderedKeepsInv, BuilderAssumption DEF RenderDecoded, BuilderInv, TypeOK
<1>2. CASE RenderSilence
  <2>1. SilenceLength \in Nat
    BY SizesOK, BuilderAssumption DEF SilenceLength, Highest, Lowest, BuilderInv
  <2>2. (IF trackChannels = 0 THEN 1 ELSE trackChannels) \in ChannelCounts
    BY BuilderAssumption DEF BuilderInv, TypeOK
  <2> QED
    BY <1>2, <2>1, <2>2, RenderedKeepsInv DEF RenderSilence
<1> QED
  BY <1>1, <1>2

-----------------------------------------------------------------------------
(* The frames from the last processed up to the end of the bucket at most belong to
   the current bucket alone. *)
LEMMA NextFrames ==
  ASSUME sampleCount \in Nat \ {0}, bucket \in 0..(BucketCount - 1), processed \in Nat,
         Begin(bucket) <= processed, NEW n \in Nat, processed + n <= Begin(bucket + 1),
         NEW b \in 0..(BucketCount - 1), NEW ch
  PROVE  { s \in SamplesOf(b, ch) : s[1] < processed + n } =
           { s \in SamplesOf(b, ch) : s[1] < processed } \cup
           IF b = bucket THEN { <<f, ch>> : f \in processed..(processed + n - 1) } ELSE {}
<1>1. /\ Begin(b) \in Nat /\ Begin(b + 1) \in Nat
      /\ Begin(bucket) \in Nat /\ Begin(bucket + 1) \in Nat
      /\ b < bucket => Begin(b + 1) <= Begin(bucket)
      /\ bucket < b => Begin(bucket + 1) <= Begin(b)
  BY Cuts, BuilderAssumption
<1>2. \A s : s \in SamplesOf(b, ch) <=>
              \E f \in Begin(b)..(Begin(b + 1) - 1) : s = <<f, ch>>
  BY DEF SamplesOf, FramesOf
<1>3. CASE b = bucket
  <2>1. ASSUME NEW f \in processed..(processed + n - 1)
        PROVE  f \in Begin(b)..(Begin(b + 1) - 1) /\ f < processed + n
    BY <1>1, <1>3
  <2>2. ASSUME NEW f \in Begin(b)..(Begin(b + 1) - 1), f < processed + n, ~(f < processed)
        PROVE  f \in processed..(processed + n - 1)
    BY <1>1, <2>2
  <2>3. ASSUME NEW f \in Begin(b)..(Begin(b + 1) - 1), f < processed
        PROVE  f < processed + n
    BY <1>1, <2>3
  <2> QED
    BY <1>2, <1>3, <2>1, <2>2, <2>3
<1>4. CASE b # bucket
  <2>1. \A f \in Begin(b)..(Begin(b + 1) - 1) : f < processed + n <=> f < processed
    BY <1>1, <1>4
  <2> QED
    BY <1>2, <1>4, <2>1
<1> QED
  BY <1>3, <1>4

(* A turn of the loop takes n frames, all of the current bucket. *)
TakesPart(n) ==
  /\ n \in Nat /\ n = Lowest(bucket_ends - processed, chunkLen - chunkPos)
  /\ sampleCount \in Nat \ {0} /\ channels \in Nat \ {0}
  /\ bucket \in 0..(BucketCount - 1) /\ processed \in Nat
  /\ Begin(bucket) \in Nat /\ Begin(bucket + 1) \in 0..sampleCount
  /\ Begin(bucket) <= processed /\ bucket_ends = Begin(bucket + 1)
  /\ processed' = processed + n /\ processed + n <= Begin(bucket + 1)
  /\ chunkPos \in Nat /\ chunkLen \in Nat /\ chunkPos + n <= chunkLen
  /\ chunkPos' = chunkPos + n /\ chunkAt \in Nat /\ chunkAt + chunkPos = processed
  /\ entries' = [e \in DOMAIN entries |-> entries[e] \cup Taken(e, processed, n)]

LEMMA PartFits ==
  ASSUME BuilderInv, ConsumePart
  PROVE  \E n : TakesPart(n)
<1> USE DEF BuilderInv
<1>1. /\ pc = "consume" /\ chunkPos < chunkLen /\ channels # 0
      /\ chunkAt + chunkPos = processed /\ chunkAt + chunkLen <= sampleCount
      /\ chunkAt \in Nat /\ chunkPos \in Nat /\ chunkLen \in Nat
      /\ processed \in Nat /\ sampleCount \in Nat \ {0}
  BY SizesOK DEF ConsumePart, ChunkInv, TypeOK
<1>2. bucket \in 0..(BucketCount - 1) /\ channels \in Nat \ {0}
  BY <1>1, SizesOK DEF PlaceInv
<1>3. /\ Begin(bucket) \in Nat /\ Begin(bucket + 1) \in 0..sampleCount
      /\ Begin(bucket) <= processed /\ processed <= Begin(bucket + 1)
      /\ bucket_ends = Begin(bucket + 1)
  <2>1. Begin(bucket) <= processed /\ processed <= Begin(bucket + 1)
    BY <1>2, SizesOK DEF PlaceInv
  <2>2. bucket \in 0..BucketCount /\ bucket + 1 \in 0..BucketCount
    BY <1>2, BuilderAssumption
  <2>3. Begin(bucket) \in Nat /\ Begin(bucket + 1) \in 0..sampleCount
    BY <1>1, <2>2, Cuts
  <2>4. bucket_ends = Begin(bucket + 1)
    BY DEF bucket_ends, Begin
  <2> QED
    BY <2>1, <2>3, <2>4
<1>4. PICK n : n = Lowest(bucket_ends - processed, chunkLen - chunkPos)
  OBVIOUS
<1>5. n \in Nat /\ processed + n <= Begin(bucket + 1) /\ chunkPos + n <= chunkLen
  BY <1>1, <1>3, <1>4 DEF Lowest
<1>6. /\ processed' = processed + n /\ chunkPos' = chunkPos + n
      /\ entries' = [e \in DOMAIN entries |-> entries[e] \cup Taken(e, processed, n)]
  BY <1>1, <1>4 DEF ConsumePart
<1> QED
  BY <1>1, <1>2, <1>3, <1>4, <1>5, <1>6 DEF TakesPart

LEMMA PartKeepsExact ==
  ASSUME BuilderInv, ConsumePart
  PROVE  BucketsExact'
<1> USE DEF BuilderInv
<1>1. PICK n : TakesPart(n)
  BY PartFits
<1>2. /\ UNCHANGED <<sampleCount, channels>>
      /\ DOMAIN entries = 0..(channels * BucketCount - 1)
  BY <1>1 DEF ConsumePart, TypeOK, TakesPart
<1>3. SUFFICES ASSUME NEW b \in 0..(BucketCount - 1), NEW ch \in 0..(channels - 1)
               PROVE  entries'[b * channels + ch] =
                        { s \in SamplesOf(b, ch) : s[1] < processed + n }
  <2>1. \A b, ch : SamplesOf(b, ch)' = SamplesOf(b, ch)
    BY <1>2 DEF SamplesOf, FramesOf, Begin
  <2>2. processed' = processed + n
    BY <1>1 DEF TakesPart
  <2> QED
    BY <1>2, <2>1, <2>2 DEF BucketsExact
<1>4. b * channels + ch \in DOMAIN entries
  <2>1. b * channels + ch \in 0..(channels * BucketCount - 1)
    BY <1>1, FlatIndex DEF TakesPart
  <2> QED
    BY <1>2, <2>1
<1>5. entries'[b * channels + ch] =
        { s \in SamplesOf(b, ch) : s[1] < processed } \cup Taken(b * channels + ch, processed, n)
  BY <1>1, <1>4 DEF ListsInv, BucketsExact, TakesPart
<1>6. Taken(b * channels + ch, processed, n) =
        IF b = bucket THEN { <<f, ch>> : f \in processed..(processed + n - 1) } ELSE {}
  <2>1. /\ b \in Nat /\ bucket \in Nat /\ n \in Nat /\ processed \in Nat
        /\ channels \in Nat \ {0}
    BY <1>1 DEF TakesPart
  <2> QED
    BY <2>1, TakenFrames
<1>7. { s \in SamplesOf(b, ch) : s[1] < processed + n } =
        { s \in SamplesOf(b, ch) : s[1] < processed } \cup
        IF b = bucket THEN { <<f, ch>> : f \in processed..(processed + n - 1) } ELSE {}
  BY <1>1, NextFrames DEF TakesPart
<1> QED
  BY <1>5, <1>6, <1>7

(* A bucket without frames is one without samples. *)
LEMMA EmptyBucket ==
  ASSUME sampleCount \in Nat \ {0}, NEW b \in 0..(BucketCount - 1), NEW ch
  PROVE  SamplesOf(b, ch) = {} <=> Begin(b) = Begin(b + 1)
<1>1. Begin(b) \in Nat /\ Begin(b + 1) \in Nat /\ Begin(b) <= Begin(b + 1)
  BY Cuts, BuilderAssumption
<1>2. CASE Begin(b) = Begin(b + 1)
  BY <1>1, <1>2 DEF SamplesOf, FramesOf
<1>3. CASE Begin(b) < Begin(b + 1)
  <2>1. Begin(b) \in FramesOf(b)
    BY <1>1, <1>3 DEF FramesOf
  <2>2. <<Begin(b), ch>> \in SamplesOf(b, ch)
    BY <2>1 DEF SamplesOf
  <2> QED
    BY <1>1, <1>3, <2>2
<1> QED
  BY <1>1, <1>2, <1>3

(* finalize_bucket touches the entries of the current bucket only. *)
LEMMA FinalizeKeepsLists ==
  ASSUME BuilderInv, ConsumePart, processed' = bucket_ends
  PROVE  /\ bucket' = bucket + 1 /\ bucketBegins' = Begin(bucket + 1)
         /\ DOMAIN rms' = DOMAIN rms /\ silenced' \subseteq DOMAIN entries
         /\ SilencedInv' /\ NoSentinelLeft'
<1> USE DEF BuilderInv
<1>1. PICK n : TakesPart(n)
  BY PartFits
<1>2. FinalizeBucket(n) /\ UNCHANGED <<sampleCount, channels>>
  BY <1>1 DEF ConsumePart, TakesPart
<1>3. /\ channels \in Nat \ {0} /\ bucket \in 0..(BucketCount - 1)
      /\ bucket \in Nat /\ sampleCount \in Nat \ {0}
      /\ DOMAIN rms = DOMAIN entries /\ DOMAIN entries = 0..(channels * BucketCount - 1)
      /\ silenced \subseteq DOMAIN entries
  BY <1>1 DEF TypeOK, TakesPart
<1>4. bucket' = bucket + 1 /\ bucketBegins' = Begin(bucket + 1) /\ bucket + 1 \in Nat
  BY <1>1, <1>2 DEF FinalizeBucket, TakesPart
<1>5. n = 0 <=> Begin(bucket) = Begin(bucket + 1)
  <2>1. processed + n = Begin(bucket + 1)
    BY <1>1 DEF TakesPart
  <2>2. processed = Begin(bucket + 1) => Begin(bucket) = Begin(bucket + 1)
    BY <1>3, SizesOK DEF PlaceInv
  <2> QED
    BY <1>1, <2>1, <2>2 DEF TakesPart
<1>6. chunk_size = 0 <=> Begin(bucket) = Begin(bucket + 1)
  BY <1>1 DEF chunk_size, PlaceInv, TakesPart
<1>7. \A b \in 0..(BucketCount - 1), ch \in 0..(channels - 1) :
        /\ b * channels + ch \in DOMAIN entries
        /\ b * channels + ch \in EntriesOf(bucket) <=> b = bucket
        /\ b * channels + ch < bucket * channels <=> b < bucket
  <2>1. ASSUME NEW b \in 0..(BucketCount - 1), NEW ch \in 0..(channels - 1)
        PROVE  /\ b * channels + ch \in DOMAIN entries
               /\ b * channels + ch < bucket * channels <=> b < bucket
    <3>1. b \in Nat /\ b * channels + ch \in 0..(channels * BucketCount - 1)
      BY <1>3, FlatIndex
    <3>2. b * channels + ch < bucket * channels <=> b < bucket
      BY <1>3, <3>1, FlatIndex
    <3> QED
      BY <1>3, <3>1, <3>2
  <2>2. ASSUME NEW b \in 0..(BucketCount - 1), NEW ch \in 0..(channels - 1)
        PROVE  b * channels + ch \in EntriesOf(bucket) <=> b = bucket
    <3>1. CASE b = bucket
      BY <3>1 DEF EntriesOf
    <3>2. ASSUME b * channels + ch \in EntriesOf(bucket) PROVE b = bucket
      <4>1. PICK r \in 0..(channels - 1) : b * channels + ch = bucket * channels + r
        BY <3>2 DEF EntriesOf
      <4>2. b \in Nat
        OBVIOUS
      <4> QED
        BY <1>3, <4>1, <4>2, FlatIndex
    <3> QED
      BY <3>1, <3>2
  <2> QED
    BY <2>1, <2>2
<1>8. EntriesOf(bucket) \subseteq DOMAIN entries
  BY <1>3, <1>7 DEF EntriesOf
<1>9. silenced' = (IF n = 0 THEN silenced \cup EntriesOf(bucket) ELSE silenced)
  BY <1>2 DEF FinalizeBucket, Silenced
<1>10. rms' = [e \in DOMAIN rms |->
                IF e \notin EntriesOf(bucket) THEN rms[e]
                ELSE IF chunk_size = 0 THEN "nan" ELSE "root"]
  BY <1>2 DEF FinalizeBucket
<1>11. SilencedInv'
  <2>1. \A e \in EntriesOf(bucket) : e \in Nat /\ e < (bucket + 1) * channels
    BY <1>3 DEF EntriesOf
  <2>2. \A e \in silenced : e \in Nat /\ e < (bucket + 1) * channels
    <3>1. bucket * channels \in Nat /\ (bucket + 1) * channels = bucket * channels + channels
      BY <1>3
    <3> QED
      BY <1>3, <3>1 DEF ListsInv, SilencedInv
  <2> QED
    BY <1>2, <1>4, <1>9, <2>1, <2>2 DEF SilencedInv
<1>12. NoSentinelLeft'
  <2>1. \A b, ch : SamplesOf(b, ch)' = SamplesOf(b, ch)
    BY <1>2 DEF SamplesOf, FramesOf, Begin
  <2>2. SUFFICES ASSUME NEW b \in 0..bucket, NEW ch \in 0..(channels - 1), NEW e,
                        e = b * channels + ch
                 PROVE  /\ e \in silenced' <=> SamplesOf(b, ch) = {}
                        /\ rms'[e] = (IF SamplesOf(b, ch) = {} THEN "nan" ELSE "root")
    <3>1. bucket' - 1 = bucket /\ channels' = channels
      BY <1>2, <1>3, <1>4
    <3> QED
      BY <2>1, <3>1 DEF NoSentinelLeft
  <2>3. b \in 0..(BucketCount - 1)
    BY <1>3, BuilderAssumption
  <2>4. e \in DOMAIN rms /\ (e \in EntriesOf(bucket) <=> b = bucket)
    BY <1>3, <1>7, <2>2, <2>3
  <2>5. CASE b = bucket
    <3>1. e \notin silenced
      BY <1>7, <2>2, <2>3, <1>3, <2>5 DEF ListsInv, SilencedInv
    <3>2. SamplesOf(b, ch) = {} <=> n = 0
      BY <1>3, <1>5, <2>3, <2>5, EmptyBucket
    <3> QED
      BY <1>5, <1>6, <1>9, <1>10, <2>4, <2>5, <3>1, <3>2
  <2>6. CASE b < bucket
    <3>1. /\ e \in silenced <=> SamplesOf(b, ch) = {}
          /\ rms[e] = (IF SamplesOf(b, ch) = {} THEN "nan" ELSE "root")
      BY <2>2, <1>3, <2>6 DEF ListsInv, NoSentinelLeft
    <3> QED
      BY <1>9, <1>10, <2>4, <2>6, <3>1
  <2> QED
    BY <1>3, <2>5, <2>6
<1> QED
  BY <1>3, <1>4, <1>8, <1>9, <1>10, <1>11, <1>12

LEMMA ConsumeKeepsInv ==
  ASSUME BuilderInv, ConsumePart
  PROVE  BuilderInv'
<1> USE DEF BuilderInv
<1>1. /\ pc = "consume"
      /\ UNCHANGED <<pc, aborting, shouldDownmix, sampleCount, exhausted, generated,
                     trackChannels, chunkAt, chunkLen, channels, mixLayout, result>>
      /\ DOMAIN entries' = DOMAIN entries
  BY DEF ConsumePart, sourceVars
<1>0. PICK n : TakesPart(n)
  BY PartFits
<1>2. BucketsExact'
  BY PartKeepsExact
<1>3. processed' \in 0..sampleCount /\ chunkPos' \in Nat
      /\ chunkAt + chunkPos' = processed' /\ chunkPos' <= chunkLen
  BY <1>0 DEF TakesPart
<1>4. ChunkInv'
  BY <1>1, <1>3 DEF ChunkInv
<1>5. ResultInv'
  BY <1>1 DEF ResultInv, ResultMixed
<1>6. CASE processed' # bucket_ends
  <2>1. UNCHANGED <<silenced, rms, bucket, bucketBegins>>
    BY <1>6 DEF ConsumePart
  <2>2. TypeOK'
    BY <1>1, <1>3, <2>1 DEF TypeOK
  <2>3. SilencedInv' /\ NoSentinelLeft'
    BY <1>1, <2>1 DEF ListsInv, SilencedInv, NoSentinelLeft, SamplesOf, FramesOf, Begin
  <2>4. PlaceInv'
    <3>1. \A b : Begin(b)' = Begin(b)
      BY <1>1 DEF Begin
    <3>2. finished' = finished /\ ~finished
      BY <1>0, <2>1, BuilderAssumption DEF finished, valid_bucket, TakesPart
    <3>3. /\ Begin(bucket) <= processed' /\ processed' <= Begin(bucket + 1)
          /\ processed' # Begin(bucket + 1)
      BY <1>0, <1>6 DEF TakesPart
    <3> QED
      BY <2>1, <3>1, <3>2, <3>3 DEF PlaceInv
  <2> QED
    BY <1>2, <1>4, <1>5, <2>2, <2>3, <2>4 DEF ListsInv
<1>7. CASE processed' = bucket_ends
  <2>1. /\ bucket' = bucket + 1 /\ bucketBegins' = Begin(bucket + 1)
        /\ DOMAIN rms' = DOMAIN rms /\ silenced' \subseteq DOMAIN entries
        /\ SilencedInv' /\ NoSentinelLeft'
    BY <1>7, FinalizeKeepsLists
  <2>2. TypeOK'
    <3>1. bucket' \in 0..BucketCount /\ bucketBegins' \in 0..sampleCount
      BY <1>0, <2>1, BuilderAssumption DEF TakesPart
    <3> QED
      BY <1>1, <1>3, <2>1, <3>1 DEF TypeOK
  <2>3. PlaceInv'
    <3>1. \A b : Begin(b)' = Begin(b)
      BY <1>1 DEF Begin
    <3>2. processed' = Begin(bucket + 1)
      BY <1>0, <1>7 DEF TakesPart
    <3>3. CASE bucket + 1 = BucketCount
      BY <1>1, <2>1, <3>1, <3>2, <3>3, SizesOK, Cuts DEF PlaceInv, finished, valid_bucket
    <3>4. CASE bucket + 1 # BucketCount
      <4>1. bucket + 2 \in 0..BucketCount /\ Begin(bucket + 1) <= Begin(bucket + 2)
            /\ bucket + 1 < BucketCount
        BY <1>0, <3>4, BuilderAssumption, Cuts DEF TakesPart
      <4>2. bucket' + 1 = bucket + 2 /\ ~finished'
        BY <1>0, <2>1, <4>1 DEF finished, valid_bucket, TakesPart
      <4>3. Begin(bucket)' = Begin(bucket + 1) /\ Begin(bucket + 1)' = Begin(bucket + 2)
        BY <1>1, <2>1, <4>2 DEF Begin
      <4>4. Begin(bucket + 1) \in Nat /\ Begin(bucket + 2) \in Nat
        BY <1>0, <4>1, Cuts DEF TakesPart
      <4> QED
        BY <2>1, <3>2, <4>1, <4>2, <4>3, <4>4 DEF PlaceInv
    <3> QED
      BY <3>3, <3>4
  <2> QED
    BY <1>2, <1>4, <1>5, <2>1, <2>2, <2>3 DEF ListsInv
<1> QED
  BY <1>6, <1>7

-----------------------------------------------------------------------------
(* The downmix in place.  FoldLeft is a recursive function over sets of indices; the
   recursion has a solution in closed form, so the function that is chosen satisfies
   it, and it agrees with the closed form on every prefix 1..n: there is no least n
   for which it does not. *)

(* A set of naturals that is not empty has a least element. *)
LEMMA Least ==
  ASSUME NEW T, T \subseteq Nat, T # {}
  PROVE  \E m \in T : \A k \in T : m <= k
<1>1. PICK R : R = OpToRel(<, Nat)
  OBVIOUS
<1>2. IsWellFoundedOn(R, Nat)
  BY <1>1, NatLessThanWellFounded
<1>3. \E x \in T : \A y \in T : ~ (<<y, x>> \in R)
  BY <1>2, WFMin
<1>4. \A x, y \in Nat : <<y, x>> \in R <=> y < x
  BY <1>1 DEF OpToRel
<1>5. PICK m \in T : \A k \in T : ~ (<<k, m>> \in R)
  BY <1>3
<1>6. ASSUME NEW k \in T PROVE m <= k
  <2>1. ~(k < m) /\ k \in Nat /\ m \in Nat
    BY <1>4, <1>5
  <2> QED
    BY <2>1
<1> QED
  BY <1>6

(* Max is what its name says on a set of indices. *)
LEMMA Largest ==
  ASSUME NEW n \in Nat, NEW s \in SUBSET (1..n), s # {}
  PROVE  Max(s) \in s /\ \A k \in s : Max(s) >= k
<1>1. PICK T : T = { n - k : k \in s }
  OBVIOUS
<1>2. T \subseteq Nat /\ T # {}
  <2>1. \A k \in s : n - k \in Nat
    OBVIOUS
  <2> QED
    BY <1>1, <2>1
<1>3. PICK d \in T : \A k \in T : d <= k
  BY <1>2, Least
<1>4. PICK m \in s : d = n - m
  BY <1>1, <1>3
<1>5. ASSUME NEW k \in s PROVE m >= k
  <2>1. n - k \in T /\ d <= n - k
    BY <1>1, <1>3
  <2> QED
    BY <1>4, <2>1
<1>6. \E x \in s : \A k \in s : x >= k
  BY <1>5
<1> QED
  BY <1>6 DEF Max

(* The list after the steps of the buckets whose numbers, counted from 1, are in s:
   these hold the mix of what the list held at first. *)
Mixed(list, s) ==
  IF s = {} THEN list
  ELSE [e \in DOMAIN list |->
          IF e + 1 \in s THEN UNION { list[e * channels + ch] : ch \in MixedChannels }
          ELSE list[e]]

(* A step never reads an entry that an earlier one has overwritten: the step of bucket
   m - 1 reads from entry (m - 1) * channels on, and those before it wrote to entries
   below m - 1 (finalize_waveform reads and writes one list). *)
LEMMA MixedStep ==
  ASSUME channels \in Nat \ {0}, mixLayout \in Nat,
         NEW list, DOMAIN list = 0..(channels * BucketCount - 1),
         NEW s \in SUBSET (1..BucketCount), NEW m \in s, \A k \in s : m >= k
  PROVE  Mixed(list, s) = DownmixStep(Mixed(list, s \ {m}), m - 1)
<1> DEFINE before == Mixed(list, s \ {m})
<1> USE BuilderAssumption
<1>1. DOMAIN before = DOMAIN list
  BY DEF Mixed
<1>2. \A e \in DOMAIN list : e + 1 \notin s \ {m} => before[e] = list[e]
  BY DEF Mixed
<1>3. \A ch \in MixedChannels :
        /\ (m - 1) * channels + ch \in DOMAIN list
        /\ (m - 1) * channels + ch + 1 \notin s \ {m}
  <2>1. TAKE ch \in MixedChannels
  <2>2. PICK i \in 0..(BucketCount - 1) : i = m - 1
    OBVIOUS
  <2>3. /\ i * channels \in Nat /\ i <= i * channels
        /\ i * channels <= (BucketCount - 1) * channels
        /\ (BucketCount - 1) * channels = channels * BucketCount - channels
        /\ channels * BucketCount \in Nat
    <3>1. PICK d \in Nat : BucketCount - 1 = i + d
      <4>1. BucketCount - 1 - i \in Nat
        BY <2>2
      <4> QED
        BY <4>1
    <3>2. PICK c \in Nat : channels = c + 1
      <4>1. channels - 1 \in Nat
        OBVIOUS
      <4> QED
        BY <4>1
    <3>3. i * c \in Nat /\ d * channels \in Nat /\ i * channels = i * c + i
      BY <3>1, <3>2
    <3>4. (BucketCount - 1) * channels = i * channels + d * channels
      BY <3>1
    <3> QED
      BY <3>3, <3>4
  <2>0. ch \in 0..(channels - 1)
    BY DEF MixedChannels, Layout, Lowest
  <2>4. (m - 1) * channels + ch \in DOMAIN list
    BY <2>0, <2>2, <2>3
  <2>5. (m - 1) * channels + ch + 1 \in Nat /\ m <= (m - 1) * channels + ch + 1
    BY <2>0, <2>2, <2>3
  <2>6. ASSUME (m - 1) * channels + ch + 1 \in s \ {m} PROVE FALSE
    BY <2>5, <2>6
  <2> QED
    BY <2>4, <2>6
<1>4. UNION { before[(m - 1) * channels + ch] : ch \in MixedChannels }
        = UNION { list[(m - 1) * channels + ch] : ch \in MixedChannels }
  BY <1>2, <1>3
<1>5. DownmixStep(before, m - 1) =
        [e \in DOMAIN list |->
           IF e = m - 1 THEN UNION { list[(m - 1) * channels + ch] : ch \in MixedChannels }
           ELSE before[e]]
  BY <1>1, <1>4 DEF DownmixStep
<1>6. Mixed(list, s) =
        [e \in DOMAIN list |->
           IF e + 1 \in s THEN UNION { list[e * channels + ch] : ch \in MixedChannels }
           ELSE list[e]]
  BY DEF Mixed
<1>7. ASSUME NEW e \in DOMAIN list
      PROVE  Mixed(list, s)[e] = DownmixStep(before, m - 1)[e]
  <2>1. CASE e = m - 1
    <3>1. e + 1 \in s
      BY <2>1
    <3>2. Mixed(list, s)[e] = UNION { list[e * channels + ch] : ch \in MixedChannels }
      BY <1>6, <3>1, Zenon
    <3>3. DownmixStep(before, m - 1)[e]
            = UNION { list[(m - 1) * channels + ch] : ch \in MixedChannels }
      BY <1>5, <2>1, Zenon
    <3> QED
      BY <2>1, <3>2, <3>3, Zenon
  <2>2. CASE e # m - 1
    <3>1. e + 1 \in s <=> e + 1 \in s \ {m}
      BY <2>2
    <3>2. DownmixStep(before, m - 1)[e] = before[e]
      BY <1>5, <2>2
    <3>3. CASE e + 1 \in s
      BY <1>6, <3>1, <3>2, <3>3 DEF Mixed
    <3>4. CASE e + 1 \notin s
      BY <1>2, <1>6, <3>1, <3>2, <3>4
    <3> QED
      BY <3>3, <3>4
  <2> QED
    BY <2>1, <2>2
<1>8. Mixed(list, s) = [e \in DOMAIN list |-> DownmixStep(before, m - 1)[e]]
  BY <1>6, <1>7, Zenon
<1>9. DownmixStep(before, m - 1) = [e \in DOMAIN list |-> DownmixStep(before, m - 1)[e]]
  BY <1>5, Zenon
<1> QED
  BY <1>8, <1>9

(* The fold that Downmixed is, in closed form. *)
LEMMA DownmixedIs ==
  ASSUME channels \in Nat \ {0}, mixLayout \in Nat,
         NEW list, DOMAIN list = 0..(channels * BucketCount - 1)
  PROVE  Downmixed(list) = Mixed(list, 1..BucketCount)
<1> USE BuilderAssumption
<1> DEFINE order == [i \in 1..BucketCount |-> i - 1]
           Body(h) == [s \in SUBSET (DOMAIN order) |->
                         IF s = {} THEN list
                         ELSE DownmixStep(h[s \ {Max(s)}], order[Max(s)])]
           fold == CHOOSE h : h = Body(h)
           closed == [s \in SUBSET (1..BucketCount) |-> Mixed(list, s)]
<1>1. closed = Body(closed)
  <2>1. ASSUME NEW s \in SUBSET (1..BucketCount), s # {}
        PROVE  Mixed(list, s) = DownmixStep(closed[s \ {Max(s)}], order[Max(s)])
    <3>1. Max(s) \in s /\ \A k \in s : Max(s) >= k
      BY <2>1, Largest
    <3>2. closed[s \ {Max(s)}] = Mixed(list, s \ {Max(s)})
      OBVIOUS
    <3>3. order[Max(s)] = Max(s) - 1
      BY <3>1
    <3>4. PICK m \in s : m = Max(s) /\ \A k \in s : m >= k
      BY <3>1
    <3>5. Mixed(list, s) = DownmixStep(Mixed(list, s \ {m}), m - 1)
      BY <3>4, MixedStep
    <3> HIDE DEF closed, order
    <3> QED
      BY <3>2, <3>3, <3>4, <3>5
  <2>2. Mixed(list, {}) = list
    BY DEF Mixed
  <2> QED
    BY <2>1, <2>2
<1>2. fold = Body(fold)
  <2> HIDE DEF Body, closed
  <2> QED
    BY <1>1
<1>3. Downmixed(list) = fold[DOMAIN order]
  BY DEF Downmixed, FoldLeft, MapThenFoldSet
<1> HIDE DEF fold
<1> DEFINE Wrong == { n \in 0..BucketCount : fold[1..n] # Mixed(list, 1..n) }
<1>4. ASSUME Wrong # {} PROVE FALSE
  <2>0. Wrong \subseteq Nat
    OBVIOUS
  <2>1. PICK n \in Wrong : \A k \in Wrong : n <= k
    <3> HIDE DEF Wrong
    <3> QED
      BY <1>4, <2>0, Least
  <2>2. fold[{}] = list /\ Mixed(list, {}) = list
    BY <1>2 DEF Mixed
  <2>3. n # 0 
    BY <2>2, <2>1
  <2>4. n - 1 \in 0..BucketCount /\ n - 1 \notin Wrong
    <3>1. n \in 0..BucketCount
      BY <2>1
    <3> HIDE DEF Wrong
    <3> QED
      BY <2>1, <2>3, <3>1
  <2>5. /\ 1..n \in SUBSET (1..BucketCount) /\ n \in 1..n /\ \A k \in 1..n : n >= k
        /\ (1..n) \ {n} = 1..(n - 1)
    BY <2>1, <2>3
  <2>6. Max(1..n) = n
    <3>1. Max(1..n) \in 1..n /\ \A k \in 1..n : Max(1..n) >= k
      BY <2>5, Largest
    <3> QED
      BY <2>5, <3>1
  <2>7. fold[1..n] = DownmixStep(fold[1..(n - 1)], n - 1)
    BY <1>2, <2>5, <2>6
  <2>8. Mixed(list, 1..n) = DownmixStep(Mixed(list, 1..(n - 1)), n - 1)
    BY <2>5, MixedStep
  <2> QED
    BY <2>1, <2>4, <2>7, <2>8
<1> QED
  BY <1>3, <1>4

-----------------------------------------------------------------------------
(* When all buckets are full the lists hold the whole track. *)
LEMMA FinalizeKeepsInv ==
  ASSUME BuilderInv, FinalizeWaveform
  PROVE  BuilderInv'
<1> USE DEF BuilderInv
<1>1. /\ finished /\ pc' = "done"
      /\ UNCHANGED <<aborting, shouldDownmix, sampleCount, sourceVars, chunkVars, builderVars>>
  BY DEF FinalizeWaveform
<1>0. /\ mixLayout \in Nat /\ channels \in Nat \ {0} /\ mixLayout' \in {0} \cup ChannelCounts
      /\ shouldDownmix =>
           /\ mixLayout' # 0
           /\ MixedChannels = 0..(Lowest(channels, mixLayout') - 1)
           /\ MixedChannels \subseteq 0..(channels - 1)
  <2>1. /\ mixLayout \in {0} \cup ChannelCounts /\ ChannelCounts \subseteq Nat \ {0}
        /\ channels \in ChannelCounts
    BY <1>1, SizesOK, BuilderAssumption DEF TypeOK, PlaceInv, ChunkInv
  <2>2. mixLayout' = IF shouldDownmix THEN Layout ELSE mixLayout
    BY DEF FinalizeWaveform
  <2> QED
    BY <2>1, <2>2 DEF Layout, MixedChannels, Lowest
<1>2. TypeOK' /\ PlaceInv' /\ ChunkInv'
  <2>1. TypeOK'
    BY <1>0, <1>1 DEF TypeOK, sourceVars, chunkVars, builderVars
  <2>2. PlaceInv'
    BY <1>1 DEF PlaceInv, finished, valid_bucket, Begin, builderVars
  <2>3. ChunkInv'
    BY <1>1 DEF ChunkInv, sourceVars, builderVars
  <2> QED
    BY <2>1, <2>2, <2>3
<1>3. ListsInv'
  BY <1>1, ListsStay
<1>4. ResultInv'
  <2>1. /\ bucket = BucketCount /\ processed = sampleCount /\ sampleCount \in Nat \ {0}
        /\ channels \in Nat \ {0} /\ BucketCount \in Nat \ {0}
    BY <1>1, SizesOK DEF PlaceInv, ChunkInv
  <2>2. ASSUME NEW b \in 0..(BucketCount - 1), NEW ch \in 0..(channels - 1)
        PROVE  entries[b * channels + ch] = SamplesOf(b, ch)
    <3>1. entries[b * channels + ch] = { s \in SamplesOf(b, ch) : s[1] < sampleCount }
      BY <2>1 DEF ListsInv, BucketsExact
    <3>2. \A s \in SamplesOf(b, ch) : s[1] < sampleCount
      <4>1. Begin(b) \in 0..sampleCount /\ Begin(b + 1) \in 0..sampleCount
        BY <2>1, Cuts
      <4> QED
        BY <2>1, <4>1 DEF SamplesOf, FramesOf
    <3> QED
      BY <3>1, <3>2
  <2>3. \A b, ch : SamplesOf(b, ch)' = SamplesOf(b, ch)
    BY <1>1 DEF SamplesOf, FramesOf, Begin
  <2>4. shouldDownmix' = shouldDownmix /\ channels' = channels
    BY <1>1 DEF builderVars
  <2>5. CASE ~shouldDownmix
    <3>1. result' = [ch \in 1..channels |->
                       [b \in 1..BucketCount |->
                          IF b <= bucket THEN entries[(b - 1) * channels + ch - 1] ELSE {}]]
      BY <2>5 DEF FinalizeWaveform, Transposed
    <3>2. Len(result') = channels /\ DOMAIN result' = 1..channels
      BY <2>1, <3>1
    <3>3. ASSUME NEW c \in 1..channels, NEW b \in 1..BucketCount
          PROVE  result'[c][b] = SamplesOf(b - 1, c - 1)
      <4>1. /\ b - 1 \in 0..(BucketCount - 1) /\ c - 1 \in 0..(channels - 1)
            /\ (b - 1) * channels + c - 1 = (b - 1) * channels + (c - 1)
        BY <2>1
      <4>2. result'[c][b] = entries[(b - 1) * channels + (c - 1)]
        BY <2>1, <3>1, <4>1
      <4> QED
        BY <2>2, <4>1, <4>2
    <3> QED
      BY <2>3, <2>4, <2>5, <3>2, <3>3 DEF ResultInv, ResultMixed
  <2>6. CASE shouldDownmix
    <3>1. result' = [ch \in 1..1 |->
                       [b \in 1..BucketCount |->
                          IF b <= bucket THEN Downmixed(entries)[(b - 1) * 1 + ch - 1] ELSE {}]]
      BY <2>6 DEF FinalizeWaveform, Transposed
    <3>2. Len(result') = 1 /\ DOMAIN result' = {1}
      BY <3>1
    <3>3. /\ DOMAIN entries = 0..(channels * BucketCount - 1)
          /\ Downmixed(entries) = Mixed(entries, 1..BucketCount)
      BY <1>0, <2>1, DownmixedIs DEF TypeOK
    <3>4. ASSUME NEW b \in 1..BucketCount
          PROVE  result'[1][b] = UNION { SamplesOf(b - 1, ch) : ch \in MixedChannels }
      <4>1. PICK i \in 0..(BucketCount - 1) : i = b - 1
        BY <2>1
      <4>2. i \in DOMAIN entries
        <5>1. PICK c \in Nat : channels = c + 1
          <6>1. channels - 1 \in Nat /\ channels = (channels - 1) + 1
            BY <2>1
          <6> QED
            BY <6>1, Zenon
        <5>2. c * BucketCount \in Nat /\ channels * BucketCount = c * BucketCount + BucketCount
          BY <2>1, <5>1
        <5> QED
          BY <2>1, <3>3, <5>2
      <4>3. result'[1][b] = Downmixed(entries)[i]
        BY <2>1, <3>1, <4>1
      <4>4. Mixed(entries, 1..BucketCount)[i]
              = UNION { entries[i * channels + ch] : ch \in MixedChannels }
        BY <2>1, <4>1, <4>2 DEF Mixed
      <4>5. UNION { entries[i * channels + ch] : ch \in MixedChannels }
              = UNION { SamplesOf(i, ch) : ch \in MixedChannels }
        BY <1>0, <2>2, <2>6
      <4> QED
        BY <3>3, <4>1, <4>3, <4>4, <4>5
    <3>5. ASSUME NEW c \in DOMAIN result', NEW b \in 1..BucketCount
          PROVE  result'[c][b] =
                   UNION { SamplesOf(b - 1, ch)' : ch \in 0..(Lowest(channels', mixLayout') - 1) }
      <4>1. result'[c][b] = UNION { SamplesOf(b - 1, ch) : ch \in MixedChannels }
        BY <3>2, <3>4
      <4>2. 0..(Lowest(channels', mixLayout') - 1) = MixedChannels
        BY <1>0, <2>4, <2>6 DEF Lowest
      <4> QED
        BY <2>3, <4>1, <4>2
    <3> QED
      BY <1>0, <2>4, <2>6, <3>2, <3>5 DEF ResultInv, ResultMixed, Lowest
  <2> QED
    BY <2>5, <2>6
<1> QED
  BY <1>2, <1>3, <1>4

LEMMA NextKeepsBuilderInv == BuilderInv /\ [Next]_vars => BuilderInv'
<1> SUFFICES ASSUME BuilderInv, [Next]_vars PROVE BuilderInv'
  OBVIOUS
<1>1. CASE UNCHANGED vars \/ SetAborting \/ NoticeAbort \/ RenderFails \/ ChunkConsumed
         \/ OtherTrackMixed
  <2>1. UNCHANGED <<shouldDownmix, sampleCount, sourceVars, chunkVars, builderVars, result>>
    BY <1>1 DEF vars, SetAborting, NoticeAbort, RenderFails, ChunkConsumed, OtherTrackMixed
  <2>2. UNCHANGED <<generated, trackChannels, exhausted, chunkAt, chunkPos, chunkLen,
                    channels, bucket, bucketBegins, processed, entries, silenced, rms>>
    BY <2>1 DEF sourceVars, chunkVars, builderVars
  <2>3. ListsInv' /\ PlaceInv'
    BY <2>1, <2>2, ListsStay DEF BuilderInv, PlaceInv, finished, valid_bucket, Begin
  <2>4. aborting' \in BOOLEAN
    BY <1>1 DEF vars, SetAborting, NoticeAbort, RenderFails, ChunkConsumed, OtherTrackMixed,
                BuilderInv, TypeOK
  <2>5. \/ pc' = pc
        \/ pc' \in {"failed", "aborted"}
        \/ pc = "consume" /\ chunkPos >= chunkLen /\ pc' = "slice"
    BY <1>1 DEF vars, SetAborting, NoticeAbort, RenderFails, ChunkConsumed, OtherTrackMixed
  <2>0. /\ mixLayout' \in {0} \cup ChannelCounts
        /\ mixLayout # 0 => mixLayout' = mixLayout
    BY <1>1 DEF vars, SetAborting, NoticeAbort, RenderFails, ChunkConsumed, OtherTrackMixed,
                BuilderInv, TypeOK
  <2>6. TypeOK'
    BY <2>0, <2>1, <2>2, <2>4, <2>5 DEF BuilderInv, TypeOK
  <2>7. ChunkInv'
    <3>1. CASE pc' = pc
      BY <2>1, <2>2, <3>1 DEF BuilderInv, ChunkInv, finished, valid_bucket
    <3>2. CASE pc' \in {"failed", "aborted"}
      BY <2>2, <3>2 DEF BuilderInv, ChunkInv
    <3>3. CASE pc = "consume" /\ chunkPos >= chunkLen /\ pc' = "slice"
      <4>1. /\ chunkPos = chunkLen /\ processed \in {generated, sampleCount}
        BY <3>3 DEF BuilderInv, ChunkInv, TypeOK
      <4>2. ~finished => processed # sampleCount
        <5>1. /\ sampleCount \in Nat \ {0}
              /\ ~finished => bucket \in 0..(BucketCount - 1) /\ bucket + 1 \in 0..BucketCount
          BY SizesOK DEF BuilderInv
        <5>2. ~finished => Begin(bucket) < sampleCount /\ Begin(bucket + 1) \in 0..sampleCount
          BY <5>1, Cuts
        <5> QED
          BY <5>1, <5>2 DEF BuilderInv, PlaceInv, TypeOK
      <4> QED
        BY <2>2, <3>3, <4>1, <4>2 DEF BuilderInv, ChunkInv, finished, valid_bucket
    <3> QED
      BY <2>5, <3>1, <3>2, <3>3
  <2>8. ResultInv'
    <3>1. CASE pc' # "done"
      BY <3>1 DEF ResultInv, ResultMixed
    <3>2. CASE pc' = "done"
      <4>1. /\ pc = "done" /\ ResultMixed
            /\ UNCHANGED <<result, shouldDownmix, channels, sampleCount>>
            /\ shouldDownmix => mixLayout # 0 /\ mixLayout' = mixLayout
        BY <2>0, <2>1, <2>2, <2>5, <3>2 DEF BuilderInv, ResultInv
      <4>2. \A b, ch : SamplesOf(b, ch)' = SamplesOf(b, ch)
        BY <2>1 DEF SamplesOf, FramesOf, Begin
      <4>3. Len(result)' = IF shouldDownmix' THEN 1 ELSE channels'
        BY <4>1 DEF ResultMixed
      <4>4. ASSUME NEW c \in DOMAIN result', NEW b \in 1..BucketCount
            PROVE  result'[c][b] =
                     IF shouldDownmix'
                     THEN UNION { SamplesOf(b - 1, ch)' : ch \in 0..(Lowest(channels, mixLayout)' - 1) }
                     ELSE SamplesOf(b - 1, c - 1)'
        <5>1. result'[c][b] =
                IF shouldDownmix
                THEN UNION { SamplesOf(b - 1, ch) : ch \in 0..(Lowest(channels, mixLayout) - 1) }
                ELSE SamplesOf(b - 1, c - 1)
          BY <4>1 DEF ResultMixed
        <5>2. shouldDownmix => Lowest(channels, mixLayout)' = Lowest(channels, mixLayout)
          BY <4>1 DEF Lowest
        <5> QED
          BY <4>1, <4>2, <5>1, <5>2
      <4> QED
        BY <4>1, <4>3, <4>4 DEF ResultInv, ResultMixed
    <3> QED
      BY <3>1, <3>2
  <2> QED
    BY <2>3, <2>6, <2>7, <2>8 DEF BuilderInv
<1> QED
  BY <1>1, RenderKeepsInv, ConsumeKeepsInv, FinalizeKeepsInv DEF Next, Work, Ended

LEMMA BuilderInvAlways == Spec => []BuilderInv
<1>1. Init => BuilderInv
  BY InitBuilderInv
<1>2. BuilderInv /\ [Next]_vars => BuilderInv'
  BY NextKeepsBuilderInv
<1> QED
  BY <1>1, <1>2, PTL DEF Spec

(* The builder's positions stay within the track and the chunk, and its lists have an
   entry for every bucket and channel. *)
THEOREM BuilderTypeCorrect == Spec => []TypeOK
<1>1. BuilderInv => TypeOK
  BY DEF BuilderInv
<1> QED
  BY <1>1, BuilderInvAlways, PTL

(* All buckets are full exactly when the last sample has been processed, also if the
   track has fewer samples than there are buckets. *)
THEOREM FullAtTheEnd == Spec => []FinishedAtTheEnd
<1>1. ASSUME BuilderInv PROVE FinishedAtTheEnd
  <2>1. CASE finished
    BY <1>1, <2>1 DEF BuilderInv, PlaceInv, FinishedAtTheEnd
  <2>2. CASE ~finished
    <3>1. /\ sampleCount \in Nat \ {0} /\ processed \in Nat
          /\ bucket \in 0..(BucketCount - 1) /\ bucket + 1 \in 0..BucketCount
      BY <1>1, <2>2, SizesOK DEF BuilderInv
    <3>2. Begin(bucket) < sampleCount /\ Begin(bucket + 1) \in 0..sampleCount
      BY <3>1, Cuts
    <3>3. processed # sampleCount
      BY <1>1, <2>2, <3>1, <3>2 DEF BuilderInv, PlaceInv
    <3> QED
      BY <2>2, <3>3 DEF FinishedAtTheEnd
  <2> QED
    BY <2>1, <2>2
<1> QED
  BY <1>1, BuilderInvAlways, PTL

(* However the decoder cuts the track into chunks, whatever its length and for every
   number of buckets: each entry was computed from exactly the samples of its bucket
   and channel that have been processed (consume_input, process), and the analysis
   ends with the last one. *)
THEOREM SamplesCountedOnce == Spec => []EverySampleCounted
<1>1. BuilderInv => BucketsExact
  BY DEF BuilderInv, ListsInv
<1> QED
  BY <1>1, BuilderInvAlways, FullAtTheEnd, PTL DEF EverySampleCounted

(* No finalized entry keeps the sentinels of initialize: it has seen a sample or was
   silenced by finalize_bucket, and its rms is a number exactly in the first case. *)
THEOREM SentinelsGone == Spec => []NoSentinelLeft
<1>1. BuilderInv => NoSentinelLeft
  BY DEF BuilderInv, ListsInv
<1> QED
  BY <1>1, BuilderInvAlways, PTL

(* The stored waveform is exact: each bucket of the result holds the samples of its
   share of the track, of its own channel or, after a mix with the coefficients of the
   track's own layout, of all channels, although the downmix overwrites the list it
   reads (finalize_waveform, transpose).  Nothing is claimed of a mix with the
   coefficients that a track of another layout has left behind. *)
THEOREM ResultAlwaysExact == Spec => []ResultExact
<1>1. BuilderInv => ResultExact
  <2> SUFFICES ASSUME BuilderInv, pc = "done" PROVE ResultExact
    BY DEF ResultExact
  <2>1. ResultMixed
    BY DEF BuilderInv, ResultInv
  <2>2. channels \in Nat
    BY BuilderAssumption DEF BuilderInv, TypeOK
  <2>3. OwnCoefficients /\ shouldDownmix => Lowest(channels, mixLayout) = channels
    BY <2>2 DEF OwnCoefficients, Lowest
  <2> QED
    BY <2>1, <2>3 DEF ResultExact, ResultMixed, BucketSamples
<1> QED
  BY <1>1, BuilderInvAlways, PTL

-----------------------------------------------------------------------------
(* The analysis gets on.  No more is rendered than the tags promise, but for what the
   last chunk has too much. *)
RenderedBounded == generated <= sampleCount + MaxChunk

LEMMA RendersSomething ==
  ASSUME BuilderInv, RenderDecoded \/ RenderSilence
  PROVE  /\ generated' \in Nat /\ generated < generated'
         /\ generated' <= sampleCount + MaxChunk
         /\ pc = "slice" /\ pc' \in {"failed", "consume"}
         /\ UNCHANGED <<sampleCount, processed, bucket>>
<1>1. pc = "slice" /\ ~finished
  BY DEF RenderDecoded, RenderSilence
<1>2. /\ sampleCount \in Nat \ {0} /\ processed \in Nat
      /\ bucket \in 0..(BucketCount - 1) /\ bucket + 1 \in 0..BucketCount
  BY <1>1, SizesOK DEF BuilderInv
<1>3. Begin(bucket) < sampleCount /\ Begin(bucket + 1) \in 0..sampleCount
  BY <1>2, Cuts
<1>4. generated \in Nat /\ generated < sampleCount
  BY <1>1, <1>2, <1>3 DEF BuilderInv, ChunkInv, PlaceInv
<1>5. \E len \in Nat \ {0} :
        (\E cc : Rendered(len, cc)) /\ generated + len <= sampleCount + MaxChunk
  <2>1. CASE RenderDecoded
    <3>1. PICK len \in 1..MaxChunk, cc \in ChannelCounts : Rendered(len, cc)
      BY <2>1 DEF RenderDecoded
    <3>2. len \in Nat \ {0} /\ generated + len <= sampleCount + MaxChunk
      BY <1>2, <1>4, <3>1, BuilderAssumption
    <3> QED
      BY <3>1, <3>2
  <2>2. CASE RenderSilence
    <3>1. /\ SilenceLength \in Nat \ {0}
          /\ generated + SilenceLength <= sampleCount + MaxChunk
      BY <1>2, <1>4, BuilderAssumption DEF SilenceLength, Highest, Lowest
    <3> QED
      BY <2>2, <3>1 DEF RenderSilence
  <2> QED
    BY <2>1, <2>2
<1>6. PICK len \in Nat \ {0} :
        (\E cc : Rendered(len, cc)) /\ generated + len <= sampleCount + MaxChunk
  BY <1>5
<1>7. /\ generated' = generated + len /\ pc' \in {"failed", "consume"}
      /\ UNCHANGED <<sampleCount, processed, bucket>>
  BY <1>6 DEF Rendered
<1> QED
  BY <1>1, <1>4, <1>6, <1>7

LEMMA RenderedBoundedAlways == Spec => []RenderedBounded
<1>1. Init => RenderedBounded
  BY BuilderAssumption DEF Init, RenderedBounded
<1>2. BuilderInv /\ RenderedBounded /\ [Next]_vars => RenderedBounded'
  <2> SUFFICES ASSUME BuilderInv, RenderedBounded, [Next]_vars PROVE RenderedBounded'
    OBVIOUS
  <2>1. CASE RenderDecoded \/ RenderSilence
    BY <2>1, RendersSomething DEF RenderedBounded
  <2>2. CASE ~(RenderDecoded \/ RenderSilence)
    <3>1. UNCHANGED <<generated, sampleCount>>
      BY <2>2 DEF Next, Work, Ended, vars, sourceVars, ConsumePart, ChunkConsumed,
                  FinalizeWaveform, NoticeAbort, RenderFails, SetAborting, OtherTrackMixed
    <3> QED
      BY <3>1 DEF RenderedBounded
  <2> QED
    BY <2>1, <2>2
<1> QED
  BY <1>1, <1>2, BuilderInvAlways, PTL DEF Spec

LEMMA WorkGetsOn ==
  ASSUME BuilderInv, BuilderInv', RenderedBounded, RenderedBounded', Work
  PROVE  Advance < Advance' /\ Advance' <= MostAdvance
<1> DEFINE Rank(p) == IF p = "consume" THEN 0 ELSE IF p = "slice" THEN 1 ELSE 2
<1>1. /\ sampleCount \in Nat /\ MaxChunk \in Nat /\ BucketCount \in Nat
      /\ generated \in Nat /\ processed \in Nat /\ bucket \in Nat
  BY SizesOK, BuilderAssumption DEF BuilderInv
<1>2. /\ generated' \in Nat /\ processed' \in Nat /\ bucket' \in Nat
      /\ processed' <= sampleCount' /\ bucket' <= BucketCount
      /\ generated' <= sampleCount' + MaxChunk
  <2>1. /\ sampleCount' \in Nat /\ processed' \in 0..sampleCount'
        /\ bucket' \in 0..BucketCount /\ generated' \in Nat
    BY BuilderAssumption DEF BuilderInv, TypeOK
  <2>2. generated' <= sampleCount' + MaxChunk
    BY DEF RenderedBounded
  <2>3. processed' \in Nat /\ processed' <= sampleCount'
    BY <2>1
  <2>4. bucket' \in Nat /\ bucket' <= BucketCount
    BY <1>1, <2>1
  <2> QED
    BY <2>1, <2>2, <2>3, <2>4
<1>3. /\ Advance = 2 * generated + processed + bucket + Rank(pc)
      /\ Advance' = 2 * generated' + processed' + bucket' + Rank(pc')
      /\ MostAdvance = 2 * (sampleCount + MaxChunk) + sampleCount + BucketCount + 2
  BY DEF Advance, MostAdvance
<1>4. Rank(pc) \in 0..2 /\ Rank(pc') \in 0..2
  OBVIOUS
<1>5. SUFFICES /\ sampleCount' = sampleCount
               /\ 2 * generated + processed + bucket + Rank(pc)
                    < 2 * generated' + processed' + bucket' + Rank(pc')
  <2> HIDE DEF Rank
  <2> QED
    BY <1>1, <1>2, <1>3, <1>4
<1>6. CASE RenderDecoded \/ RenderSilence
  <2>1. Rank(pc) = 1
    BY <1>6, RendersSomething
  <2>2. /\ generated < generated' /\ processed' = processed /\ bucket' = bucket
        /\ sampleCount' = sampleCount
    BY <1>6, RendersSomething
  <2> HIDE DEF Rank
  <2> QED
    BY <1>1, <1>2, <1>4, <2>1, <2>2
<1>7. CASE ConsumePart
  <2>1. UNCHANGED <<pc, generated, sampleCount>> /\ chunkPos < chunkLen
    BY <1>7 DEF ConsumePart, sourceVars
  <2>2. PICK n : TakesPart(n)
    BY <1>7, PartFits
  <2>3. CASE processed' = bucket_ends
    <3>1. bucket' = bucket + 1
      BY <1>7, <2>3 DEF ConsumePart, FinalizeBucket
    <3> QED
      BY <1>1, <1>4, <2>1, <2>2, <3>1 DEF TakesPart
  <2>4. CASE processed' # bucket_ends
    <3>1. bucket' = bucket
      BY <1>7, <2>4 DEF ConsumePart
    <3>2. bucket_ends \in Nat /\ n # 0
      BY <2>1, <2>2, <2>4 DEF TakesPart, Lowest
    <3> QED
      BY <1>1, <1>4, <2>1, <2>2, <3>1, <3>2 DEF TakesPart
  <2> QED
    BY <2>3, <2>4
<1>8. CASE ChunkConsumed \/ FinalizeWaveform \/ NoticeAbort
  <2>1. /\ UNCHANGED <<generated, processed, bucket, sampleCount>>
        /\ \/ pc = "consume" /\ pc' = "slice"
           \/ pc = "slice" /\ pc' \in {"done", "aborted"}
    BY <1>8 DEF ChunkConsumed, FinalizeWaveform, NoticeAbort, sourceVars, builderVars
  <2>2. Rank(pc) < Rank(pc')
    BY <2>1
  <2> HIDE DEF Rank
  <2> QED
    BY <1>1, <1>4, <2>1, <2>2
<1> QED
  BY <1>6, <1>7, <1>8 DEF Work

(* The analysis cannot go on for ever, whatever the decoder delivers: each step of the
   worker raises a counter that has a bound (process_file, consume_input, render). *)
THEOREM AnalysisAdvances == Spec => WorkAdvances
<1>1. /\ BuilderInv /\ BuilderInv' /\ RenderedBounded /\ RenderedBounded' /\ [Next]_vars
        => [Work => Advance < Advance' /\ Advance' <= MostAdvance]_vars
  BY WorkGetsOn
<1> QED
  BY <1>1, BuilderInvAlways, RenderedBoundedAlways, PTL DEF Spec, WorkAdvances
=============================================================================
