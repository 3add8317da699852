--------------------------- MODULE WaveformBuilder ---------------------------
(* The analysis of one track: process_file, audio_source and waveform_builder of
   CacheImpl.ProcessFile.cc.

   The decoder delivers chunks of frames, as many as it likes; audio_source pads
   what is missing with silence; waveform_builder spreads the frames over
   BucketCount buckets and keeps, for each bucket and channel, one entry in the
   flat lists minimum, maximum and rms.  An entry is here the set of the samples
   it was computed from: a sample is <<frame, channel>>, frames numbered in the
   order in which they were rendered. *)
EXTENDS Integers, Sequences, SequencesExt

CONSTANTS BucketCount,    \* bucket_count, 2048 in the code
          SampleCounts,   \* the lengths a track may claim to have
          ChannelCounts,  \* the channel counts a chunk may have
          MaxChunk,       \* frames in the largest chunk of the decoder
          SilenceFrames   \* SilenceChunkFrames, 16384 in the code

ASSUME BuilderAssumption ==
  /\ BucketCount \in Nat \ {0} /\ MaxChunk \in Nat \ {0}
  /\ SilenceFrames \in Nat \ {0}
  /\ SampleCounts \subseteq Nat \ {0}
  /\ 1 \in ChannelCounts /\ ChannelCounts \subseteq Nat \ {0}

VARIABLES
  pc,               \* "slice": between two calls of process_file;
                    \* "consume": in the loop of consume_input;
                    \* "done", "failed", "aborted": its final result
  aborting,         \* abort_cb.is_aborting()
  shouldDownmix,    \* should_downmix
  sampleCount,      \* sample_count, from the tags of the track
  exhausted,        \* audio_source::exhausted
  generated,        \* audio_source::generated_samples
  trackChannels,    \* audio_source::track_channel_count, 0 if not valid
  chunkAt,          \* first frame of the chunk that is consumed
  chunkPos,         \* i of consume_input
  chunkLen,         \* n of consume_input
  channels,         \* channel_count of the builder, 0 until initialized
  bucket,           \* bucket
  bucketBegins,     \* bucket_begins
  processed,        \* samples_processed
  entries,          \* what each entry of the lists was computed from
  silenced,         \* entries whose minimum and maximum were set to zero
  rms,              \* each entry of rms: "sum", "root" or "nan"
  mixLayout,        \* left and right of downmix_to_mono, static: the channel count
                    \* they are for, 0 until its first call in this process
  result            \* state->wf: per channel and bucket; << >> is null

sourceVars == <<exhausted, generated, trackChannels>>
chunkVars == <<chunkAt, chunkPos, chunkLen>>
builderVars == <<channels, bucket, bucketBegins, processed, entries, silenced, rms>>
vars == <<pc, aborting, shouldDownmix, sampleCount, sourceVars, chunkVars,
          builderVars, mixLayout, result>>

Lowest(a, b) == IF a <= b THEN a ELSE b
Highest(a, b) == IF a >= b THEN a ELSE b

valid_bucket == bucket < BucketCount
finished == ~valid_bucket

(* Variants of the operators below with a plausible mistake in each; every
   property is checked to fail with one of them in the operator's place. *)
WholeTrack == sampleCount
RoundedEnds == (bucket + 1) * (sampleCount \div BucketCount)
NoSilence == 0
TakenPlanar(e, at, frames) ==
  { <<at + k \div channels, k % channels>> :
      k \in { k \in 0..(frames * channels - 1) : bucket + (k % channels) = e } }
NeverSilenced(lastPart) == silenced
DownmixStepPlanar(list, i) ==
  [list EXCEPT ![i] = UNION { list[i + ch] : ch \in 0..(channels - 1) }]

samples_remaining == sampleCount - processed
bucket_ends == ((bucket + 1) * sampleCount) \div BucketCount
chunk_size == bucket_ends - bucketBegins

(* A decoder was opened and the track has a plausible length; earlier tracks may have
   been mixed down. *)
Init ==
  /\ pc = "slice" /\ aborting = FALSE
  /\ shouldDownmix \in BOOLEAN
  /\ sampleCount \in SampleCounts
  /\ exhausted = FALSE /\ generated = 0 /\ trackChannels = 0
  /\ chunkAt = 0 /\ chunkPos = 0 /\ chunkLen = 0
  /\ channels = 0 /\ bucket = 0 /\ bucketBegins = 0 /\ processed = 0
  /\ entries = << >> /\ silenced = {} /\ rms = << >> /\ result = << >>
  /\ mixLayout \in {0} \cup ChannelCounts

(* waveform_builder::initialize, on the first chunk only: one entry for each
   bucket and channel, numbered from 0. *)
Initialized(cc) ==
  IF channels # 0
  THEN UNCHANGED <<channels, entries, rms>>
  ELSE /\ channels' = cc
       /\ entries' = [e \in 0..(cc * BucketCount - 1) |-> {}]
       /\ rms' = [e \in 0..(cc * BucketCount - 1) |-> "sum"]

(* render has a chunk of len frames and cc channels; consume_input starts. *)
Rendered(len, cc) ==
  /\ generated' = generated + len
  /\ trackChannels' = IF trackChannels = 0 THEN cc ELSE trackChannels
  /\ IF trackChannels' # cc
     THEN pc' = "failed" /\ UNCHANGED <<chunkVars, channels, entries, rms>>
     ELSE /\ pc' = "consume"
          /\ Initialized(cc)
          /\ chunkAt' = generated /\ chunkPos' = 0
          /\ chunkLen' = Lowest(samples_remaining, len)
  /\ UNCHANGED <<aborting, shouldDownmix, sampleCount, bucket, bucketBegins,
                 processed, silenced, mixLayout, result>>

(* The decoder has audio for this call of process_file. *)
RenderDecoded ==
  /\ pc = "slice" /\ ~finished /\ ~aborting /\ ~exhausted
  /\ \E len \in 1..MaxChunk, cc \in ChannelCounts : Rendered(len, cc)
  /\ UNCHANGED exhausted

(* The frames of silence that render makes up at once. *)
SilenceLength == Highest(0, Lowest(sampleCount - generated, SilenceFrames))

(* It has none, or had none before: audio_source makes up what is missing. *)
RenderSilence ==
  /\ pc = "slice" /\ ~finished /\ ~aborting
  /\ Rendered(SilenceLength, IF trackChannels = 0 THEN 1 ELSE trackChannels)
  /\ exhausted' = TRUE

(* Opening, the decoder or the file system gives up. *)
RenderFails ==
  /\ pc = "slice" /\ ~finished /\ ~exhausted
  /\ pc' = "failed"
  /\ UNCHANGED <<aborting, shouldDownmix, sampleCount, sourceVars, chunkVars,
                 builderVars, mixLayout, result>>

(* What process adds to entry e when it takes `frames` frames from frame `at`. *)
Taken(e, at, frames) ==
  { <<at + k \div channels, k % channels>> :
      k \in { k \in 0..(frames * channels - 1) : bucket * channels + (k % channels) = e } }

(* The entries of bucket b. *)
EntriesOf(b) == { b * channels + ch : ch \in 0..(channels - 1) }

(* finalize_bucket: the entries whose extremes are silence afterwards. *)
Silenced(lastPart) ==
  IF lastPart = 0 THEN silenced \cup EntriesOf(bucket) ELSE silenced

(* finalize_bucket: an entry without samples gets silence for its extremes, and
   the root of its sum divided by the size of the bucket. *)
FinalizeBucket(lastPart) ==
  /\ silenced' = Silenced(lastPart)
  /\ rms' = [e \in DOMAIN rms |->
               IF e \notin EntriesOf(bucket) THEN rms[e]
               ELSE IF chunk_size = 0 THEN "nan" ELSE "root"]
  /\ bucket' = bucket + 1
  /\ bucketBegins' = bucket_ends

(* One turn of the loop of consume_input. *)
ConsumePart ==
  /\ pc = "consume" /\ chunkPos < chunkLen
  /\ LET to_process == Lowest(bucket_ends - processed, chunkLen - chunkPos)
     IN  /\ entries' = [e \in DOMAIN entries |->
                          entries[e] \cup Taken(e, chunkAt + chunkPos, to_process)]
         /\ processed' = processed + to_process
         /\ chunkPos' = chunkPos + to_process
         /\ IF processed' = bucket_ends
            THEN FinalizeBucket(to_process)
            ELSE UNCHANGED <<silenced, rms, bucket, bucketBegins>>
  /\ UNCHANGED <<pc, aborting, shouldDownmix, sampleCount, sourceVars, chunkAt,
                 chunkLen, channels, mixLayout, result>>

(* The loop ends, and with it this call of process_file: not_done. *)
ChunkConsumed ==
  /\ pc = "consume" /\ chunkPos >= chunkLen
  /\ pc' = "slice"
  /\ UNCHANGED <<aborting, shouldDownmix, sampleCount, sourceVars, chunkVars,
                 builderVars, mixLayout, result>>

(* downmix_to_mono fills its coefficients in its first call, for that call's channel
   count.  No layout has a coefficient of zero, but those behind the end of the list
   are read from an array of zeros: a channel beyond the layout adds nothing. *)
Layout == IF mixLayout = 0 THEN channels ELSE mixLayout
MixedChannels == 0..(Lowest(channels, Layout) - 1)

(* The downmix of finalize_waveform, which overwrites the list it reads: entry i
   becomes the mix of the entries of bucket i. *)
DownmixStep(list, i) ==
  [list EXCEPT ![i] = UNION { list[i * channels + ch] : ch \in MixedChannels }]
Downmixed(list) ==
  FoldLeft(DownmixStep, list, [i \in 1..BucketCount |-> i - 1])

(* transpose: a list per channel, of the first `rows` buckets of a flat list of
   the given width; the other buckets stay silent. *)
Transposed(list, width, rows) ==
  [ch \in 1..width |->
     [b \in 1..BucketCount |->
        IF b <= rows THEN list[(b - 1) * width + ch - 1] ELSE {}]]

(* All buckets are full: finalize_waveform makes the waveform, which is stored. *)
FinalizeWaveform ==
  /\ pc = "slice" /\ finished /\ ~aborting
  /\ result' = IF shouldDownmix
               THEN Transposed(Downmixed(entries), 1, bucket)
               ELSE Transposed(entries, channels, bucket)
  /\ mixLayout' = IF shouldDownmix THEN Layout ELSE mixLayout
  /\ pc' = "done"
  /\ UNCHANGED <<aborting, shouldDownmix, sampleCount, sourceVars, chunkVars,
                 builderVars>>

(* Another worker is the first of the process to mix a waveform down. *)
OtherTrackMixed ==
  /\ mixLayout = 0
  /\ mixLayout' \in ChannelCounts
  /\ UNCHANGED <<pc, aborting, shouldDownmix, sampleCount, sourceVars, chunkVars,
                 builderVars, result>>

(* The cache is told to quit; noticed by throw_if_aborting and by the decoder. *)
SetAborting ==
  /\ ~aborting /\ pc \in {"slice", "consume"}
  /\ aborting' = TRUE
  /\ UNCHANGED <<pc, shouldDownmix, sampleCount, sourceVars, chunkVars,
                 builderVars, mixLayout, result>>

NoticeAbort ==
  /\ pc = "slice" /\ aborting
  /\ pc' = "aborted"
  /\ UNCHANGED <<aborting, shouldDownmix, sampleCount, sourceVars, chunkVars,
                 builderVars, mixLayout, result>>

Ended == pc \in {"done", "failed", "aborted"} /\ UNCHANGED vars

Work == RenderDecoded \/ RenderSilence \/ ConsumePart \/ ChunkConsumed
        \/ FinalizeWaveform \/ NoticeAbort
Next == Work \/ RenderFails \/ SetAborting \/ OtherTrackMixed \/ Ended

Spec == Init /\ [][Next]_vars

(* The worker keeps calling process_file until it has a final result. *)
FairSpec == Spec /\ WF_vars(Work)

-----------------------------------------------------------------------------
(* Reference: the frames of bucket b, and its samples in channel ch. *)
Begin(b) == (b * sampleCount) \div BucketCount
FramesOf(b) == Begin(b)..(Begin(b + 1) - 1)
SamplesOf(b, ch) == { <<f, ch>> : f \in FramesOf(b) }

(* Type invariant: positions stay within the track and the chunk. *)
TypeOK ==
  /\ pc \in {"slice", "consume", "done", "failed", "aborted"}
  /\ aborting \in BOOLEAN /\ shouldDownmix \in BOOLEAN /\ exhausted \in BOOLEAN
  /\ sampleCount \in SampleCounts
  /\ generated \in Nat /\ trackChannels \in {0} \cup ChannelCounts
  /\ chunkAt \in Nat /\ chunkPos \in Nat /\ chunkLen \in Nat
  /\ channels \in {0} \cup ChannelCounts
  /\ bucket \in 0..BucketCount /\ bucketBegins \in 0..sampleCount
  /\ processed \in 0..sampleCount
  /\ DOMAIN entries = (IF channels = 0 THEN {} ELSE 0..(channels * BucketCount - 1))
  /\ DOMAIN rms = DOMAIN entries
  /\ silenced \subseteq DOMAIN entries
  /\ mixLayout \in {0} \cup ChannelCounts

(* Every sample is counted in exactly one bucket: a bucket that is finalized was
   computed from exactly the samples of its share of the track, in its own
   channel; the current one from those of its share that were processed; the
   later ones from nothing.  This is about the split of chunks at bucket bounds
   in consume_input and the flat offsets of process. *)
BucketsExact ==
  \A b \in 0..(BucketCount - 1), ch \in 0..(channels - 1) :
    entries[b * channels + ch] =
      { s \in SamplesOf(b, ch) : s[1] < processed }

(* The analysis is finished exactly when the last sample has been processed:
   neither stuck with all samples consumed nor done with samples missing. *)
FinishedAtTheEnd == finished <=> processed = sampleCount

(* Both: wherever a chunk, a bucket and the track end, no sample is counted twice,
   in the wrong bucket, or left over (CacheImpl.ProcessFile.cc 237, 261-283). *)
EverySampleCounted == BucketsExact /\ FinishedAtTheEnd

(* No finalized entry keeps the sentinels FLT_MAX and -FLT_MAX of initialize:
   it has seen a sample or was set to zero, never both.  Its rms is a number if
   it has seen a sample; an empty bucket, of which a track with fewer samples
   than buckets has some, divides zero by zero. *)
NoSentinelLeft ==
  \A b \in 0..(bucket - 1), ch \in 0..(channels - 1) :
    LET e == b * channels + ch IN
    /\ e \in silenced <=> SamplesOf(b, ch) = {}
    /\ rms[e] = (IF SamplesOf(b, ch) = {} THEN "nan" ELSE "root")

(* The coefficients that the waveform was mixed down with are those of its own layout:
   every track that the process mixed down before it had as many channels. *)
OwnCoefficients == shouldDownmix => mixLayout = channels

(* All samples of bucket b. *)
BucketSamples(b) == UNION { SamplesOf(b, ch) : ch \in 0..(channels - 1) }

(* The stored waveform: each channel of each bucket holds the samples of that channel
   and bucket, or, if it was mixed down, those of all channels, although the mix of a
   bucket overwrites entries of the list it is read from.  This takes the track's own
   coefficients: with those of a track that was mixed down earlier it does not hold,
   see MixedFromAllChannels. *)
ResultExact ==
  pc = "done" =>
    /\ Len(result) = IF shouldDownmix THEN 1 ELSE channels
    /\ OwnCoefficients =>
         \A c \in DOMAIN result, b \in 1..BucketCount :
           result[c][b] = IF shouldDownmix THEN BucketSamples(b - 1)
                                           ELSE SamplesOf(b - 1, c - 1)

(* The layouts in get_downmix_coefficients, "{ left , right }" for two channels, and
   the setting "Store analysed tracks in mono": a track mixed down has something of
   each of its channels, whatever was analysed before it. *)
MixedFromAllChannels ==
  pc = "done" /\ shouldDownmix => \A b \in 1..BucketCount : result[1][b] = BucketSamples(b - 1)

(* How far the analysis is: what was rendered, consumed and finalized, with a weight
   for rendering because a chunk must be consumed before the next one. *)
Advance ==
  2 * generated + processed + bucket
    + (IF pc = "consume" THEN 0 ELSE IF pc = "slice" THEN 1 ELSE 2)
MostAdvance == 2 * (sampleCount + MaxChunk) + sampleCount + BucketCount + 2

(* Whatever the worker does brings it nearer to the end, which lies at most
   MostAdvance away: no call renders nothing, no turn of the loop of consume_input
   neither takes a frame nor closes a bucket, and rendering stops with the last
   frame the tags promise.  So the analysis cannot go on for ever. *)
WorkAdvances == [][Work => Advance < Advance' /\ Advance' <= MostAdvance]_vars

(* However the decoder cuts the track into chunks, and whether it ends early or
   late, the analysis comes to an end. *)
AnalysisEnds == <>(pc \in {"done", "failed", "aborted"})
=============================================================================
