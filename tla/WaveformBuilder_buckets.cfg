\* Tracks shorter and longer than the bucket count, mono and stereo.
SPECIFICATION FairSpec
CONSTANTS
  BucketCount = 3
  SampleCounts = {1, 2, 3, 4, 5, 6, 7}
  ChannelCounts = {1, 2}
  MaxChunk = 3
  SilenceFrames = 2
INVARIANTS TypeOK EverySampleCounted NoSentinelLeft ResultExact
PROPERTIES WorkAdvances AnalysisEnds
