\* Whole frames and buckets of one length: what matters is the track mixed down before.
SPECIFICATION Spec
CONSTANTS
  BucketCount = 2
  SampleCounts = {2, 3}
  ChannelCounts = {1, 2}
  MaxChunk = 2
  SilenceFrames = 2
INVARIANT MixedFromAllChannels
