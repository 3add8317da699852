\* Two tracks, the main thread and one worker.
SPECIFICATION Spec
CONSTANTS
  Location = {l1, l2}
  Main = main
  Worker = {w1}
  MaxFid = 4
INVARIANTS TypeOK WaveOfItsTrack
PROPERTIES LossOnlyByRemovalStaleGetOrWideRow GetLeavesReadable TrackStoreSpec
