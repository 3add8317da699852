SPECIFICATION Spec
CONSTANTS
  Location = {a, b}
  Forbidden = {b}
  Worker = {w1, w2}
  Slices = 1
  CheckLibrary = FALSE
  MaxQueries = 2
  MaxRuns = 2
SYMMETRY WorkerSymmetry
INVARIANTS
  TypeOK
  EveryQueryInOnePlace
  StoreOutlivesUsers
  StateBelongsToQuery
  NoOrphanWave
  NoRequestForgotten
  QueuedJobsSaved
PROPERTIES
  ServedInOrder
  SavedJobNotForgotten
  LedgerSpec
