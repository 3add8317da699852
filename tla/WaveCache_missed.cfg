SPECIFICATION FairSpec
CONSTANTS
  Location = {a}
  Forbidden = {}
  Worker = {w1}
  Slices = 1
  CheckLibrary = FALSE
  MaxQueries = 1
  MaxRuns = 1
PROPERTIES
  QuitFlushesJobs
