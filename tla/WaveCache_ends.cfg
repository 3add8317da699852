SPECIFICATION FairSpec
CONSTANTS
  Location = {a}
  Forbidden = {}
  Worker = {w1, w2}
  Slices = 1
  CheckLibrary = TRUE
  MaxQueries = 2
  MaxRuns = 1
PROPERTIES
  QuitHangsOnlyOnMissedWakeup
  AcceptedIsSettled
