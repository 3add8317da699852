\* One track, the main thread alone.
SPECIFICATION Spec
CONSTANTS
  Location = {l1}
  Main = main
  Worker = {}
  MaxFid = 2
INVARIANT CorruptIsUseless
