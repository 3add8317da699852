\* Two kinds of frontend, one point outside, both hosts, the load thread.
SPECIFICATION StartupSpec
CONSTANTS
  Kind = {gdi, d2d}
  Gdi = gdi
  Bad = bad
  Point = {origin, inside, outside}
  Outside = {outside}
  Origin = origin
  Main = main
  Loader = loadthread
  Thread = {main, loadthread}
INVARIANTS StartupTypeOK TimerMatches DragFollowsPointer ListComplete
PROPERTIES FrontendFollowsSettings FrontendComes LoadEnds
