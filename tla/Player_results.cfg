\* Three tracks, one of them forbidden, and one window.
SPECIFICATION FairSpec
CONSTANTS
  Location = {l1, l2, l3}
  Forbidden = {l3}
  Window = {win}
  NoTrack = NoTrack
  Null = Null
  Placeholder = Placeholder
  MaxQueries = 2
  MaxPosted = 2
PROPERTIES LateResultIgnored WindowGetsAnswer
