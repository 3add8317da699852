\* Two contents, two palettes, three tasks.
SPECIFICATION FairSpec
CONSTANTS
  Content = {c1, c2}
  Color = {k1, k2}
  Unset = unset
  NoBitmap = NoBitmap
  MaxIssued = 3
INVARIANTS TypeOK LatestIsCurrent
PROPERTIES DestroyEnds ShownWhilePlaying
