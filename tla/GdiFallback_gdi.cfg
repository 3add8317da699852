SPECIFICATION Spec
CONSTANTS
  Extent = {2, 4, 5}
  Steps = 4
  None = None
INVARIANT RegionsFitTheBars
PROPERTY RepaintCoversChanges
