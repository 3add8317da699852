\* Two effects besides the default, one source that does not compile.
SPECIFICATION Spec
CONSTANTS
  Good = {default, g1, g2}
  Bad = {b1}
  Default = default
  Empty = empty
  Null = null
INVARIANT ReadyUnlessLost
PROPERTY AppliedIsDrawn
