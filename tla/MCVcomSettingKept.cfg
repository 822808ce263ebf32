SPECIFICATION Spec
CONSTANTS
  Bits = {0, 1, 2}
  AssertEnabled = TRUE
INVARIANT Persistent
