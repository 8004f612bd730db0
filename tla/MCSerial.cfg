CONSTANTS
  Sets <- MCSets
  Keys <- MCKeys
  Longs = {32, 64}
  Wrap <- MCWrap
SPECIFICATION Spec
INVARIANTS
  SizesRecorded
  LoadsItsOwn
PROPERTIES
  LoadEnds
