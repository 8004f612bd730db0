CONSTANTS
  f = f
  g = g
  b1 = b1
  b2 = b2
  b3 = b3
  NULL = NULL
  Files <- MCFiles
  Lengths <- MCLengths
  Handles <- MCHandles
  Strings <- MCStrings
  Calls <- MCCalls
SPECIFICATION Spec
SYMMETRY Alike
INVARIANTS
  BuffersTypeOK
  Conserved
CHECK_DEADLOCK FALSE
