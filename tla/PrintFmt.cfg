CONSTANTS
  Calls <- MCCalls
  WordSize = 256
  Names <- MCNames
  NULL = NULL
SPECIFICATION Spec
INVARIANTS
  BufferBounded
  NumberReadBack
PROPERTIES
  PrintEnds
CHECK_DEADLOCK FALSE
