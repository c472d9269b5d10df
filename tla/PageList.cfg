CONSTANTS
  pages_count = 7
  pages_basemem_count = 3
  used_count = 4
  low_count = 5
  MaxRefs = 2
  NULL = NULL
SPECIFICATION Spec
INVARIANTS
  ListInv
  FreeListWhole
  NoUseAfterFree
PROPERTIES
  StopsOnlyForCause
  ImplementsPool
CHECK_DEADLOCK FALSE
