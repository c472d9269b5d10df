CONSTANTS
  pages_count = 9
  pages_basemem_count = 3
  used_count = 5
  low_count = 7
  EntrySize = 8
  MaxRefs = 2
  NULL = NULL
SPECIFICATION SetupSpec
INVARIANTS
  SplitKeepsPages
  SetupDone
CHECK_DEADLOCK FALSE
