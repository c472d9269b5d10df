CONSTANTS
  Entries = 16
  KernelPDX = 14
  StackPages = 1
  MaxFrame = 32
  EntryDir = 6
  EntryTable = 5
  Nvram <- MCNvram
  PageKB = 4
  ExtKB = 20
  Ext16KB = 64
  Ext16Unit = 8
  PageBytes = 64
  EntrySize = 8
  KernelFirst = 5
  EndBss = 488
  NULL = NULL
SPECIFICATION Spec
INVARIANTS
  MemoryStaysMapped
CHECK_DEADLOCK FALSE
