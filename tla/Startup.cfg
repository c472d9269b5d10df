CONSTANTS
  SECTSIZE = 4
  HeaderAt = 8
  HeaderSize = 8
  BootAt = 4
  GdtAt = 5
  A20Bit = 32
  VideoAt = 24
  EntrySize = 64
  High = 128
  Images <- MCImages
  Old = Old
  Zero = Zero
  Used = Used
SPECIFICATION Spec
INVARIANTS
  SegmentsInPlace
  StartupRuns
  KernelAsLinked
PROPERTIES
  LoadEnds
CHECK_DEADLOCK FALSE
