CONSTANTS
  Log = 3
  Words <- MCWords
SPECIFICATION Spec
INVARIANTS
  LoopInvariant
  DividesRight
  ShiftsAndCountsRight
CHECK_DEADLOCK FALSE
