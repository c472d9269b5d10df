CONSTANTS
  Keys <- MCKeys
  MaxBytes = 3
SPECIFICATION KbdSpec
INVARIANTS
  NoStuckModifier
PROPERTIES
  ResetOnlyByThreeKeys
CHECK_DEADLOCK FALSE
