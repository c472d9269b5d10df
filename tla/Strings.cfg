CONSTANTS
  Size = 5
  Bytes = {0, 1, 2, 200}
  Fills = {0, 200, 257}
  NULL = NULL
SPECIFICATION StringsSpec
INVARIANTS
  ComparesTexts
PROPERTIES
  WritesInPlace
CHECK_DEADLOCK FALSE
