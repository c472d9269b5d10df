CONSTANTS
  CONSBUFSIZE = 4
  Chars = {a, b}
  NUL = NUL
  None = None
  Mouse = Mouse
  KeyBytes = {a, b, NUL, Mouse}
  Polls = 2
  TypeAhead = 3
  MaxSent = 5
SPECIFICATION Spec
INVARIANTS
  SerialKeepsUp
PROPERTIES
  ImplementsQueue
  KeysTaken
  CharsReturned
