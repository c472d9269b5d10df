CONSTANTS
  CRT_COLS = 3
  CRT_ROWS = 4
  BS = "bs"
  NL = "nl"
  CR = "cr"
  TAB = "tab"
  DEL = "del"
  Blank = " "
  BUFLEN = 5
  Prompt <- MCPrompt
  Printable <- MCPrintable
  Control = {"esc"}
  Commands <- MCCommands
  Output <- MCOutput
  PowerOff = 3
SPECIFICATION Spec
INVARIANTS
  CursorOnScreen
  EchoShowsLine
PROPERTIES
  NamedCommandRuns
CHECK_DEADLOCK FALSE
