SPECIFICATION MCSpec
CONSTANTS
  Char = {"*", "/", "quote", "eol", "tick", "backslash", "n", "0"}
  MaxInput = 7
  MaxString = 3
INVARIANTS
  StackDiscipline
  CountsEveryDelimiter
  LocIsPosition
  FirstStringIsItsText
  OverrunNeedsText
PROPERTY
  Terminates
