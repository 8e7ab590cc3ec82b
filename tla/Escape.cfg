SPECIFICATION EscapeSpec
CONSTANTS
  Char = {"tab", "newline", "quote", "backslash", "return", "n", "t"}
  MaxText = 5
INVARIANTS
  ReadsBack
  FillsTheRoom
