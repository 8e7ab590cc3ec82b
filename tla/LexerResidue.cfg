SPECIFICATION Spec
CONSTANTS
  Char = {"quote", "n"}
  MaxInput = 7
  MaxString = 4
INVARIANT
  StringIsItsText
