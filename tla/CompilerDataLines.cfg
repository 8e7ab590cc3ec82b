SPECIFICATION CompilerSpec
CONSTANTS
  Name = {a}
  NoName = none
  Text = {t, u}
  Junk = junk
  MaxNodes = 1
  MaxParams = 0
  MaxStms = 2
INVARIANT
  OneDefinitionInALine
