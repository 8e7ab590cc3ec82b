SPECIFICATION FairCompilerSpec
CONSTANTS
  Name = {a, b}
  NoName = none
  Text = {t, u}
  Junk = junk
  MaxNodes = 3
  MaxParams = 0
  MaxStms = 2
INVARIANTS
  SectionsRight
  EveryItemListed
PROPERTY
  MainEnds
