SPECIFICATION Spec
CONSTANTS
  Name = {a, b}
  NoName = none
  Text = {t, u}
  MaxNodes = 2
  MaxParams = 2
  MaxStms = 2
INVARIANTS
  TypeOK
  ScopeDiscipline
  LiteralsNumberedOnce
  OutputComplete
  SearchPassesOnlyMisses
PROPERTY
  ImplementsLexicalScope
