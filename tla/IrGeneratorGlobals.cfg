SPECIFICATION Spec
CONSTANTS
  Name = {a, b}
  NoName = none
  Text = {t}
  MaxNodes = 2
  MaxParams = 1
  MaxStms = 1
PROPERTY
  DeclaredGlobalsResolve
