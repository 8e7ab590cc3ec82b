SPECIFICATION Spec
CONSTANTS
  Name = {a, b}
  MaxScopes = 4
  MaxSymbols = 3
INVARIANTS
  ChildrenInvertParents
  FreesEveryScopeOnce
  LookupIsInnermost
PROPERTIES
  SymbolsStay
  ImplementsFrameStack
