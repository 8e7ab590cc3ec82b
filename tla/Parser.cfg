SPECIFICATION FairSpec
CONSTANTS
  Prologues <- MCPrologues
  MaxTokens = 5
INVARIANTS
  TypeOK
  OwnedOnce
  NamesInOrder
  ElseBindsNearest
  TreeForBuildIr
PROPERTIES
  ErrorsKeepTheBody
  Terminates
