SPECIFICATION Spec
CONSTANTS
  BinOp = {"-", "*", "||"}
  Prefix = {"-", "!"}
  MaxTokens = 7
INVARIANTS
  TypeOK
  AcceptsExpressions
  TreeFollowsPrecedence
  StackOwnsItsNodes
