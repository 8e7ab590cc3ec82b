SPECIFICATION Spec
CONSTANTS
  BinOp = {"-", "||"}
  Prefix = {"-"}
  MaxTokens = 4
INVARIANT TypesAreOperators
