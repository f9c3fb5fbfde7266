SPECIFICATION Spec
CONSTANTS
  Inputs <- MCInputs
  Punctuators <- MCPunctuators
  Literals <- MCLiterals
  IntLiterals <- MCIntLiterals
  BadChars <- MCBadChars
INVARIANTS
  TypeOK
  OperatorsBindByStrength
  TypeArgumentsWherePossible
  BothHalvesUsed
  OnlyLastClassUnclosed
CHECK_DEADLOCK FALSE
