SPECIFICATION Spec
CONSTANTS
  Inputs <- MCInputs
  Punctuators <- MCPunctuators
  Literals <- MCLiterals
  IntLiterals <- MCIntLiterals
  BadChars <- MCBadChars
INVARIANTS
  ComparisonsAsCommented
CHECK_DEADLOCK FALSE
