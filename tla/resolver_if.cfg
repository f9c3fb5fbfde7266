SPECIFICATION Spec
CONSTANTS
  NIL = NIL
  Node <- MCNode
  Ident <- MCIdent
  Programs <- MCPrograms
INVARIANTS
  IfVariablesHaveSymbols
CHECK_DEADLOCK FALSE
