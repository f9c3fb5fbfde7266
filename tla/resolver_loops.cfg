SPECIFICATION Spec
CONSTANTS
  NIL = NIL
  Node <- MCNode
  Ident <- MCIdent
  Programs <- MCPrograms
INVARIANTS
  LoopBodiesSeeLocals
CHECK_DEADLOCK FALSE
