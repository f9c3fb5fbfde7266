SPECIFICATION CheckSpec
CONSTANTS
  NIL = NIL
  Node <- MCNode
  Ident <- MCIdent
  Programs <- MCPrograms
INVARIANTS
  AcceptedIsWellTyped
  CrashesAreKnown
CHECK_DEADLOCK FALSE
