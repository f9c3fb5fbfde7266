SPECIFICATION Spec
CONSTANTS
  NIL = NIL
  Node <- MCNode
  Ident <- MCIdent
  Programs <- MCPrograms
INVARIANTS
  TypeOK
  ScopesFollowSyntax
  NamesShareSymbols
PROPERTIES
  ImplementsLexicalScoping
CHECK_DEADLOCK FALSE
