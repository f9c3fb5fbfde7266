SPECIFICATION FairSpec
CONSTANTS
  NIL = NIL
  Node <- MCNode
  Ident <- MCIdent
  Programs <- MCPrograms
INVARIANTS
  TypeOK
  NoUseAfterFree
  ListedOnce
  ContentsKept
  FullyMerged
  SourceOrderKept
  RestartIsIdle
PROPERTIES
  AllReturned
CHECK_DEADLOCK FALSE
