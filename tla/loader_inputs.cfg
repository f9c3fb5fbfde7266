SPECIFICATION FairSpec
CONSTANTS
  NIL = NIL
  Path <- MCPath
  Folder <- MCFolder
  Name <- MCName
  Cwd = "/w"
  FolderOf <- MCFolderOf
  Up <- MCUp
  FireAt <- MCFireAt
  DirAt <- MCDirAt
  PlainAt <- MCPlainAt
  Entries <- MCEntries
  Unreadable = {"d"}
  DepthLimit = 4
  Programs <- MCTroubles
  ArgLists <- MCCommandLines
INVARIANTS
  IInv
  Complete
  CannotOpenIsReal
PROPERTIES
  Exits
CHECK_DEADLOCK FALSE
