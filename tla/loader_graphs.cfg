SPECIFICATION Spec
CONSTANTS
  NIL = NIL
  Path <- MCPath
  Folder <- MCFolder
  Name <- MCName
  Cwd = "/w"
  FolderOf <- MCFolderOf
  Up <- MCUp
  FireAt <- MCFireAt
  DirAt <- MCDirAt
  PlainAt <- MCPlainAt
  Entries <- MCEntries
  Unreadable = {}
  DepthLimit = 4
  Programs <- MCGraphs
  ArgLists <- MCOneInput
INVARIANTS
  TypeOK
  Forest
  NoReentrantParse
  MergedOnce
  NextImportIsFresh
  Complete
  DepthLimited
PROPERTIES
  ImportsFrozenWhileSpliced
  ParsedOnce
CHECK_DEADLOCK FALSE
