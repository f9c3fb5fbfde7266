------------------------------ MODULE FileTree ------------------------------
(***************************************************************************)
(* The files a compilation can see, and what an `import' names.            *)
(*                                                                         *)
(* A Path is an absolute path string of a regular file, exactly as the     *)
(* program builds it (no normalisation: two spellings of one file are two  *)
(* Paths), a Folder an absolute path of a directory.  A Name is the        *)
(* identifier path of an import statement joined by "/" ("Lexer/Token").   *)
(* The file tree does not change while the compiler runs.                  *)
(***************************************************************************)
EXTENDS Integers, Sequences

CONSTANTS
  Path,        \* paths of regular files
  Folder,      \* paths of directories
  Name,        \* what an import statement may name
  NIL,         \* nullptr / "no such thing"
  Cwd,         \* Driver::cwd, the folder the compiler was started in
  FolderOf,    \* the folder of a file, GetFolderOfFile(path)
  Up,          \* GetFolderOfFile(folder): the parent; "" is its own parent
  FireAt,      \* FireAt[d][n]: the regular file d/n.fire, or NIL
  DirAt,       \* DirAt[d][n]:  the directory d/n, or NIL
  PlainAt,     \* PlainAt[d][n]: d/n itself exists and is a regular file
  Entries,     \* the entries of a directory, as directory_iterator finds them
  Unreadable   \* files std::ifstream cannot open

ASSUME TreeAssumption ==
  /\ NIL \notin Path \cup Folder \cup Name
  /\ Path \cap Folder = {}
  /\ Cwd \in Folder
  /\ FolderOf \in [Path -> Folder]
  /\ Up \in [Folder -> Folder]
  /\ FireAt \in [Folder -> [Name -> Path \cup {NIL}]]
  /\ DirAt \in [Folder -> [Name -> Folder \cup {NIL}]]
  /\ PlainAt \in [Folder -> [Name -> BOOLEAN]]
  /\ Entries \in [Folder -> SUBSET (Path \cup Folder)]
  /\ Unreadable \subseteq Path
-----------------------------------------------------------------------------
(***************************************************************************)
(* Reference definitions, used by the properties and by no action.         *)
(***************************************************************************)

\* The least subset of U that contains S and is closed under Next[_].
Least(U, S, Next) ==
  {x \in U : \A C \in SUBSET U :
      (S \subseteq C /\ \A y \in C : Next[y] \subseteq C) => x \in C}

\* What lies below directory d, and the regular files among it.
Below(d) ==
  Least(Path \cup Folder, Entries[d],
        [e \in Path \cup Folder |-> IF e \in Folder THEN Entries[e] ELSE {}])

FilesBelow(d) == Below(d) \cap Path

\* The folders a search that starts in d looks at, after d itself: its
\* parents up to and including Cwd.
Above(d) ==
  LET step == [e \in Folder |-> IF e = Cwd THEN {} ELSE {Up[e]}]
  IN  Least(Folder, step[d], step)

\* A folder is not above itself, unless it is its own parent: taking the last
\* part off a path makes the path shorter.
ASSUME FoldersAssumption == \A d \in Folder : d \in Above(d) => Up[d] = d

\* The parents of d in which a search for n stops.
Hits(d, n) == {e \in Above(d) : FireAt[e][n] # NIL \/ DirAt[e][n] # NIL}

\* The first of them.
Nearest(d, n) == CHOOSE e \in Hits(d, n) : Hits(d, n) \subseteq {e} \cup Above(e)

\* The file of d that n names beside the importing file.
Beside(d, n) ==
  IF DirAt[d][n] = NIL /\ ~PlainAt[d][n] /\ FireAt[d][n] # NIL
  THEN {FireAt[d][n]} ELSE {}

\* The directory whose files an import of n from folder d brings in.
Directories(d, n) ==
  IF DirAt[d][n] # NIL THEN {DirAt[d][n]}
  ELSE IF PlainAt[d][n] \/ FireAt[d][n] # NIL \/ Hits(d, n) = {} THEN {}
  ELSE LET e == Nearest(d, n)
       IN  IF FireAt[e][n] # NIL THEN {} ELSE {DirAt[e][n]}

\* What importing n from folder d brings in, according to the code.
Targets(d, n) == Beside(d, n) \cup UNION {FilesBelow(f) : f \in Directories(d, n)}

\* The file that the search through the parent folders finds, if it finds one.
FoundAbove(d, n) ==
  IF DirAt[d][n] # NIL \/ PlainAt[d][n] \/ FireAt[d][n] # NIL \/ Hits(d, n) = {}
  THEN {}
  ELSE {FireAt[Nearest(d, n)][n]} \ {NIL}
=============================================================================
