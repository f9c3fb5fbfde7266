------------------------------ MODULE Imports -------------------------------
(***************************************************************************)
(* Loading a program: class SourceFile with its registry all_sources, and  *)
(* the part of class Parser that reads import statements and splices the   *)
(* imported modules (ps_mod, ps_import, ps_do_import, parse).              *)
(*                                                                         *)
(* A SourceFile object is its index in `sources', in order of creation;    *)
(* 0 is the null pointer.  The C++ call stack of nested SourceFile::parse  *)
(* calls is `stack'.  A module's items are abstracted to the sequence of   *)
(* the objects that contributed them: object o stands for the block of     *)
(* o's own items, in the order those items have within every item kind.    *)
(***************************************************************************)
EXTENDS FileTree

CONSTANTS
  DepthLimit,  \* 4 in Parser::ps_do_import
  Programs     \* the program texts considered

\* An import statement names a Name, or is one of two ill-formed ones:
\* `import a::*', which the parser does not implement and exits on, and a
\* statement that is no import at all, on which expect() throws.
Statement == Name \cup {"star", "malformed"}

\* What goes wrong in a file apart from its imports: its tokens ("lex" throws,
\* "exit" is the lexer's todo), or its items ("item", any syntax error, an
\* import among the items, or two functions main in one file).
Fault == {"none", "lex", "exit", "item"}

\* The text of a file, as far as loading depends on it.
Text == [imports : Seq(Statement),
         fault   : Fault,
         main    : {"none", "untyped", "typed"}]

Exception == {"lex_error", "parse_error", "cannot_open_file",
              "import_depth_limit_exceeded", "sema_error"}
ExitCode  == {-1, 1, 22}

ASSUME ProgramAssumption ==
  /\ Name \cap {"star", "malformed"} = {}
  /\ Programs \subseteq [Path -> Text]
  /\ DepthLimit \in Nat \ {0}
  /\ NIL \notin Seq(Nat) \cup Exception \cup ExitCode

VARIABLES
  program,     \* the text of every file
  sources,     \* every SourceFile object, in order of creation
  allSources,  \* the registry: path -> object
  stack,       \* the parses under way, the innermost last
  climb,       \* the folder ps_import's search has reached, or NIL
  dirs,        \* directory_iterators under way in import_directory
  thrown,      \* the exception in flight, or NIL
  exitCode     \* what the process exited with, or NIL

importVars ==
  <<program, sources, allSources, stack, climb, dirs, thrown, exitCode>>

Obj == 1 .. Len(sources)

SourceFile == [path : Path, parent : Nat, imports : Seq(Nat),
               isNodeImported : BOOLEAN, parsedMod : Seq(Nat) \cup {NIL}]

\* One activation of Parser::ps_mod: the statements processed so far, how many
\* of source.imports have been spliced, and the items of the module so far.
Frame == [src : Nat, stmt : Nat, next : Nat, items : Seq(Nat)]

\* Mutants of NewSource: a member without its initialiser, a parent not set.
NewSourceUninitialised(p, par) ==
  [path |-> p, parent |-> par, imports |-> <<>>,
   isNodeImported |-> NIL, parsedMod |-> NIL]
NewSourceOrphan(p, par) ==
  [path |-> p, parent |-> 0, imports |-> <<>>,
   isNodeImported |-> FALSE, parsedMod |-> NIL]

NewSource(p, par) ==
  [path |-> p, parent |-> par, imports |-> <<>>,
   isNodeImported |-> FALSE, parsedMod |-> NIL]

NewFrame(o) == [src |-> o, stmt |-> 0, next |-> 0, items |-> <<>>]

ImportsInit ==
  /\ program \in Programs
  /\ sources = <<>>
  /\ allSources = [p \in Path |-> 0]
  /\ stack = <<>>
  /\ climb = NIL
  /\ dirs = <<>>
  /\ thrown = NIL
  /\ exitCode = NIL
-----------------------------------------------------------------------------
Top   == stack[Len(stack)]
Me    == sources[Top.src]
Stmts == program[Me.path].imports
Here  == FolderOf[Me.path]
Named == Stmts[Top.stmt + 1]

\* SourceFile::get_depth: how many importers lie between o and an input.
Depth(o) ==
  LET d[q \in Obj] == IF sources[q].parent = 0 THEN 0 ELSE d[sources[q].parent] + 1
  IN  d[o]

Throw(e) == thrown' = e
Exit(c)  == exitCode' = c

Pop(s) == SubSeq(s, 1, Len(s) - 1)

\* The import statement is over: the parser reads on.
NextStatement == stack' = [stack EXCEPT ![Len(stack)].stmt = @ + 1]

\* The parser of the innermost module runs: nothing is in flight and no
\* import statement is half done.
Running == /\ exitCode = NIL
           /\ thrown = NIL
           /\ stack # <<>>
           /\ climb = NIL
           /\ dirs = <<>>

AtImport(n) == Running /\ Top.stmt < Len(Stmts) /\ n = Named

\* Mutant of Known: the registry is not asked.
KnownNever(p) == FALSE

\* SourceFile::import by the innermost parse.  A registered path is answered
\* from the registry and is not added to the importer's imports; the
\* constructor exits when the file cannot be opened.
Known(p)   == allSources[p] # 0
Opening(p) == ~Known(p) /\ p \notin Unreadable

\* Mutant of Import: a registered source joins the imports as well.
ImportKnownToo(p) ==
  IF Known(p)
  THEN /\ sources' = [sources EXCEPT ![Top.src].imports = Append(@, allSources[p])]
       /\ UNCHANGED allSources
  ELSE IF Opening(p)
  THEN /\ sources' = Append([sources EXCEPT ![Top.src].imports = Append(@, Len(sources) + 1)],
                            NewSource(p, Top.src))
       /\ allSources' = [allSources EXCEPT ![p] = Len(sources) + 1]
  ELSE UNCHANGED <<sources, allSources>>

Import(p)  ==
  IF Opening(p)
  THEN /\ sources' = Append([sources EXCEPT ![Top.src].imports = Append(@, Len(sources) + 1)],
                            NewSource(p, Top.src))
       /\ allSources' = [allSources EXCEPT ![p] = Len(sources) + 1]
  ELSE UNCHANGED <<sources, allSources>>
Unopened(p) == ~Known(p) /\ p \in Unreadable

\* Mutant of ImportDepth: off by one.
ImportDepthOfImporter(p) ==
  IF Known(p) THEN Depth(allSources[p]) ELSE Depth(Top.src)

\* The depth of the object that import answers with.
ImportDepth(p) == IF Known(p) THEN Depth(allSources[p]) ELSE Depth(Top.src) + 1
-----------------------------------------------------------------------------
\* import n; where n.fire lies beside the importing file.  The depth is
\* checked after the file has been registered and added to the imports.
ImportFile(n) ==
  /\ AtImport(n)
  /\ n \in Name
  /\ LET p == FireAt[Here][n] IN
     /\ DirAt[Here][n] = NIL /\ ~PlainAt[Here][n] /\ p # NIL
     /\ Import(p)
     /\ IF Unopened(p)
        THEN Exit(1) /\ UNCHANGED <<stack, thrown>>
        ELSE /\ UNCHANGED exitCode
             /\ IF ImportDepth(p) >= DepthLimit
                THEN Throw("import_depth_limit_exceeded") /\ UNCHANGED stack
                ELSE NextStatement /\ UNCHANGED thrown
  /\ UNCHANGED <<program, climb, dirs>>

\* import n; where n is a directory: its files are imported one by one.
ImportDirectory(n) ==
  /\ AtImport(n)
  /\ n \in Name
  /\ DirAt[Here][n] # NIL
  /\ dirs' = <<Entries[DirAt[Here][n]]>>
  /\ UNCHANGED <<program, sources, allSources, stack, climb, thrown, exitCode>>

\* import n; where n itself exists and is no directory: nothing is imported.
ImportPlain(n) ==
  /\ AtImport(n)
  /\ n \in Name
  /\ DirAt[Here][n] = NIL /\ PlainAt[Here][n]
  /\ NextStatement
  /\ UNCHANGED <<program, sources, allSources, climb, dirs, thrown, exitCode>>

\* import n; with nothing of that name beside the file: cannot_open_file is
\* caught, and the search through the parent folders begins.
ImportMissing(n) ==
  /\ AtImport(n)
  /\ n \in Name
  /\ DirAt[Here][n] = NIL /\ ~PlainAt[Here][n] /\ FireAt[Here][n] = NIL
  /\ climb' = Here
  /\ UNCHANGED <<program, sources, allSources, stack, dirs, thrown, exitCode>>

\* import a::*; is the parser's todo; any other malformed one throws.
ImportIllFormed(n) ==
  /\ AtImport(n)
  /\ n \notin Name
  /\ IF n = "star" THEN Exit(22) /\ UNCHANGED thrown
                   ELSE Throw("parse_error") /\ UNCHANGED exitCode
  /\ UNCHANGED <<program, sources, allSources, stack, climb, dirs>>

\* Mutants of Climb: the loop gives up one folder early, or never.
ClimbShort ==
  /\ exitCode = NIL /\ climb # NIL
  /\ IF Cwd \in {climb, Up[climb]}
     THEN Throw("cannot_open_file") /\ climb' = NIL /\ UNCHANGED <<stack, dirs>>
     ELSE climb' = Up[climb] /\ UNCHANGED <<thrown, stack, dirs>>
  /\ UNCHANGED <<program, sources, allSources, exitCode>>

ClimbOn ==
  /\ exitCode = NIL /\ climb # NIL
  /\ climb' = Up[climb]
  /\ UNCHANGED <<program, sources, allSources, stack, dirs, thrown, exitCode>>

\* One turn of the search loop.  The loop gives up in the folder the compiler
\* was started in.  A file found by it goes back to ps_do_import with its
\* extension on, where it exists and is no directory: nothing is imported.
Climb ==
  /\ exitCode = NIL /\ climb # NIL
  /\ IF climb = Cwd
     THEN Throw("cannot_open_file") /\ climb' = NIL /\ UNCHANGED <<stack, dirs>>
     ELSE LET up == Up[climb] IN
          /\ UNCHANGED thrown
          /\ IF FireAt[up][Named] # NIL
             THEN climb' = NIL /\ NextStatement /\ UNCHANGED dirs
             ELSE IF DirAt[up][Named] # NIL
             THEN climb' = NIL /\ dirs' = <<Entries[DirAt[up][Named]]>> /\ UNCHANGED stack
             ELSE climb' = up /\ UNCHANGED <<stack, dirs>>
  /\ UNCHANGED <<program, sources, allSources, exitCode>>

\* Mutant of DirectoryEntry: subdirectories are skipped.
DirectoryEntryFlat(e) ==
  /\ exitCode = NIL /\ dirs # <<>>
  /\ e \in dirs[Len(dirs)]
  /\ dirs' = [dirs EXCEPT ![Len(dirs)] = @ \ {e}]
  /\ IF e \in Folder
     THEN UNCHANGED <<sources, allSources, exitCode>>
     ELSE Import(e) /\ IF Unopened(e) THEN Exit(1) ELSE UNCHANGED exitCode
  /\ UNCHANGED <<program, stack, climb, thrown>>

\* One entry of the directory being imported, in the order the file system
\* happens to list them; a subdirectory is gone through before the rest.
DirectoryEntry(e) ==
  LET rest == [dirs EXCEPT ![Len(dirs)] = @ \ {e}] IN
  /\ exitCode = NIL /\ dirs # <<>>
  /\ e \in dirs[Len(dirs)]
  /\ IF e \in Folder
     THEN /\ dirs' = Append(rest, Entries[e])
          /\ UNCHANGED <<sources, allSources, exitCode>>
     ELSE /\ dirs' = rest
          /\ Import(e)
          /\ IF Unopened(e) THEN Exit(1) ELSE UNCHANGED exitCode
  /\ UNCHANGED <<program, stack, climb, thrown>>

DirectoryDone ==
  /\ exitCode = NIL /\ dirs # <<>> /\ dirs[Len(dirs)] = {}
  /\ dirs' = Pop(dirs)
  /\ IF Len(dirs) = 1 THEN NextStatement ELSE UNCHANGED stack
  /\ UNCHANGED <<program, sources, allSources, climb, thrown, exitCode>>
-----------------------------------------------------------------------------
\* All import statements have been read: source.imports is gone through.
AtSplice == Running /\ Top.stmt = Len(Stmts)

\* SourceFile::parse (with its lex) of object o is called: its frame, or the
\* lexer's failure.
CallParse(o) ==
  LET fault == program[sources[o].path].fault IN
  IF fault = "lex" THEN Throw("lex_error") /\ UNCHANGED <<stack, exitCode>>
  ELSE IF fault = "exit" THEN Exit(22) /\ UNCHANGED <<stack, thrown>>
  ELSE stack' = Append(stack, NewFrame(o)) /\ UNCHANGED <<thrown, exitCode>>

\* A submodule's items have been appended to the module of frame f.
Spliced(f, items) == [f EXCEPT !.next = @ + 1, !.items = @ \o items]

\* Mutant of SpliceNext: a module is cached before it is parsed.
SpliceNextCachesEarly ==
  /\ AtSplice
  /\ Top.next < Len(Me.imports)
  /\ LET o == Me.imports[Top.next + 1] IN
     IF sources[o].isNodeImported
     THEN /\ stack' = [stack EXCEPT ![Len(stack)].next = @ + 1]
          /\ UNCHANGED <<sources, thrown, exitCode>>
     ELSE CallParse(o) /\ sources' = [sources EXCEPT ![o].parsedMod = <<>>]
  /\ UNCHANGED <<program, allSources, climb, dirs>>

\* The next imported source: skipped when its node is imported already, its
\* cached module spliced when it has one, parsed otherwise.
SpliceNext ==
  /\ AtSplice
  /\ Top.next < Len(Me.imports)
  /\ LET o == Me.imports[Top.next + 1] IN
     IF sources[o].isNodeImported
     THEN /\ stack' = [stack EXCEPT ![Len(stack)].next = @ + 1]
          /\ UNCHANGED <<sources, thrown, exitCode>>
     ELSE IF sources[o].parsedMod # NIL
     THEN /\ stack' = [stack EXCEPT ![Len(stack)] = Spliced(@, sources[o].parsedMod)]
          /\ sources' = [sources EXCEPT ![o].isNodeImported = TRUE]
          /\ UNCHANGED <<thrown, exitCode>>
     ELSE CallParse(o) /\ UNCHANGED sources
  /\ UNCHANGED <<program, allSources, climb, dirs>>

\* The module's own items, and the return from SourceFile::parse: the module
\* is cached, and a waiting importer splices it and marks the node imported.
ReadItems ==
  /\ AtSplice
  /\ Top.next = Len(Me.imports)
  /\ IF program[Me.path].fault = "item"
     THEN Throw("parse_error") /\ UNCHANGED <<sources, stack>>
     ELSE LET o     == Top.src
              items == Append(Top.items, o)
              below == Len(stack) - 1
          IN  /\ UNCHANGED thrown
              /\ sources' = [sources EXCEPT ![o].parsedMod = items,
                                            ![o].isNodeImported = @ \/ below > 0]
              /\ stack' = IF below = 0 THEN <<>>
                          ELSE [Pop(stack) EXCEPT ![below] = Spliced(@, items)]
  /\ UNCHANGED <<program, allSources, climb, dirs, exitCode>>

ImportsNext ==
  \/ \E n \in Statement : \/ ImportFile(n)
                          \/ ImportDirectory(n)
                          \/ ImportPlain(n)
                          \/ ImportMissing(n)
                          \/ ImportIllFormed(n)
  \/ Climb
  \/ \E e \in Path \cup Folder : DirectoryEntry(e)
  \/ DirectoryDone
  \/ SpliceNext
  \/ ReadItems
=============================================================================
