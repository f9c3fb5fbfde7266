-------------------------- MODULE DriverProperties --------------------------
(***************************************************************************)
(* What loading a program must guarantee: properties of module Driver.     *)
(***************************************************************************)
EXTENDS Driver, Lists

\* The modules being built and the modules that are finished.
OpenModules == {stack[k].items : k \in 1 .. Len(stack)}
Modules     == {sources[o].parsedMod : o \in Obj} \ {NIL}

\* SourceFile::import and the registry: importers form a forest in order of
\* creation, a source is in the imports of nobody but its own importer, and
\* there once; the registry answers with the last object made for a path.
Forest ==
  /\ \A o \in Obj : sources[o].parent < o
  /\ \A o \in Obj :
        /\ NoRepeat(sources[o].imports)
        /\ Listed(sources[o].imports) = {q \in Obj : sources[q].parent = o}
  /\ \A p \in Path :
        /\ allSources[p] \in Obj \cup {0}
        /\ Known(p) => sources[allSources[p]].path = p
        /\ \A o \in Obj : sources[o].path = p => o <= allSources[p]

\* SourceFile::parse is never entered for a source whose parse is under way,
\* whatever cycles the imports have: every parse under way was started by its
\* importer, which is waiting for exactly that source.
NoReentrantParse ==
  /\ \A k, l \in 1 .. Len(stack) : stack[k].src = stack[l].src => k = l
  /\ \A k \in 1 .. Len(stack) - 1 :
        LET f == stack[k] IN
        /\ f.next < Len(sources[f.src].imports)
        /\ sources[f.src].imports[f.next + 1] = stack[k + 1].src

\* Diamonds, cycles, several inputs and what a failed input left behind: the
\* items of a file get into a module at most once, and no two modules still
\* being built share a source.
MergedOnce ==
  /\ \A m \in OpenModules \cup Modules :
        NoRepeat([i \in 1 .. Len(m) |-> sources[m[i]].path])
  /\ \A k, l \in 1 .. Len(stack) :
        k # l => Listed(stack[k].items) \cap Listed(stack[l].items) = {}

\* What the import loop of ps_mod finds next has never been parsed: neither
\* is_node_imported nor a cached module ever cuts a module short.
NextImportIsFresh ==
  stack # <<>> /\ Top.next < Len(Me.imports) =>
    LET q == sources[Me.imports[Top.next + 1]]
    IN  q.parsedMod = NIL /\ ~q.isNodeImported /\ q.imports = <<>>

\* ps_mod iterates over source.imports by reference while submodules are
\* parsed, and those import in their turn: nothing may grow that vector.
ImportsFrozenWhileSpliced ==
  [][\A k \in 1 .. Len(stack) :
       LET f == stack[k] IN
       f.stmt = Len(program[sources[f.src].path].imports)
         => sources'[f.src].imports = sources[f.src].imports]_vars

\* parsed_mod is assigned at most once, and only by the parse of that source.
ParsedOnce ==
  [][\A o \in Obj : sources'[o].parsedMod # sources[o].parsedMod
        => sources[o].parsedMod = NIL /\ stack # <<>> /\ Top.src = o]_vars
-----------------------------------------------------------------------------
(***************************************************************************)
(* Completeness.  ReachFrom(p, avoid): the files an input p is made of when *)
(* the files `avoid' are loaded already on behalf of others.               *)
(***************************************************************************)
TargetsOf == [p \in Path |-> [n \in Name |-> Targets(FolderOf[p], n)]]

ImportedBy == [p \in Path |->
  UNION {TargetsOf[p][program[p].imports[i]] :
         i \in {j \in 1 .. Len(program[p].imports) : program[p].imports[j] \in Name}}]

ReachFrom(p, avoid) ==
  Least(Path, {p}, [x \in Path |-> ImportedBy[x] \ avoid])

\* The objects created on behalf of object r, itself included.
Tree(r) == Least(Obj, {r}, [x \in Obj |-> {q \in Obj : sources[q].parent = x}])

\* When an input has been parsed, its module holds the items of every file its
\* imports lead to, and of no other, except the files that were loaded on
\* behalf of another input: those are missing from it.
Complete ==
  \A i \in 1 .. Len(inputs) :
    LET r       == inputs[i]
        foreign == {sources[o].path : o \in Obj \ Tree(r)}
    IN  sources[r].parsedMod # NIL =>
          {sources[o].path : o \in Listed(sources[r].parsedMod)}
            = ReachFrom(sources[r].path, foreign)

\* Object o is a file of a directory its importer imports.
CameWithDirectory(o) ==
  LET p == sources[sources[o].parent].path IN
  \E i \in 1 .. Len(program[p].imports) :
    /\ program[p].imports[i] \in Name
    /\ \E d \in Directories(FolderOf[p], program[p].imports[i]) :
          sources[o].path \in FilesBelow(d)

\* The depth limit of ps_do_import: a file that deep is parsed only when it
\* came in with a directory, where the depth is not looked at.
DepthLimited ==
  \A o \in Obj :
    /\ Depth(o) >= DepthLimit
    /\ sources[o].parsedMod # NIL \/ \E k \in 1 .. Len(stack) : stack[k].src = o
    => CameWithDirectory(o)

\* An import fails with cannot_open_file only if there is nothing of that
\* name beside the importing file nor in any of its parent folders up to the
\* one the compiler was started in.
CannotOpenIsReal ==
  thrown = "cannot_open_file" =>
    /\ ~PlainAt[Here][Named]
    /\ Targets(Here, Named) = {} /\ Directories(Here, Named) = {}
    /\ FoundAbove(Here, Named) = {}

\* A file that the search through the parent folders has found is registered
\* once the import statement is over.  (It is not: see the findings.)
FoundIsImported ==
  \A k \in 1 .. Len(stack) :
    LET p == sources[stack[k].src].path IN
    \A i \in 1 .. stack[k].stmt :
      \A t \in FoundAbove(FolderOf[p], program[p].imports[i]) : Known(t)

\* Unless some input lies outside the folder the compiler was started in, the
\* driver exits.  Otherwise it exits too, or the search for an import goes
\* round in the root folder for ever.
Exits ==
  \/ <>(exitCode # NIL)
  \/ <>[](climb # NIL /\ climb # Cwd /\ Up[climb] = climb /\ Cwd \notin Above(Here))
=============================================================================
