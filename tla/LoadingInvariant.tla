--------------------------- MODULE LoadingInvariant -------------------------
(***************************************************************************)
(* What has been loaded at each moment: the inductive invariant behind the *)
(* properties of module DriverProperties that speak of what the imports of *)
(* a program mean.                                                         *)
(***************************************************************************)
EXTENDS DriverInvariant

\* Nothing of name n lies in folder d.
Absent(d, n) == ~PlainAt[d][n] /\ DirAt[d][n] = NIL /\ FireAt[d][n] = NIL

\* The search for an import has passed no folder that has what it looks for,
\* and gives up when none is left.
Search ==
  /\ climb # NIL =>
       /\ Absent(Here, Named)
       /\ climb \in {Here} \cup Above(Here)
       /\ Hits(Here, Named) \subseteq Above(climb)
  /\ thrown = "cannot_open_file" => Absent(Here, Named) /\ Hits(Here, Named) = {}

\* The files that a directory entry leads to.
LeadsTo(e) == IF e \in Folder THEN FilesBelow(e) ELSE {e}

\* The directory iterators are within the one directory that is imported, and
\* all of its files are registered or still to come.
DirectoryRead ==
  dirs # <<>> =>
    /\ Named \in Name
    /\ \E d \in Folder : /\ Directories(Here, Named) = {d}
                         /\ \A j \in 1 .. Len(dirs) : dirs[j] \subseteq Below(d)
    /\ exitCode = NIL =>
          \A p \in Targets(Here, Named) :
             Known(p) \/ \E j \in 1 .. Len(dirs) : \E e \in dirs[j] : p \in LeadsTo(e)

\* Everything that the first n import statements of object o name is registered.
Registered(o, n) ==
  LET p == sources[o].path IN
  \A i \in 1 .. n :
    program[p].imports[i] \in Name =>
      \A t \in Targets(FolderOf[p], program[p].imports[i]) : Known(t)

StatementsRead ==
  /\ \A k \in 1 .. Len(stack) : Registered(stack[k].src, stack[k].stmt)
  /\ \A o \in Obj : Parsed(o) => Registered(o, Len(program[sources[o].path].imports))

\* An object is a file that its importer names.
NamedByImporter ==
  \A o \in Obj : sources[o].parent # 0 =>
    sources[o].path \in ImportedBy[sources[sources[o].parent].path]

\* An object is too deep, and did not come with a directory.
TooDeep(o) == Depth(o) >= DepthLimit /\ ~CameWithDirectory(o)

\* Nothing is done with such an object: from the moment it is made its importer
\* is being abandoned, or has been.
DeepOnesUnused ==
  \A o \in Obj : TooDeep(o) =>
    /\ ~Parsed(o)
    /\ \A k \in 1 .. Len(stack) :
          stack[k].src # o /\ (stack[k].src = sources[o].parent => thrown # NIL)

\* A finished module has the items of all that was created on behalf of its
\* source, a module being built those of the imports gone through.
Assembled ==
  /\ \A o \in Obj : Parsed(o) =>
        /\ Listed(sources[o].parsedMod) = Tree(o)
        /\ \A q \in Obj : sources[q].parent = o => Parsed(q)
  /\ \A k \in 1 .. Len(stack) :
        LET reached == {ImportsOf(stack[k].src)[i] : i \in 1 .. stack[k].next} IN
        /\ Listed(stack[k].items) = UNION {Tree(q) : q \in reached}
        /\ \A q \in reached : Parsed(q)

LoadInv ==
  /\ Search
  /\ DirectoryRead
  /\ StatementsRead
  /\ NamedByImporter
  /\ DeepOnesUnused
  /\ Assembled
=============================================================================
