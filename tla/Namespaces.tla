----------------------------- MODULE Namespaces -----------------------------
(***************************************************************************)
(* What Parser::parse does to a module's items once they are read: the     *)
(* items of the imported modules come first (ps_mod), namespaces of one    *)
(* name are merged and the duplicates deleted (merge_namespaces), and the  *)
(* items are grouped by kind (reorder_items), on every level.              *)
(*                                                                         *)
(* Nodes are pointers: a node may be listed in several modules, and one    *)
(* that has been deleted may still be listed somewhere.  Which modules are *)
(* imported, and that each is spliced once, is module Imports' business;   *)
(* here they are given, in the order in which their parses end.            *)
(***************************************************************************)
EXTENDS Lists, Integers, FiniteSets

CONSTANTS
  Node,      \* the item nodes and module nodes, numbered in source order
  Ident,     \* names of namespaces
  NIL,       \* no name
  Programs   \* the programs considered

Kind == {"Let", "Namespace", "Enum", "Class", "Function", "Module"}

\* A program as it is parsed: the kind and name of each node, how deep it lies,
\* what is written inside it, the modules in the order their parses end, and
\* for each module the modules it imports.
Program == [kind   : [Node -> Kind],
            name   : [Node -> Ident \cup {NIL}],
            level  : [Node -> 0 .. Cardinality(Node)],
            inside : [Node -> Seq(Node)],
            order  : Seq(Node),
            imports : [Node -> Seq(Node)]]

\* ps_mod and ps_namespace make every item anew and put it in one list; nothing
\* else holds items, and none of the items is a module.
WrittenOnce(p) ==
  /\ \A n \in Node : NoRepeat(p.inside[n])
  /\ \A m, n \in Node : m # n => Listed(p.inside[m]) \cap Listed(p.inside[n]) = {}
  /\ \A n \in Node : \A x \in Listed(p.inside[n]) :
        /\ p.kind[n] \in {"Namespace", "Module"} /\ p.kind[x] # "Module"
        /\ p.level[x] = p.level[n] + 1

\* Every module is parsed once; the parse of a module it imports ends before
\* its own, and no other module imports it (is_node_imported).
ImportedOnce(p) ==
  /\ NoRepeat(p.order)
  /\ \A m \in Listed(p.order) :
        p.kind[m] = "Module" /\ p.level[m] = 0 /\ NoRepeat(p.imports[m])
  /\ \A k \in 1 .. Len(p.order) : \A m \in Listed(p.imports[p.order[k]]) :
        \E i \in 1 .. k - 1 : p.order[i] = m
  /\ \A m, n \in Listed(p.order) :
        m # n => Listed(p.imports[m]) \cap Listed(p.imports[n]) = {}

\* The numbers of the nodes are the source order: an item comes before what is
\* written inside it, that before the next item, and a module's items before
\* those of a module whose parse ends later (import statements come first).
NumberedInOrder(p) ==
  /\ \A n \in Node : \A i, j \in 1 .. Len(p.inside[n]) : i < j => p.inside[n][i] < p.inside[n][j]
  /\ \A n \in Node : p.kind[n] # "Module" => \A x \in Listed(p.inside[n]) :
        /\ n < x
        /\ \A y \in Node : n < y /\ y < x /\ p.kind[y] # "Module" => p.level[y] > p.level[n]
  /\ \A a, b \in 1 .. Len(p.order) : a < b =>
        \A x \in Listed(p.inside[p.order[a]]), y \in Listed(p.inside[p.order[b]]) : x < y

\* Parses nest: a module's imports end in the order in which it imports them,
\* and what ends between one of them and the module itself is imported on the
\* way.
ParsedInOrder(p) ==
  \A k \in 1 .. Len(p.order) :
    LET imported == p.imports[p.order[k]] IN
    /\ \A i, j \in 1 .. Len(imported) : \A a, b \in 1 .. k :
         i < j /\ p.order[a] = imported[i] /\ p.order[b] = imported[j] => a < b
    /\ \A a, b \in 1 .. k - 1 : a < b /\ p.order[a] \in Listed(imported) =>
         \E l \in 1 .. k : p.order[b] \in Listed(p.imports[p.order[l]])

ASSUME ProgramsAssumption ==
  /\ Node \subseteq Nat /\ IsFiniteSet(Node)
  /\ NIL \notin Ident
  /\ \A p \in Programs : /\ p \in Program /\ WrittenOnce(p) /\ ImportedOnce(p)
                         /\ NumberedInOrder(p) /\ ParsedInOrder(p)

VARIABLES
  program,  \* what is parsed
  items,    \* NdNamespace::items and NdModule::items
  freed,    \* the nodes that have been deleted
  done,     \* how many modules have been returned by Parser::parse
  spliced,  \* how many imports the module being parsed has spliced
  phase,    \* "items", "merge" or "reorder"
  calls     \* the nested calls of merge_namespaces or reorder_items

vars == <<program, items, freed, done, spliced, phase, calls>>

\* One call, on the items of `owner': the first loop, or the one that goes
\* into the namespaces, at position i; `again' is merge_namespaces' flag, and
\* `turn' counts its passes up to the second.
Call == [owner : Node, at : {"first", "inner"}, i : Nat, again : BOOLEAN, turn : 1 .. 2]

\* Mutant of NewCall: the flag has no initial value.
NewCallUninitialised(n) ==
  [owner |-> n, at |-> "first", i |-> 1, again |-> NIL, turn |-> 1]

NewCall(n) == [owner |-> n, at |-> "first", i |-> 1, again |-> FALSE, turn |-> 1]

Init ==
  /\ program \in Programs
  /\ items = [n \in Node |-> IF program.kind[n] = "Module" THEN <<>> ELSE program.inside[n]]
  /\ freed = {}
  /\ done = 0
  /\ spliced = 0
  /\ phase = "items"
  /\ calls = <<>>
-----------------------------------------------------------------------------
Current == program.order[done + 1]
Parsing == done < Len(program.order)

IsNamespace(n) == program.kind[n] = "Namespace"

Top  == calls[Len(calls)]
List == items[Top.owner]

\* The call under way goes on like this.
Continue(c) == calls' = [calls EXCEPT ![Len(calls)] = c]

\* Mutant of SpliceModule: the modules imported later come first.
SpliceModuleLast ==
  /\ phase = "items" /\ Parsing
  /\ spliced < Len(program.imports[Current])
  /\ items' = [items EXCEPT ![Current] =
                 items[program.imports[Current][spliced + 1]] \o @]
  /\ spliced' = spliced + 1
  /\ UNCHANGED <<program, freed, done, phase, calls>>

\* ps_mod: the items of the next imported module.
SpliceModule ==
  /\ phase = "items" /\ Parsing
  /\ spliced < Len(program.imports[Current])
  /\ items' = [items EXCEPT ![Current] =
                 @ \o items[program.imports[Current][spliced + 1]]]
  /\ spliced' = spliced + 1
  /\ UNCHANGED <<program, freed, done, phase, calls>>

\* ps_mod: the module's own items; parse calls merge_namespaces.
OwnItems ==
  /\ phase = "items" /\ Parsing
  /\ spliced = Len(program.imports[Current])
  /\ items' = [items EXCEPT ![Current] = @ \o program.inside[Current]]
  /\ phase' = "merge"
  /\ calls' = <<NewCall(Current)>>
  /\ UNCHANGED <<program, freed, done, spliced>>

\* The positions behind i that hold a namespace with the name of the one at i.
Duplicates(i) ==
  {j \in i + 1 .. Len(List) :
     /\ IsNamespace(List[i]) /\ IsNamespace(List[j])
     /\ program.name[List[i]] = program.name[List[j]]}

\* Mutants of Merge: the duplicate stays listed; the scan moves on although
\* there may be a third one.
MergeKeeps(j) ==
  LET orig == List[Top.i] dup == List[j] IN
  /\ phase = "merge" /\ Top.at = "first" /\ Top.i <= Len(List)
  /\ j \in Duplicates(Top.i) /\ \A k \in Duplicates(Top.i) : j <= k
  /\ items' = [items EXCEPT ![orig] = @ \o items[dup]]
  /\ freed' = freed \cup {dup}
  /\ Continue([Top EXCEPT !.again = TRUE, !.i = @ + 1])
  /\ UNCHANGED <<program, done, spliced, phase>>

MergeAdvances(j) ==
  LET orig == List[Top.i] dup == List[j] IN
  /\ phase = "merge" /\ Top.at = "first" /\ Top.i <= Len(List)
  /\ j \in Duplicates(Top.i) /\ \A k \in Duplicates(Top.i) : j <= k
  /\ items' = [items EXCEPT ![orig] = @ \o items[dup],
                            ![Top.owner] = Without(@, j)]
  /\ freed' = freed \cup {dup}
  /\ Continue([Top EXCEPT !.again = TRUE, !.i = @ + 1])
  /\ UNCHANGED <<program, done, spliced, phase>>

\* The first loop of merge_namespaces finds a duplicate of the namespace at i:
\* its items move to the one at i, and it is deleted and erased.
Merge(j) ==
  LET orig == List[Top.i] dup == List[j] IN
  /\ phase = "merge" /\ Top.at = "first" /\ Top.i <= Len(List)
  /\ j \in Duplicates(Top.i) /\ \A k \in Duplicates(Top.i) : j <= k
  /\ items' = [items EXCEPT ![orig] = @ \o items[dup],
                            ![Top.owner] = Without(@, j)]
  /\ freed' = freed \cup {dup}
  /\ Continue([Top EXCEPT !.again = TRUE])
  /\ UNCHANGED <<program, done, spliced, phase>>

\* No duplicate of the item at i.
NoDuplicate ==
  /\ phase = "merge" /\ Top.at = "first" /\ Top.i <= Len(List)
  /\ Duplicates(Top.i) = {}
  /\ Continue([Top EXCEPT !.i = @ + 1])
  /\ UNCHANGED <<program, items, freed, done, spliced, phase>>

\* Mutant of ScanEnds: the flag is not cleared for the next pass.
ScanEndsAlways ==
  /\ phase = "merge" /\ Top.at = "first" /\ Top.i > Len(List)
  /\ Continue(IF Top.again THEN [Top EXCEPT !.i = 1, !.turn = 2]
              ELSE [Top EXCEPT !.at = "inner", !.i = 1])
  /\ UNCHANGED <<program, items, freed, done, spliced, phase>>

\* The end of a pass: another one if something was merged.
ScanEnds ==
  /\ phase = "merge" /\ Top.at = "first" /\ Top.i > Len(List)
  /\ Continue(IF Top.again THEN [Top EXCEPT !.i = 1, !.again = FALSE, !.turn = 2]
              ELSE [Top EXCEPT !.at = "inner", !.i = 1])
  /\ UNCHANGED <<program, items, freed, done, spliced, phase>>

\* Mutant of Grouped: no loop for classes.
GroupedNoClasses(s) ==
  LET Of(k) == Sublist(s, {n \in Node : program.kind[n] = k})
  IN  Of("Let") \o Of("Namespace") \o Of("Enum") \o Of("Function")

\* The five loops of reorder_items.
Grouped(s) ==
  LET Of(k) == Sublist(s, {n \in Node : program.kind[n] = k})
  IN  Of("Let") \o Of("Namespace") \o Of("Enum") \o Of("Class") \o Of("Function")

Reorder ==
  /\ phase = "reorder" /\ Top.at = "first"
  /\ items' = [items EXCEPT ![Top.owner] = Grouped(@)]
  /\ Continue([Top EXCEPT !.at = "inner"])
  /\ UNCHANGED <<program, freed, done, spliced, phase>>

\* Mutant of Descend: only namespaces that come first are gone into.
DescendFirst ==
  LET rest == [calls EXCEPT ![Len(calls)].i = @ + 1] IN
  /\ phase \in {"merge", "reorder"} /\ Top.at = "inner" /\ Top.i <= Len(List)
  /\ calls' = IF IsNamespace(List[Top.i]) /\ Top.i = 1
              THEN Append(rest, NewCall(List[Top.i])) ELSE rest
  /\ UNCHANGED <<program, items, freed, done, spliced, phase>>

\* The last loop of both functions goes into every namespace.
Descend ==
  LET rest == [calls EXCEPT ![Len(calls)].i = @ + 1] IN
  /\ phase \in {"merge", "reorder"} /\ Top.at = "inner" /\ Top.i <= Len(List)
  /\ calls' = IF IsNamespace(List[Top.i])
              THEN Append(rest, NewCall(List[Top.i])) ELSE rest
  /\ UNCHANGED <<program, items, freed, done, spliced, phase>>

\* A call returns; the outermost merge_namespaces is followed by
\* reorder_items, and that by the return from parse.
Return ==
  /\ phase \in {"merge", "reorder"} /\ Top.at = "inner" /\ Top.i > Len(List)
  /\ IF Len(calls) > 1
     THEN calls' = SubSeq(calls, 1, Len(calls) - 1) /\ UNCHANGED <<done, spliced, phase>>
     ELSE IF phase = "merge"
     THEN calls' = <<NewCall(Current)>> /\ phase' = "reorder" /\ UNCHANGED <<done, spliced>>
     ELSE calls' = <<>> /\ phase' = "items" /\ done' = done + 1 /\ spliced' = 0
  /\ UNCHANGED <<program, items, freed>>

Next ==
  \/ SpliceModule
  \/ OwnItems
  \/ \E j \in 1 .. Cardinality(Node) : Merge(j)
  \/ NoDuplicate
  \/ ScanEnds
  \/ Reorder
  \/ Descend
  \/ Return

Spec     == Init /\ [][Next]_vars
FairSpec == Spec /\ WF_vars(Next)
=============================================================================
