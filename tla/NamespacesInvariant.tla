------------------------ MODULE NamespacesInvariant -------------------------
(***************************************************************************)
(* The inductive invariant of module Namespaces: what the safety           *)
(* properties rest on, in parts that are preserved together.               *)
(***************************************************************************)
EXTENDS NamespacesProperties

\* Module m's own items are in its list: its parse has got so far.
Taken(m) ==
  \E k \in 1 .. Len(program.order) :
    program.order[k] = m /\ (k <= done \/ (k = done + 1 /\ phase # "items"))

\* How far the splicing of the module being parsed is.
Splicing ==
  /\ Parsing => spliced <= Len(program.imports[Current])
  /\ ~Parsing => phase = "items" /\ spliced = 0
  /\ phase # "items" => spliced = Len(program.imports[Current])

\* Only namespaces and modules hold items, none of them a module, each what lies
\* one level deeper; only namespaces are deleted.
Levels ==
  /\ \A n \in Node : \A x \in Listed(items[n]) :
        /\ program.kind[n] \in {"Namespace", "Module"} /\ program.kind[x] # "Module"
        /\ program.level[x] = program.level[n] + 1
  /\ \A x \in freed : IsNamespace(x)

\* A list in use repeats nothing, no two of them share a node, and none holds
\* a deleted one (ListedOnce and NoUseAfterFree, by what the lists hold).
ListsDisjoint ==
  /\ \A n \in InUse : NoRepeat(items[n]) /\ Listed(items[n]) \cap freed = {}
  /\ \A m, n \in InUse : m # n => Listed(items[m]) \cap Listed(items[n]) = {}

\* What a module holds that has not come so far is in no list yet.
OwnItemsWaiting ==
  \A m \in Node : program.kind[m] = "Module" /\ ~Taken(m) =>
    /\ Listed(program.inside[m]) \cap freed = {}
    /\ \A n \in InUse : Listed(program.inside[m]) \cap Listed(items[n]) = {}

\* The call stack: the module's call at the bottom, above every call the one
\* on the namespace it has just passed; no list is gone through twice.
Calls ==
  /\ calls = <<>> <=> phase = "items"
  /\ calls # <<>> => calls[1].owner = Current
  /\ \A k \in 1 .. Len(calls) : calls[k].i > 0 /\ calls[k].owner \in InUse
  /\ \A k \in 1 .. Len(calls) - 1 :
        /\ calls[k].at = "inner"
        /\ calls[k].i - 1 \in 1 .. Len(items[calls[k].owner])
        /\ items[calls[k].owner][calls[k].i - 1] = calls[k + 1].owner
        /\ IsNamespace(calls[k + 1].owner)
  /\ \A k, l \in 1 .. Len(calls) : calls[k].owner = calls[l].owner => k = l

\* Two namespaces of one name are at positions i and j of s.
SameNamespace(s, i, j) ==
  /\ IsNamespace(s[i]) /\ IsNamespace(s[j])
  /\ program.name[s[i]] = program.name[s[j]]

\* No namespace among the first n members of s has its name again behind it.
CleanTo(s, n) ==
  \A i, j \in 1 .. Len(s) : i <= n /\ i < j => ~SameNamespace(s, i, j)

\* What a scan has passed is clean; its second pass merges nothing; the call
\* that goes into the namespaces finds a clean list.
Scans ==
  /\ RestartIsIdle
  /\ \A k \in 1 .. Len(calls) : LET c == calls[k] IN
        /\ phase = "reorder" => c.turn = 1 /\ ~c.again
        /\ phase = "merge" /\ c.at = "first" => CleanTo(items[c.owner], c.i - 1)
        /\ phase = "merge" /\ (c.at = "inner" \/ c.turn = 2) =>
              CleanTo(items[c.owner], Len(items[c.owner]))

\* The invariant that is inductive, without what is below the lists.
IInv ==
  /\ TypeOK
  /\ program \in Programs
  /\ Splicing
  /\ Levels
  /\ ListsDisjoint
  /\ OwnItemsWaiting
  /\ Calls
  /\ Scans

-----------------------------------------------------------------------------
(***************************************************************************)
(* What is below the lists.                                                *)
(***************************************************************************)

\* The lists of the nodes in S are clean, and S holds the namespaces in them.
Tidy(S) ==
  \A n \in S :
    /\ n \in InUse
    /\ CleanTo(items[n], Len(items[n]))
    /\ \A x \in Listed(items[n]) : IsNamespace(x) => x \in S

\* The nodes below which everything is merged.
TidyNodes == UNION {S \in SUBSET Node : Tidy(S)}

\* The calls of merge_namespaces leave behind them what is merged all the way
\* down; reorder_items, and the importer, find a module that is.
Merged ==
  /\ \A k \in 1 .. Len(calls) : LET c == calls[k] IN
       phase = "merge" /\ c.at = "inner" =>
         \A i \in 1 .. Len(items[c.owner]) :
           i < c.i /\ (k < Len(calls) => i < c.i - 1) /\ IsNamespace(items[c.owner][i])
             => items[c.owner][i] \in TidyNodes
  /\ phase = "reorder" => Current \in TidyNodes
  /\ done > 0 /\ phase = "items" /\ spliced = 0 => program.order[done] \in TidyNodes
-----------------------------------------------------------------------------
(***************************************************************************)
(* What is found in the lists.                                             *)
(***************************************************************************)

\* A module that nobody has taken over yet holds what it and its imports were
\* written with; one whose parse has not got so far, what it has spliced, while
\* nothing has touched its own items.
HoldsAll ==
  /\ \A m \in InUse : program.kind[m] = "Module" /\ Taken(m) =>
        Contents(program, items, m) = Written(program, m)
  /\ phase = "items" /\ Parsing =>
        Contents(program, items, Current)
          = UNION {Written(program, program.imports[Current][i]) : i \in 1 .. spliced}
  /\ \A m \in Node : program.kind[m] = "Module" /\ ~Taken(m) =>
        /\ items[m] = <<>> \/ (phase = "items" /\ Parsing /\ m = Current)
        /\ \A x \in Listed(program.inside[m]) : IsNamespace(x) =>
              Contents(program, items, x) = Contents(program, program.inside, x)
-----------------------------------------------------------------------------
(***************************************************************************)
(* The order of the lists.                                                 *)
(***************************************************************************)

\* What lies below node n, on all levels, by the lists `inside'.
ClosedUnder(inside, S) == \A n \in S : Listed(inside[n]) \subseteq S
Under(inside, n) ==
  {x \in Node : \A S \in SUBSET Node :
     Listed(inside[n]) \subseteq S /\ ClosedUnder(inside, S) => x \in S}

Before(S, T) == \A x \in S, y \in T : x < y

\* Items of a kind come in source order; and of two namespaces of one name, all
\* that is below the first comes before all that is below the second, so that
\* they can be merged.
Ascending(s) ==
  \A i, j \in 1 .. Len(s) : i < j /\ program.kind[s[i]] = program.kind[s[j]] => s[i] < s[j]
TwinsApart(lists, s) ==
  \A i, j \in 1 .. Len(s) :
    i < j /\ SameNamespace(s, i, j) => Before(Under(lists, s[i]), Under(lists, s[j]))

\* What a module's items are has not changed while they wait to be taken.
AsWritten(lists, m) ==
  \A x \in Listed(program.inside[m]) : Under(lists, x) \subseteq Under(program.inside, x)

\* Where the items of the first n modules come from.
WrittenIn(n) == UNION {Under(program.inside, program.order[c]) : c \in 1 .. n}

\* The modules that have been parsed and not been taken over.
Finished == {a \in 1 .. done : program.order[a] \in InUse}

\* What they hold comes in the order in which they were parsed, and the module
\* being parsed comes between those it has not spliced yet and the others.
ModulesInOrder ==
  /\ \A a, b \in Finished : a < b =>
       Before(Under(items, program.order[a]), Under(items, program.order[b]))
  /\ \A a \in Finished : Under(items, program.order[a]) \subseteq WrittenIn(a)
  /\ Parsing =>
       /\ Under(items, Current) \subseteq WrittenIn(IF phase = "items" THEN done ELSE done + 1)
       /\ \A a \in Finished :
            IF program.order[a] \in Listed(program.imports[Current])
            THEN Before(Under(items, Current), Under(items, program.order[a]))
            ELSE Before(Under(items, program.order[a]), Under(items, Current))

InOrder ==
  /\ \A n \in InUse : Ascending(items[n]) /\ TwinsApart(items, items[n])
  /\ \A m \in Node : program.kind[m] = "Module" /\ ~Taken(m) => AsWritten(items, m)
  /\ ModulesInOrder
=============================================================================
