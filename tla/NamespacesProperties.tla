------------------------ MODULE NamespacesProperties ------------------------
(***************************************************************************)
(* What merging and reordering must guarantee: properties of Namespaces.   *)
(***************************************************************************)
EXTENDS Namespaces

TypeOK ==
  /\ program \in Program
  /\ items \in [Node -> Seq(Node)]
  /\ freed \subseteq Node
  /\ done \in 0 .. Len(program.order)
  /\ spliced \in Nat
  /\ phase \in {"items", "merge", "reorder"}
  /\ calls \in Seq(Call)

\* The modules whose items an importer has taken over: nothing looks at their
\* own lists again.
Spliced ==
  (UNION {Listed(program.imports[program.order[i]]) : i \in 1 .. done})
    \cup (IF Parsing THEN {program.imports[Current][i] : i \in 1 .. spliced} ELSE {})

\* The nodes whose lists the parser may still look at.
InUse == Node \ (freed \cup Spliced)

\* delete dup in merge_namespaces: no list that is still looked at, and no
\* call under way, holds a deleted node, although the lists of the modules
\* that were imported go on holding them.
NoUseAfterFree ==
  /\ \A n \in InUse : Listed(items[n]) \cap freed = {}
  /\ \A k \in 1 .. Len(calls) : calls[k].owner \in InUse

\* Modules share their nodes, yet among the lists in use a node is listed
\* once: nothing is merged into two places and nothing is deleted twice.
ListedOnce ==
  \A m, n \in InUse : \A i \in 1 .. Len(items[m]) : \A j \in 1 .. Len(items[n]) :
    items[m][i] = items[n][j] => m = n /\ i = j

\* The nodes below n.
Below(n) ==
  LET B[m \in Node] == Listed(items[m]) \cup UNION {B[x] : x \in Listed(items[m])}
  IN  B[n]

\* What item x of program p is found under when `below' is what lies below it: a
\* namespace under its name, as all that is in it, every other item as itself.
Entries(p, x, below) ==
  IF p.kind[x] = "Namespace"
  THEN {<<<<p.name[x]>>, NIL>>} \cup {<<<<p.name[x]>> \o c[1], c[2]>> : c \in below}
  ELSE {<<<<>>, x>>}

\* What the lists `inside' hold below n: every namespace by its qualified
\* name, every other item with the qualified name of where it is.
Contents(p, inside, n) ==
  LET C[m \in Node] == UNION {Entries(p, x, C[x]) : x \in Listed(inside[m])}
  IN  C[n]

\* Module m of program p and the modules it is made of.
ModulesOf(p, m) ==
  LET M[n \in Node] == {n} \cup UNION {M[x] : x \in Listed(p.imports[n])}
  IN  M[m]

\* What module m and the modules it is made of were written with.
Written(p, m) == UNION {Contents(p, p.inside, x) : x \in ModulesOf(p, m)}

\* At every moment of merge_namespaces and reorder_items each item is found
\* under the qualified name it was written under, and nowhere else.
ContentsKept ==
  phase # "items" => Contents(program, items, Current) = Written(program, Current)

\* The lists of a module that Parser::parse has just returned.
Returned ==
  IF done > 0 /\ phase = "items" /\ spliced = 0
  THEN LET m == program.order[done]
       IN  {items[n] : n \in {m} \cup {x \in Below(m) : IsNamespace(x)}}
  ELSE {}

\* In a module that parse has returned no two namespaces side by side have one
\* name, on any level, however many files they come from.
FullyMerged ==
  \A s \in Returned : \A i, j \in 1 .. Len(s) :
    IsNamespace(s[i]) /\ IsNamespace(s[j]) /\ program.name[s[i]] = program.name[s[j]]
      => i = j

\* Merging and regrouping keep the order of declaration among items of a kind
\* (the variables of a namespace are initialised in that order).
SourceOrderKept ==
  \A s \in Returned : \A i, j \in 1 .. Len(s) :
    i < j /\ program.kind[s[i]] = program.kind[s[j]] => s[i] < s[j]

\* The restart of merge_namespaces after a pass that merged something finds
\* nothing more to merge: one pass suffices.
RestartIsIdle ==
  \A k \in 1 .. Len(calls) : calls[k].turn = 2 => ~calls[k].again

\* The restarts and the recursion come to an end: every module is returned.
AllReturned == <>(done = Len(program.order))
=============================================================================
