---------------------------- MODULE MCNamespaces ----------------------------
(***************************************************************************)
(* Every small program: at most five items, nested up to three deep, in    *)
(* one, two or three modules.  Nodes 1 to 5 are items, in source order; 6,  *)
(* 7 and 8 are the modules, in the order their parses end.                 *)
(***************************************************************************)
EXTENDS NamespacesProperties, FiniteSetsExt, SequencesExt

MCNode  == 1 .. 8
MCIdent == {"a", "b"}

\* How deep the items may lie: each at most one level deeper than the last.
Depths(n) ==
  {d \in [1 .. n -> 0 .. 2] : d[1] = 0 /\ \A i \in 1 .. n - 1 : d[i + 1] <= d[i] + 1}

\* The outlines of n items with labels in L: item i has label lab[i] (a name
\* makes it a namespace) and lies dep[i] levels deep.
Outlines(n, L) ==
  {o \in [lab : [1 .. n -> L], dep : Depths(n)] :
     \A i \in 1 .. n - 1 : o.dep[i + 1] > o.dep[i] => o.lab[i] \in MCIdent}

Around(o, i) == Max({j \in 1 .. i - 1 : o.dep[j] = o.dep[i] - 1})

\* Items 1 to c[1] are in module 6, up to c[2] in 7, the rest in 8.
Cuts(n)    == {c \in (0 .. n) \X (0 .. n) : c[1] <= c[2]}
Cut(o, c, n) == \A k \in 1 .. 2 : c[k] \in 1 .. n - 1 => o.dep[c[k] + 1] = 0

Home(c, i) == IF i <= c[1] THEN 6 ELSE IF i <= c[2] THEN 7 ELSE 8

ProgramOf(o, n, c, order, imports) ==
  [kind |-> [x \in MCNode |-> IF x > 5 THEN "Module"
                              ELSE IF x > n THEN "Let"
                              ELSE IF o.lab[x] \in MCIdent THEN "Namespace" ELSE o.lab[x]],
   name |-> [x \in MCNode |-> IF x <= n /\ o.lab[x] \in MCIdent THEN o.lab[x] ELSE NIL],
   level |-> [x \in MCNode |-> IF x <= n THEN o.dep[x] + 1 ELSE 0],
   inside |-> [x \in MCNode |->
      SelectSeq([i \in 1 .. n |-> i],
                LAMBDA i : IF o.dep[i] = 0 THEN Home(c, i) = x ELSE Around(o, i) = x)],
   order |-> order,
   imports |-> imports]

NoImports == [x \in MCNode |-> <<>>]
One   == <<<<8>>, NoImports>>
Two   == <<<<7, 8>>, [NoImports EXCEPT ![8] = <<7>>]>>
Chain == <<<<6, 7, 8>>, [NoImports EXCEPT ![7] = <<6>>, ![8] = <<7>>]>>
Star  == <<<<6, 7, 8>>, [NoImports EXCEPT ![8] = <<6, 7>>]>>

\* The programs of n items with labels in L over the modules of s, cut as in C.
ProgramsOf(n, L, s, C) ==
  {ProgramOf(x[1], n, x[2], s[1], s[2]) :
     x \in {y \in Outlines(n, L) \X C : Cut(y[1], y[2], n)}}

InOne(n)   == {<<0, 0>>}
InTwo(n)   == {c \in Cuts(n) : c[1] = 0 /\ c[2] \in 1 .. n - 1}
InThree(n) == {c \in Cuts(n) : 0 < c[1] /\ c[1] < c[2] /\ c[2] < n}

MCPrograms ==
  ProgramsOf(5, {"a", "Enum"}, One, InOne(5))
    \cup ProgramsOf(4, {"a", "b", "Let", "Enum", "Class", "Function"}, One, InOne(4))
    \cup ProgramsOf(5, {"a", "b", "Let"}, Two, InTwo(5))
    \cup ProgramsOf(4, {"a", "b", "Class"}, Chain, InThree(4))
    \cup ProgramsOf(4, {"a", "b", "Class"}, Star, InThree(4))
=============================================================================
