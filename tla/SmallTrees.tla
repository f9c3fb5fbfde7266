----------------------------- MODULE SmallTrees -----------------------------
(***************************************************************************)
(* How the instances of the syntax tree write their programs: as terms,    *)
(* which are then numbered.                                                *)
(***************************************************************************)
EXTENDS SyntaxTree

\* A tree as the sequence of its nodes in source order, each with its depth.
Deeper(s)   == [i \in 1 .. Len(s) |-> [s[i] EXCEPT !.depth = @ + 1]]
P(k, x, r, below) ==
  <<[depth |-> 0, kind |-> k, name |-> x, rest |-> r, index |-> 0]>>
    \o Deeper(below)
T(k, x, below) == P(k, x, <<>>, below)
Path(x, r)     == P("Symbol", x, r, <<>>)
Use(x)         == Path(x, <<>>)
Type(x)        == T("TypeName", x, <<>>)
Let(x, e)      == T("Let", x, e)
Block(b)       == T("Scope", NIL, b)
Fn(x, a, b)    == T("Function", x, a \o Block(b))
Break          == T("Break", NIL, <<>>)
Module(items)  == T("Module", NIL, items)

\* The same with numbered nodes.
Tree(s) ==
  LET In(n) == n <= Len(s)
      PartOf(n, m) == /\ s[m].depth = s[n].depth + 1
                      /\ \A k \in n + 1 .. m : s[k].depth > s[n].depth
      None == [kind |-> "None", name |-> NIL, rest |-> <<>>, index |-> 0]
      At0(n) == IF In(n) THEN s[n] ELSE None IN
  [kind  |-> [n \in Node |-> At0(n).kind],
   name  |-> [n \in Node |-> At0(n).name],
   rest  |-> [n \in Node |-> At0(n).rest],
   index |-> [n \in Node |-> At0(n).index],
   parts |-> [n \in Node |-> SelectSeq([i \in 1 .. Len(s) - n |-> n + i],
                                          LAMBDA m : PartOf(n, m))]]
=============================================================================
