----------------------------- MODULE MCResolver -----------------------------
(***************************************************************************)
(* Small programs about names, as syntax trees.                            *)
(***************************************************************************)
EXTENDS ResolverProperties, SmallTrees

MCNode  == 1 .. 22
MCIdent == {"x", "y", "a"} \cup Builtin
-----------------------------------------------------------------------------
\* Statements, and how they nest.
Simple == {Use("x"), Use("y"), Break, Let("x", <<>>), Let("x", Use("x"))}
Bodies == Simple \cup {Let("x", <<>>) \o Use("x"), Let("x", <<>>) \o Let("x", Use("x"))}
IfVars == {<<>>, Let("x", Use("x"))}
Elses  == {<<>>, Block(Use("x")), T("If", NIL, Use("x") \o Block(Use("x")))}

\* The compound statements around a body.
Around1(b) ==
  {Block(b), T("For", "x", Use("x") \o Block(b)), T("For", "y", Use("x") \o Block(b)),
   T("While", NIL, Use("x") \o Block(b)),
   T("While", NIL, Let("x", Use("y")) \o Block(b)),
   T("Try", NIL, Block(b) \o T("Catch", "x", Type("int") \o Block(Use("x"))))}
    \cup {T("If", NIL, v \o Use("x") \o Block(b) \o e) : v \in IfVars, e \in Elses}

Around2(b) ==
  {Block(b), T("For", "y", Use("x") \o Block(b)), T("While", NIL, Use("x") \o Block(b)),
   T("If", NIL, Use("x") \o Block(b))}

Nested   == UNION {Around2(s) : s \in Simple}
Compound == UNION {Around1(b) : b \in Bodies \cup Nested}

\* A function with one of these in a module that may declare the same names.
Outer == {<<>>, Let("x", <<>>)}
Args  == {<<>>, T("Arg", "x", Type("int"))}
InFunction ==
  {Module(o \o Fn("y", a, l \o s)) : o \in Outer, a \in Args, l \in Outer, s \in Compound}

\* Qualified names, among declarations of every kind that share names.
Inner(x)  == {Let(x, <<>>), Fn(x, <<>>, <<>>), Fn(x, <<>>, <<>>) \o Fn(x, <<>>, <<>>)}
Class(z)  == T("Class", "a", Let("x", Use("a")) \o Fn(z, <<>>, Use("x"))
                               \o T("New", NIL, Block(Use("x"))))
Owners    == {T("Namespace", "a", i) : i \in Inner("x") \cup Inner("a")}
               \cup {T("Enum", "a", T("Enumerator", z, Type("a"))) : z \in {"x", "a"}}
               \cup {Class(z) : z \in {"x", "a"}}
Paths     == {Path("a", <<"x">>), Path("a", <<"a", "x">>), Path("x", <<"a">>),
              Path("int", <<"x">>), Path("a", <<"println">>),
              P("Symbol", "a", <<"x">>, Type("int")),
              T("Call", NIL, Path("a", <<"x">>) \o T("Tuple", NIL, Use("x") \o Use("a")))}
Qualified ==
  {Module(o \o w \o Fn("y", <<>>, p)) :
     o \in Outer, p \in Paths,
     w \in Owners \cup {Fn("a", <<>>, <<>>)} \cup {T("Namespace", "a", v) : v \in Owners}}

MCPrograms == {Tree(t) : t \in InFunction \cup Qualified}
=============================================================================
