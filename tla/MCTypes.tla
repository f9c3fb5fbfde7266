------------------------------- MODULE MCTypes -------------------------------
(***************************************************************************)
(* Small programs about types, as syntax trees.                            *)
(***************************************************************************)
EXTENDS TypesProperties, SmallTrees

MCNode  == 1 .. 26
MCIdent == {"x", "y", "z", "f", "a", "e", "A", "B", "C", "starts", "append"} \cup Builtin

Of(x, ps)     == T("TypeName", x, ps)
Value(k)      == T("Value", k, <<>>)
Enumr(x)      == Path("e", <<x>>)
Op(k, ps)     == T(k, NIL, ps)
Element(i, t) == LET s == Op("Element", t) IN [s EXCEPT ![1].index = i]
Call(f, args) == Op("Call", f \o args)
Method(o, x, args) == Op("MethodCall", o \o Use(x) \o args)
Var(x, t, e)  == Let(x, t \o e)
Arg(x, t)     == T("Arg", x, t)
For(x, e, b)  == T("For", x, e \o Block(b))
Variants(x, vs) == T("Enumerator", x, vs)

One    == Value("int")
String == Value("string")

\* enum e { A, B(int), C(...) }, and a function with an argument x.
Enum(c)       == T("Enum", "e", Variants("A", <<>>) \o Variants("B", Type("int")) \o c)
Program1(c, t, b) == Module(Enum(c) \o Fn("f", Arg("x", t), b))
-----------------------------------------------------------------------------
\* Types of x, and others that may be written.
ArgTypes == {Type("int"), Type("string"), Of("Vec", Type("int")), Of("tuple", Type("int") \o Type("string")),
             Of("functor", Type("int") \o Type("string")), Type("functor"), Type("List"), Type("e")}
Types0   == ArgTypes \cup {Type("Vec"), Type("tuple"), Of("dict", Type("int")),
                           Of("dict", Type("int") \o Type("string")), Type("a"), Type("f"), Type("print"),
                           Of("functor", Type("int")), Of("Vec", Use("x"))}

Atoms == {One, String, Use("x"), Enumr("A"), Enumr("B"), Use("print")}
Odd   == {Use("e"), Use("f"), Use("a"), Op("Self", <<>>), Op("Array", <<>>), Op("Other", One),
          Op("Field", One \o One), Op("Member", Use("x") \o Use("a"))}
Lists == {<<>>} \cup Atoms \cup {a \o b : a, b \in {One, String, Use("x")}}

\* Expressions over atoms.
Compound ==
  {Op("Array", l) : l \in Lists} \cup {Op("Tuple", l) : l \in Lists \ {<<>>}}
    \cup {Op("Subscript", Use("x") \o i) : i \in Atoms}
    \cup {Op("Subscript", Use("x") \o Op("Slice", l)) : l \in Lists}
    \cup {Element(i, Use("x")) : i \in 0 .. 2}
    \cup {Op("Binary", a \o b) : a, b \in {One, String, Use("x")}}
    \cup {Call(g, l) : g \in Atoms \cup {Use("e")}, l \in Lists}
    \cup {Method(Use("x"), m, l) : m \in {"starts", "append", "a"}, l \in Lists}

\* An expression inside another: a call of what is no name of an enumerator
\* but has one in it, an element of a fresh tuple, a result used as argument.
Deep == {Call(Call(Enumr("B"), One), One), Call(Call(Enumr("C"), Enumr("B")), One),
         Call(Element(0, Op("Tuple", Enumr("B") \o One)), One),
         Call(Enumr("B"), Call(Use("print"), String)),
         Call(Use("print"), Call(Enumr("B"), String)),
         Method(Op("Array", Op("Array", One)), "append", Call(Enumr("B"), One)),
         Op("Subscript", Op("Array", String) \o Call(Use("print"), <<>>))}

\* What C takes.
Shapes == {Type("int") \o Type("string"), Type("e"), Of("Vec", Type("int")), Type("a"),
           Op("Field", Type("int")), Op("Field", Type("int")) \o Op("Field", Type("e"))}
NoC == <<>>
CC  == Variants("C", Type("int") \o Type("string"))

\* let y = <an expression>; y
Expressions ==
  {Program1(NoC, t, Let("y", e) \o Use("y")) : t \in ArgTypes, e \in Compound}
    \cup {Program1(NoC, Type("int"), e) : e \in Odd \cup Deep}
    \cup {Program1(Variants("C", s), t, Let("y", Call(Enumr("C"), l))) :
            s \in Shapes, t \in {Of("Vec", Type("int")), Type("e")}, l \in Lists}
    \cup {Program1(Variants("C", Type("e")), Type("int"), e) : e \in Deep}

\* Declarations with a type, and of one variable again, in one block or two.
Declared ==
  {Program1(NoC, Type("int"), Var("y", t, e) \o Use("y")) : t \in Types0, e \in Atoms \cup {<<>>, Use("y"), Op("Array", One)}}
    \cup {Module(Fn("f", Arg("x", Type("int")) \o Arg("z", t) \o t, Use("z"))) : t \in Types0}
    \cup {Module(o \o Fn("f", <<>>, Let("y", d) \o Use("y") \o s \o Let("y", e) \o Use("y"))) :
            o \in {<<>>, Let("y", String)}, d \in {<<>>, One}, e \in {String, Use("y")},
            s \in {<<>>, Block(Let("y", String) \o Use("y")), Block(Let("y", Use("y")))}}

\* Statements, and where they may stand.
Body == Let("y", Use("z")) \o Use("y")
Statements0 ==
  {For("z", e, Body) : e \in {Use("x"), One, String, Op("Array", One), Op("Tuple", One), Use("a")}}
    \cup {For("z", Op("Array", Op("Array", One)), For("z", Use("z"), Body)),
          Op("If", Use("x") \o Block(Let("y", One)) \o Op("If", One \o Block(One) \o Block(Use("a")))),
          Op("If", Let("y", One) \o Use("y") \o Block(One)),
          For("z", String, Break), Op("While", One \o Block(One)),
          Op("Try", Block(One) \o T("Catch", "y", Type("int") \o Block(One)))}

\* What may stand in the branches of an else-if, which have no scope: statements
\* of every outcome, alone or nested, the same in the last branch of a plain if.
Loops  == {For("z", e, b) : e \in {One, String, Use("string"), Op("Array", One), Op("Array", <<>>), Use("List"),
                                   T("Symbol", "List", Type("int")), Op("Tuple", One), Call(Use("print"), One)},
                           b \in {<<>>, One, Let("y", One)}}
Simple == Loops \cup {One, Use("a"), Let("y", One), Let("y", <<>>), Op("While", One \o Block(One)),
                      Op("Try", Block(One))}
If(b)  == Op("If", One \o Block(<<>>) \o b)
Nested == UNION {{s, Block(s), One \o s, Op("If", One \o Block(s)), For("y", One, s)} : s \in Simple}
Branches ==
  UNION {{If(Block(s)), If(If(Block(s))), If(Op("If", One \o Block(s))), If(If(Op("If", One \o Block(s)))),
          If(Op("If", Let("y", One) \o Block(s)))} : s \in Nested}

Placed ==
  {Module(Fn("f", <<>>, s)) : s \in Branches} \cup
  {Program1(NoC, t, s) : t \in ArgTypes, s \in Statements0}
    \cup {Module(T("Namespace", "a", Let("y", One) \o Let("z", Use("y")) \o Fn("f", <<>>, Use("a")))
                   \o T("Class", "e", Let("y", One)) \o Let("x", e) \o Fn("f", <<>>, Use("x"))) :
            e \in {Path("a", <<"y">>), Path("a", <<"f">>), Use("e"), One}}

MCPrograms == {Tree(t) : t \in Expressions \cup Declared \cup Placed}
=============================================================================
