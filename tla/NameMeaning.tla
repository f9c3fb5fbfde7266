---------------------------- MODULE NameMeaning -----------------------------
(***************************************************************************)
(* What a name means, said of the syntax tree alone.  There are no scopes  *)
(* here, no symbol tables and no order of analysis.                        *)
(***************************************************************************)
EXTENDS SyntaxTree

\* The nodes below n, on every level.
Below(n) ==
  LET B[m \in Node] == UNION {{x} \cup B[x] : x \in Listed(program.parts[m])}
  IN  B[n]

WithBelow(S) == S \cup UNION {Below(n) : n \in S}

\* What a construct declares for the nodes it contains.  The variables of one
\* name in a block count as one; the fields of a class are no names of it.
Declares(c) ==
  IF Is(c, {"Module", "Namespace"}) THEN PartSet(c, Items \cup {"Let"})
  ELSE IF Is(c, {"Class"}) THEN PartSet(c, {"Function"})
  ELSE IF Is(c, {"Enum"}) THEN PartSet(c, {"Enumerator"})
  ELSE IF Is(c, {"Function"}) THEN PartSet(c, {"Arg"})
  ELSE IF Is(c, {"For"}) THEN {c}
  ELSE IF Is(c, {"If"}) THEN PartSet(c, {"Let"})
  ELSE IF Is(c, {"Scope"})
  THEN {n \in PartSet(c, {"Let"}) : FirstOf(n, PartSet(c, {"Let"})) = n}
  ELSE {}

\* Where these declarations hold.  The variable of an if is known in its
\* branches, but not in its condition.
Region(c) ==
  IF Is(c, {"If"}) THEN WithBelow(PartSet(c, {"Scope"})) ELSE Below(c)

\* The blocks in which nothing is known but the built-in names: the bodies of
\* while, try and catch, and the branches of an if that is itself an else.
Blind ==
  LET All(K) == {n \in Node : Is(n, K)}
      elseIfs == UNION {PartSet(n, {"If"}) : n \in All({"If"})}
  IN  UNION {PartSet(n, {"Scope"}) : n \in All({"While", "Try", "Catch"}) \cup elseIfs}

\* The constructs whose declarations are known at node n.
Around(n) ==
  IF n \in WithBelow(Blind) THEN {} ELSE {c \in Node : n \in Region(c)}

\* The declarations of x by the innermost of the constructs S that has any.
Innermost(x, S) ==
  LET Of(c)  == {d \in Declares(c) : program.name[d] = x}
      owners == {c \in S : Of(c) # {}}
  IN  UNION {Of(c) : c \in {o \in owners : owners \cap Below(o) = {}}}

\* What a part x of a name means, the last one or not, where the declarations of
\* the constructs S are known.
MeaningOfPart(x, last, S) ==
  LET ds == Innermost(x, S)
      Ends(D, e) == [ds |-> D, error |-> e, over |-> TRUE] IN
  IF ds = {} THEN Ends({BuiltinCode(y) : y \in Builtin \cap {x}}, NIL)
  ELSE IF last THEN Ends(ds, NIL)
  ELSE IF Cardinality(ds) > 1 THEN Ends({}, "ambiguous_symbol_name")
  ELSE IF \A d \in ds : Is(d, {"Namespace", "Class", "Enum"})
  THEN [ds |-> ds, error |-> NIL, over |-> FALSE]
  ELSE Ends({}, IF \A d \in ds : Is(d, {"Function"}) THEN "invalid_scope_resolution" ELSE "segfault")

\* What the name at node n means: the declarations it may refer to, or why it
\* cannot be said.
Meaning(n) ==
  LET path == <<program.name[n]>> \o program.rest[n]
      M[i \in 1 .. Len(path)] ==
        IF i = 1 THEN MeaningOfPart(path[i], i = Len(path), Around(n))
        ELSE IF M[i - 1].over THEN M[i - 1]
        ELSE LET d == CHOOSE x \in M[i - 1].ds : TRUE IN
             MeaningOfPart(path[i], i = Len(path), {d} \cup Around(d))
  IN  M[Len(path)]

\* The nodes of the analysis: what is in a constructor is none of them.
Analysed == WithBelow({1}) \ WithBelow({n \in Node : Is(n, {"New"})})

InLoop(n) == \E l \in Node : Is(l, {"For", "While"}) /\ n \in Below(l)

IsName(n) == Is(n, {"Symbol", "TypeName"})

\* Why node n makes the analysis give up.
Offence(n) ==
  IF IsName(n) THEN Meaning(n).error
  ELSE IF Is(n, {"Break"}) /\ ~InLoop(n) THEN "cannot_use_break_here"
  ELSE NIL
=============================================================================
