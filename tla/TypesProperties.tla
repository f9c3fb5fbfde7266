-------------------------- MODULE TypesProperties --------------------------
(***************************************************************************)
(* What a program that the type checker accepts must be like, and which    *)
(* programs it fails on: properties of module Types.                       *)
(***************************************************************************)
EXTENDS ResolverProperties, Types

Accepted == phase = "types" /\ todo = <<>> /\ thrown = NIL /\ ~printed

Part(n, i) == program.parts[n][i]

\* The type that the TypeName n denotes.
Denoted(n) == IF symbolPtr[n] > 0 THEN EnumType ELSE ty[n]

\* The type that the declaration d gives its variable.
DeclaredType(d) ==
  IF Is(d, {"For"})
  THEN IF ty[Part(d, 1)].kind = "string" THEN Ty("char", <<>>) ELSE ty[Part(d, 1)].params[1]
  ELSE IF Is(Part(d, 1), {"TypeName"}) THEN Denoted(Part(d, 1))
  ELSE ty[Part(d, 1)]

\* The declarations of the variable v that say something of its type: those of
\* its name in one block are declarations of one variable.
Declarations(v) ==
  {d \in Node : program.parts[d] # <<>> /\ (d = v \/ letSymbol[d] = v)}

\* Those known at the name n: what comes before n, and of a declaration around
\* n the type written there.
KnownAt(n) ==
  {d \in Declarations(symbolPtr[n]) :
     d < n /\ (Is(d, {"Let"}) /\ n \in Below(d) => Is(Part(d, 1), {"TypeName"}))}

NameTyped(n) ==
  LET d == symbolPtr[n] IN
  IF d < 0 THEN -d > Len(BuiltinTypes) => ty[n].kind = "functor"
  ELSE IF Is(d, {"Enum", "Enumerator"}) THEN ty[n].kind = "enum"
  ELSE \E k \in KnownAt(n) : /\ \A j \in KnownAt(n) : j <= k
                             /\ ty[n] = DeclaredType(k)

\* The enumerators that names at or below n stand for, save in the callees of
\* calls there.
EnumeratorsIn(n) ==
  LET all     == {n} \cup Below(n)
      callees == {Part(c, 1) : c \in {m \in all : Is(m, {"Call", "MethodCall"})}}
      inside  == callees \cup UNION {Below(c) : c \in callees}
  IN  {symbolPtr[m] : m \in all \ inside} \cap {d \in Node : Is(d, {"Enumerator"})}

VariantType(v) == IF Is(v, {"Field"}) THEN Denoted(Part(v, 1)) ELSE Denoted(v)

\* The call n hands each parameter an argument of its type.  An enumerator is
\* the one that the callee names, or one that some argument inside it names.
CallTyped(n) ==
  LET callee == ty[Part(n, 1)]
      given  == Tail(program.parts[n])
      takes(ts) == /\ Len(given) = Len(ts)
                   /\ \A i \in 1 .. Len(ts) : Equals(ty[given[i]], ts[i]) IN
  IF callee.kind = "functor"
  THEN /\ callee.varArgs \/ takes(Tail(callee.params))
       /\ ty[n] = callee.params[1]
  ELSE \E d \in EnumeratorsIn(Part(n, 1)) :
         /\ takes([i \in 1 .. Len(program.parts[d]) |-> VariantType(program.parts[d][i])])
         /\ ty[n].kind = "enum"

MethodTyped(n) ==
  LET inst == ty[Part(n, 1)] IN
  /\ Len(program.parts[n]) = 3
  /\ CASE program.name[Part(n, 2)] = "starts" ->
            inst.kind = "string" /\ ty[Part(n, 3)].kind = "string" /\ ty[n].kind = "bool"
       [] program.name[Part(n, 2)] = "append" -> inst.kind = "Vec" /\ ty[n] = inst

\* The type of node n follows from the types of its parts and from the
\* declarations before it.  Of an operator only the left operand counts: the
\* checker compares it neither with the right one nor with the operator.
WellTyped(n) ==
  LET of(i) == ty[Part(n, i)] IN
  CASE Is(n, {"Symbol"})     -> NameTyped(n)
    [] Is(n, {"Array"})      -> /\ ty[n] = Ty("Vec", <<of(1)>>)
                                /\ \A i \in 1 .. Len(program.parts[n]) : Equals(of(i), of(1))
    [] Is(n, {"Tuple"})      -> ty[n] = Ty("tuple", [i \in 1 .. Len(program.parts[n]) |-> of(i)])
    [] Is(n, {"Subscript"})  -> IF Is(Part(n, 2), {"Slice"})
                                THEN /\ ty[n] = of(1)
                                     /\ \A m \in PartSet(Part(n, 2), Kind) : ty[m].kind = "int"
                                ELSE of(2).kind = "int" /\ of(1) = Ty("Vec", <<ty[n]>>)
    [] Is(n, {"Element"})    -> /\ of(1).kind = "tuple" /\ program.index[n] < Len(of(1).params)
                                /\ ty[n] = of(1).params[program.index[n] + 1]
    [] Is(n, {"Binary"})     -> ty[n] = of(1)
    [] Is(n, {"Call"})       -> CallTyped(n)
    [] Is(n, {"MethodCall"}) -> MethodTyped(n)
    [] Is(n, {"Let"})        -> /\ Len(program.parts[n]) = 2
                                     => Equals(IF of(1) = NIL THEN NoType ELSE of(1), of(2))
    [] Is(n, {"For"})        -> of(1).kind \in {"Vec", "List", "string"}
    [] OTHER                 -> TRUE

\* What the checker looks at: the functions of the module, and the variables
\* of the module and of the namespaces in it.
Looked ==
  LET spaces == {1} \cup PartSet(1, {"Namespace"})
      tops   == PartSet(1, {"Function"}) \cup UNION {PartSet(s, {"Let"}) : s \in spaces}
  IN  tops \cup UNION {Below(n) : n \in tops}

\* Nodes that never have a type: the names of methods, and slices.
Untyped == {n \in Node : Is(n, {"Slice"})} \cup {Part(n, 2) : n \in {m \in Node : Is(m, {"MethodCall"})}}

\* A program that is accepted, with no error printed, is well typed: each
\* expression that is looked at has a type, and it is the one that the typing
\* rules give for the final types of its parts, a variable having the type of
\* its latest declaration before the name.  (So no type was taken from the
\* cache of a node, or from a variable, that was no longer true.  Sema.hpp:19-21
\* wants more of operators: 1 + "s" is accepted, as Sema_TypeChecker.cpp:433
\* leaves their operands to be checked.)
AcceptedIsWellTyped ==
  Accepted => \A n \in Looked \ Untyped :
                /\ Is(n, {"Symbol"} \cup Operations) => ty[n] # NIL
                /\ WellTyped(n)

\* A call that lacks an argument: of an enumerator or method all, of a functor
\* some.  A functor may also lack its result type.
LacksArguments(n) ==
  CASE Is(n, {"Call"}) -> \/ Len(program.parts[n]) = 1
                          \/ /\ ty[Part(n, 1)] # NIL
                             /\ ty[Part(n, 1)].kind = "functor"
                             /\ Len(ty[Part(n, 1)].params) \notin 1 .. Len(program.parts[n])
    [] Is(n, {"MethodCall"}) -> Len(program.parts[n]) = 2
    [] OTHER -> FALSE

\* What stands below the else-if of an if: SCIf makes no scope for that, so
\* nothing there has a scope or a symbol.
InElseIf == LET elses == {n \in Node : \E c \in Node : Is(c, {"If"}) /\ n \in PartSet(c, {"If"})}
            IN  UNION {Below(n) : n \in elses}

\* The type checker itself goes wrong only at the following.  On legal programs:
\* the variable of an if, a try, and in the branches of an else-if a declaration
\* or a loop over a Vec, a List or a string.  On programs that should be rejected
\* with a message: a call of an enum's value that names no enumerator, too few
\* arguments, an element that a tuple does not have, a loop over a bare List.
CrashesAreKnown ==
  phase = "types" /\ thrown \in {"assertion", "segfault", "out_of_range"} =>
    \E n \in {This} \cup Below(This) :
      CASE thrown = "assertion"    -> \/ Is(n, {"Try"})
                                      \/ Is(n, {"Let"}) /\ n \in InElseIf
                                      \/ \E c \in Node : Is(c, {"If"}) /\ n \in PartSet(c, {"Let"})
        [] thrown = "segfault"     -> \/ Is(n, {"Call"}) /\ EnumeratorsIn(Part(n, 1)) = {}
                                      \/ /\ Is(n, {"For"}) /\ n \in InElseIf
                                         /\ ty[Part(n, 1)] # NIL
                                         /\ ty[Part(n, 1)].kind \in {"Vec", "List", "string"}
        [] thrown = "out_of_range" -> \/ LacksArguments(n)
                                      \/ Is(n, {"Element"}) /\ printed
                                      \/ Is(n, {"For"}) /\ ty[Part(n, 1)] = Ty("List", <<>>)
=============================================================================
