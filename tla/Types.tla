------------------------------- MODULE Types -------------------------------
(***************************************************************************)
(* TypeChecker, which follows name resolution: check_module walks through  *)
(* the variables and functions of the module and eval_expr_ty gives every  *)
(* expression there a type, and its variables with them.                   *)
(*                                                                         *)
(* A statement is one step.  What evaluating an expression does is a       *)
(* record: the type, the exception thrown, whether an error was only       *)
(* printed (err::emitters print, they do not throw), the enumerator last   *)
(* stored through enumerator_node_out, and the nodes that got a type.  The *)
(* checker's own `todo' is one of the exceptions; a reading past the end   *)
(* of a vector is "out_of_range", whatever comes of it.                    *)
(***************************************************************************)
EXTENDS Resolver

VARIABLES
  ty,        \* Node::ty where ty_evaluated, else NIL; of a call, its last type
  varType,   \* VariableInfo::type where is_type_deducted, by declaration
  printed    \* some error has only been printed

checkVars == <<vars, ty, varType, printed>>

CheckInit ==
  /\ Init
  /\ ty = [n \in Node |-> NIL]
  /\ varType = [n \in Node |-> NIL]
  /\ printed = FALSE
-----------------------------------------------------------------------------
\* TypeInfo, of which the enum or class is left out: equals ignores it.
Ty(k, ps) == [kind |-> k, params |-> ps, varArgs |-> FALSE]
NoType      == Ty("none", <<>>)
EnumType    == Ty("enum", <<>>)
Functor     == [kind |-> "functor", params |-> <<Ty("int", <<>>)>>, varArgs |-> TRUE]

\* TypeInfo::equals, which does not look at varArgs.
RECURSIVE Equals(_, _)
Equals(s, t) ==
  /\ s.kind = t.kind
  /\ Len(s.params) = Len(t.params)
  /\ \A i \in 1 .. Len(s.params) : Equals(s.params[i], t.params[i])

\* The methods of the built-in types.
Methods == {[name |-> "starts", self |-> "string", args |-> <<Ty("string", <<>>)>>,
             returnsSelf |-> FALSE],
            [name |-> "append", self |-> "Vec", args |-> <<Ty("any", <<>>)>>,
             returnsSelf |-> TRUE]}

\* Outcomes of an evaluation.
Gives(t) == [ty |-> t, error |-> NIL, printed |-> FALSE, last |-> 0, sets |-> {}]
Fails(e) == [Gives(NoType) EXCEPT !.error = e]
Check(ok, e) == IF ok THEN Gives(NoType) ELSE Fails(e)
Prints(o)  == [o EXCEPT !.printed = TRUE]
OwnOut(o)  == [o EXCEPT !.last = 0]
Sets(n, o) == IF o.error # NIL THEN o
              ELSE [o EXCEPT !.sets = @ \cup {[node |-> n, ty |-> o.ty]}]

\* First o, then p, unless o fails.
Then(o, p) ==
  IF o.error # NIL THEN o
  ELSE [p EXCEPT !.printed = @ \/ o.printed, !.sets = @ \cup o.sets,
                 !.last = IF @ = 0 THEN o.last ELSE @]

\* The evaluations os, from left to right.
InOrder(os) ==
  LET U[i \in 0 .. Len(os)] == IF i = 0 THEN Gives(NoType) ELSE Then(U[i - 1], os[i])
  IN  U[Len(os)]

TypesOf(os)  == [i \in 1 .. Len(os) |-> os[i].ty]
BeInt(o)   == Then(o, Check(o.ty.kind = "int", "todo"))
-----------------------------------------------------------------------------
RECURSIVE EvalExpr(_, _), EvalTypename(_, _)

EvalAll(ns, V) == [i \in 1 .. Len(ns) |-> EvalExpr(ns[i], V)]

\* May a built-in type have n parameters?
ArityOk(b, n) == /\ b = "Vec" => n = 1
                 /\ b = "tuple" => n # 0
                 /\ b = "dict" => n = 2

\* eval_typename_ty.  The type of a name of an enum is not stored in the node;
\* of a name that is no type an error is printed, and the type is `none'.
EvalTypename(n, V) ==
  LET d    == symbolPtr[n]
      args == EvalAll(program.parts[n], V) IN
  IF d > 0 /\ Is(d, {"Enum"}) THEN Gives(EnumType)
  ELSE IF d = 0 \/ (d > 0 /\ Is(d, {"Class"})) THEN Fails("todo")
  ELSE IF d > 0 \/ -d > Len(BuiltinTypes) THEN Sets(n, Prints(Gives(NoType)))
  ELSE Then(InOrder(args), Then(Check(ArityOk(BuiltinTypes[-d], Len(args)), "todo"),
                                Sets(n, Gives(Ty(BuiltinTypes[-d], TypesOf(args))))))

\* Mutant of EvalName: the enumerator is not handed to the call.
EvalNameNoEnumerator(n, V) ==
  LET d == symbolPtr[n] IN
  IF d = 0 THEN Fails("use_of_undefined_symbol")
  ELSE IF d < 0
  THEN IF -d <= Len(BuiltinTypes) THEN EvalTypename(n, V) ELSE Gives(Functor)
  ELSE IF Is(d, {"Enum", "Class"}) THEN EvalTypename(n, V)
  ELSE IF Is(d, {"Enumerator"}) THEN Gives(EnumType)
  ELSE IF Is(d, {"Let", "Arg", "For"}) /\ V[d] # NIL THEN Gives(V[d])
  ELSE Fails("todo")

\* eval_expr_ty, for a name.
EvalName(n, V) ==
  LET d == symbolPtr[n] IN
  IF d = 0 THEN Fails("use_of_undefined_symbol")
  ELSE IF d < 0
  THEN IF -d <= Len(BuiltinTypes) THEN EvalTypename(n, V) ELSE Gives(Functor)
  ELSE IF Is(d, {"Enum", "Class"}) THEN EvalTypename(n, V)
  ELSE IF Is(d, {"Enumerator"}) THEN [Gives(EnumType) EXCEPT !.last = d]
  ELSE IF Is(d, {"Let", "Arg", "For"}) /\ V[d] # NIL THEN Gives(V[d])
  ELSE Fails("todo")

EvalArray(elems) ==
  LET ts == TypesOf(elems) IN
  Then(InOrder(elems),
       IF ts # <<>> /\ \A i \in 2 .. Len(ts) : Equals(ts[i], ts[1])
       THEN Gives(Ty("Vec", <<ts[1]>>)) ELSE Fails("todo"))

\* a[i] and the slice a[i : j], either bound of which may be missing.
EvalSubscript(n, V) ==
  LET array  == EvalExpr(program.parts[n][1], V)
      index  == program.parts[n][2]
      bounds == EvalAll(program.parts[index], V) IN
  Then(array,
       IF Is(index, {"Slice"})
       THEN Then(InOrder([i \in 1 .. Len(bounds) |-> BeInt(bounds[i])]), Gives(array.ty))
       ELSE Then(BeInt(EvalExpr(index, V)),
                 Then(Check(array.ty.kind = "Vec", "todo"), Gives(array.ty.params[1]))))

\* t.<i>: an index out of range is printed, and used.
EvalElement(n, t) ==
  Then(Check(t.kind = "tuple", "mismatched_types"),
       IF program.index[n] < Len(t.params) THEN Gives(t.params[program.index[n] + 1])
       ELSE Prints(Fails("out_of_range")))
-----------------------------------------------------------------------------
\* case_construct_enumerator, of the enumerator d with arguments of types ts.
\* Without arguments the error message reads the first one.
ConstructEnumerator(d, ts, V) ==
  LET vs        == program.parts[d]
      named(v)  == IF Is(v, {"Field"}) THEN program.parts[v][1] ELSE v
      types     == IF Len(vs) = 1 /\ named(vs[1]) = vs[1] THEN <<EvalExpr(vs[1], V)>>
                   ELSE [i \in 1 .. Len(vs) |-> EvalTypename(named(vs[i]), V)]
      fits(i)   == Then(types[i], Check(Equals(ts[i], types[i].ty), "mismatched_types")) IN
  IF ts = <<>> THEN Fails("out_of_range")
  ELSE IF Len(ts) # Len(vs) THEN Prints(Gives(EnumType))
  ELSE Then(OwnOut(InOrder([i \in 1 .. Len(vs) |-> fits(i)])), Gives(EnumType))

\* The call of a functor of type f.  For too few arguments the error message
\* reads the missing one; a functor without even a result type, too.
CallFunctor(f, ts) ==
  LET take == Len(f.params) - 1 IN
  IF f.params = <<>> \/ take > Len(ts) THEN Fails("out_of_range")
  ELSE IF take < Len(ts) /\ ~f.varArgs THEN Fails("too_many_arguments")
  ELSE IF \E i \in 1 .. take : ~Equals(ts[i], f.params[i + 1]) THEN Fails("todo")
  ELSE Gives(f.params[1])

\* case_call_func.  Evaluating the callee tells which enumerator it names.
EvalCall(n, V) ==
  LET args   == EvalAll(Tail(program.parts[n]), V)
      callee == EvalExpr(program.parts[n][1], V) IN
  Then(InOrder(args), Then(OwnOut(callee),
    IF callee.ty.kind = "functor" THEN CallFunctor(callee.ty, TypesOf(args))
    ELSE IF callee.ty.kind # "enum" THEN Fails("todo")
    ELSE IF callee.last = 0 THEN Fails("segfault")
    ELSE ConstructEnumerator(callee.last, TypesOf(args), V)))

\* compare_arguments and what is made of its result: all parameters are
\* compared, also those for which there is no argument.
CompareArguments(params, ts) ==
  LET differs(i) == params[i].kind # "any" /\ (i > Len(ts) \/ ~Equals(params[i], ts[i]))
      bad        == {i \in 1 .. Len(params) : differs(i)} IN
  IF \E i \in bad : i > Len(ts) /\ \A j \in bad : i <= j THEN Fails("out_of_range")
  ELSE IF bad # {} THEN Fails("mismatched_types")
  ELSE IF Len(ts) > Len(params) THEN Fails("too_many_arguments")
  ELSE IF Len(ts) = 0 /\ params # <<>> THEN Fails("out_of_range")
  ELSE Check(Len(ts) = Len(params), "too_few_arguments")

\* A call of a method: the parts are object, name and arguments.
EvalMethodCall(n, V) ==
  LET ps    == program.parts[n]
      args  == EvalAll(SubSeq(ps, 3, Len(ps)), V)
      inst  == EvalExpr(ps[1], V)
      found == {m \in Methods : m.name = program.name[ps[2]] /\ m.self = inst.ty.kind}
      call(m) == Then(CompareArguments(m.args, TypesOf(args)),
                      Gives(IF m.returnsSelf THEN inst.ty ELSE Ty("bool", <<>>))) IN
  Then(InOrder(args), Then(OwnOut(inst),
    IF inst.ty.kind = "enum" THEN Fails("todo")
    ELSE IF found = {} THEN Fails("method_not_found")
    ELSE call(CHOOSE m \in found : TRUE)))

\* eval_expr_ty, for all kinds of expressions.
EvalKind(n, V) ==
  LET ps == program.parts[n] IN
  CASE Is(n, {"Value"})              -> Gives(Ty(program.name[n], <<>>))
    [] Is(n, {"Symbol", "TypeName"}) -> EvalName(n, V)
    [] Is(n, {"Self"})               -> Fails("cannot_use_self_here")
    [] Is(n, {"Array"})              -> EvalArray(EvalAll(ps, V))
    [] Is(n, {"Tuple"})      -> Then(InOrder(EvalAll(ps, V)),
                                     Gives(Ty("tuple", TypesOf(EvalAll(ps, V)))))
    [] Is(n, {"Subscript"})  -> EvalSubscript(n, V)
    [] Is(n, {"Element"})    -> Then(EvalExpr(ps[1], V), EvalElement(n, EvalExpr(ps[1], V).ty))
    [] Is(n, {"Member"})     -> Then(EvalExpr(ps[1], V), Fails("todo"))
    [] Is(n, {"Binary"})     -> Then(InOrder(EvalAll(ps, V)), Gives(EvalExpr(ps[1], V).ty))
    [] Is(n, {"Call"})       -> EvalCall(n, V)
    [] Is(n, {"MethodCall"}) -> EvalMethodCall(n, V)
    [] OTHER                 -> Fails("todo")

\* eval_expr_ty: a node is evaluated once, but a call each time.
EvalExpr(n, V) ==
  IF ty[n] # NIL /\ ~Is(n, {"Call", "MethodCall"}) THEN Gives(ty[n])
  ELSE Sets(n, EvalKind(n, V))
-----------------------------------------------------------------------------
\* The checker is called for a node of the kinds K.
Checking(K) == phase = "types" /\ thrown = NIL /\ At(K)

\* An evaluation with outcome o; then the variables have the types V and the
\* nodes s come next.
Evaluated(o, V, s) ==
  /\ thrown' = o.error
  /\ printed' = (printed \/ o.printed)
  /\ ty' = [n \in Node |-> IF \E x \in o.sets : x.node = n
                           THEN (CHOOSE x \in o.sets : x.node = n).ty ELSE ty[n]]
  /\ IF o.error = NIL THEN Calls(s, Scope, Loop) /\ varType' = V
     ELSE UNCHANGED <<todo, varType>>
  /\ UNCHANGED <<program, parent, symtable, letSymbol, symbolPtr, phase>>

\* The parts s come next, with nothing evaluated.
Enter(s) == Evaluated(Gives(NoType), varType, s)

NamesDone ==
  /\ phase = "done"
  /\ phase' = "types"
  /\ todo' = <<[node |-> 1, scope |-> 0, loop |-> 0]>>
  /\ UNCHANGED <<program, parent, symtable, letSymbol, symbolPtr, thrown, ty, varType, printed>>

\* check_module; classes and enums are not looked at.
CheckModule ==
  /\ Checking({"Module"})
  /\ Enter(Parts(This, {"Let", "Function", "Namespace"}))

\* check_namespace: only its variables.
CheckNamespace ==
  /\ Checking({"Namespace"})
  /\ Enter(Parts(This, {"Let"}))

\* check_function, check_scope, and check_stmt of an if: the arguments, the
\* result type and the body; the statements; the parts in turn.
CheckParts ==
  /\ Checking({"Function", "Scope", "If"})
  /\ Enter(program.parts[This])

\* An argument of a function has the type written there.
CheckArgument ==
  /\ Checking({"Arg"})
  /\ LET type == program.parts[This][1]
         o    == Sets(type, EvalTypename(type, varType)) IN
     Evaluated(o, [varType EXCEPT ![This] = o.ty], <<>>)

\* The result type of a function.
CheckResultType ==
  /\ Checking({"TypeName"})
  /\ Evaluated(Sets(This, EvalTypename(This, varType)), varType, <<>>)

\* Mutant of CheckLet: a declaration leaves a variable its first type.
CheckLetFirst ==
  /\ Checking({"Let"}) /\ letSymbol[This] # 0
  /\ LET i == program.parts[This][Len(program.parts[This])]
         o == IF program.parts[This] = <<>> THEN Gives(NoType)
              ELSE IF Is(i, {"TypeName"}) THEN EvalTypename(i, varType) ELSE EvalExpr(i, varType)
         v == letSymbol[This] IN
     Evaluated(o, IF program.parts[This] = <<>> \/ varType[v] # NIL THEN varType
                  ELSE [varType EXCEPT ![v] = o.ty], <<>>)

\* check_stmt, for a declaration with a symbol: it has the type written there,
\* before the initialiser is evaluated, or that of the initialiser.  Compared
\* with this is the type stored in the node, which for an enum is `none'.
CheckLet ==
  LET v      == letSymbol[This]
      types  == Parts(This, {"TypeName"})
      inits  == SelectSeq(program.parts[This], LAMBDA n : ~Is(n, {"TypeName"}))
      type   == EvalTypename(types[1], varType)
      stored == IF type.sets = {} THEN NoType ELSE type.ty
      V      == IF types = <<>> THEN varType ELSE [varType EXCEPT ![v] = type.ty]
      init   == EvalExpr(inits[1], V)
      given  == IF types = <<>> THEN Gives(NoType) ELSE type
      made   == IF inits = <<>> THEN Gives(NoType) ELSE init
      same   == types # <<>> /\ inits # <<>> => Equals(stored, init.ty) IN
  /\ Checking({"Let"})
  /\ v # 0
  /\ Evaluated(Then(given, Then(made, Check(same, "mismatched_types"))),
               IF types = <<>> /\ inits # <<>> THEN [V EXCEPT ![v] = init.ty] ELSE V, <<>>)

\* A variable gets the element type of what is run through, by way of the scope
\* of the for, which one in the branches of an else-if has not got; a bare List
\* is read before that.  Of what cannot be run through an error is printed, and
\* the body is checked all the same.
CheckFor ==
  LET iterable == EvalExpr(program.parts[This][1], varType)
      content  == iterable.ty
      body     == Tail(program.parts[This])
      elem     == IF content.kind = "string" THEN Ty("char", <<>>) ELSE content.params[1]
      bare     == content.kind # "string" /\ content.params = <<>>
      stored   == Then(Check(~bare, "out_of_range"), Check(ScopePtr(This) # 0, "segfault")) IN
  /\ Checking({"For"})
  /\ IF content.kind \notin {"Vec", "List", "string"}
     THEN Evaluated(Prints(iterable), varType, body)
     ELSE Evaluated(Then(iterable, stored), [varType EXCEPT ![This] = elem], body)

\* An expression as a statement, or the condition of an if.
CheckExpr ==
  /\ Checking({"Symbol"} \cup Operations)
  /\ Evaluated(EvalExpr(This, varType), varType, <<>>)

\* Statements without rules, and two that the assertions of check_stmt forbid:
\* a try, and a declaration without a symbol (the variable of an if, and what
\* stands in the branches of an else-if).
CheckUnknown ==
  \/ /\ Checking({"While", "Break"})
     /\ Evaluated(Fails("todo"), varType, <<>>)
  \/ /\ Checking({"Try", "Let"})
     /\ Is(This, {"Let"}) => letSymbol[This] = 0
     /\ Evaluated(Fails("assertion"), varType, <<>>)

CheckNext ==
  \/ Next /\ UNCHANGED <<ty, varType, printed>>
  \/ NamesDone
  \/ CheckModule
  \/ CheckNamespace
  \/ CheckParts
  \/ CheckArgument
  \/ CheckResultType
  \/ CheckLet
  \/ CheckFor
  \/ CheckExpr
  \/ CheckUnknown

CheckSpec == CheckInit /\ [][CheckNext]_checkVars
=============================================================================
