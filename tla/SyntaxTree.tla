----------------------------- MODULE SyntaxTree -----------------------------
(***************************************************************************)
(* Syntax trees, as far as names, scopes and types depend on them.         *)
(***************************************************************************)
EXTENDS Lists, Integers, FiniteSets

CONSTANTS
  Node,      \* numbers of nodes, in source order; 1 is the module
  Ident,     \* names
  NIL,       \* no name, no error
  Programs   \* the syntax trees considered

\* bultin_class_names, whose names also name the kinds of types, and
\* builtin_func_table.
BuiltinTypes == <<"none", "int", "float", "usize", "bool", "char", "string", "Vec", "List",
                  "tuple", "dict", "functor">>
BuiltinFuncs == <<"print", "println">>
BuiltinNames == BuiltinTypes \o BuiltinFuncs
Builtin      == {BuiltinNames[i] : i \in 1 .. Len(BuiltinNames)}

\* Expressions besides names.  A Field is a pair (a: b); Binary stands for the
\* operators without rules of their own, Other for those that only end in
\* `todo', assignments among them.
Operations == {"Value", "Self", "Field", "Array", "Tuple", "Subscript", "Slice", "Member",
               "Element", "Call", "MethodCall", "Binary", "Other"}

\* A TypeName is a name where a type stands, a Symbol another one; Break also
\* stands for continue, New for the constructor of a class, None for no node.
Kind == {"Module", "Namespace", "Class", "New", "Enum", "Enumerator", "Function",
         "Arg", "Scope", "If", "For", "While", "Try", "Catch", "Let", "Break",
         "Symbol", "TypeName", "None"} \cup Operations

\* The name of a For is that of its variable, that of a Value its type; `rest'
\* is what follows the first :: of a name, `index' the number in an Element.
\* `parts' are the nodes below a node: of a declaration its type and
\* initialiser, of an If its variable, condition and branches, of a name its
\* type arguments, of a Call the callee and the arguments, of a MethodCall the
\* object, the name of the method and the arguments.
Program == [kind  : [Node -> Kind],
            name  : [Node -> Ident \cup {NIL}],
            rest  : [Node -> Seq(Ident)],
            index : [Node -> Nat],
            parts : [Node -> Seq(Node)]]

\* What a module or a namespace may hold besides variables.
Items == {"Function", "Class", "Enum", "Namespace"}

\* The kinds of the nodes that the parser hangs below one of the kind k.
PartKinds(k) ==
  LET Expr == Operations \cup {"Symbol", "TypeName"} IN
  CASE k \in {"Module", "Namespace"} -> Items \cup {"Let"}
    [] k = "Class"               -> {"Let", "Function", "New"}
    [] k = "Enum"                -> {"Enumerator"}
    [] k \in {"Function", "New"} -> {"Arg", "TypeName", "Scope"}
    [] k = "Scope"               -> Expr \cup {"Scope", "For", "If", "While", "Try", "Let", "Break"}
    [] k = "For"                 -> Expr \cup {"Scope"}
    [] k = "If"                  -> Expr \cup {"Let", "Scope", "If"}
    [] k = "While"               -> Expr \cup {"Let", "Scope"}
    [] k = "Try"                 -> {"Scope", "Catch"}
    [] k = "Catch"               -> {"TypeName", "Scope"}
    [] k \in {"Break", "None"}    -> {}
    [] OTHER                     -> Expr

\* The parser makes every node once and hangs it below one other node; the parts
\* of a node come behind it.
TreeShaped(p) ==
  /\ p.kind[1] = "Module"
  /\ \A n \in Node : /\ NoRepeat(p.parts[n])
                     /\ \A m \in Listed(p.parts[n]) : n < m /\ p.kind[m] \in PartKinds(p.kind[n])
  /\ \A m, n \in Node : m # n => Listed(p.parts[m]) \cap Listed(p.parts[n]) = {}

\* Why the analysis may end.
Errors == {"ambiguous_symbol_name", "invalid_scope_resolution", "cannot_use_break_here",
           "segfault"}

ASSUME TreesAssumption ==
  /\ 1 \in Node
  /\ Node \subseteq Nat \ {0} /\ IsFiniteSet(Node)
  /\ Builtin \subseteq Ident
  /\ NIL \notin Ident \cup Errors
  /\ \A p \in Programs : p \in Program /\ TreeShaped(p)

VARIABLE program   \* the tree that is analysed

Is(n, K) == program.kind[n] \in K

\* The code of a built-in name, which stands for its symbol.
BuiltinCode(x) == -(CHOOSE i \in 1 .. Len(BuiltinNames) : BuiltinNames[i] = x)

\* The parts of n of the kinds K.
Parts(n, K)   == Sublist(program.parts[n], {m \in Node : Is(m, K)})
PartSet(n, K) == Listed(program.parts[n]) \cap {m \in Node : Is(m, K)}

\* Of the declarations D the first one with the name of n: variables of one
\* name in one block are one variable.
FirstOf(n, D) ==
  CHOOSE m \in D : /\ program.name[m] = program.name[n]
                   /\ \A k \in D : program.name[k] = program.name[n] => m <= k
=============================================================================
