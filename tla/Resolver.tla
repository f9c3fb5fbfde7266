------------------------------ MODULE Resolver ------------------------------
(***************************************************************************)
(* Sema::analyze_full up to the type checker: the scope tree is built,     *)
(* then NameResolver walks through the module and gives every name that it *)
(* can a symbol (on_module, on_function, on_stmt, on_expr, on_typename)    *)
(* with Sema::find_symbol.                                                 *)
(*                                                                         *)
(* The visitor context is passed by value: each call still to be made      *)
(* carries its own current scope and loop depth.  A name is one node, its  *)
(* first part: only that gets a symbol.  (For a built-in function          *)
(* find_symbol sets that of the last part too.)  decltype is left out.     *)
(***************************************************************************)
EXTENDS Scopes

VARIABLES
  symbolPtr,  \* NdSymbol::symbol_ptr: a declaration, 0 (null), or a BuiltinCode
  phase,      \* "scopes", "names" or "done"
  thrown      \* the exception that ends the analysis, "segfault", or NIL

vars == <<program, parent, symtable, letSymbol, todo, symbolPtr, phase, thrown>>

Init ==
  /\ ScopesInit
  /\ symbolPtr = [n \in Node |-> 0]
  /\ phase = "scopes"
  /\ thrown = NIL

MakeScopes ==
  /\ phase = "scopes"
  /\ ScopesNext
  /\ UNCHANGED <<symbolPtr, phase, thrown>>

\* resolver.on_module(mod, {})
ScopesMade ==
  /\ phase = "scopes" /\ todo = <<>>
  /\ phase' = "names"
  /\ todo' = <<[node |-> 1, scope |-> 0, loop |-> 0]>>
  /\ UNCHANGED <<program, parent, symtable, letSymbol, symbolPtr, thrown>>
-----------------------------------------------------------------------------
\* The symbols named x in the symbol table of c.
Named(x, c) == {d \in Listed(symtable[c]) : program.name[d] = x}

\* Mutant of Hits: the search does not stop at the scope it has found one in.
HitsEverywhere(x, s) ==
  LET H[c \in Node \cup {0, -1}] == IF c <= 0 THEN {} ELSE Named(x, c) \cup H[parent[c]]
  IN  H[s]

\* The symbols named x in the nearest scope around s, s included, that has any.
Hits(x, s) ==
  LET H[c \in Node \cup {0, -1}] == IF c <= 0 THEN {}
                                    ELSE IF Named(x, c) # {} THEN Named(x, c)
                                    ELSE H[parent[c]]
  IN  H[s]

\* What has to be said of the i-th part of a name that has a next part.
Qualifier(hits) ==
  IF Cardinality(hits) > 1 THEN "ambiguous_symbol_name"
  ELSE IF \A d \in hits : Is(d, {"Namespace", "Class", "Enum"}) THEN NIL
  ELSE IF \A d \in hits : Is(d, {"Function"}) THEN "invalid_scope_resolution"
  ELSE "segfault"

\* A call of Sema::find_symbol, for one part x of a name, the last or not, from
\* scope c on.  A part that nothing declares is looked for among the built-in
\* names, and what follows is then not looked at.
FindPart(x, last, c) ==
  LET hits == Hits(x, c)
      Ends(h, e) == [hits |-> h, error |-> e, over |-> TRUE] IN
  IF hits = {} THEN Ends(IF x \in Builtin THEN {BuiltinCode(x)} ELSE {}, NIL)
  ELSE IF last THEN Ends(hits, NIL)
  ELSE IF Qualifier(hits) # NIL THEN Ends({}, Qualifier(hits))
  ELSE [hits |-> hits, error |-> NIL, over |-> FALSE]

\* Sema::find_symbol: the hits for a name, or an error.  Each further part is
\* searched for in the scope of the part before, and again in the scopes around
\* that.
FindSymbol(n, s) ==
  LET path == <<program.name[n]>> \o program.rest[n]
      F[i \in 1 .. Len(path)] ==
        IF i = 1 THEN FindPart(path[i], i = Len(path), s)
        ELSE IF F[i - 1].over THEN F[i - 1]
        ELSE FindPart(path[i], i = Len(path), CHOOSE d \in F[i - 1].hits : TRUE)
  IN  F[Len(path)]

Scope == Head(todo).scope
Loop  == Head(todo).loop

\* The resolver is called for a node of the kinds K.
Visit(K) == phase = "names" /\ thrown = NIL /\ At(K)

\* on_expr and on_typename, for a name: with one hit it gets its symbol; then
\* come its type arguments.
OnSymbol ==
  /\ Visit({"Symbol", "TypeName"})
  /\ LET found == FindSymbol(This, Scope) IN
     IF found.error # NIL
     THEN thrown' = found.error /\ UNCHANGED <<todo, symbolPtr>>
     ELSE /\ symbolPtr' = [symbolPtr EXCEPT ![This] =
                IF Cardinality(found.hits) = 1 THEN CHOOSE d \in found.hits : TRUE ELSE @]
          /\ Calls(program.parts[This], Scope, Loop)
          /\ UNCHANGED thrown
  /\ UNCHANGED <<program, parent, symtable, letSymbol, phase>>

\* break and continue.
OnBreak ==
  /\ Visit({"Break"})
  /\ IF Loop = 0
     THEN thrown' = "cannot_use_break_here" /\ UNCHANGED todo
     ELSE Calls(<<>>, Scope, Loop) /\ UNCHANGED thrown
  /\ UNCHANGED <<program, parent, symtable, letSymbol, symbolPtr, phase>>

\* The other nodes: the calls s come next, with this scope and loop depth.
Walk(s, scope, loop) ==
  /\ Calls(s, scope, loop)
  /\ UNCHANGED <<program, parent, symtable, letSymbol, symbolPtr, phase, thrown>>

\* A module, namespace, enum, function or block: its parts, in its scope.
OnScope ==
  /\ Visit({"Module", "Namespace", "Enum", "Function", "Scope"})
  /\ Walk(program.parts[This], ScopePtr(This), Loop)

\* A class: fields first, then methods; its constructor is left out.
OnClass ==
  /\ Visit({"Class"})
  /\ Walk(Parts(This, {"Let"}) \o Parts(This, {"Function"}), ScopePtr(This), Loop)

OnFor ==
  /\ Visit({"For"})
  /\ Walk(program.parts[This], ScopePtr(This), Loop + 1)

\* Mutant of OnWhile: the loop is not counted.
OnWhileUncounted ==
  /\ Visit({"While"})
  /\ Walk(program.parts[This], Scope, Loop)

\* A while changes the loop depth, but not the scope.
OnWhile ==
  /\ Visit({"While"})
  /\ Walk(program.parts[This], Scope, Loop + 1)

\* Mutant of OnExpr: the arguments of a call are left out.
OnExprNoArguments ==
  /\ Visit(Operations)
  /\ Walk(IF Is(This, {"Call"}) THEN SubSeq(program.parts[This], 1, 1) ELSE program.parts[This],
          Scope, Loop)

\* An expression that is no name: its parts.
OnExpr ==
  /\ Visit(Operations)
  /\ Walk(program.parts[This], Scope, Loop)

\* A declaration, an if or a try: its parts, in the scope it is in itself.
OnPlain ==
  /\ Visit({"Let", "Arg", "Enumerator", "If", "Try", "Catch"})
  /\ Walk(program.parts[This], Scope, Loop)

Resolved ==
  /\ phase = "names" /\ thrown = NIL /\ todo = <<>>
  /\ phase' = "done"
  /\ UNCHANGED <<program, parent, symtable, letSymbol, todo, symbolPtr, thrown>>

Next ==
  \/ MakeScopes
  \/ ScopesMade
  \/ OnSymbol
  \/ OnBreak
  \/ OnScope
  \/ OnClass
  \/ OnFor
  \/ OnWhile
  \/ OnExpr
  \/ OnPlain
  \/ Resolved

Spec == Init /\ [][Next]_vars
=============================================================================
