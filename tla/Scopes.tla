------------------------------- MODULE Scopes -------------------------------
(***************************************************************************)
(* The scope tree of a module: the constructors SCModule, SCNamespace,     *)
(* SCClass, SCEnum, SCFunction, SCScope, SCIf and SCFor, which give the    *)
(* constructs that declare names a scope with a symbol table.              *)
(*                                                                         *)
(* A construct has at most one scope and a declaration at most one symbol, *)
(* so both are named by their node.  The constructors call each other      *)
(* depth first; `todo' lists the calls still to be made, the next one      *)
(* first, each with the scope it gets as parent.  The constructors of try  *)
(* and catch scopes are never called.                                      *)
(***************************************************************************)
EXTENDS SyntaxTree

VARIABLES
  parent,     \* Scope::parent; 0 is the null pointer, -1: there is no scope
  symtable,   \* Scope::symtable
  letSymbol,  \* NdLet::symbol_ptr, or 0
  todo        \* the calls still to be made

ScopesInit ==
  /\ program \in Programs
  /\ parent = [n \in Node |-> -1]
  /\ symtable = [n \in Node |-> <<>>]
  /\ letSymbol = [n \in Node |-> 0]
  /\ todo = <<[node |-> 1, scope |-> 0, loop |-> 0]>>

\* Mutant of ScopePtr: the pointer is not initialised.
ScopePtrWild(n) == IF parent[n] = -1 THEN -1 ELSE n

\* Node::scope_ptr, null in a node that has got no scope.
ScopePtr(n) == IF parent[n] = -1 THEN 0 ELSE n

This  == Head(todo).node
At(K) == todo # <<>> /\ Is(This, K)

\* The calls for the nodes s come next.
Calls(s, scope, loop) ==
  todo' = [i \in 1 .. Len(s) |-> [node |-> s[i], scope |-> scope, loop |-> loop]] \o Tail(todo)

\* Mutant of Make: the scopes below get the parent that this one got.
MakeFlat(symbols, below) ==
  /\ parent' = [parent EXCEPT ![This] = Head(todo).scope]
  /\ symtable' = [symtable EXCEPT ![This] = symbols]
  /\ Calls(below, IF Is(This, {"For"}) THEN Head(todo).scope ELSE This, 0)
  /\ UNCHANGED program

\* This node gets a scope with these symbols; then the scopes of the nodes
\* below are made.
Make(symbols, below) ==
  /\ parent' = [parent EXCEPT ![This] = Head(todo).scope]
  /\ symtable' = [symtable EXCEPT ![This] = symbols]
  /\ Calls(below, This, 0)
  /\ UNCHANGED program

\* SCModule, SCNamespace: all items are entered; variables have no scope.
MakeItems ==
  /\ At({"Module", "Namespace"})
  /\ Make(Parts(This, Items \cup {"Let"}), Parts(This, Items))
  /\ letSymbol' = [n \in Node |-> IF n \in PartSet(This, {"Let"}) THEN n ELSE letSymbol[n]]

\* SCClass: the methods; fields are kept in a table that is no symtable.
MakeClass ==
  /\ At({"Class"})
  /\ Make(Parts(This, {"Function"}), Parts(This, {"Function"}))
  /\ UNCHANGED letSymbol

MakeEnum ==
  /\ At({"Enum"})
  /\ Make(Parts(This, {"Enumerator"}), <<>>)
  /\ UNCHANGED letSymbol

MakeFunction ==
  /\ At({"Function"})
  /\ Make(Parts(This, {"Arg"}), Parts(This, {"Scope"}))
  /\ UNCHANGED letSymbol

MakeFor ==
  /\ At({"For"})
  /\ Make(<<This>>, Parts(This, {"Scope"}))
  /\ UNCHANGED letSymbol

\* SCIf: the branches that are blocks.
MakeIf ==
  /\ At({"If"})
  /\ Make(Parts(This, {"Let"}), Parts(This, {"Scope"}))
  /\ UNCHANGED letSymbol

\* Mutant of MakeScope: a second declaration keeps a symbol of its own.
MakeScopeOwn ==
  LET lets == PartSet(This, {"Let"}) IN
  /\ At({"Scope"})
  /\ Make(Sublist(Parts(This, {"Let"}), {n \in lets : FirstOf(n, lets) = n}),
          Parts(This, {"Scope", "For", "If"}))
  /\ letSymbol' = [n \in Node |-> IF n \in lets THEN n ELSE letSymbol[n]]

\* SCScope: its variables, one symbol for those of one name; of its statements
\* only blocks, for and if get a scope.
MakeScope ==
  LET lets == PartSet(This, {"Let"}) IN
  /\ At({"Scope"})
  /\ Make(Sublist(Parts(This, {"Let"}), {n \in lets : FirstOf(n, lets) = n}),
          Parts(This, {"Scope", "For", "If"}))
  /\ letSymbol' = [n \in Node |-> IF n \in lets THEN FirstOf(n, lets) ELSE letSymbol[n]]

ScopesNext ==
  \/ MakeItems
  \/ MakeClass
  \/ MakeEnum
  \/ MakeFunction
  \/ MakeFor
  \/ MakeIf
  \/ MakeScope
=============================================================================
