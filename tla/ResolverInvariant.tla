------------------------- MODULE ResolverInvariant --------------------------
(***************************************************************************)
(* The inductive invariant of module Resolver: what its safety properties  *)
(* and the refinement of lexical scoping rest on.                          *)
(***************************************************************************)
EXTENDS ResolverProperties

\* The kinds of nodes that may get a scope; all but the if look it up when they
\* are visited.
ScopeKinds == {"Module", "Namespace", "Class", "Enum", "Function", "For", "If", "Scope"}
Openers    == ScopeKinds \ {"If"}

\* The kinds of those parts of a node of kind k whose scopes hang below its own.
KindsBelow(k) ==
  IF k \in {"Module", "Namespace"} THEN Items
  ELSE IF k = "Class" THEN {"Function"}
  ELSE IF k \in {"Function", "For", "If"} THEN {"Scope"}
  ELSE IF k = "Scope" THEN {"Scope", "For", "If"}
  ELSE {}
ScopeParts(n) == PartSet(n, KindsBelow(program.kind[n]))

Made(n) == parent[n] # -1
Awaited(n) == \E c \in Listed(todo) : c.node = n

\* A scope hangs below that of the node around; only that of the module is on top.
ScopeTree ==
  \A n \in Node : Made(n) =>
    /\ Is(n, ScopeKinds)
    /\ parent[n] = 0 => n = 1
    /\ parent[n] # 0 => Made(parent[n]) /\ n \in ScopeParts(parent[n])

\* The constructors are called for what belongs below the scope they get.
ScopeCalls ==
  phase = "scopes" =>
    \A c \in Listed(todo) :
      \/ c.node = 1 /\ c.scope = 0
      \/ c.scope # 0 /\ Made(c.scope) /\ c.node \in ScopeParts(c.scope)

\* No scope is forgotten.
ScopesComplete ==
  \A n \in Node : n = 1 \/ (\E m \in Node : Made(m) /\ n \in ScopeParts(m)) =>
    Made(n) \/ (phase = "scopes" /\ Awaited(n))

\* The symbol tables hold what the constructs declare, and the declarations
\* their symbols.
Tables ==
  /\ \A n \in Node : Listed(symtable[n]) = IF Made(n) THEN Declares(n) ELSE {}
  /\ \A n \in Node : \A d \in PartSet(n, {"Let"}) : Made(n) =>
        /\ Is(n, {"Module", "Namespace"}) => letSymbol[d] = d
        /\ Is(n, {"Scope"}) => letSymbol[d] = FirstOf(d, PartSet(n, {"Let"}))

\* The constructs with scopes whose declarations hold at n, and those nodes
\* where none is known.
Enclosing(n) == {c \in Node : Is(c, ScopeKinds) /\ n \in Region(c)}
InBlind(n)   == n \in WithBelow(Blind)

\* From scope s on, find_symbol finds what holds at n.
RightScope(n, s) ==
  IF InBlind(n) THEN s = 0
  ELSE s # 0 /\ Made(s) /\ Enclosing(n) = {s} \cup Enclosing(s)

\* The resolver is called with the scope and the loop depth of the node.
ResolverCalls ==
  phase # "scopes" =>
    \A c \in Listed(todo) :
      /\ c.node \in Analysed
      /\ ~Is(c.node, Openers) => RightScope(c.node, c.scope)
      /\ c.loop > 0 <=> InLoop(c.node)

\* Nothing has to be said or done about n any more.
Settled(n) ==
  /\ Offence(n) = NIL
  /\ IsName(n) /\ symbolPtr[n] = 0 => Cardinality(Meaning(n).ds) # 1

ToCome == WithBelow({c.node : c \in Listed(todo)})

\* A node with a symbol is a name that means it; every node not yet visited is
\* still to come.
Progress ==
  /\ phase = "scopes" => thrown = NIL /\ \A n \in Node : symbolPtr[n] = 0
  /\ \A n \in Node : symbolPtr[n] # 0 =>
        /\ IsName(n)
        /\ Cardinality(Meaning(n).ds) = 1
        /\ symbolPtr[n] = CHOOSE d \in Meaning(n).ds : TRUE
  /\ phase # "scopes" /\ thrown = NIL =>
        \A n \in Analysed : n \in ToCome \/ Settled(n)

\* A symbol that a name has got is in a table, the only one of its name there.
SymbolsUnique ==
  \A n \in Node : symbolPtr[n] > 0 =>
    \E b \in Node :
      /\ Made(b) /\ symbolPtr[n] \in Declares(b)
      /\ \A d \in Declares(b) :
            program.name[d] = program.name[symbolPtr[n]] => d = symbolPtr[n]

IInv ==
  /\ TypeOK
  /\ program \in Programs
  /\ ScopeTree
  /\ ScopeCalls
  /\ ScopesComplete
  /\ Tables
  /\ ResolverCalls
  /\ Progress
  /\ SymbolsUnique
=============================================================================
