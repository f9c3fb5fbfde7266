------------------------- MODULE ResolverProperties -------------------------
(***************************************************************************)
(* What the scope tree and name resolution must guarantee: properties of   *)
(* module Resolver.                                                        *)
(***************************************************************************)
EXTENDS Resolver, NameMeaning

TypeOK ==
  /\ program \in Program
  /\ parent \in [Node -> Node \cup {0, -1}]
  /\ symtable \in [Node -> Seq(Node)]
  /\ letSymbol \in [Node -> Node \cup {0}]
  /\ todo \in Seq([node : Node, scope : Node \cup {0}, loop : Nat])
  /\ symbolPtr \in [Node -> Node \cup {0} \cup {BuiltinCode(x) : x \in Builtin}]
  /\ phase \in {"scopes", "names", "done"}
  /\ thrown \in Errors \cup {NIL}

Lexical == INSTANCE LexicalScoping
             WITH meaning <- symbolPtr, givenUp <- thrown, finished <- phase = "done"

\* Name resolution implements lexical scoping: the scopes built from the tree,
\* find_symbol's way up through them and the context that the resolver hands
\* down give each name the declaration it means by the tree alone, and leave
\* none out; the analysis is given up for the reasons given there only.
ImplementsLexicalScoping == Lexical!Spec

\* The scope of a construct hangs below the scope of the nearest construct
\* around it that has one: the tree of scopes follows the tree of syntax.
ScopesFollowSyntax ==
  \A n \in Node : parent[n] > 0 =>
    /\ n \in Below(parent[n])
    /\ \A m \in Node : parent[m] # -1 /\ n \in Below(m)
                         => m = parent[n] \/ parent[n] \in Below(m)

\* A name that stands for a variable and all declarations of that variable
\* (a block may declare one name again) hold the same symbol, so that the type
\* found at a declaration is seen at the name.  (The variable of an if is left
\* out: its declaration has no symbol.)
NamesShareSymbols ==
  \A n \in Node : symbolPtr[n] > 0 /\ Is(symbolPtr[n], {"Let"}) =>
    \A b \in Node : symbolPtr[n] \in PartSet(b, {"Let"}) /\ ~Is(b, {"If"}) =>
      \A d \in PartSet(b, {"Let"}) :
        program.name[d] = program.name[symbolPtr[n]] => letSymbol[d] = symbolPtr[n]

\* The assertion on a declaration in the type checker, which runs after name
\* resolution: it has a symbol.  Of an if that is the first statement of a
\* function, so that nothing keeps the type checker from reaching it.  (The
\* declaration in an if has none.)
IfVariablesHaveSymbols ==
  phase = "done" =>
    \A f \in {n \in Node : Is(n, {"Function"})} : \A b \in PartSet(f, {"Scope"}) :
      \A c \in PartSet(b, {"If"}) : \A n \in PartSet(c, {"Let"}) :
        Head(program.parts[b]) = c => letSymbol[n] # 0

\* The repository's Lexer.fire uses, in the body of a while, a variable that
\* the block around the while declares.  (It is not found.)
LoopBodiesSeeLocals ==
  phase = "done" =>
    \A b \in {n \in Node : Is(n, {"Scope"})} : \A w \in PartSet(b, {"While"}) :
      \A n \in Below(w) : \A l \in PartSet(b, {"Let"}) :
        /\ Is(n, {"Symbol"}) /\ program.rest[n] = <<>>
        /\ program.name[l] = program.name[n] /\ l < w
        => symbolPtr[n] # 0
=============================================================================
