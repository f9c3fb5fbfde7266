--------------------------- MODULE ParserProperties ---------------------------
(***************************************************************************)
(* What the parser must guarantee: properties of module Parser.  They      *)
(* compare the tree of a program that is accepted with its tokens alone.   *)
(***************************************************************************)
EXTENDS Parser, FiniteSets

Nodes == {made[i] : i \in DOMAIN made}

Outcomes == {"", "parsed", "exit", "expected_but_found", "expected_identifier_tok",
             "invalid_syntax", "invalid_character_literal", "cannot_use_decltype_here",
             "expected_catch_block", "scope_not_terminated",
             "empty_class_or_enum_is_not_valid", "duplicate_of_definition",
             "cannot_specify_return_type_of_constructor", "expected_item_of_module",
             "import_not_allowed_here"}

\* The parser never leaves the tokens, splits only a >>, makes nodes only of
\* tokens that it has read, and ends in one of the ways listed only.
TypeOK ==
  /\ cur \in DOMAIN input
  /\ split \subseteq {p \in DOMAIN input : input[p] = ">>"}
  /\ lost \subseteq split
  /\ \A n \in Nodes : 1 <= n.first /\ n.first <= n.last /\ n.last <= cur
                        /\ n.op \in n.first .. n.last
  /\ outcome \in Outcomes
-----------------------------------------------------------------------------
(* The operators of a program, by its tokens and its type arguments.       *)

TypeArgs == {n \in Nodes : n.kind = "TypeArgs"}

\* How many type arguments end with token p, and how many could.
Ends(p)   == Cardinality({n \in TypeArgs : n.last = p})
Halves(p) == IF input[p] = ">>" THEN 2 ELSE 1

InTypes(p) == \/ \E n \in TypeArgs : n.first <= p /\ p < n.last
              \/ Ends(p) > 0 /\ (p \notin split \/ Ends(p) = Halves(p))

\* How many brackets are open before token p.
Count(t, p) == Cardinality({i \in 1 .. p : input[i] \in t})
Depth(p)    == Count({"(", "[", "{"}, p - 1) - Count({")", "]", "}"}, p - 1)

\* The strength of an operator, weakest first.
Strength(t) == IF t \in Assignments THEN 0
               ELSE CHOOSE k \in DOMAIN Levels : t \in DOMAIN Levels[k]

BinaryOperators == Assignments \cup UNION {DOMAIN Levels[k] : k \in DOMAIN Levels}

EndsOperand(p) == \/ IsIdentifier(Text(p)) \/ Text(p) \in Literals \cup {")", "]", "++", "--"}
                  \/ Ends(p) > 0

\* Token p stands between two operands (not in .<n>, the element of a tuple).
IsBinary(p) == /\ Text(p) \in BinaryOperators /\ EndsOperand(p - 1) /\ ~InTypes(p)
               /\ ~(p > 3 /\ input[p - 2] = "<" /\ input[p - 3] = ".")

BinaryKinds == {"Assign"} \cup UNION {{Levels[k][t] : t \in DOMAIN Levels[k]} : k \in DOMAIN Levels}

BinaryNodes == {n \in Nodes : n.kind \in BinaryKinds /\ n.op > n.first}

\* Outside the declarations of a program, operators bind as the levels say: the
\* operator of a binary node is the weakest one between its ends that is not in
\* brackets, of those the last one (of assignments the first one); and each of
\* the others has a node of its own, on its side.  (ps_assign to ps_terms; a
\* program in which a token was lost is left out.)
OperatorsBindByStrength ==
  outcome = "parsed" /\ lost = {} =>
    \A n \in BinaryNodes :
      \A p \in {q \in n.first + 1 .. n.last : q # n.op /\ IsBinary(q) /\ Depth(q) = Depth(n.op)} :
        /\ \/ Strength(Text(p)) > Strength(Text(n.op))
           \/ /\ Strength(Text(p)) = Strength(Text(n.op))
              /\ IF Text(p) \in Assignments THEN n.op < p ELSE p < n.op
        /\ \E m \in BinaryNodes :
             /\ m.op = p
             /\ IF p < n.op THEN n.first <= m.first /\ m.last < n.op
                ELSE n.op < m.first /\ m.last <= n.last
-----------------------------------------------------------------------------
(* Type arguments, by a grammar over the tokens with every >> as two >.    *)

\* The tokens, each as <<text, number>>.
Units ==
  LET U[i \in 0 .. Len(input)] ==
        IF i = 0 THEN <<>>
        ELSE U[i - 1] \o IF input[i] = ">>" THEN <<<<">", i>>, <<">", i>>>>
                         ELSE <<<<input[i], i>>>>
  IN  U[Len(input)]

\* The ends of what can be derived from r at the start of u[i ..]: the numbers
\* of the units behind.
Derivable(u) ==
  LET Is(i, t)  == i <= Len(u) /\ u[i][1] = t
      D[r \in {"types", "type", "symbol", "list"}, i \in 1 .. Len(u) + 1] ==
        CASE r = "list"   -> {j + 1 : j \in {k \in IF Is(i, "<") THEN D["types", i + 1] ELSE {} :
                                             Is(k, ">")}}
          [] r = "types"  -> LET one == D["type", i] IN
                             one \cup UNION {D["types", j + 1] : j \in {k \in one : Is(k, ",")}}
          [] r = "type"   -> IF Is(i, "(")
                             THEN {j + 1 : j \in {k \in UNION {D["types", m + 1] :
                                     m \in {l \in D["type", i + 1] : Is(l, ",")}} : Is(k, ")")}}
                             ELSE LET one == D["symbol", i] IN
                                  one \cup UNION {D["type", j + 1] : j \in {k \in one : Is(k, ":")}}
          [] r = "symbol" -> IF i > Len(u) \/ ~IsIdentifier(u[i][1]) THEN {}
                             ELSE LET one == {i + 1} \cup D["list", i + 1] IN
                                  one \cup UNION {D["symbol", j + 1] : j \in {k \in one : Is(k, "::")}}
  IN  D

\* A < behind a name starts type arguments in exactly the cases in which what
\* follows it can be read as type arguments in any way at all: reading ahead
\* and giving up, ps_symbol misses none and takes nothing else for one.
\* (Programs with decltype, or in which a token was lost, are left out.)
TypeArgumentsWherePossible ==
  outcome = "parsed" /\ lost = {} /\ (\A p \in DOMAIN input : input[p] \notin {"decltype", "ref", "const"}) =>
    LET u == Units
        D == Derivable(u) IN
    \A i \in 2 .. Len(u) : u[i][1] = "<" /\ IsIdentifier(u[i - 1][1]) =>
      ((\E n \in TypeArgs : n.first = u[i][2]) <=> D["list", i] # {})

\* Both halves of a >> that was split are used: each ends type arguments or is
\* the operator > (so an `a < b >> c' becomes a comparison).  Of a token that was
\* split in an attempt given up later one half only is: the text stays split,
\* and one > of the program goes unread.
BothHalvesUsed ==
  outcome = "parsed" =>
    \A p \in split :
      LET operator == IF \E n \in BinaryNodes : n.op = p THEN 1 ELSE 0 IN
      Ends(p) + operator = IF p \in lost THEN 1 ELSE 2

\* Every { of an accepted program is closed, except that of a class at its end:
\* the loop over its members stops there (the loops of scopes and namespaces
\* do not).
OnlyLastClassUnclosed ==
  outcome = "parsed" =>
    LET open == Depth(Len(input)) IN
    \/ open = 0
    \/ open = 1 /\ made[Len(made)].kind = "Class"

\* The comments on the kinds of nodes in Node.hpp: a <= b is a BiggerOrEqual.
\* (It is a Bigger.)
ComparisonsAsCommented ==
  \A n \in BinaryNodes : Text(n.op) = "<=" => n.kind = "BiggerOrEqual"
=============================================================================
