-------------------------------- MODULE Parser --------------------------------
(***************************************************************************)
(* The parser of items, statements and expressions (Parser.cpp), a         *)
(* recursive descent with one exception handler, in ps_symbol.             *)
(*                                                                         *)
(* Each ps_ function is a rule: the sequence of the instructions that its  *)
(* body carries out, with the branches of its conditions inside.  `todo'   *)
(* holds what is still to be done, innermost call first, and each action   *)
(* carries out its first instruction.  A token is its text.  Of the tree,  *)
(* `made' holds each node's kind and the tokens it was made from.          *)
(***************************************************************************)
EXTENDS Naturals, Sequences

CONSTANTS
  Inputs,       \* the token sequences considered, without the end marker
  Punctuators,  \* the texts of the tokens of kind Punctuator (table in Token.cpp)
  Literals,     \* the texts of number, character and string tokens,
  IntLiterals,  \* of those the integers
  BadChars      \* character literals that are not one UTF-16 unit

Eof == "<eof>"

ASSUME TextsAssumption ==
  /\ Inputs \subseteq Seq(STRING \ {Eof})
  /\ IntLiterals \subseteq Literals /\ BadChars \subseteq Literals
  /\ Literals \cap Punctuators = {}
  /\ {"(", ")", "[", "]", "{", "}"} \subseteq Punctuators
  /\ Eof \notin Literals \cup Punctuators

VARIABLES
  input,   \* the tokens
  split,   \* which >> have become a >
  lost,    \* history: of those, the ones an attempt split that was given up later
  cur,     \* the current token
  todo,    \* the instructions still to be carried out
  made,    \* the nodes, in the order they are made in
  outcome  \* "", "parsed", the exception that ends the parser, or "exit"

vars == <<input, split, lost, cur, todo, made, outcome>>

Text(i) == IF i \in split THEN ">" ELSE input[i]

\* Mutant of IsIdentifier: the end marker is taken for a name.
IsIdentifierOrEnd(t) == t \notin Punctuators \cup Literals

\* TokenKind::Identifier: keywords are not told from names.
IsIdentifier(t) == t \notin Punctuators \cup Literals \cup {Eof}
-----------------------------------------------------------------------------
(* Instructions.  A table maps token texts to instructions.                *)

\* A table of one text, and of those of f and g.  (As in the standard module TLC,
\* whose operators the proof system does not know.)
t :> s == [x \in {t} |-> s]
f @@ g == [x \in DOMAIN f \cup DOMAIN g |-> IF x \in DOMAIN f THEN f[x] ELSE g[x]]

Expect(t)           == <<[do |-> "expect", text |-> t]>>
ExpectIdent         == <<[do |-> "ident"]>>
ExpectInt           == <<[do |-> "int"]>>
Eat(table, no)      == <<[do |-> "eat", table |-> table, no |-> no]>>
Look(table, no)     == <<[do |-> "look", table |-> table, no |-> no]>>
Throw(e)            == <<[do |-> "throw", error |-> e]>>
Exit                == <<[do |-> "exit"]>>
Rule(r)             == <<[do |-> "rule", rule |-> r, first |-> 0]>>
Again(r, first)     == <<[do |-> "rule", rule |-> r, first |-> first]>>
Level(k)            == <<[do |-> "level", level |-> k]>>
Loop(k, first)      == <<[do |-> "loop", level |-> k, first |-> first]>>
Literal             == <<[do |-> "literal"]>>
FieldsOrTypes       == <<[do |-> "fields"]>>
Attempt(body)       == <<[do |-> "attempt", body |-> body]>>
CloseTypes(first)   == <<[do |-> "close", first |-> first]>>
Make(k, first, op)  == <<[do |-> "make", kind |-> k, first |-> first, op |-> op]>>

\* do body while (!is_end() && eat(","));  The end is not a comma.
List(body)  == body \o <<[do |-> "list", body |-> body]>>
Skip(t)     == Eat(t :> <<>>, <<>>)
Maybe(t, s) == Eat(t :> s, <<>>)

Type  == Rule("type_name")
Expr  == Level(1)
Scope == Rule("scope")
-----------------------------------------------------------------------------
(* Expressions.  `tok' is the number of the token the rule starts at.      *)

\* ps_symbol.  A < is taken for the start of type arguments as long as that
\* can be read.
Symbol(asTypename, tok) ==
  ExpectIdent
  \o Look("<" :> Attempt(Expect("<") \o List(Type) \o CloseTypes(tok + 1)), <<>>)
  \o Maybe("::", Rule("symbol"))
  \o IF asTypename THEN Maybe(":", Type) \o Skip("ref") \o Skip("const") ELSE <<>>

TypeName ==
  Eat("(" :> (Type \o Expect(",") \o List(Type) \o Expect(")"))
      @@ "decltype" :> (Expect("(") \o Expr \o Expect(")")),
      Rule("typename_symbol"))

Factor(tok) ==
  Eat("(" :> (Expr \o Maybe(",", List(Expr) \o Make("Tuple", tok, 0)) \o Expect(")"))
      @@ "[" :> (Eat("]" :> <<>>, List(Expr) \o Expect("]")) \o Make("Array", tok, 0))
      @@ "self" :> Make("Self", tok, 0)
      @@ "true" :> Make("Value", tok, 0)
      @@ "false" :> Make("Value", tok, 0)
      @@ "decltype" :> Throw("cannot_use_decltype_here"),
      Literal)

\* The loop of ps_subscript, for the expression that starts at tok.
Postfix(tok) ==
  LET more == Again("postfix", tok) IN
  Eat("(" :> (Eat(")" :> <<>>, List(Expr \o Maybe(":", Expr)) \o Expect(")"))
              \o Make("CallFunc", tok, 0) \o more)
      @@ "[" :> (Eat(":" :> Expr, Expr \o Maybe(":", Look("]" :> <<>>, Expr)))
                 \o Expect("]") \o Make("Subscript", tok, 0) \o more)
      @@ "." :> (Eat("<" :> (ExpectInt \o Expect(">") \o Make("GetTupleElement", tok, 0)),
                     Rule("factor") \o Make("MemberAccess", tok, 0)) \o more)
      @@ "++" :> Make("Inclement", tok, 0)
      @@ "--" :> Make("Declement", tok, 0),
      <<>>)

\* A prefix operator is for a ps_subscript, not for another ps_unary.
PrefixKinds == "++" :> "Inclement" @@ "--" :> "Declement" @@ "&" :> "Ref" @@ "*" :> "Deref"
            @@ "!" :> "Not" @@ "~" :> "BitNot" @@ "-" :> "Sub"

Unary(tok) ==
  Eat([t \in DOMAIN PrefixKinds |-> Rule("subscript") \o Make(PrefixKinds[t], tok, tok)]
      @@ "delete" :> Exit,
      Skip("+") \o Rule("subscript"))

\* ps_log_or down to ps_terms: the operators of a level, and the kinds of their
\* nodes.  (`-' in front is 0 - x; != is a Not around an Equal.)
Levels == <<
  "||" :> "LogOr",
  "&&" :> "LogAnd",
  "|"  :> "BitOr",
  "^"  :> "BitXor",
  "&"  :> "BitAnd",
  "==" :> "Equal" @@ "!=" :> "Not",
  "<"  :> "Bigger" @@ ">" :> "BiggerOrEqual" @@ "<=" :> "Bigger" @@ ">=" :> "BiggerOrEqual",
  "<<" :> "LShift" @@ ">>" :> "RShift",
  "+"  :> "Add" @@ "-" :> "Sub",
  "*"  :> "Mul" @@ "/" :> "Div" >>

\* Mutant of Operand: the operand of an operator is read from the same level.
OperandSameLevel(k) == IF k = Len(Levels) THEN Rule("unary") ELSE Level(k)

\* The operand of an operator of level k comes from the next level.
Operand(k) == IF k = Len(Levels) THEN Rule("unary") ELSE Level(k + 1)

\* One round of the loop of level k, with the operator at cur or without one.
Round(k, first, at) ==
  Eat([t \in DOMAIN Levels[k] |-> Operand(k) \o Make(Levels[k][t], first, at)
                                  \o Loop(k, first)],
      <<>>)

\* A level begins with the next one, so that the loops of all the levels from k
\* on follow the first operand, innermost first; at the lowest, ps_assign, an
\* assignment whose right side is a ps_assign again.
LevelBody(k, first) ==
  LET loops[i \in k .. Len(Levels) + 1] ==
        IF i > Len(Levels) THEN Rule("unary") ELSE loops[i + 1] \o Loop(i, first)
  IN  loops[k] \o IF k = 1 THEN Again("assign", first) ELSE <<>>

Assignments ==
  {"=", "+=", "-=", "*=", "/=", "%=", "&=", "|=", "^=", "<<=", ">>="}

Assign(first, at) ==
  Eat([t \in Assignments |-> Expr \o Make("Assign", first, at)], <<>>)
-----------------------------------------------------------------------------
(* Statements and items.                                                   *)

\* `var' name or names; at the end the ; unless it is in a condition.
Let(tok, end) ==
  Expect("var") \o Skip("static")
  \o Eat("(" :> (List(ExpectIdent) \o Expect(")")), ExpectIdent)
  \o Maybe(":", Type) \o Maybe("=", Expr) \o end \o Make("Let", tok, 0)

\* The condition of an if or a while.
Condition == Look("var" :> (Rule("let_in_condition") \o Maybe(";", Expr)), Expr)

Stmt(tok) ==
  Look("{" :> Scope @@ "var" :> Rule("let"),
  Eat("try" :> (Scope \o Look("catch" :> <<>>, Throw("expected_catch_block"))
                \o Again("catches", tok))
      @@ "if" :> (Condition \o Scope
                  \o Maybe("else", Look("if" :> Rule("stmt"), Scope)) \o Make("If", tok, 0))
      @@ "while" :> (Condition \o Scope \o Make("While", tok, 0))
      @@ "for" :> (ExpectIdent \o Expect("in") \o Expr \o Scope \o Make("For", tok, 0))
      @@ "return" :> (Eat(";" :> <<>>, Expr \o Expect(";")) \o Make("Return", tok, 0))
      @@ "break" :> (Expect(";") \o Make("Break", tok, 0))
      @@ "continue" :> (Expect(";") \o Make("Continue", tok, 0)),
  Expr \o Expect(";")))

Catches(tok) ==
  Eat("catch" :> (ExpectIdent \o Expect(":") \o Type \o Scope \o Again("catches", tok)),
      Maybe("finally", Scope) \o Make("Try", tok, 0))

ScopeBody(tok) ==
  Expect("{") \o Eat("}" :> <<>>, Rule("statements")) \o Make("Scope", tok, 0)

\* Mutant of Statements: a scope may be left open at the end.
StatementsUnclosed ==
  Look(Eof :> <<>>, Rule("stmt") \o Eat("}" :> <<>>, Rule("statements")))

\* The loop of ps_scope.
Statements ==
  Look(Eof :> Throw("scope_not_terminated"),
       Rule("stmt") \o Eat("}" :> <<>>, Rule("statements")))

\* _parse_template_param_defs.
TemplateParams(tok) ==
  Maybe("<", List(Type) \o Expect(">") \o Make("TypeArgs", tok + 2, 0))

Params == List(ExpectIdent \o Expect(":") \o Type)

Function(tok, isMethod) ==
  Expect("fn") \o ExpectIdent \o TemplateParams(tok)
  \o Maybe("(", Eat(")" :> <<>>,
       (IF isMethod THEN Eat("self" :> Maybe(",", Params), Params) ELSE Params)
       \o Expect(")")))
  \o Maybe("->", Type) \o Scope \o Make("Function", tok, 0)

Class(tok) ==
  Expect("class") \o ExpectIdent \o TemplateParams(tok) \o Maybe(":", Type)
  \o Expect("{") \o Maybe("}", Throw("empty_class_or_enum_is_not_valid"))
  \o Rule("members") \o Make("Class", tok, 0)

\* The loop of ps_class, before and after a constructor; the end of the tokens
\* ends it too.
Members(self, constructor) ==
  Look(Eof :> <<>>,
    Skip("pub")
    \o Look("fn" :> (Rule("method") \o Rule(self)) @@ "var" :> (Rule("let") \o Rule(self)),
       Eat("new" :> constructor @@ "delete" :> Exit, Expect("}"))))

Constructor ==
  Maybe("(", Eat(")" :> <<>>, Params \o Expect(")")))
  \o Maybe("->", Throw("cannot_specify_return_type_of_constructor"))
  \o Scope \o Rule("members_after_new")

EnumeratorDef ==
  ExpectIdent \o Maybe("(", FieldsOrTypes \o Expect(")"))

Enum(tok) ==
  Expect("enum") \o ExpectIdent \o Expect("{")
  \o Maybe("}", Throw("empty_class_or_enum_is_not_valid"))
  \o List(EnumeratorDef) \o Expect("}") \o Make("Enum", tok, 0)

Namespace(tok) ==
  Expect("namespace") \o ExpectIdent \o Expect("{")
  \o Eat("}" :> <<>>, Rule("namespace_items")) \o Make("Namespace", tok, 0)

NamespaceItems ==
  Look(Eof :> Throw("scope_not_terminated"),
       Rule("mod_item") \o Eat("}" :> <<>>, Rule("namespace_items")))

ModItem ==
  Look("var" :> Rule("let") @@ "fn" :> Rule("function") @@ "class" :> Rule("class")
       @@ "enum" :> Rule("enum") @@ "namespace" :> Rule("namespace"),
       Throw("expected_item_of_module"))

\* The loop of ps_mod over the items behind the imports.
ModItems ==
  Look(Eof :> <<>> @@ "import" :> Throw("import_not_allowed_here"),
       Rule("mod_item") \o Rule("mod_items"))

\* What rule r has to do, from token tok on, when the current token is at.
Body(r, tok, at) ==
  CASE r = "symbol"            -> Symbol(FALSE, tok)
    [] r = "typename_symbol"   -> Symbol(TRUE, tok)
    [] r = "type_name"         -> TypeName
    [] r = "factor"            -> Factor(tok)
    [] r = "subscript"         -> Rule("factor") \o Again("postfix", tok)
    [] r = "postfix"           -> Postfix(tok)
    [] r = "unary"             -> Unary(tok)
    [] r = "assign"            -> Assign(tok, at)
    [] r = "let"               -> Let(tok, Expect(";"))
    [] r = "let_in_condition"  -> Let(tok, <<>>)
    [] r = "stmt"              -> Stmt(tok)
    [] r = "catches"           -> Catches(tok)
    [] r = "scope"             -> ScopeBody(tok)
    [] r = "statements"        -> Statements
    [] r = "function"          -> Function(tok, FALSE)
    [] r = "method"            -> Function(tok, TRUE)
    [] r = "class"             -> Class(tok)
    [] r = "members"           -> Members(r, Constructor)
    [] r = "members_after_new" -> Members(r, Throw("duplicate_of_definition"))
    [] r = "enum"              -> Enum(tok)
    [] r = "namespace"         -> Namespace(tok)
    [] r = "namespace_items"   -> NamespaceItems
    [] r = "mod_item"          -> ModItem
    [] r = "mod_items"         -> ModItems
-----------------------------------------------------------------------------
Init ==
  /\ input \in {Append(s, Eof) : s \in Inputs}
  /\ split = {} /\ lost = {}
  /\ cur = 1
  /\ todo = Rule("mod_items")
  /\ made = <<>>
  /\ outcome = ""

Now  == Head(todo)
Do(what) == outcome = "" /\ todo # <<>> /\ Now.do = what

\* Go on with s in the place of the first instruction, at token c.
Go(s, c) == todo' = s \o Tail(todo) /\ cur' = c /\ UNCHANGED <<input, split, lost, outcome>>
GoOn(s, c) == Go(s, c) /\ UNCHANGED made

\* An exception: the innermost attempt that has begun is given up, and what it
\* has made is dropped; the text of a token stays what it has become.
Fail(e) ==
  LET tries == {i \in DOMAIN todo : todo[i].do = "try"} IN
  /\ UNCHANGED <<input, split>>
  /\ IF tries = {}
     THEN outcome' = e /\ todo' = <<>> /\ UNCHANGED <<lost, cur, made>>
     ELSE LET i == CHOOSE j \in tries : \A m \in tries : j <= m IN
          /\ todo' = SubSeq(todo, i + 1, Len(todo))
          /\ cur' = todo[i].save
          /\ made' = SubSeq(made, 1, todo[i].made)
          /\ lost' = lost \cup {p \in split : p > todo[i].save}
          /\ UNCHANGED outcome

ExpectOr(what, ok, e) == Do(what) /\ IF ok THEN GoOn(<<>>, cur + 1) ELSE Fail(e)

DoExpect == ExpectOr("expect", Text(cur) = Now.text, "expected_but_found")
DoIdent  == ExpectOr("ident", IsIdentifier(Text(cur)), "expected_identifier_tok")
DoInt    == ExpectOr("int", Text(cur) \in IntLiterals, "expected_but_found")

DoEat ==
  /\ Do("eat")
  /\ IF Text(cur) \in DOMAIN Now.table
     THEN GoOn(Now.table[Text(cur)], cur + 1) ELSE GoOn(Now.no, cur)

DoLook ==
  /\ Do("look")
  /\ GoOn(IF Text(cur) \in DOMAIN Now.table THEN Now.table[Text(cur)] ELSE Now.no, cur)

DoList ==
  /\ Do("list")
  /\ IF Text(cur) = "," THEN GoOn(Now.body \o <<Now>>, cur + 1) ELSE GoOn(<<>>, cur)

DoRule ==
  /\ Do("rule")
  /\ GoOn(Body(Now.rule, IF Now.first = 0 THEN cur ELSE Now.first, cur), cur)

DoLevel == Do("level") /\ GoOn(LevelBody(Now.level, cur), cur)
DoLoop  == Do("loop") /\ GoOn(Round(Now.level, Now.first, cur), cur)

\* The end of ps_factor: a name, or a literal.
DoLiteral ==
  /\ Do("literal")
  /\ IF IsIdentifier(Text(cur)) THEN GoOn(Rule("symbol"), cur)
     ELSE IF Text(cur) \in BadChars THEN Fail("invalid_character_literal")
     ELSE IF Text(cur) \in Literals THEN GoOn(Make("Value", cur, 0), cur + 1)
     ELSE Fail("invalid_syntax")

\* The inside of the brackets of an enumerator: fields, or types.
DoFields ==
  /\ Do("fields")
  /\ IF IsIdentifier(Text(cur)) /\ Text(cur + 1) = ":"
     THEN GoOn(Params, cur) ELSE GoOn(Type \o Maybe(",", List(Type)), cur)

\* try { ... } catch (...): what to go back to is kept on the way.
DoAttempt ==
  /\ Do("attempt")
  /\ GoOn(Now.body \o <<[do |-> "try", save |-> cur, made |-> Len(made)]>>, cur)

\* The attempt has succeeded.
DoTry == Do("try") /\ GoOn(<<>>, cur)

\* The end of the type arguments that begin at Now.first, at token c next.
Close(c) ==
  /\ made' = Append(made, [kind |-> "TypeArgs", first |-> Now.first, op |-> cur, last |-> cur])
  /\ todo' = Tail(todo) /\ cur' = c
  /\ UNCHANGED <<input, lost, outcome>>

\* Mutant of DoClose: the token that is split is skipped.
DoCloseSkipping ==
  /\ Do("close")
  /\ \/ Text(cur) = ">>" /\ split' = split \cup {cur} /\ Close(cur + 1)
     \/ Text(cur) = ">" /\ Close(cur + 1) /\ UNCHANGED split
     \/ Text(cur) \notin {">", ">>"} /\ Fail("expected_but_found")

\* Mutant of DoClose: a >> ends no type arguments.
DoCloseUnsplit ==
  /\ Do("close")
  /\ \/ Text(cur) = ">" /\ Close(cur + 1) /\ UNCHANGED split
     \/ Text(cur) # ">" /\ Fail("expected_but_found")

\* A >> becomes a > and stays the current token.
DoClose ==
  /\ Do("close")
  /\ \/ Text(cur) = ">>" /\ split' = split \cup {cur} /\ Close(cur)
     \/ Text(cur) = ">" /\ Close(cur + 1) /\ UNCHANGED split
     \/ Text(cur) \notin {">", ">>"} /\ Fail("expected_but_found")

DoMake ==
  /\ Do("make")
  /\ made' = Append(made, [kind |-> Now.kind, first |-> Now.first, last |-> cur - 1,
                           op |-> IF Now.op = 0 THEN cur - 1 ELSE Now.op])
  /\ Go(<<>>, cur)

DoThrow == Do("throw") /\ Fail(Now.error)

\* todoimpl ends the process.
DoExit ==
  /\ Do("exit")
  /\ outcome' = "exit" /\ todo' = <<>>
  /\ UNCHANGED <<input, split, lost, cur, made>>

Parsed ==
  /\ outcome = "" /\ todo = <<>>
  /\ outcome' = "parsed"
  /\ UNCHANGED <<input, split, lost, cur, todo, made>>

Next ==
  \/ DoExpect \/ DoIdent \/ DoInt \/ DoEat \/ DoLook \/ DoList
  \/ DoRule \/ DoLevel \/ DoLoop \/ DoLiteral \/ DoFields
  \/ DoAttempt \/ DoTry \/ DoClose \/ DoMake
  \/ DoThrow \/ DoExit \/ Parsed

Spec == Init /\ [][Next]_vars
=============================================================================
