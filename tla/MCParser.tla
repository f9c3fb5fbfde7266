------------------------------- MODULE MCParser -------------------------------
(***************************************************************************)
(* Small programs: variables with an expression of a few operators, and    *)
(* one item of each form, whole and damaged.                               *)
(***************************************************************************)
EXTENDS ParserProperties

S == INSTANCE SequencesExt

\* The table in Token.cpp, without the backtick, which no rule knows.
MCPunctuators ==
  {"<<=", ">>=", "->", "+=", "-=", "*=", "/=", "%=", "&=", "|=", "^=", "==", "!=", ">=",
   "<=", "&&", "||", "<<", ">>", "::", "++", "--", "=", ">", "<", "!", "+", "-", "*", "/",
   "%", "&", "|", "^", ",", ";", ":", ".", "?", "(", ")", "[", "]", "{", "}", "#", "$",
   "~"}
MCIntLiterals == {"1"}
MCBadChars    == {"'cc'"}
MCLiterals    == {"1", "1.5", "'c'", "'cc'", "\"s\""}

\* var x = e ;
Var(e) == <<"var", "x", "=">> \o e \o <<";">>
Fn(b)  == <<"fn", "f", "{">> \o b \o <<"}">>

\* One operator of each level, and an a between each two of them.
Chain(ops) == Var(<<"a">> \o S!FlattenSeq([i \in DOMAIN ops |-> <<ops[i], "a">>]))
Sample     == {"=", "||", "&&", "|", "^", "&", "==", "<", ">", "<=", "<<", "-", "/", "+="}
Chains     == {Chain(<<o, p, q>>) : o, p, q \in Sample}

\* Where < and > may be brackets; the last operand may be missing.
Angles == {"<", ">", ">>", ","}
Nested ==
  {Var(<<"a", "<">> \o s \o e) :
     s \in {<<>>} \cup {<<"b", o>> : o \in Angles} \cup {<<"b", o, "b", p>> : o, p \in Angles}
             \cup {<<"b", "<", "b", o, "b", p>> : o, p \in Angles}
             \cup {<<"b", "<", "b", "<", "b", o, "b", p>> : o, p \in Angles},
     e \in {<<>>, <<"b">>, <<"(", "b", ",", "b", ")">>, <<"(", "b", ",", "b", ")", ">", "b">>,
            <<"b", "::", "b", ">", "(", ")">>, <<"b", ":", "b", ">">>}}

Operands ==
  {Var(e) : e \in {
     <<"-", "a", "*", "!", "b">>, <<"a", "++", "-", "--", "b">>, <<"!", "!", "a">>,
     <<"a", "-", "-", "b", "*", "*", "c">>, <<"+", "a", "%", "b">>,
     <<"(", "a", "+", "b", ")", "*", "c">>, <<"(", "a", ",", "b", "+", "1", ")">>,
     <<"[", "a", ",", "\"s\"", "]", "[", "1", "]">>, <<"[", "]", "==", "true">>,
     <<"a", "[", "1", ":", "]", "[", ":", "b", "]", "[", "1", ":", "b", "]">>,
     <<"a", ".", "b", "(", "a", ":", "1", ",", "b", ")", "+", "c">>,
     <<"a", ".", "<", "1", ">", ".", "<", "1", ">", "<", "b">>, <<"a", ".", "<", "b", ">">>,
     <<"a", ".", "b", "<", "c", ">", "(", ")">>, <<"a", "::", "b", "<", "c", ">", "::", "d">>,
     <<"false", "<", "1.5">>, <<"self", ".", "a", "=", "'c'">>, <<"'cc'">>, <<"a", "<", "'cc'", ">">>,
     <<"decltype", "(", "a", ")">>, <<"a", "<", "decltype", "(", "b", "<", "c", ">>", "d", ")", ">>", "e">>,
     <<"a", "<", "b", "ref", "const", ">", "c">>, <<"a", "&", "delete", "b">>,
     <<"a", "<", "(", "b", "<", "c", ">>", "d", ")">>}}

Items == {
  <<"var", "static", "(", "a", ",", "b", ")", ":", "(", "c", ",", "d", ")", "=", "(", "1", ",", "1", ")", ";">>,
  Fn(<<"if", "var", "x", "=", "1", ";", "x", "{", "}", "else", "if", "x", "{", "}", "else", "{", "}">>),
  Fn(<<"while", "var", "x", ":", "c", "{", "break", ";", "continue", ";", "}">>),
  Fn(<<"for", "x", "in", "a", "{", "return", ";", "}", "return", "x", ";">>),
  Fn(<<"try", "{", "}", "catch", "e", ":", "c", "{", "}", "finally", "{", "{", "}", "}">>),
  <<"fn", "f", "<", "T", ",", "U", ">", "(", "a", ":", "T", ",", "b", ":", "c", "<", "d", "<", "T", ">>", ")",
    "->", "T", "{", "}">>,
  <<"class", "c", "<", "T", ">", ":", "d", "{", "var", "a", ";", "pub", "fn", "g", "(", "self", ",", "a", ":",
    "T", ")", "{", "}", "}">>,
  <<"class", "c", "{", "fn", "g", "(", "self", ")", "{", "}", "pub", "new", "(", "a", ":", "T", ")", "{", "}",
    "var", "b", ";", "}">>,
  <<"class", "c", "{", "new", "{", "}", "new", "{", "}", "}">>,
  <<"class", "c", "{", "new", "(", ")", "->", "c", "{", "}", "}">>,
  <<"class", "c", "{", "delete", "{", "}", "}">>,
  <<"class", "c", "{", "}">>,
  <<"enum", "e", "{", "A", ",", "B", "(", "int", ")", ",", "C", "(", "int", ",", "d", "<", "e", ">", ")", ",",
    "D", "(", "a", ":", "int", ",", "b", ":", "int", ")", "}">>,
  <<"enum", "e", "{", "}">>,
  <<"namespace", "n", "{", "namespace", "m", "{", "}", "class", "c", "{", "var", "a", ";", "}", "}">>,
  <<"import", "a", ";">>}

\* An item that breaks off, or that lacks a token.
Damaged(s) == {SubSeq(s, 1, i) : i \in 1 .. Len(s) - 1} \cup {S!RemoveAt(s, i) : i \in DOMAIN s}

MCInputs == Chains \cup Nested \cup Operands \cup Items \cup UNION {Damaged(s) : s \in Items}
=============================================================================
