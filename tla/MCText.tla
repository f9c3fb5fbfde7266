-------------------------------- MODULE MCText --------------------------------
(***************************************************************************)
(* Short texts: of the characters that begin comments, of numbers, of      *)
(* operators, and literals.                                                *)
(***************************************************************************)
EXTENDS TextProperties, TLC

\* Names of the bytes that are no characters, and their values.
Named == [NUL |-> 0, BS |-> 8, x7F |-> 127, x80 |-> 128, x8F |-> 143, x90 |-> 144, x9F |-> 159,
          xA0 |-> 160, xBF |-> 191, xC0 |-> 192, xC2 |-> 194, xDF |-> 223, xE0 |-> 224,
          xED |-> 237, xEE |-> 238, xEF |-> 239, xF0 |-> 240, xF4 |-> 244, xF5 |-> 245]
MCByteOf == Named @@ "a" :> 97 @@ "0" :> 48 @@ "\t" :> 9 @@ "\n" :> 10 @@ "\r" :> 13 @@ "\"" :> 34
              @@ "'" :> 39 @@ " " :> 32 @@ "/" :> 47 @@ "*" :> 42 @@ "1" :> 49 @@ "." :> 46
              @@ "f" :> 102 @@ "n" :> 110 @@ "b" :> 98 @@ "\\" :> 92 @@ "<" :> 60 @@ ">" :> 62
              @@ "=" :> 61 @@ "-" :> 45 @@ "&" :> 38 @@ ":" :> 58

\* Neither half of a pair, a second half, and the end.
MCBehind == {0, 56320}

Of(S, n) == UNION {[1 .. m -> S] : m \in 0 .. n}

Comments == Of({"/", "*", "a", "\n"}, 6)
Numbers  == Of({"1", ".", "f", " "}, 4)
Operators == {o \o <<c>> \o p : o, p \in Of({"<", ">", "="}, 2), c \in {"<", "=", "-", "&", ":", "a", "x80"}}

\* The first and last code points of each length, surrogates, and what is not
\* well formed.
CodePoints ==
  {<<"a">>, <<"x7F">>, <<"xC2", "x80">>, <<"xDF", "xBF">>, <<"xE0", "xA0", "x80">>,
   <<"xED", "x9F", "xBF">>, <<"xEE", "x80", "x80">>, <<"xEF", "xBF", "xBF">>,
   <<"xF0", "x90", "x80", "x80">>, <<"xF4", "x8F", "xBF", "xBF">>}
Others ==
  {<<"xED", "xA0", "x80">>, <<"xED", "xBF", "xBF">>, <<"xC0", "x80">>, <<"xE0", "x80", "x80">>,
   <<"xF0", "x80", "x80", "x80">>, <<"xF4", "x90", "x80", "x80">>, <<"xF5">>, <<"x80">>,
   <<"xE0", "xA0">>, <<"\\", "0">>, <<"\\", "n">>, <<"\\", "b">>, <<"\\", "\\">>}
Contents == {<<>>} \cup CodePoints \cup Others
              \cup {c \o d : c, d \in CodePoints \cup Others}

Literals == {<<"\"">> \o c \o e : c \in Contents, e \in {<<>>, <<"\"">>}}
              \cup {<<"'">> \o c \o <<"'">> : c \in Contents}

MCTexts == Comments \cup Numbers \cup Operators \cup Literals
=============================================================================
