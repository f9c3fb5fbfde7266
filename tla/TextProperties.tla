---------------------------- MODULE TextProperties ----------------------------
(***************************************************************************)
(* What the lexer and the conversion of literals must guarantee:           *)
(* properties of module Text.                                              *)
(***************************************************************************)
EXTENDS Text

TypeOK ==
  /\ pos \in 1 .. Len(src) + 1
  /\ lexed \in {"", "tokens", "invalid_token", "4545", "exit"}
  /\ \A i \in DOMAIN tokens :
       /\ tokens[i].kind \in {"Int", "Float", "Identifier", "Char", "String", "Punctuator", "Eof"}
       /\ tokens[i].pos <= tokens[i].end
       /\ tokens[i].end <= pos
  /\ pass \in {"idle", "size", "write", "done", "null"}
  /\ input \in Seq(Unit) /\ out \in Seq(IF to = 8 THEN Byte ELSE Unit)
  /\ token \in 0 .. Len(tokens)
  /\ stage \in {"lex", "read", "object", "show", "shown", "invalid_character_literal", "logic_error"}
-----------------------------------------------------------------------------
\* src[i .. j - 1] is spaces and whole comments.
Blank(i, j) ==
  LET B[k \in i .. j] ==
        \/ k = j
        \/ src[k] \in Space /\ B[k + 1]
        \/ /\ Matches(<<"/", "/">>, k)
           /\ \E m \in k + 2 .. j : /\ \A n \in k .. m - 1 : src[n] # "\n"
                                    /\ m = j \/ src[m] = "\n"
                                    /\ B[m]
        \/ /\ Matches(<<"/", "*">>, k)
           /\ \E m \in k + 4 .. j : Matches(<<"*", "/">>, m - 2) /\ B[m]
        \/ Matches(<<"/", "*">>, k) /\ j = Len(src) + 1
  IN  B[i]

\* Where the characters between token i and the one before begin.
GapOf(i) == IF i = 1 THEN 1 ELSE tokens[i - 1].end

\* What is between two tokens can be left out.
OnlyBlanksSkipped == \A i \in DOMAIN tokens : Blank(GapOf(i), tokens[i].pos)

\* Words and numbers are not broken off, and every token but a literal is the
\* text that it stands at.
TokensWhole ==
  \A i \in DOMAIN tokens :
    /\ tokens[i].kind = "Identifier" => Char(tokens[i].end) \notin WordChar
    /\ tokens[i].kind = "Int" => Char(tokens[i].end) \notin Digit \cup {"."}
    /\ tokens[i].kind = "Float" =>
         Char(tokens[i].end - 1) = "f" \/ Char(tokens[i].end) \notin Digit \cup {"f"}
    /\ tokens[i].kind \notin {"Char", "String"} =>
         tokens[i].text = SubSeq(src, tokens[i].pos, tokens[i].end - 1)

\* A comment is taken for operators only behind another one: lex() skips one
\* line comment and then block comments before it skips spaces.
CommentsSkippedUnlessBehindAnother ==
  \A i \in DOMAIN tokens :
    Matches(<<"/", "/">>, tokens[i].pos) \/ Matches(<<"/", "*">>, tokens[i].pos) =>
      \E p \in GapOf(i) .. tokens[i].pos - 1 : src[p] = "/"

\* Lines and columns count from 1 (the first token has neither).
PlacesFollowText ==
  lexed = "tokens" =>
    \A i \in 2 .. Len(tokens) :
      LET newlines == {p \in 1 .. tokens[i].pos - 1 : src[p] = "\n"} IN
      /\ tokens[i].line = 1 + Cardinality(newlines)
      /\ \A p \in newlines \cup {0} :
           (\A q \in newlines : q <= p) => tokens[i].column = tokens[i].pos - p

\* The tokens are the text: nothing but spaces and comments is left out, nothing
\* is cut in two, and errors are reported at the right place, except for those
\* at the first token, which has no line and no column.  (Comments may be taken
\* for tokens; where, is said here too.)
TokensFollowText ==
  /\ OnlyBlanksSkipped
  /\ TokensWhole
  /\ CommentsSkippedUnlessBehindAnother
  /\ PlacesFollowText

\* The comment at the table of punctuators demands it to be ordered by length:
\* so that no operator is taken for a shorter one that it begins with.
LongestPunctuators ==
  \A i \in DOMAIN tokens : tokens[i].kind = "Punctuator" =>
    \A k \in DOMAIN Table :
      Matches(Table[k], tokens[i].pos) => Len(Table[k]) <= tokens[i].end - tokens[i].pos
-----------------------------------------------------------------------------
\* Neither conversion writes more than it has counted, or stops at less.  (Of an
\* ObjString that ends in the first half of a pair, what is behind its data is
\* read; if that changes in between, a byte more is written than allocated.)
WritesWhatItCounted ==
  (pass \in {"write", "done"} /\ ~(to = 8 /\ len > 0 /\ IsHigh(input[len]))) =>
    /\ Len(out) <= size
    /\ pass = "done" => Len(out) = size

\* Well-formed UTF-8, by the table of the Unicode standard: the bytes a first
\* byte demands behind it.
Tail1 == 128 .. 191
Demands(b) ==
  CASE b < 128           -> <<>>
    [] b \in 194 .. 223  -> <<Tail1>>
    [] b = 224           -> <<160 .. 191, Tail1>>
    [] b \in 225 .. 236  -> <<Tail1, Tail1>>
    [] b = 237           -> <<128 .. 159, Tail1>>
    [] b \in 238 .. 239  -> <<Tail1, Tail1>>
    [] b = 240           -> <<144 .. 191, Tail1, Tail1>>
    [] b \in 241 .. 243  -> <<Tail1, Tail1, Tail1>>
    [] b = 244           -> <<128 .. 143, Tail1, Tail1>>
    [] OTHER             -> <<{}>>

WellFormed(s) ==
  LET W[i \in 1 .. Len(s) + 1] ==
        \/ i > Len(s)
        \/ LET d == Demands(s[i]) IN
           /\ i + Len(d) <= Len(s)
           /\ \A k \in DOMAIN d : s[i + k] \in d[k]
           /\ W[i + Len(d) + 1]
  IN  W[1]

\* A literal of well-formed UTF-8 without a NUL is shown as it was written, if it
\* is shown; it is not shown if it is empty, or if it is a character literal
\* that is not a single code point below 65536.
LiteralsKept ==
  LET b == Bytes(tokens[token]) IN
  /\ stage = "shown" /\ WellFormed(b) /\ 0 \notin {b[i] : i \in DOMAIN b} => out = b
  /\ stage = "logic_error" => UpToNul(b) = <<>>
  /\ stage = "invalid_character_literal" =>
       \/ UpToNul(b) = <<>>
       \/ ~WellFormed(b)
       \/ Len(UpToNul(b)) > 1 + Len(Demands(b[1])) \/ b[1] >= 240
=============================================================================
