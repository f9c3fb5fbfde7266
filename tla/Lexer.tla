-------------------------------- MODULE Lexer --------------------------------
(***************************************************************************)
(* The lexer (Lexer.cpp, Lexer.hpp): a source text, character by character,*)
(* to tokens.  Characters are strings of length one, or a name for a byte  *)
(* that is no ASCII character; positions start at 1.                       *)
(***************************************************************************)
EXTENDS Naturals, Sequences, FiniteSets

CONSTANT Texts    \* the source texts considered

VARIABLES
  src,      \* SourceFile::data
  pos,      \* Lexer::_pos
  tokens,   \* the list of tokens
  lexed     \* "", "tokens", or how the lexer has given up

lexerVars == <<src, pos, tokens, lexed>>

NUL      == "NUL"
Backslash == "\\"
Digit    == {"0", "1", "2"}
Space    == {" ", "\n", "\t"}
WordChar == {"a", "b", "f", "n", "t", "r", "x", "_"} \cup Digit
Quotes   == {"'", "\""}

\* The escapes; any other character behind a \ ends the process.
Escape == [c \in {"0", "t", "r", "n", "b"} |->
             CASE c = "0" -> NUL [] c = "t" -> "\t" [] c = "r" -> "\r"
               [] c = "n" -> "\n" [] c = "b" -> "BS"]

\* The table of punctuators in Token.cpp, in its order (without the backtick).
Table == <<
  <<"<", "<", "=">>, <<">", ">", "=">>,
  <<"-", ">">>, <<"+", "=">>, <<"-", "=">>, <<"*", "=">>, <<"/", "=">>, <<"%", "=">>,
  <<"&", "=">>, <<"|", "=">>, <<"^", "=">>, <<"=", "=">>, <<"!", "=">>, <<">", "=">>,
  <<"<", "=">>, <<"&", "&">>, <<"|", "|">>, <<"<", "<">>, <<">", ">">>, <<":", ":">>,
  <<"+", "+">>, <<"-", "-">>,
  <<"=">>, <<">">>, <<"<">>, <<"!">>, <<"+">>, <<"-">>, <<"*">>, <<"/">>, <<"%">>, <<"&">>,
  <<"|">>, <<"^">>, <<",">>, <<";">>, <<":">>, <<".">>, <<"?">>, <<"(">>, <<")">>, <<"[">>,
  <<"]">>, <<"{">>, <<"}">>, <<"#">>, <<"$">>, <<"~">> >>

\* peek() and is_end(), at position p.
AtEnd(p) == p > Len(src)
Char(p)  == IF AtEnd(p) THEN NUL ELSE src[p]

\* match(s) at position p.
Matches(s, p) == p + Len(s) - 1 <= Len(src) /\ \A i \in DOMAIN s : src[p + i - 1] = s[i]

Least(S) == CHOOSE m \in S : \A n \in S : m <= n

\* Where the characters of the set C, from p on, end.
Pass(p, C) == Least({q \in p .. Len(src) + 1 : AtEnd(q) \/ src[q] \notin C})

PassSpace(p) == Pass(p, Space)

\* pass_line_comment, which stops in front of the end of the line.
PassLine(p) ==
  IF Matches(<<"/", "/">>, p)
  THEN Least({q \in p + 2 .. Len(src) + 1 : AtEnd(q) \/ src[q] = "\n"}) ELSE p

\* pass_block_comment, and the next one right behind it.
PassBlocks(p) ==
  LET B[q \in p .. Len(src) + 1] ==
        IF ~Matches(<<"/", "*">>, q) THEN q
        ELSE B[Least({r + 2 : r \in {m \in q + 2 .. Len(src) : Matches(<<"*", "/">>, m)}}
                       \cup {Len(src) + 1})]
  IN  B[p]

\* What a turn of the loop of lex() skips: one line comment (at the end of its
\* line another one cannot begin), block comments, spaces.
Skipped(p) == PassSpace(PassBlocks(PassLine(p)))

\* Mutant of FindPunct: the table is searched from its end.
FindPunctBackwards(p) ==
  LET found == {i \in DOMAIN Table : Matches(Table[i], p)} IN
  IF found = {} THEN 0 ELSE CHOOSE i \in found : \A j \in found : i >= j

\* find_punct: the first entry that the text at p begins with, or 0.
FindPunct(p) ==
  LET found == {i \in DOMAIN Table : Matches(Table[i], p)} IN
  IF found = {} THEN 0 ELSE Least(found)
-----------------------------------------------------------------------------
LexInit ==
  /\ src \in Texts
  /\ pos = Least({q \in 1 .. Len(src) + 1 : AtEnd(q) \/ src[q] \notin Space})
  /\ tokens = <<>>
  /\ lexed = ""

\* The loop has another turn, and its token, if any, begins at p.
Turn(p) == lexed = "" /\ ~AtEnd(pos) /\ p = Skipped(pos)

\* A token from p to before q, and the spaces behind it.
Emit(kind, p, q, text) ==
  /\ tokens' = Append(tokens, [kind |-> kind, pos |-> p, end |-> q, text |-> text,
                               line |-> 0, column |-> 0])
  /\ pos' = PassSpace(q)
  /\ UNCHANGED <<src, lexed>>

GiveUp(why) == lexed' = why /\ UNCHANGED <<src, pos, tokens>>

\* 0-9: an integer, or a float with a dot, digits and an f that may be missing.
Number ==
  \E p \in pos .. Len(src) :
    /\ Turn(p) /\ Char(p) \in Digit
    /\ LET q == Pass(p, Digit)
           r == Pass(q + 1, Digit) IN
       IF Char(q) # "." THEN Emit("Int", p, q, SubSeq(src, p, q - 1))
       ELSE LET s == IF Char(r) = "f" THEN r + 1 ELSE r IN
            Emit("Float", p, s, SubSeq(src, p, s - 1))

Word ==
  \E p \in pos .. Len(src) :
    /\ Turn(p) /\ Char(p) \in WordChar \ Digit
    /\ LET q == Pass(p, WordChar) IN Emit("Identifier", p, q, SubSeq(src, p, q - 1))

\* A literal up to the next quote c: where it ends, and its characters; an
\* unknown escape ends the process.
Quoted(c, start) ==
  LET Scan[i \in start .. Len(src) + 2] ==
        IF AtEnd(i) \/ src[i] = c THEN [end |-> i, text |-> <<>>, exit |-> FALSE]
        ELSE IF src[i] # Backslash
        THEN [Scan[i + 1] EXCEPT !.text = <<src[i]>> \o @]
        ELSE IF Char(i + 1) \in DOMAIN Escape
        THEN [Scan[i + 2] EXCEPT !.text = <<Escape[src[i + 1]]>> \o @]
        ELSE [end |-> i, text |-> <<>>, exit |-> TRUE]
  IN  Scan[start]

Literal ==
  \E p \in pos .. Len(src) :
    /\ Turn(p) /\ Char(p) \in Quotes
    /\ LET q == Quoted(Char(p), p + 1) IN
       IF q.exit THEN GiveUp("exit")
       ELSE IF AtEnd(q.end) THEN GiveUp("4545")
       ELSE Emit(IF Char(p) = "'" THEN "Char" ELSE "String", p, q.end + 1, q.text)

Punctuator ==
  \E p \in pos .. Len(src) :
    /\ Turn(p) /\ FindPunct(p) # 0
    /\ Emit("Punctuator", p, p + Len(Table[FindPunct(p)]), Table[FindPunct(p)])

\* Nothing of this begins here; so it is at the end of the text, too.
InvalidToken ==
  \E p \in pos .. Len(src) + 1 :
    /\ Turn(p)
    /\ Char(p) \notin WordChar \cup Quotes /\ FindPunct(p) = 0
    /\ GiveUp("invalid_token")

\* Mutant of Place: the column goes on at the end of a line.
PlaceOneColumn(p) ==
  LET At[i \in 1 .. p] == IF i = 1 THEN [line |-> 1, column |-> 1]
                          ELSE IF src[i - 1] = "\n"
                          THEN [line |-> At[i - 1].line + 1, column |-> 0]
                          ELSE [At[i - 1] EXCEPT !.column = @ + 1]
  IN  At[p]

\* The line and the column that the loop over the text has counted up to p.
Place(p) ==
  LET At[i \in 1 .. p] == IF i = 1 THEN [line |-> 1, column |-> 1]
                          ELSE IF src[i - 1] = "\n"
                          THEN [line |-> At[i - 1].line + 1, column |-> 1]
                          ELSE [At[i - 1] EXCEPT !.column = @ + 1]
  IN  At[p]

\* The end of lex(): the end marker, and the places of all tokens but the first.
Finish ==
  /\ lexed = "" /\ AtEnd(pos)
  /\ LET eof == [kind |-> "Eof", pos |-> pos, end |-> pos, text |-> <<>>, line |-> 0, column |-> 0]
         all == Append(tokens, eof) IN
     tokens' = [i \in DOMAIN all |->
                  IF i = 1 THEN all[i]
                  ELSE LET place == Place(all[i].pos) IN
                       [all[i] EXCEPT !.line = place.line, !.column = place.column]]
  /\ lexed' = "tokens"
  /\ UNCHANGED <<src, pos>>

LexNext == Number \/ Word \/ Literal \/ Punctuator \/ InvalidToken \/ Finish
=============================================================================
