--------------------------------- MODULE Text ---------------------------------
(***************************************************************************)
(* From the text of a literal to its value and back: the lexer makes a     *)
(* token, ps_factor makes an object of it (Parser.cpp), and print shows    *)
(* the object (Object::to_string).                                         *)
(***************************************************************************)
EXTENDS Lexer, Transcoding

CONSTANT ByteOf   \* the bytes of the characters

\* A text is of characters, a character is a byte, and what is behind the data of
\* an ObjString is units.
ASSUME TextAssumption ==
  /\ Behind \subseteq Unit
  /\ \A c \in DOMAIN ByteOf : ByteOf[c] \in Byte
  /\ \A c \in DOMAIN Escape : Escape[c] \in DOMAIN ByteOf
  /\ Texts \subseteq Seq(DOMAIN ByteOf)

VARIABLES
  token,   \* the number of the token that is converted, or 0
  object,  \* the UTF-16 units of its object
  stage    \* "lex", "read" (ps_factor), "show" (to_string), "shown", or an error

vars == <<src, pos, tokens, lexed, pass, to, input, len, at, size, out, token, object, stage>>

Init ==
  /\ LexInit /\ CodecInit
  /\ token = 0 /\ object = <<>> /\ stage = "lex"

Lex == stage = "lex" /\ LexNext /\ UNCHANGED <<codecVars, token, object, stage>>

Bytes(t) == [i \in DOMAIN t.text |-> ByteOf[t.text[i]]]

\* A std::u16string, and an ObjString, from what was written: up to a 0.
UpToNul(s) == SubSeq(s, 1, Least({i \in 1 .. Len(s) + 1 : i > Len(s) \/ s[i] = 0}) - 1)

\* ps_factor, for a character or string token: its text without the quotes.
ReadLiteral ==
  /\ stage = "lex" /\ lexed = "tokens"
  /\ \E i \in DOMAIN tokens :
       /\ tokens[i].kind \in {"Char", "String"}
       /\ token' = i
       /\ Convert(16, Bytes(tokens[i]), Len(tokens[i].text), FALSE)
  /\ stage' = "read"
  /\ UNCHANGED <<lexerVars, object>>

Codec == CodecNext /\ UNCHANGED <<lexerVars, token, object, stage>>

\* A character literal is one unit.
MakeChar ==
  /\ stage = "read" /\ pass = "done" /\ tokens[token].kind = "Char"
  /\ object' = UpToNul(out)
  /\ stage' = IF Len(object') = 1 THEN "object" ELSE "invalid_character_literal"
  /\ UNCHANGED <<lexerVars, codecVars, token>>

MakeString ==
  /\ stage = "read" /\ pass = "done" /\ tokens[token].kind = "String"
  /\ object' = UpToNul(out)
  /\ stage' = "object"
  /\ UNCHANGED <<lexerVars, codecVars, token>>

\* Object::to_string: of a character with a 0 behind it, of a string with its
\* length.
ShowObject ==
  /\ stage = "object"
  /\ IF tokens[token].kind = "Char"
     THEN Convert(8, Append(object, 0), -1, FALSE)
     ELSE Convert(8, object, Len(object), object = <<>>)
  /\ stage' = "show"
  /\ UNCHANGED <<lexerVars, token, object>>

\* The result becomes a std::string; of a null pointer that is an exception.
Shown ==
  /\ stage = "show" /\ pass \in {"done", "null"}
  /\ stage' = IF pass = "null" THEN "logic_error" ELSE "shown"
  /\ UNCHANGED <<lexerVars, codecVars, token, object>>

Next == Lex \/ ReadLiteral \/ Codec \/ MakeChar \/ MakeString \/ ShowObject \/ Shown

Spec == Init /\ [][Next]_vars
=============================================================================
