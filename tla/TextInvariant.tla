---------------------------- MODULE TextInvariant ----------------------------
(***************************************************************************)
(* The inductive invariant of module Text.                                 *)
(***************************************************************************)
EXTENDS TextProperties

Kinds == {"Int", "Float", "Identifier", "Char", "String", "Punctuator", "Eof"}

Token == [kind : Kinds, pos : Nat, end : Nat, text : Seq(DOMAIN ByteOf),
          line : Nat, column : Nat]

LexerTyped ==
  /\ src \in Texts
  /\ pos \in 1 .. Len(src) + 1
  /\ tokens \in Seq(Token)

Outcomes == lexed \in {"", "tokens", "invalid_token", "4545", "exit"}

\* The tokens lie in the text that has been read.
TokensInText ==
  \A i \in DOMAIN tokens :
    1 <= tokens[i].pos /\ tokens[i].pos <= tokens[i].end /\ tokens[i].end <= pos

\* The spaces behind the last token have been passed.
ReadFrom == IF tokens = <<>> THEN 1 ELSE tokens[Len(tokens)].end
SpacesPassed ==
  /\ \A n \in ReadFrom .. pos - 1 : src[n] \in Space
  /\ ~AtEnd(pos) => src[pos] \notin Space
-----------------------------------------------------------------------------
CodecTyped ==
  /\ pass \in {"idle", "size", "write", "done", "null"}
  /\ to \in {8, 16}
  /\ input \in Seq(Unit) /\ out \in Seq(IF to = 8 THEN Byte ELSE Unit)
  /\ len \in {-1, Len(input)}
  /\ at \in Nat \ {0} /\ size \in Nat

\* An ObjString that ends in the first half of a pair.
OpenEnded == to = 8 /\ len > 0 /\ IsHigh(input[len])

\* What is decoded at position p, if the input is not open-ended.
At(p) ==
  IF to = 16 THEN Utf8Decode(input, p)
  ELSE Utf16Decode(input[p], IF p < Len(input) THEN input[p + 1] ELSE 0)

MoreAt(p) == IF len >= 0 THEN p <= len ELSE p <= Len(input) /\ input[p] # 0
Cost(cp)  == IF to = 16 THEN CountUtf16(cp) ELSE CountUtf8(cp)

\* The units that the conversion of the input from position p on takes.
Rest(p) ==
  LET R[q \in 1 .. Len(input) + 1] ==
        IF MoreAt(q) THEN Cost(At(q).cp) + R[q + At(q).n] ELSE 0
  IN  R[p]

\* Both passes go the same way: what they have counted, or written, and what is
\* left is the same at every position.
SameWay ==
  ~OpenEnded =>
    /\ pass \in {"size", "write"} => at <= Len(input) + 1
    /\ pass = "size" => out = <<>> /\ size + Rest(at) = Rest(1)
    /\ pass = "write" => Len(out) + Rest(at) = size
    /\ pass = "done" => Len(out) = size

StagesTyped ==
  /\ token \in 0 .. Len(tokens) /\ (stage = "lex" => token = 0)
  /\ object \in Seq(Unit)
  /\ stage \in {"lex", "read", "object", "show", "shown", "invalid_character_literal", "logic_error"}

-----------------------------------------------------------------------------
\* The text that a literal and its object have in common.

\* What is encoded: a code point that is not half of a pair.
Scalar == {cp \in Nat : cp <= 1114111 /\ ~IsHigh(cp) /\ ~IsLow(cp)}

\* e stands in s, behind the first k units.
StandsIn(e, s, k) == k + Len(e) <= Len(s) /\ \A j \in 1 .. Len(e) : s[k + j] = e[j]

\* The first m bytes of b and the units of y are the same code points: P are the
\* places, in both, where one of them ends and the next begins.
SameText(b, m, y, P) ==
  /\ P \subseteq (0 .. m) \X (0 .. Len(y))
  /\ <<0, 0>> \in P /\ <<m, Len(y)>> \in P
  /\ \A r \in P : r # <<m, Len(y)>> =>
       \E cp \in Scalar :
         /\ StandsIn(Utf8Encode(cp), b, r[1]) /\ StandsIn(Utf16Encode(cp), y, r[2])
         /\ <<r[1] + Len(Utf8Encode(cp)), r[2] + Len(Utf16Encode(cp))>> \in P

\* There are such places, and r is one of them.
Common(b, m, y, r) == \E P \in SUBSET ((0 .. m) \X (0 .. Len(y))) : SameText(b, m, y, P) /\ r \in P

\* The bytes of b at position i are what the first of them demands.
Formed(b, i) ==
  /\ i + Len(Demands(b[i])) <= Len(b)
  /\ \A k \in DOMAIN Demands(b[i]) : b[i + k] \in Demands(b[i])[k]

\* b is well-formed from position i on: T are the positions of first bytes.
FormedFrom(b, i) ==
  \E T \in SUBSET (1 .. Len(b) + 1) :
    /\ i \in T
    /\ \A t \in T : t <= Len(b) => Formed(b, t) /\ t + 1 + Len(Demands(b[t])) \in T

NoNul(s) == \A i \in DOMAIN s : s[i] # 0

\* The bytes of the literal.
Literally == Bytes(tokens[token])

Regular == WellFormed(Literally) /\ NoNul(Literally)

\* Something is converted while a literal is read or an object is shown.
Busy ==
  /\ stage # "lex" => token # 0
  /\ stage \notin {"read", "show"} => pass \in {"idle", "done", "null"}

\* What has been written is the object of what has been read of the literal.
ReadSoFar ==
  /\ pass \in {"size", "write", "done"} /\ to = 16
  /\ input = Literally /\ len = Len(input)
  /\ pass # "size" =>
       /\ at <= len + 1 /\ (pass = "done" => at = len + 1)
       /\ IF at = 1 THEN out = <<>> ELSE out # <<>> /\ (out[1] = 0 <=> input[1] = 0)
       /\ NoNul(input) => NoNul(out)
       /\ WellFormed(input) => FormedFrom(input, at) /\ Common(input, at - 1, out, <<0, 0>>)

\* The object is the text of the literal.
ObjectKept ==
  /\ NoNul(object)
  /\ object = <<>> => UpToNul(Literally) = <<>>
  /\ Regular => Common(Literally, Len(Literally), object, <<0, 0>>)

\* What has been written is what the literal begins with, as far as the object
\* has been read.
Showing ==
  /\ Common(Literally, Len(Literally), object, <<Len(out), at - 1>>)
  /\ out = SubSeq(Literally, 1, Len(out))

ShownSoFar ==
  /\ pass \in {"size", "write", "done", "null"} /\ to = 8
  /\ (input = Append(object, 0) /\ len = -1) \/ (input = object /\ len = Len(object))
  /\ pass = "size" => out = <<>>
  /\ pass = "null" => object = <<>>
  /\ pass = "write" /\ Regular => Showing
  /\ pass = "done" /\ Regular => out = Literally

TextKept ==
  /\ stage = "read" => ReadSoFar
  /\ stage \in {"object", "show"} => ObjectKept
  /\ stage = "show" => ShownSoFar
  /\ LiteralsKept
-----------------------------------------------------------------------------
IInv ==
  /\ LexerTyped /\ Outcomes /\ TokensInText /\ SpacesPassed
  /\ TokensFollowText /\ LongestPunctuators
  /\ CodecTyped /\ SameWay /\ StagesTyped
  /\ Busy /\ TextKept
=============================================================================
