----------------------------- MODULE Transcoding -----------------------------
(***************************************************************************)
(* Conversion between UTF-8 and UTF-16 (strconv.cpp).  Each conversion     *)
(* goes through its input twice: to find the size of the output, which is  *)
(* then allocated, and to write it.                                        *)
(*                                                                         *)
(* The input is `len' units long, or ends at the first 0 (len = -1): the   *)
(* functions with and without _with_len.  A 0 behind the input is part of  *)
(* it when it is a string of the lexer; what is behind the data of an      *)
(* ObjString belongs to somebody else and may be different at each look.   *)
(***************************************************************************)
EXTENDS Integers, Sequences

CONSTANT Behind   \* what may be found behind the data of an ObjString

VARIABLES
  pass,   \* "idle", "size", "write", "done" or "null" (the function returns NULL)
  to,     \* 8 or 16
  input,  \* the units of the input
  len,    \* how many of them are converted, or -1
  at,     \* the position in the input: p, or t in the first pass
  size,   \* out_len
  out     \* what has been written

codecVars == <<pass, to, input, len, at, size, out>>

Replacement == 65533

Byte == 0 .. 255
MaxUnit == 65535
Unit == 0 .. MaxUnit

CodecInit ==
  /\ pass = "idle" /\ to = 8 /\ input = <<>> /\ len = -1
  /\ at = 1 /\ size = 0 /\ out = <<>>
-----------------------------------------------------------------------------
\* Decoding: a code point, and how many units it has taken.
Decoded(cp, n) == [cp |-> cp, n |-> n]

\* A continuation byte, (s & 0xC0) == 0x80, and the six bits in it.
IsCont(b) == b \div 64 = 2

\* Mutant of Sequence: the first code point of each length is replaced, too.
SequenceAboveLeast(lead, s, i, n) ==
  LET F[k \in 0 .. n] == IF k = 0 THEN lead ELSE 64 * F[k - 1] + (s[i + k] % 64)
      least == CASE n = 1 -> 128 [] n = 2 -> 2048 [] n = 3 -> 65536
  IN  Decoded(IF F[n] > least /\ F[n] <= 1114111 THEN F[n] ELSE Replacement, n + 1)

\* The code point of the first byte's bits and n continuation bytes; one that
\* fits into fewer bytes, or is no code point, is replaced.
Sequence(lead, s, i, n) ==
  LET F[k \in 0 .. n] == IF k = 0 THEN lead ELSE 64 * F[k - 1] + (s[i + k] % 64)
      least == CASE n = 1 -> 128 [] n = 2 -> 2048 [] n = 3 -> 65536
  IN  Decoded(IF F[n] >= least /\ F[n] <= 1114111 THEN F[n] ELSE Replacement, n + 1)

\* utf8_decode and utf8_decode_len, of s[i ..]: the bytes of a sequence must be
\* in s, which the 0 at the end sees to where there is no length.
Utf8Decode(s, i) ==
  LET Conts(n) == i + n <= Len(s) /\ \A k \in 1 .. n : IsCont(s[i + k]) IN
  CASE s[i] < 128                        -> Decoded(s[i], 1)
    [] s[i] \div 32 = 6 /\ Conts(1)      -> Sequence(s[i] % 32, s, i, 1)
    [] s[i] \div 16 = 14 /\ Conts(2)     -> Sequence(s[i] % 16, s, i, 2)
    [] s[i] \div 8 = 30 /\ Conts(3)      -> Sequence(s[i] % 8, s, i, 3)
    [] OTHER                             -> Decoded(Replacement, 1)

IsHigh(u) == u \in 55296 .. 56319
IsLow(u)  == u \in 56320 .. 57343

\* utf16_decode of w1, with w2 behind it.
Utf16Decode(w1, w2) ==
  IF ~IsHigh(w1) THEN Decoded(w1, 1)
  ELSE IF IsLow(w2) THEN Decoded((w1 - 55296) * 1024 + (w2 - 56320) + 65536, 2)
  ELSE Decoded(Replacement, 1)

\* Mutant of Utf8Encode: the last code point of two bytes takes three.
Utf8EncodeShort(cp) ==
  IF cp < 128 THEN <<cp>>
  ELSE IF cp < 2047 THEN <<192 + cp \div 64, 128 + (cp % 64)>>
  ELSE IF cp < 65536 THEN <<224 + cp \div 4096, 128 + ((cp \div 64) % 64), 128 + (cp % 64)>>
  ELSE <<240 + cp \div 262144, 128 + ((cp \div 4096) % 64),
         128 + ((cp \div 64) % 64), 128 + (cp % 64)>>

Utf8Encode(cp) ==
  IF cp < 128 THEN <<cp>>
  ELSE IF cp < 2048 THEN <<192 + cp \div 64, 128 + (cp % 64)>>
  ELSE IF cp < 65536 THEN <<224 + cp \div 4096, 128 + ((cp \div 64) % 64), 128 + (cp % 64)>>
  ELSE <<240 + cp \div 262144, 128 + ((cp \div 4096) % 64),
         128 + ((cp \div 64) % 64), 128 + (cp % 64)>>

\* Mutant of Utf16Encode: no pairs.
Utf16EncodeSingle(cp) == <<cp>>

Utf16Encode(cp) ==
  IF cp < 65536 THEN <<cp>>
  ELSE <<55296 + (cp - 65536) \div 1024, 56320 + ((cp - 65536) % 1024)>>

\* The units that the first pass counts for a code point.
CountUtf8(cp) == IF cp < 128 THEN 1 ELSE IF cp < 2048 THEN 2 ELSE IF cp < 65536 THEN 3 ELSE 4
CountUtf16(cp) == IF cp >= 65536 THEN 2 ELSE 1
-----------------------------------------------------------------------------
\* A call.  The data of an empty ObjString is a null pointer.
Convert(target, s, n, null) ==
  /\ to' = target /\ input' = s /\ len' = n
  /\ at' = 1 /\ size' = 0 /\ out' = <<>>
  /\ pass' = IF null THEN "null" ELSE "size"

\* There is more to read: p < end, or *p is not 0.
More == IF len >= 0 THEN at <= len ELSE at <= Len(input) /\ input[at] # 0

\* What the code point at the position may be decoded as.  The second half of a
\* pair is read without a look at the length.
Found ==
  IF to = 16 THEN {Utf8Decode(input, at)}
  ELSE LET seconds == IF at < Len(input) THEN {input[at + 1]}
                      ELSE IF len >= 0 THEN Behind ELSE {0} IN
       {Utf16Decode(input[at], w2) : w2 \in seconds}

Count ==
  /\ pass = "size" /\ More
  /\ \E d \in Found :
       /\ size' = size + IF to = 16 THEN CountUtf16(d.cp) ELSE CountUtf8(d.cp)
       /\ at' = at + d.n
  /\ UNCHANGED <<pass, to, input, len, out>>

\* The buffer for size units and a 0 is allocated; the second pass begins.
Allocate ==
  /\ pass = "size" /\ ~More
  /\ pass' = "write" /\ at' = 1
  /\ UNCHANGED <<to, input, len, size, out>>

Write ==
  /\ pass = "write" /\ More
  /\ \E d \in Found :
       /\ out' = out \o IF to = 16 THEN Utf16Encode(d.cp) ELSE Utf8Encode(d.cp)
       /\ at' = at + d.n
  /\ UNCHANGED <<pass, to, input, len, size>>

\* The 0 at the end.
Terminate ==
  /\ pass = "write" /\ ~More
  /\ pass' = "done"
  /\ UNCHANGED <<to, input, len, at, size, out>>

CodecNext == Count \/ Allocate \/ Write \/ Terminate
=============================================================================
