-------------------------------- MODULE Lists --------------------------------
(***************************************************************************)
(* Lists, as the program keeps them in vectors.                            *)
(***************************************************************************)
EXTENDS Naturals, Sequences

\* What a list holds, and that it holds nothing twice.
Listed(s)   == {s[i] : i \in 1 .. Len(s)}
NoRepeat(s) == \A i, j \in 1 .. Len(s) : s[i] = s[j] => i = j

\* The list of those members of s that are in T, in the order of s.  (A
\* function and not SelectSeq, of which the proof system knows nothing.)
Sublist(s, T) ==
  LET F[i \in 0 .. Len(s)] == IF i = 0 THEN <<>>
                              ELSE IF s[i] \in T THEN Append(F[i - 1], s[i])
                              ELSE F[i - 1]
  IN  F[Len(s)]

\* The list s without the member at position j.
Without(s, j) == SubSeq(s, 1, j - 1) \o SubSeq(s, j + 1, Len(s))
=============================================================================
