--------------------------- MODULE StringProperties ---------------------------
(***************************************************************************)
(* What fire::string must guarantee: properties of module StringBuffer.    *)
(***************************************************************************)
EXTENDS StringBuffer

TypeOK ==
  /\ live \subseteq Str
  /\ buffer \in [Str -> Block \cup {NIL}]
  /\ length \in [Str -> Nat] /\ bufSize \in [Str -> Nat]
  /\ allocated \subseteq Block
  /\ size \in [Block -> Nat] /\ data \in [Block -> Seq(Char)]
  /\ target \in live \cup {NIL} /\ text \in Seq(Char)
  /\ fresh \in BOOLEAN /\ grown \in BOOLEAN
  /\ short \subseteq live
  /\ overflow \in BOOLEAN

\* Every string has a block of its own, which is allocated and holds its
\* characters; only an empty string has none.  (So no block is freed twice or
\* used after it is freed, and strings do not change each other.)
Owned ==
  \A s \in live :
    /\ buffer[s] = NIL => length[s] = 0 /\ bufSize[s] = 0
    /\ buffer[s] # NIL =>
         /\ buffer[s] \in allocated
         /\ Len(data[buffer[s]]) = length[s]
         /\ length[s] <= size[buffer[s]]
         /\ \A t \in live : t # s => buffer[t] # buffer[s]

\* A string has the room that _buf_size says, unless it is the copy that clone
\* made or one whose growth failed for lack of memory, and has not got a new
\* buffer since.
Room ==
  \A s \in live :
    /\ length[s] <= bufSize[s]
    /\ buffer[s] # NIL /\ s \notin short /\ ~(s = target /\ grown)
         => bufSize[s] <= size[buffer[s]]

\* Nothing is written behind the end of a buffer, except into such a string.
OverflowOnlyIfShort == overflow => target \in short

\* All of this, which is inductive.
BufferInv == TypeOK /\ Owned /\ Room /\ OverflowOnlyIfShort

\* A call that appends comes to its end, unless the string has no capacity at
\* all to be doubled: it was moved from, taken over from an empty text, or
\* copied from such a string.  (Then the call never returns.)
AppendsEnd ==
  target # NIL /\ bufSize[target] > 0 ~> target = NIL \/ overflow

\* Of each string the characters it holds, or NIL.
Held == [s \in Str |-> IF s \in live THEN Content(s) ELSE NIL]

Value == INSTANCE StringValue WITH value <- Held

\* Whatever buffers are grown, moved, copied and freed, each string has the
\* characters that the calls gave it, until one of them overflows.
ImplementsStringValue == Value!Spec
=============================================================================
