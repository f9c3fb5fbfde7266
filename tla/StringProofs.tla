----------------------------- MODULE StringProofs -----------------------------
(***************************************************************************)
(* The invariant of fire::string and the refinement of strings as values,  *)
(* proved for every set of strings, blocks and texts.                      *)
(***************************************************************************)
EXTENDS StringProperties, TLAPS

\* The content of a string is a sequence of its length.
LEMMA ContentFacts ==
  ASSUME BufferInv, NEW s \in Str
  PROVE  /\ Content(s) \in Seq(Char)
         /\ Content(s) # NIL
         /\ s \in live => Len(Content(s)) = length[s]
<1>1. <<>> \in Seq(Char) /\ Len(<<>>) = 0
  OBVIOUS
<1>2. buffer[s] = NIL \/ buffer[s] \in Block
  BY DEF BufferInv, TypeOK
<1>3. CASE buffer[s] = NIL
  BY <1>1, <1>3, StringAssumption DEF BufferInv, Owned, Content
<1>4. CASE buffer[s] # NIL
  <2>1. Content(s) = data[buffer[s]]
    BY <1>4 DEF Content
  <2>2. data[buffer[s]] \in Seq(Char)
    BY <1>2, <1>4 DEF BufferInv, TypeOK
  <2>3. s \in live => Len(data[buffer[s]]) = length[s]
    BY <1>4 DEF BufferInv, Owned
  <2>4. QED BY <2>1, <2>2, <2>3, StringAssumption
<1>5. QED BY <1>3, <1>4

\* The empty text.
LEMMA EmptyText == <<>> \in Seq(Char) /\ Len(<<>>) = 0
OBVIOUS

\* The program starts without strings.
LEMMA InitInv == Init => BufferInv
<1>1. SUFFICES ASSUME Init PROVE BufferInv
  OBVIOUS
<1>2. <<>> \in Seq(Char)
  OBVIOUS
<1>3. TypeOK
  BY <1>1, <1>2 DEF Init, TypeOK
<1>4. Owned /\ Room /\ OverflowOnlyIfShort
  BY <1>1 DEF Init, Owned, Room, OverflowOnlyIfShort
<1>5. QED BY <1>3, <1>4 DEF BufferInv
-----------------------------------------------------------------------------
(***************************************************************************)
(* The calls that are done in one step.                                    *)
(***************************************************************************)

\* The step makes the string s, which owns the block b, with t in it; it has
\* room for k characters, and _buf_size is n.
Built(s, b, t, n, k) ==
  /\ Idle /\ s \notin live /\ b \notin allocated
  /\ Construct(s, b, Len(t), n)
  /\ Len(t) <= n /\ Len(t) <= k
  /\ allocated' \subseteq Block /\ allocated \cup {b} \subseteq allocated'
  /\ size' \in [Block -> Nat] /\ size'[b] = k
  /\ \A c \in allocated : size'[c] = size[c]
  /\ data' = [data EXCEPT ![b] = t]
  /\ target' \in {NIL, s} /\ text' \in Seq(Char)
  /\ fresh' \in BOOLEAN /\ grown' \in BOOLEAN
  /\ short \subseteq short' /\ short' \subseteq short \cup {s}
  /\ n <= k \/ s \in short'
  /\ overflow' = overflow

\* Such a step keeps the invariant.
LEMMA BuiltInv ==
  ASSUME BufferInv, NEW s \in Str, NEW b \in Block, NEW t \in Seq(Char),
         NEW n \in Nat, NEW k \in Nat, Built(s, b, t, n, k)
  PROVE  BufferInv'
<1>1. TypeOK'
  <2>1. live' \subseteq Str /\ buffer' \in [Str -> Block \cup {NIL}]
    BY DEF BufferInv, TypeOK, Construct, Built
  <2>2. length' \in [Str -> Nat] /\ bufSize' \in [Str -> Nat]
    <3>1. Len(t) \in Nat
      OBVIOUS
    <3>2. QED BY <3>1 DEF BufferInv, TypeOK, Construct, Built
  <2>3. data' \in [Block -> Seq(Char)]
    BY DEF BufferInv, TypeOK, Built
  <2>4. target' \in live' \cup {NIL} /\ short' \subseteq live'
    BY DEF BufferInv, TypeOK, Construct, Built
  <2>5. overflow' \in BOOLEAN
    BY DEF BufferInv, TypeOK, Built
  <2>6. QED BY <2>1, <2>2, <2>3, <2>4, <2>5 DEF TypeOK, Built
<1>2. Owned'
  <2>1. SUFFICES ASSUME NEW r \in live'
                 PROVE /\ buffer'[r] = NIL => length'[r] = 0 /\ bufSize'[r] = 0
                       /\ buffer'[r] # NIL =>
                            /\ buffer'[r] \in allocated'
                            /\ Len(data'[buffer'[r]]) = length'[r]
                            /\ length'[r] <= size'[buffer'[r]]
                            /\ \A t1 \in live' : t1 # r => buffer'[t1] # buffer'[r]
    BY DEF Owned
  <2>2. CASE r = s
    BY <2>2, StringAssumption DEF BufferInv, TypeOK, Owned, Construct, Built
  <2>3. CASE r # s
    BY <2>1, <2>3, StringAssumption DEF BufferInv, TypeOK, Owned, Construct, Built
  <2>4. QED BY <2>2, <2>3
<1>3. Room'
  <2>1. SUFFICES ASSUME NEW r \in live'
                 PROVE /\ length'[r] <= bufSize'[r]
                       /\ buffer'[r] # NIL /\ r \notin short'
                            => bufSize'[r] <= size'[buffer'[r]]
    BY DEF Room
  <2>2. CASE r = s
    BY <2>2, StringAssumption DEF BufferInv, TypeOK, Construct, Built
  <2>3. CASE r # s
    <3>1. r \in live /\ r \in Str /\ ~(r = target /\ grown)
      BY <2>1, <2>3, StringAssumption DEF BufferInv, TypeOK, Construct, Idle, Built
    <3>2. buffer'[r] = buffer[r] /\ length'[r] = length[r] /\ bufSize'[r] = bufSize[r]
      BY <3>1, <2>3 DEF BufferInv, TypeOK, Construct, Built
    <3>3. length[r] <= bufSize[r]
      BY <3>1 DEF BufferInv, Room
    <3>4. buffer[r] # NIL => size'[buffer[r]] = size[buffer[r]]
      BY <3>1 DEF BufferInv, Owned, Built
    <3>5. buffer[r] # NIL /\ r \notin short => bufSize[r] <= size[buffer[r]]
      BY <3>1 DEF BufferInv, Room
    <3>6. r \notin short' => r \notin short
      BY DEF Built
    <3>7. QED BY <3>2, <3>3, <3>4, <3>5, <3>6
  <2>4. QED BY <2>2, <2>3
<1>4. OverflowOnlyIfShort'
  BY DEF Idle, OverflowOnlyIfShort, Built
<1>5. QED BY <1>1, <1>2, <1>3, <1>4 DEF BufferInv

\* Each constructor is such a step.
LEMMA NewBuilds ==
  ASSUME BufferInv, NEW s \in Str, New(s)
  PROVE  \E b \in Block : Built(s, b, <<>>, FirstBufferSize, FirstBufferSize)
<1>1. PICK b \in Block \ allocated : Construct(s, b, 0, FirstBufferSize)
                                     /\ Allocate(b, FirstBufferSize, <<>>)
  BY DEF New
<1>2. FirstBufferSize \in Nat /\ <<>> \in Seq(Char) /\ Len(<<>>) = 0
  BY StringAssumption
<1>3. size' \in [Block -> Nat] /\ size'[b] = FirstBufferSize
      /\ \A c \in allocated : size'[c] = size[c]
  BY <1>1, <1>2 DEF BufferInv, TypeOK, Allocate
<1>4. Built(s, b, <<>>, FirstBufferSize, FirstBufferSize)
  <2>1. target' \in {NIL, s} /\ text' \in Seq(Char) /\ fresh' \in BOOLEAN
        /\ grown' \in BOOLEAN /\ overflow' = overflow
    BY DEF New, Idle, call, BufferInv, TypeOK
  <2>2. /\ Idle /\ s \notin live /\ short' = short
        /\ allocated' = allocated \cup {b} /\ data' = [data EXCEPT ![b] = <<>>]
    BY <1>1 DEF New, Allocate
  <2>3. Len(<<>>) <= FirstBufferSize /\ FirstBufferSize <= FirstBufferSize
    BY <1>2
  <2>4. allocated \subseteq Block
    BY DEF BufferInv, TypeOK
  <2>5. Construct(s, b, Len(<<>>), FirstBufferSize)
    BY <1>1, <1>2
  <2>6. QED BY <1>3, <2>1, <2>2, <2>3, <2>4, <2>5 DEF Built
<1>5. QED BY <1>4

\* from_char and from_pointer begin as the default constructor does.
LEMMA FromBuilds ==
  ASSUME BufferInv, NEW s \in Str, NEW t \in Texts, From(s, t)
  PROVE  \E b \in Block : Built(s, b, <<>>, FirstBufferSize, FirstBufferSize)
<1>1. PICK b \in Block \ allocated : Construct(s, b, 0, FirstBufferSize)
                                     /\ Allocate(b, FirstBufferSize, <<>>)
  BY DEF From
<1>2. FirstBufferSize \in Nat /\ <<>> \in Seq(Char) /\ Len(<<>>) = 0 /\ t \in Seq(Char)
  BY StringAssumption
<1>3. size' \in [Block -> Nat] /\ size'[b] = FirstBufferSize
      /\ \A c \in allocated : size'[c] = size[c]
  BY <1>1, <1>2 DEF BufferInv, TypeOK, Allocate
<1>4. Built(s, b, <<>>, FirstBufferSize, FirstBufferSize)
  <2>1. target' \in {NIL, s} /\ text' \in Seq(Char) /\ fresh' \in BOOLEAN
        /\ grown' \in BOOLEAN /\ overflow' = overflow
    BY <1>2 DEF From, Call
  <2>2. /\ Idle /\ s \notin live /\ short' = short
        /\ allocated' = allocated \cup {b} /\ data' = [data EXCEPT ![b] = <<>>]
    BY <1>1 DEF From, Allocate
  <2>3. Len(<<>>) <= FirstBufferSize /\ FirstBufferSize <= FirstBufferSize
    BY <1>2
  <2>4. allocated \subseteq Block
    BY DEF BufferInv, TypeOK
  <2>5. Construct(s, b, Len(<<>>), FirstBufferSize)
    BY <1>1, <1>2
  <2>6. QED BY <1>3, <2>1, <2>2, <2>3, <2>4, <2>5 DEF Built
<1>5. QED BY <1>4

\* The block of the caller has room for the text and the 0 behind it.
LEMMA FromPointerMoveBuilds ==
  ASSUME BufferInv, NEW s \in Str, NEW t \in Texts, FromPointerMove(s, t)
  PROVE  \E b \in Block : Built(s, b, t, Len(t), Len(t) + 1)
<1>1. PICK b \in Block \ allocated, first \in Block \ allocated :
        /\ b # first
        /\ Construct(s, b, Len(t), Len(t))
        /\ allocated' = allocated \cup {b, first}
        /\ size' = [size EXCEPT ![b] = Len(t) + 1, ![first] = FirstBufferSize]
        /\ data' = [data EXCEPT ![b] = t]
  BY DEF FromPointerMove
<1>2. FirstBufferSize \in Nat /\ t \in Seq(Char) /\ Len(t) \in Nat /\ Len(t) + 1 \in Nat
  BY StringAssumption
<1>3. size' \in [Block -> Nat] /\ size'[b] = Len(t) + 1
      /\ \A c \in allocated : size'[c] = size[c]
  BY <1>1, <1>2 DEF BufferInv, TypeOK
<1>4. Len(t) <= Len(t) /\ Len(t) <= Len(t) + 1
  BY <1>2
<1>5. Built(s, b, t, Len(t), Len(t) + 1)
  <2>1. target' \in {NIL, s} /\ text' \in Seq(Char) /\ fresh' \in BOOLEAN
        /\ grown' \in BOOLEAN /\ overflow' = overflow
    BY DEF FromPointerMove, Idle, call, BufferInv, TypeOK
  <2>2. Idle /\ s \notin live /\ short' = short
    BY DEF FromPointerMove
  <2>3. allocated \subseteq Block
    BY DEF BufferInv, TypeOK
  <2>4. QED BY <1>1, <1>3, <1>4, <2>1, <2>2, <2>3 DEF Built
<1>6. QED BY <1>5

\* The block of a copy has room for the characters, whatever _buf_size says.
LEMMA CloneBuilds ==
  ASSUME BufferInv, NEW s \in Str, NEW t \in Str, Clone(s, t)
  PROVE  \E b \in Block : Built(t, b, Content(s), bufSize[s], length[s])
<1>1. PICK b \in Block \ allocated, first \in Block \ allocated :
        /\ b # first
        /\ Construct(t, b, length[s], bufSize[s])
        /\ allocated' = allocated \cup {b, first}
        /\ size' = [size EXCEPT ![b] = length[s], ![first] = FirstBufferSize]
        /\ data' = [data EXCEPT ![b] = Content(s)]
  BY DEF Clone
<1>2. Idle /\ s \in live /\ t \notin live /\ short' = short \cup {t}
      /\ UNCHANGED <<call, overflow>>
  BY DEF Clone
<1>3. /\ FirstBufferSize \in Nat /\ length[s] \in Nat /\ bufSize[s] \in Nat
      /\ length[s] <= bufSize[s]
  BY <1>2, StringAssumption DEF BufferInv, TypeOK, Room
<1>4. Content(s) \in Seq(Char) /\ Len(Content(s)) = length[s]
  BY <1>2, ContentFacts
<1>5. size' \in [Block -> Nat] /\ size'[b] = length[s]
      /\ \A c \in allocated : size'[c] = size[c]
  BY <1>1, <1>3 DEF BufferInv, TypeOK
<1>6. Built(t, b, Content(s), bufSize[s], length[s])
  <2>1. target' \in {NIL, t} /\ text' \in Seq(Char) /\ fresh' \in BOOLEAN
        /\ grown' \in BOOLEAN /\ overflow' = overflow
    BY <1>2 DEF Idle, call, BufferInv, TypeOK
  <2>2. allocated \subseteq Block /\ bufSize[s] <= bufSize[s] /\ length[s] <= length[s]
    BY <1>3 DEF BufferInv, TypeOK
  <2>3. Construct(t, b, Len(Content(s)), bufSize[s])
    BY <1>1, <1>4
  <2>4. QED BY <1>1, <1>2, <1>3, <1>4, <1>5, <2>1, <2>2, <2>3 DEF Built
<1>7. QED BY <1>6

\* The default constructor keeps the invariant.
LEMMA NewInv == ASSUME BufferInv, NEW s \in Str, New(s) PROVE BufferInv'
BY NewBuilds, BuiltInv, EmptyText, StringAssumption

\* So does the beginning of from_char and from_pointer.
LEMMA FromInv ==
  ASSUME BufferInv, NEW s \in Str, NEW t \in Texts, From(s, t) PROVE BufferInv'
BY FromBuilds, BuiltInv, EmptyText, StringAssumption

\* So does from_pointer_move.
LEMMA FromPointerMoveInv ==
  ASSUME BufferInv, NEW s \in Str, NEW t \in Texts, FromPointerMove(s, t) PROVE BufferInv'
<1>1. t \in Seq(Char) /\ Len(t) \in Nat /\ Len(t) + 1 \in Nat
  BY StringAssumption
<1>2. QED BY <1>1, FromPointerMoveBuilds, BuiltInv

\* So does clone, whose copy counts as short of room.
LEMMA CloneInv ==
  ASSUME BufferInv, NEW s \in Str, NEW t \in Str, Clone(s, t) PROVE BufferInv'
<1>1. Content(s) \in Seq(Char) /\ bufSize[s] \in Nat /\ length[s] \in Nat
  BY ContentFacts DEF BufferInv, TypeOK
<1>2. QED BY <1>1, CloneBuilds, BuiltInv

\* The move constructor hands the buffer over, and what is known of its room.
LEMMA MoveInv ==
  ASSUME BufferInv, NEW s \in Str, NEW t \in Str, Move(s, t) PROVE BufferInv'
<1>1. s # t /\ s \in live /\ t \notin live /\ Idle /\ live' = live \cup {t}
      /\ UNCHANGED <<heap, call, overflow>>
  BY DEF Move
<1>2. \A r \in Str :
        /\ buffer'[r] = IF r = s THEN NIL ELSE IF r = t THEN buffer[s] ELSE buffer[r]
        /\ length'[r] = IF r = s THEN 0 ELSE IF r = t THEN length[s] ELSE length[r]
        /\ bufSize'[r] = IF r = s THEN 0 ELSE IF r = t THEN bufSize[s] ELSE bufSize[r]
  BY <1>1 DEF Move, BufferInv, TypeOK
<1>3. short' \subseteq live' /\ short \subseteq short' \cup {s} /\ (s \in short => t \in short')
  BY <1>1 DEF Move, BufferInv, TypeOK
<1>4. TypeOK'
  BY <1>1, <1>3 DEF Move, BufferInv, TypeOK, heap, call
<1>5. Owned'
  BY <1>1, <1>2 DEF BufferInv, TypeOK, Owned, heap
<1>6. Room'
  <2>1. \A r \in live : r # target
    BY <1>1, StringAssumption DEF Idle, BufferInv, TypeOK
  <2>2. \A r \in live : /\ length[r] <= bufSize[r]
                        /\ buffer[r] # NIL /\ r \notin short
                             => bufSize[r] <= size[buffer[r]]
    BY <2>1 DEF BufferInv, Room
  <2>3. SUFFICES ASSUME NEW r \in live'
                 PROVE /\ length'[r] <= bufSize'[r]
                       /\ buffer'[r] # NIL /\ r \notin short'
                            => bufSize'[r] <= size'[buffer'[r]]
    BY DEF Room
  <2>4. r \in Str /\ r \in live \cup {t} /\ size' = size
    BY <1>1, <2>3 DEF BufferInv, TypeOK, heap
  <2>5. QED BY <1>1, <1>2, <1>3, <2>2, <2>4
<1>7. OverflowOnlyIfShort'
  BY <1>1 DEF Idle, OverflowOnlyIfShort
<1>8. QED BY <1>4, <1>5, <1>6, <1>7 DEF BufferInv

\* A string whose block is freed takes nothing from the others.
LEMMA DeleteInv ==
  ASSUME BufferInv, NEW s \in live, Delete(s), overflow' = FALSE,
         target' = NIL, text' \in Seq(Char), fresh' \in BOOLEAN, grown' \in BOOLEAN,
         target \in {NIL, s}
  PROVE  BufferInv'
<1>1. s \in Str /\ buffer[s] \in Block \cup {NIL} /\ live' = live \ {s}
  BY DEF BufferInv, TypeOK, Delete
<1>2. \A r \in live' : /\ r \in live /\ r \in Str /\ r # s
                       /\ buffer'[r] = buffer[r] /\ length'[r] = length[r]
                       /\ bufSize'[r] = bufSize[r]
  BY <1>1 DEF BufferInv, TypeOK, Delete
<1>3. \A r \in live' : buffer[r] # NIL =>
        /\ buffer[r] \in Block /\ buffer[r] \in allocated'
        /\ size'[buffer[r]] = size[buffer[r]] /\ data'[buffer[r]] = data[buffer[r]]
  BY <1>1, <1>2 DEF BufferInv, TypeOK, Owned, Delete
<1>4. TypeOK'
  <2>1. <<>> \in Seq(Char)
    OBVIOUS
  <2>2. size' \in [Block -> Nat] /\ data' \in [Block -> Seq(Char)]
    BY <2>1 DEF BufferInv, TypeOK, Delete
  <2>3. /\ live' \subseteq Str /\ buffer' \in [Str -> Block \cup {NIL}]
        /\ length' \in [Str -> Nat] /\ bufSize' \in [Str -> Nat]
        /\ allocated' \subseteq Block /\ short' \subseteq live'
    BY <1>1 DEF BufferInv, TypeOK, Delete
  <2>4. QED BY <2>2, <2>3 DEF TypeOK
<1>5. Owned'
  BY <1>2, <1>3 DEF BufferInv, Owned
<1>6. Room'
  <2>1. \A r \in live' : r # target
    BY <1>2, StringAssumption
  <2>2. short' = short \ {s}
    BY DEF Delete
  <2>3. SUFFICES ASSUME NEW r \in live'
                 PROVE /\ length'[r] <= bufSize'[r]
                       /\ buffer'[r] # NIL /\ r \notin short'
                            => bufSize'[r] <= size'[buffer'[r]]
    BY DEF Room
  <2>4. /\ length[r] <= bufSize[r]
        /\ buffer[r] # NIL /\ r \notin short => bufSize[r] <= size[buffer[r]]
    BY <1>2, <2>1, <2>3 DEF BufferInv, Room
  <2>5. QED BY <1>2, <1>3, <2>2, <2>3, <2>4
<1>7. OverflowOnlyIfShort'
  BY DEF OverflowOnlyIfShort
<1>8. QED BY <1>4, <1>5, <1>6, <1>7 DEF BufferInv

\* The destructor keeps the invariant.
LEMMA DestructInv == ASSUME BufferInv, NEW s \in Str, Destruct(s) PROVE BufferInv'
<1>1. s \in live /\ Delete(s) /\ ~overflow /\ target = NIL /\ UNCHANGED <<call, overflow>>
  BY DEF Destruct, Idle
<1>2. target' = NIL /\ text' \in Seq(Char) /\ fresh' \in BOOLEAN /\ grown' \in BOOLEAN
  BY <1>1 DEF call, BufferInv, TypeOK
<1>3. overflow' = FALSE
  BY <1>1 DEF BufferInv, TypeOK
<1>4. QED BY <1>1, <1>2, <1>3, DeleteInv

\* A call that begins, on an object that is there.
LEMMA AppendTextInv ==
  ASSUME BufferInv, NEW s \in Str, NEW t \in Seq(Char), AppendText(s, t) PROVE BufferInv'
<1>1. /\ s \in live /\ ~overflow /\ target = NIL
      /\ target' = s /\ text' = t /\ fresh' = FALSE /\ grown' = FALSE
      /\ UNCHANGED <<objects, heap, short, overflow>>
  BY DEF AppendText, Idle, Call
<1>2. TypeOK'
  BY <1>1 DEF BufferInv, TypeOK, objects, heap
<1>3. Owned'
  BY <1>1 DEF BufferInv, Owned, objects, heap
<1>4. Room'
  <2>1. \A r \in live : r # target
    BY <1>1, StringAssumption DEF BufferInv, TypeOK
  <2>2. QED BY <1>1, <2>1 DEF BufferInv, Room, objects, heap
<1>5. OverflowOnlyIfShort'
  BY <1>1 DEF OverflowOnlyIfShort
<1>6. QED BY <1>2, <1>3, <1>4, <1>5 DEF BufferInv
-----------------------------------------------------------------------------
(***************************************************************************)
(* The steps of a call that appends.                                       *)
(***************************************************************************)

\* A string with capacity has a buffer.
LEMMA TargetFacts ==
  ASSUME BufferInv, target # NIL, Fits
  PROVE  /\ target \in live /\ target \in Str /\ buffer[target] \in allocated
         /\ buffer[target] \in Block /\ buffer[target] # NIL
         /\ length[target] \in Nat /\ bufSize[target] \in Nat
         /\ length[target] + Len(text) < bufSize[target]
<1>1. target \in live /\ target \in Str /\ length[target] \in Nat /\ bufSize[target] \in Nat
  BY DEF BufferInv, TypeOK
<1>2. Len(text) \in Nat
  BY DEF BufferInv, TypeOK
<1>3. length[target] + Len(text) < bufSize[target] /\ bufSize[target] # 0
  BY <1>1, <1>2 DEF Fits
<1>4. QED BY <1>1, <1>3 DEF BufferInv, TypeOK, Owned

\* Doubling _buf_size leaves everything right but the room, which Reallocate gives.
LEMMA DoubleInv == ASSUME BufferInv, ~overflow, Double PROVE BufferInv'
<1>1. target \in live /\ target \in Str
  BY DEF Double, BufferInv, TypeOK
<1>2. \A r \in Str : bufSize'[r] = IF r = target THEN bufSize[r] * 2 ELSE bufSize[r]
  BY <1>1 DEF Double, BufferInv, TypeOK
<1>3. TypeOK'
  BY <1>1 DEF Double, BufferInv, TypeOK, heap
<1>4. Owned'
  BY <1>1, <1>2 DEF Double, BufferInv, TypeOK, Owned, heap
<1>5. Room'
  BY <1>1, <1>2 DEF Double, BufferInv, TypeOK, Room, heap
<1>6. OverflowOnlyIfShort'
  BY DEF Double, OverflowOnlyIfShort
<1>7. QED BY <1>3, <1>4, <1>5, <1>6 DEF BufferInv

\* The new buffer belongs to nobody else and has the room that _buf_size says.
LEMMA ReallocateInv == ASSUME BufferInv, ~overflow, Reallocate PROVE BufferInv'
<1>1. target # NIL /\ Fits /\ short' = short \ {target} /\ grown' = FALSE
      /\ UNCHANGED <<live, length, bufSize, target, text, fresh, overflow>>
  BY DEF Reallocate
<1>2. PICK b \in Block \ allocated :
        /\ buffer' = [buffer EXCEPT ![target] = b]
        /\ allocated' = (allocated \ {buffer[target]}) \cup {b}
        /\ size' = [size EXCEPT ![buffer[target]] = 0, ![b] = bufSize[target]]
        /\ data' = [data EXCEPT ![buffer[target]] = <<>>, ![b] = Content(target)]
  BY DEF Reallocate
<1>3. /\ target \in live /\ target \in Str /\ buffer[target] \in allocated
      /\ buffer[target] \in Block /\ buffer[target] # NIL
      /\ length[target] \in Nat /\ bufSize[target] \in Nat
  BY <1>1, TargetFacts
<1>4. Content(target) \in Seq(Char) /\ Len(Content(target)) = length[target]
  BY <1>3, ContentFacts
<1>5. <<>> \in Seq(Char)
  OBVIOUS
<1>6. TypeOK'
  <2>1. size' \in [Block -> Nat] /\ data' \in [Block -> Seq(Char)]
    BY <1>2, <1>3, <1>4, <1>5 DEF BufferInv, TypeOK
  <2>2. buffer' \in [Str -> Block \cup {NIL}] /\ allocated' \subseteq Block
        /\ short' \subseteq live'
    BY <1>1, <1>2, <1>3 DEF BufferInv, TypeOK
  <2>3. QED BY <1>1, <2>1, <2>2 DEF BufferInv, TypeOK
<1>7. /\ buffer'[target] = b /\ b \in allocated' /\ b # NIL
      /\ size'[b] = bufSize[target] /\ data'[b] = Content(target)
  BY <1>2, <1>3, StringAssumption DEF BufferInv, TypeOK
<1>8. \A r \in live : r # target =>
        /\ buffer'[r] = buffer[r]
        /\ buffer[r] # NIL => /\ buffer[r] \in allocated' /\ buffer[r] # b
                              /\ size'[buffer[r]] = size[buffer[r]]
                              /\ data'[buffer[r]] = data[buffer[r]]
  <2>1. SUFFICES ASSUME NEW r \in live, r # target
                 PROVE /\ buffer'[r] = buffer[r]
                       /\ buffer[r] # NIL =>
                            /\ buffer[r] \in allocated' /\ buffer[r] # b
                            /\ size'[buffer[r]] = size[buffer[r]]
                            /\ data'[buffer[r]] = data[buffer[r]]
    OBVIOUS
  <2>2. buffer'[r] = buffer[r]
    BY <1>2, <2>1 DEF BufferInv, TypeOK
  <2>3. buffer[r] # NIL => /\ buffer[r] \in allocated /\ buffer[r] \in Block
                           /\ buffer[r] # buffer[target]
    BY <1>3, <2>1 DEF BufferInv, TypeOK, Owned
  <2>4. QED BY <1>2, <2>2, <2>3 DEF BufferInv, TypeOK
<1>9. Owned'
  <2>1. SUFFICES ASSUME NEW r \in live
                 PROVE /\ buffer'[r] = NIL => length[r] = 0 /\ bufSize[r] = 0
                       /\ buffer'[r] # NIL =>
                            /\ buffer'[r] \in allocated'
                            /\ Len(data'[buffer'[r]]) = length[r]
                            /\ length[r] <= size'[buffer'[r]]
                            /\ \A t \in live : t # r => buffer'[t] # buffer'[r]
    BY <1>1 DEF Owned
  <2>2. CASE r = target
    BY <1>3, <1>4, <1>7, <1>8, <2>2, StringAssumption DEF BufferInv, TypeOK, Room
  <2>3. CASE r # target
    BY <1>7, <1>8, <2>3 DEF BufferInv, Owned
  <2>4. QED BY <2>2, <2>3
<1>10. Room'
  <2>1. SUFFICES ASSUME NEW r \in live
                 PROVE /\ length[r] <= bufSize[r]
                       /\ buffer'[r] # NIL /\ r \notin short'
                            => bufSize[r] <= size'[buffer'[r]]
    BY <1>1 DEF Room
  <2>2. length[r] <= bufSize[r]
    BY DEF BufferInv, Room
  <2>3. CASE r = target
    BY <1>3, <1>7, <2>2, <2>3
  <2>4. CASE r # target
    <3>1. buffer[r] # NIL /\ r \notin short => bufSize[r] <= size[buffer[r]]
      BY <2>4 DEF BufferInv, Room
    <3>2. QED BY <1>1, <1>8, <2>2, <2>4, <3>1
  <2>5. QED BY <2>3, <2>4
<1>11. OverflowOnlyIfShort'
  BY <1>1 DEF OverflowOnlyIfShort
<1>12. QED BY <1>6, <1>9, <1>10, <1>11 DEF BufferInv

\* A growth that fails leaves the string short of room, or deletes it.
LEMMA OutOfMemoryInv == ASSUME BufferInv, ~overflow, OutOfMemory PROVE BufferInv'
<1>1. /\ target \in live /\ target' = NIL
      /\ text' = <<>> /\ fresh' = FALSE /\ grown' = FALSE
  BY DEF OutOfMemory, Return, BufferInv, TypeOK
<1>2. text' \in Seq(Char) /\ fresh' \in BOOLEAN /\ grown' \in BOOLEAN
  BY <1>1, EmptyText
<1>3. overflow' = FALSE
  <2>1. overflow \in BOOLEAN
    BY DEF BufferInv, TypeOK
  <2>2. overflow' = overflow
    BY DEF OutOfMemory
  <2>3. QED BY <2>1, <2>2
<1>4. CASE fresh
  <2>1. Delete(target) /\ target \in {NIL, target}
    BY <1>4 DEF OutOfMemory
  <2>2. QED BY <1>1, <1>2, <1>3, <2>1, DeleteInv
<1>5. CASE ~fresh
  <2>1. short' = short \cup {target} /\ UNCHANGED <<objects, heap>>
    BY <1>5 DEF OutOfMemory
  <2>2. TypeOK'
    BY <1>1, <1>2, <1>3, <2>1 DEF BufferInv, TypeOK, objects, heap
  <2>3. Owned'
    BY <2>1 DEF BufferInv, Owned, objects, heap
  <2>4. Room'
    BY <2>1 DEF BufferInv, Room, objects, heap
  <2>5. OverflowOnlyIfShort'
    BY <1>3 DEF OverflowOnlyIfShort
  <2>6. QED BY <2>2, <2>3, <2>4, <2>5 DEF BufferInv
<1>6. QED BY <1>4, <1>5

\* Writing stays within the block, or the string was short of room.
LEMMA WriteInv == ASSUME BufferInv, ~overflow, Write PROVE BufferInv'
<1>1. /\ target # NIL /\ Fits /\ ~grown
      /\ UNCHANGED <<live, buffer, bufSize, allocated, size, short>>
  BY DEF Write
<1>2. /\ target \in live /\ target \in Str /\ buffer[target] \in Block
      /\ buffer[target] \in allocated
      /\ buffer[target] # NIL /\ length[target] \in Nat /\ bufSize[target] \in Nat
      /\ length[target] + Len(text) < bufSize[target]
  BY <1>1, TargetFacts
<1>3. text \in Seq(Char) /\ Len(text) \in Nat
  BY DEF BufferInv, TypeOK
<1>4. CASE length[target] + Len(text) <= size[buffer[target]]
  <2>1. /\ data' = [data EXCEPT ![buffer[target]] = @ \o text]
        /\ length' = [length EXCEPT ![target] = @ + Len(text)]
        /\ Return /\ overflow' = overflow
    BY <1>4 DEF Write
  <2>2. data[buffer[target]] \o text \in Seq(Char)
        /\ Len(data[buffer[target]] \o text) = length[target] + Len(text)
    BY <1>2, <1>3 DEF BufferInv, TypeOK, Owned
  <2>3. TypeOK'
    <3>1. data' \in [Block -> Seq(Char)] /\ length' \in [Str -> Nat]
      BY <1>2, <1>3, <2>1, <2>2 DEF BufferInv, TypeOK
    <3>2. target' = NIL /\ text' \in Seq(Char) /\ fresh' \in BOOLEAN /\ grown' \in BOOLEAN
      BY <2>1, EmptyText DEF Return
    <3>3. overflow' \in BOOLEAN /\ overflow' = overflow
      BY <2>1 DEF BufferInv, TypeOK
    <3>4. QED BY <1>1, <3>1, <3>2, <3>3 DEF BufferInv, TypeOK
  <2>4. length'[target] = length[target] + Len(text)
        /\ Len(data'[buffer[target]]) = length[target] + Len(text)
    BY <1>2, <1>3, <2>1, <2>2 DEF BufferInv, TypeOK
  <2>5. \A r \in live : r # target =>
          /\ length'[r] = length[r]
          /\ buffer[r] # NIL => data'[buffer[r]] = data[buffer[r]]
    <3>1. SUFFICES ASSUME NEW r \in live, r # target
                   PROVE /\ length'[r] = length[r]
                         /\ buffer[r] # NIL => data'[buffer[r]] = data[buffer[r]]
      OBVIOUS
    <3>2. length'[r] = length[r]
      BY <2>1, <3>1 DEF BufferInv, TypeOK
    <3>3. buffer[r] # NIL => buffer[r] \in Block /\ buffer[r] # buffer[target]
      BY <1>2, <3>1 DEF BufferInv, TypeOK, Owned
    <3>4. QED BY <2>1, <3>2, <3>3 DEF BufferInv, TypeOK
  <2>6. Owned'
    <3>1. SUFFICES ASSUME NEW r \in live
                   PROVE /\ buffer[r] = NIL => length'[r] = 0 /\ bufSize[r] = 0
                         /\ buffer[r] # NIL =>
                              /\ buffer[r] \in allocated
                              /\ Len(data'[buffer[r]]) = length'[r]
                              /\ length'[r] <= size[buffer[r]]
                              /\ \A t \in live : t # r => buffer[t] # buffer[r]
      BY <1>1 DEF Owned
    <3>2. CASE r = target
      BY <1>2, <1>4, <2>4, <3>2 DEF BufferInv, Owned
    <3>3. CASE r # target
      BY <2>5, <3>3 DEF BufferInv, Owned
    <3>4. QED BY <3>2, <3>3
  <2>7. Room'
    <3>1. SUFFICES ASSUME NEW r \in live
                   PROVE /\ length'[r] <= bufSize[r]
                         /\ buffer[r] # NIL /\ r \notin short
                              => bufSize[r] <= size[buffer[r]]
      BY <1>1 DEF Room
    <3>2. buffer[r] # NIL /\ r \notin short => bufSize[r] <= size[buffer[r]]
      BY <1>1 DEF BufferInv, Room
    <3>3. length'[r] <= bufSize[r]
      <4>1. CASE r = target
        BY <1>2, <1>3, <2>4, <4>1
      <4>2. CASE r # target
        BY <2>5, <4>2 DEF BufferInv, Room
      <4>3. QED BY <4>1, <4>2
    <3>4. QED BY <3>2, <3>3
  <2>8. OverflowOnlyIfShort'
    BY <2>1 DEF OverflowOnlyIfShort
  <2>9. QED BY <2>3, <2>6, <2>7, <2>8 DEF BufferInv
<1>5. CASE ~(length[target] + Len(text) <= size[buffer[target]])
  <2>1. overflow' = TRUE /\ UNCHANGED <<data, length, call>>
    BY <1>5 DEF Write
  <2>2. TypeOK'
    BY <1>1, <2>1 DEF BufferInv, TypeOK, call
  <2>3. Owned'
    BY <1>1, <2>1 DEF BufferInv, Owned
  <2>4. Room'
    BY <1>1, <2>1 DEF BufferInv, Room, call
  <2>5. target \in short
    <3>1. size[buffer[target]] \in Nat
      BY <1>2 DEF BufferInv, TypeOK
    <3>2. target \notin short => bufSize[target] <= size[buffer[target]]
      BY <1>1, <1>2 DEF BufferInv, Room
    <3>3. QED BY <1>2, <1>3, <1>5, <3>1, <3>2
  <2>6. OverflowOnlyIfShort'
    BY <1>1, <2>1, <2>5 DEF OverflowOnlyIfShort, call
  <2>7. QED BY <2>2, <2>3, <2>4, <2>6 DEF BufferInv
<1>6. QED BY <1>4, <1>5
-----------------------------------------------------------------------------
\* Every step keeps the invariant.
LEMMA StepInv == BufferInv /\ [Next]_vars => BufferInv'
<1>1. SUFFICES ASSUME BufferInv, [Next]_vars PROVE BufferInv'
  OBVIOUS
<1>2. CASE UNCHANGED vars
  <2>1. UNCHANGED <<live, buffer, length, bufSize, allocated, size, data, target, text,
                    fresh, grown, short, overflow>>
    BY <1>2 DEF vars, objects, heap, call
  <2>2. QED BY <1>1, <2>1 DEF BufferInv, TypeOK, Owned, Room, OverflowOnlyIfShort
<1>3. CASE GoOn
  BY <1>1, <1>3, DoubleInv, ReallocateInv, OutOfMemoryInv, WriteInv DEF GoOn
<1>4. ASSUME NEW s \in Str, New(s) \/ Destruct(s) PROVE BufferInv'
  BY <1>1, <1>4, NewInv, DestructInv
<1>5. ASSUME NEW s \in Str, NEW t \in Texts,
             From(s, t) \/ FromPointerMove(s, t) \/ AppendText(s, t)
      PROVE  BufferInv'
  BY <1>1, <1>5, StringAssumption, FromInv, FromPointerMoveInv, AppendTextInv
<1>6. ASSUME NEW s \in Str, NEW o \in Str, Clone(s, o) \/ Move(s, o) PROVE BufferInv'
  BY <1>1, <1>6, CloneInv, MoveInv
<1>7. ASSUME NEW s \in Str, NEW o \in live, AppendText(s, Content(o)) PROVE BufferInv'
  <2>1. Content(o) \in Seq(Char)
    BY <1>1, ContentFacts DEF BufferInv, TypeOK
  <2>2. QED BY <1>1, <1>7, <2>1, AppendTextInv
<1>8. QED BY <1>1, <1>2, <1>3, <1>4, <1>5, <1>6, <1>7 DEF Next

\* The bookkeeping of string.cpp is right, whatever calls are made: every string
\* has a block of its own that holds its characters, and nothing is written
\* behind a block except into the copies made by clone and into strings whose
\* growth failed.
THEOREM BuffersAreOwned == Spec => []BufferInv
<1>1. QED BY InitInv, StepInv, PTL DEF Spec
-----------------------------------------------------------------------------
(***************************************************************************)
(* Every step is a step of the strings as values, or changes nothing.      *)
(***************************************************************************)

\* What the strings hold, one by one.
LEMMA HeldFacts ==
  ASSUME BufferInv
  PROVE  /\ \A r \in Str : Held[r] = IF r \in live THEN Content(r) ELSE NIL
         /\ \A r \in Str : Value!Exists(r) <=> r \in live
         /\ live \subseteq Str
<1>1. \A r \in Str : Held[r] = IF r \in live THEN Content(r) ELSE NIL
  BY DEF Held
<1>2. live \subseteq Str
  BY DEF BufferInv, TypeOK
<1>3. \A r \in Str : Value!Exists(r) <=> r \in live
  BY <1>1, ContentFacts DEF Value!Exists
<1>4. QED BY <1>1, <1>2, <1>3

\* A string whose buffer stays and is not written to holds what it held.
LEMMA SameContent ==
  ASSUME NEW r, buffer'[r] = buffer[r],
         buffer[r] # NIL => data'[buffer[r]] = data[buffer[r]]
  PROVE  Content(r)' = Content(r)
BY DEF Content

\* A string that is made holds its text, and the others hold what they held.
LEMMA BuiltHeld ==
  ASSUME BufferInv, NEW s \in Str, NEW b \in Block, NEW t \in Seq(Char),
         NEW n \in Nat, NEW k \in Nat, Built(s, b, t, n, k)
  PROVE  Held' = [Held EXCEPT ![s] = t]
<1>1. live' = live \cup {s} /\ s \notin live /\ b \notin allocated
      /\ buffer' = [buffer EXCEPT ![s] = b] /\ data' = [data EXCEPT ![b] = t]
  BY DEF Built, Construct
<1>2. Content(s)' = t
  <2>1. buffer'[s] = b /\ b # NIL /\ data'[b] = t
    BY <1>1, StringAssumption DEF BufferInv, TypeOK
  <2>2. QED BY <2>1 DEF Content
<1>3. \A r \in live : r # s /\ Content(r)' = Content(r)
  <2>1. SUFFICES ASSUME NEW r \in live PROVE r # s /\ Content(r)' = Content(r)
    OBVIOUS
  <2>2. r \in Str /\ r # s /\ buffer'[r] = buffer[r]
    BY <1>1 DEF BufferInv, TypeOK
  <2>3. buffer[r] # NIL => buffer[r] # b /\ buffer[r] \in Block
    BY <1>1, <2>2 DEF BufferInv, TypeOK, Owned
  <2>4. buffer[r] # NIL => data'[buffer[r]] = data[buffer[r]]
    BY <1>1, <2>3 DEF BufferInv, TypeOK
  <2>5. QED BY <2>2, <2>4, SameContent
<1>4. QED BY <1>1, <1>2, <1>3 DEF Held

\* The default constructor makes an empty string.
LEMMA NewStep == ASSUME BufferInv, NEW s \in Str, New(s) PROVE Value!Make(s, <<>>)
<1>1. Idle /\ s \notin live /\ UNCHANGED <<target, text, fresh>>
  BY DEF New, call
<1>2. PICK b \in Block : Built(s, b, <<>>, FirstBufferSize, FirstBufferSize)
  BY NewBuilds
<1>3. Held' = [Held EXCEPT ![s] = <<>>]
  BY <1>2, BuiltHeld, EmptyText, StringAssumption
<1>4. QED BY <1>1, <1>3, HeldFacts DEF Value!Make, Value!Idle, Idle

\* from_char and from_pointer begin to append to a new string.
LEMMA FromStep ==
  ASSUME BufferInv, NEW s \in Str, NEW t \in Texts, From(s, t) PROVE Value!Begin(s, t)
<1>1. Idle /\ s \notin live /\ target' = s /\ text' = t /\ fresh' = TRUE
  BY DEF From, Call
<1>2. PICK b \in Block : Built(s, b, <<>>, FirstBufferSize, FirstBufferSize)
  BY FromBuilds
<1>3. Held' = [Held EXCEPT ![s] = <<>>]
  BY <1>2, BuiltHeld, EmptyText, StringAssumption
<1>4. QED BY <1>1, <1>3, HeldFacts DEF Value!Begin, Value!Idle, Idle

\* from_pointer_move makes a string of the text.
LEMMA FromPointerMoveStep ==
  ASSUME BufferInv, NEW s \in Str, NEW t \in Texts, FromPointerMove(s, t)
  PROVE  Value!Make(s, t)
<1>1. Idle /\ s \notin live /\ UNCHANGED <<target, text, fresh>>
  BY DEF FromPointerMove, call
<1>2. t \in Seq(Char) /\ Len(t) \in Nat /\ Len(t) + 1 \in Nat
  BY StringAssumption
<1>3. PICK b \in Block : Built(s, b, t, Len(t), Len(t) + 1)
  BY FromPointerMoveBuilds
<1>4. Held' = [Held EXCEPT ![s] = t]
  BY <1>2, <1>3, BuiltHeld
<1>5. QED BY <1>1, <1>4, HeldFacts DEF Value!Make, Value!Idle, Idle

\* clone copies.
LEMMA CloneStep ==
  ASSUME BufferInv, NEW s \in Str, NEW t \in Str, Clone(s, t) PROVE Value!Copy(s, t)
<1>1. Idle /\ s \in live /\ t \notin live /\ UNCHANGED <<target, text, fresh>>
  BY DEF Clone, call
<1>2. Content(s) \in Seq(Char) /\ bufSize[s] \in Nat /\ length[s] \in Nat
  BY ContentFacts DEF BufferInv, TypeOK
<1>3. PICK b \in Block : Built(t, b, Content(s), bufSize[s], length[s])
  BY CloneBuilds
<1>4. Held' = [Held EXCEPT ![t] = Content(s)]
  BY <1>2, <1>3, BuiltHeld
<1>5. Held[s] = Content(s)
  BY <1>1, HeldFacts
<1>6. QED BY <1>1, <1>4, <1>5, HeldFacts DEF Value!Copy, Value!Make, Value!Idle, Idle

\* The move constructor takes the characters.
LEMMA MoveStep ==
  ASSUME BufferInv, NEW s \in Str, NEW t \in Str, Move(s, t) PROVE Value!Take(s, t)
<1>1. /\ Idle /\ s \in live /\ t \notin live /\ s # t /\ live' = live \cup {t}
      /\ buffer' = [buffer EXCEPT ![t] = buffer[s], ![s] = NIL]
      /\ data' = data /\ UNCHANGED <<target, text, fresh>>
  BY DEF Move, call, heap
<1>2. buffer'[s] = NIL /\ buffer'[t] = buffer[s]
      /\ \A r \in Str : r # s /\ r # t => buffer'[r] = buffer[r]
  BY <1>1 DEF BufferInv, TypeOK
<1>3. Content(s)' = <<>> /\ Content(t)' = Content(s)
      /\ \A r \in Str : r # s /\ r # t => Content(r)' = Content(r)
  <2>1. \A r \in Str : Content(r)' = IF buffer'[r] = NIL THEN <<>> ELSE data[buffer'[r]]
    BY <1>1 DEF Content
  <2>2. Content(s)' = <<>>
    BY <1>2, <2>1
  <2>3. Content(t)' = Content(s)
    BY <1>2, <2>1 DEF Content
  <2>4. QED BY <1>2, <2>1, <2>2, <2>3 DEF Content
<1>4. Held' = [Held EXCEPT ![t] = Content(s), ![s] = <<>>]
  BY <1>1, <1>3 DEF Held
<1>5. Held[s] = Content(s)
  BY <1>1, HeldFacts
<1>6. QED BY <1>1, <1>4, <1>5, HeldFacts DEF Value!Take, Value!Idle, Idle

\* A string that is deleted holds nothing, and the others hold what they held.
LEMMA DeleteHeld ==
  ASSUME BufferInv, NEW s \in live, Delete(s) PROVE Held' = [Held EXCEPT ![s] = NIL]
<1>1. s \in Str /\ live' = live \ {s} /\ buffer' = [buffer EXCEPT ![s] = NIL]
      /\ data' = [b \in Block |-> IF b = buffer[s] THEN <<>> ELSE data[b]]
  BY DEF BufferInv, TypeOK, Delete
<1>2. \A r \in live : r # s => Content(r)' = Content(r)
  <2>1. SUFFICES ASSUME NEW r \in live, r # s PROVE Content(r)' = Content(r)
    OBVIOUS
  <2>2. r \in Str /\ buffer'[r] = buffer[r]
    BY <1>1, <2>1 DEF BufferInv, TypeOK
  <2>3. buffer[r] # NIL => buffer[r] # buffer[s] /\ buffer[r] \in Block
    BY <2>1, <2>2 DEF BufferInv, TypeOK, Owned
  <2>4. buffer[r] # NIL => data'[buffer[r]] = data[buffer[r]]
    BY <1>1, <2>3
  <2>5. QED BY <2>2, <2>4, SameContent
<1>3. QED BY <1>1, <1>2 DEF Held

\* The destructor drops the string.
LEMMA DestructStep == ASSUME BufferInv, NEW s \in Str, Destruct(s) PROVE Value!Drop(s)
<1>1. Idle /\ s \in live /\ Delete(s) /\ UNCHANGED <<target, text, fresh>>
  BY DEF Destruct, call
<1>2. Held' = [Held EXCEPT ![s] = NIL]
  BY <1>1, DeleteHeld
<1>3. QED BY <1>1, <1>2, HeldFacts DEF Value!Drop, Value!Idle, Idle

\* A call that appends begins.
LEMMA AppendTextStep ==
  ASSUME BufferInv, NEW s \in Str, NEW t, AppendText(s, t) PROVE Value!Begin(s, t)
<1>1. /\ Idle /\ s \in live /\ target' = s /\ text' = t /\ fresh' = FALSE
      /\ live' = live /\ buffer' = buffer /\ data' = data
  BY DEF AppendText, Call, objects, heap
<1>2. Held' = Held
  BY <1>1 DEF Held, Content
<1>3. QED BY <1>1, <1>2, HeldFacts DEF Value!Begin, Value!Idle, Idle

\* Doubling _buf_size changes no string.
LEMMA DoubleStep == ASSUME Double PROVE UNCHANGED Value!valueVars
BY DEF Double, Value!valueVars, Held, Content, heap

\* The new buffer holds what the old one held.
LEMMA ReallocateStep == ASSUME BufferInv, Reallocate PROVE UNCHANGED Value!valueVars
<1>1. target # NIL /\ Fits /\ UNCHANGED <<live, target, text, fresh>>
  BY DEF Reallocate
<1>2. PICK b \in Block \ allocated :
        /\ buffer' = [buffer EXCEPT ![target] = b]
        /\ data' = [data EXCEPT ![buffer[target]] = <<>>, ![b] = Content(target)]
  BY DEF Reallocate
<1>3. /\ target \in live /\ target \in Str /\ buffer[target] \in allocated
      /\ buffer[target] \in Block /\ buffer[target] # NIL
  BY <1>1, TargetFacts
<1>4. Content(target)' = Content(target)
  <2>1. buffer'[target] = b /\ b # NIL /\ data'[b] = Content(target)
    BY <1>2, <1>3, StringAssumption DEF BufferInv, TypeOK
  <2>2. Content(target)' = IF buffer'[target] = NIL THEN <<>> ELSE data'[buffer'[target]]
    BY <1>1 DEF Content
  <2>3. QED BY <2>1, <2>2
<1>5. \A r \in live : r # target => Content(r)' = Content(r)
  <2>1. SUFFICES ASSUME NEW r \in live, r # target PROVE Content(r)' = Content(r)
    OBVIOUS
  <2>2. buffer'[r] = buffer[r]
    BY <1>2, <2>1 DEF BufferInv, TypeOK
  <2>3. buffer[r] # NIL => /\ buffer[r] \in allocated /\ buffer[r] \in Block
                           /\ buffer[r] # buffer[target]
    BY <1>3, <2>1 DEF BufferInv, TypeOK, Owned
  <2>4. buffer[r] # NIL => data'[buffer[r]] = data[buffer[r]]
    BY <1>2, <2>3 DEF BufferInv, TypeOK
  <2>5. QED BY <2>2, <2>4, SameContent
<1>6. Held' = Held
  BY <1>1, <1>4, <1>5 DEF Held
<1>7. QED BY <1>1, <1>6 DEF Value!valueVars

\* A growth that fails gives the call up.
LEMMA OutOfMemoryStep == ASSUME BufferInv, OutOfMemory PROVE Value!GiveUp
<1>1. target # NIL /\ target \in live /\ target' = NIL /\ text' = <<>> /\ fresh' = FALSE
  BY DEF OutOfMemory, Return, BufferInv, TypeOK
<1>2. CASE fresh
  <2>1. Held' = [Held EXCEPT ![target] = NIL]
    BY <1>1, <1>2, DeleteHeld DEF OutOfMemory
  <2>2. QED BY <1>1, <1>2, <2>1 DEF Value!GiveUp, Value!Idle, Value!Stop
<1>3. CASE ~fresh
  <2>1. live' = live /\ buffer' = buffer /\ data' = data
    BY <1>3 DEF OutOfMemory, objects, heap
  <2>2. Held' = Held
    BY <2>1 DEF Held, Content
  <2>3. QED BY <1>1, <1>3, <2>2 DEF Value!GiveUp, Value!Idle, Value!Stop
<1>4. QED BY <1>2, <1>3

\* Writing ends the call, or it overflows and nothing is said to have changed.
LEMMA WriteStep ==
  ASSUME BufferInv, Write PROVE Value!End \/ UNCHANGED Value!valueVars
<1>1. target # NIL /\ Fits /\ live' = live /\ buffer' = buffer
  BY DEF Write
<1>2. /\ target \in live /\ target \in Str /\ buffer[target] \in Block
      /\ buffer[target] # NIL
  BY <1>1, TargetFacts
<1>3. PICK p \in Str : p = target
  BY <1>2
<1>4. CASE length[target] + Len(text) <= size[buffer[target]]
  <2>1. /\ data' = [data EXCEPT ![buffer[target]] = @ \o text]
        /\ target' = NIL /\ text' = <<>> /\ fresh' = FALSE
    BY <1>4 DEF Write, Return
  <2>2. Content(p)' = Content(p) \o text
    <3>1. Content(p)' = data'[buffer[p]] /\ Content(p) = data[buffer[p]]
      BY <1>1, <1>2, <1>3 DEF Content
    <3>2. data'[buffer[p]] = data[buffer[p]] \o text
      BY <1>2, <1>3, <2>1 DEF BufferInv, TypeOK
    <3>3. QED BY <3>1, <3>2
  <2>3. \A r \in live : r # p => Content(r)' = Content(r)
    <3>1. SUFFICES ASSUME NEW r \in live, r # p PROVE Content(r)' = Content(r)
      OBVIOUS
    <3>2. buffer[r] # NIL => buffer[r] \in Block /\ buffer[r] # buffer[p]
      BY <1>2, <1>3, <3>1 DEF BufferInv, TypeOK, Owned
    <3>3. buffer[r] # NIL => data'[buffer[r]] = data[buffer[r]]
      BY <2>1, <1>3, <3>2 DEF BufferInv, TypeOK
    <3>4. QED BY <1>1, <3>3, SameContent
  <2>4. Held' = [Held EXCEPT ![p] = Held[p] \o text]
    <3>1. Held[p] = Content(p)
      BY <1>2, <1>3 DEF Held
    <3>2. Held' = [r \in Str |-> IF r = p THEN Content(p) \o text ELSE Held[r]]
      BY <1>1, <1>2, <1>3, <2>2, <2>3 DEF Held
    <3>3. QED BY <1>2, <1>3, <3>1, <3>2 DEF Held
  <2>5. QED BY <1>1, <1>3, <2>1, <2>4 DEF Value!End, Value!Idle, Value!Stop
<1>5. CASE ~(length[target] + Len(text) <= size[buffer[target]])
  <2>1. UNCHANGED <<live, buffer, data, target, text, fresh>>
    BY <1>5 DEF Write, call
  <2>2. QED BY <2>1 DEF Value!valueVars, Held, Content
<1>6. QED BY <1>4, <1>5
-----------------------------------------------------------------------------
\* At the start there are no strings.
LEMMA ValueInit == Init => Value!Init
BY DEF Init, Value!Init, Held

\* Every step of string.cpp is a step of the strings as values, or a stutter.
LEMMA ValueStep == BufferInv /\ [Next]_vars => [Value!Next]_Value!valueVars
<1>1. SUFFICES ASSUME BufferInv, [Next]_vars PROVE [Value!Next]_Value!valueVars
  OBVIOUS
<1>2. CASE UNCHANGED vars
  BY <1>2 DEF vars, objects, heap, call, Value!valueVars, Held, Content
<1>3. CASE GoOn
  BY <1>1, <1>3, DoubleStep, ReallocateStep, OutOfMemoryStep, WriteStep
     DEF GoOn, Value!Next
<1>4. ASSUME NEW s \in Str, New(s) \/ Destruct(s) PROVE Value!Next
  BY <1>1, <1>4, NewStep, DestructStep DEF Value!Next
<1>5. ASSUME NEW s \in Str, NEW t \in Texts,
             From(s, t) \/ FromPointerMove(s, t) \/ AppendText(s, t)
      PROVE  Value!Next
  BY <1>1, <1>5, FromStep, FromPointerMoveStep, AppendTextStep DEF Value!Next
<1>6. ASSUME NEW s \in Str, NEW o \in Str, Clone(s, o) \/ Move(s, o) PROVE Value!Next
  BY <1>1, <1>6, CloneStep, MoveStep DEF Value!Next
<1>7. ASSUME NEW s \in Str, NEW o \in live, AppendText(s, Content(o)) PROVE Value!Next
  <2>1. o \in Str /\ Value!Exists(o) /\ Held[o] = Content(o)
    BY <1>1, HeldFacts
  <2>2. Value!Begin(s, Held[o])
    BY <1>1, <1>7, <2>1, AppendTextStep
  <2>3. QED BY <2>1, <2>2 DEF Value!Next
<1>8. QED BY <1>1, <1>2, <1>3, <1>4, <1>5, <1>6, <1>7 DEF Next

\* string.cpp implements strings as values: whatever buffers are grown, moved,
\* copied and freed, each string holds the characters that the calls gave it,
\* and a call that runs out of memory leaves it as it was.
THEOREM StringsAreValues == Spec => ImplementsStringValue
<1>1. Spec => []BufferInv
  BY BuffersAreOwned
<1>2. QED BY <1>1, ValueInit, ValueStep, PTL DEF Spec, ImplementsStringValue, Value!Spec
=============================================================================
