----------------------------- MODULE StringBuffer -----------------------------
(***************************************************************************)
(* fire::string (string.cpp): strings with a buffer of their own, and the  *)
(* heap the buffers are in.  Any sequence of public calls may be made, on  *)
(* the objects Str, which live at fixed places like local variables.       *)
(*                                                                         *)
(* A call that appends goes step by step: each turn of the loop in         *)
(* _check_buf_size, the change of the buffer, and the writing.             *)
(***************************************************************************)
EXTENDS Naturals, Sequences

CONSTANTS
  Str,              \* string objects
  Block,            \* what operator new may return
  Char,
  Texts,            \* the texts that are passed by pointer
  FirstBufferSize,  \* FIRST_BUFFER_SIZE
  MaxLength,        \* bound: no longer strings are made
  NIL

ASSUME StringAssumption ==
  /\ Texts \subseteq Seq(Char)
  /\ FirstBufferSize \in Nat \ {0}
  /\ MaxLength \in Nat
  /\ NIL \notin Block \cup Str \cup Seq(Char)

VARIABLES
  live,       \* the objects that have been constructed and not destructed
  buffer,     \* string::_buffer: a block, or NIL
  length,     \* string::_length
  bufSize,    \* string::_buf_size
  allocated,  \* the blocks in use
  size,       \* how many characters are allocated in a block
  data,       \* what has been written into it
  target,     \* the string that is being appended to, or NIL
  text,       \* what is to be appended
  fresh,      \* the target is the local string of from_char or from_pointer
  grown,      \* _buf_size has been doubled, but the buffer is the old one
  short,      \* history: strings that may have less room than _buf_size says
  overflow    \* history: something was written behind the end of a block

objects == <<live, buffer, length, bufSize>>
heap    == <<allocated, size, data>>
call    == <<target, text, fresh, grown>>
vars    == <<objects, heap, call, short, overflow>>

Init ==
  /\ live = {}
  /\ buffer = [s \in Str |-> NIL]
  /\ length = [s \in Str |-> 0] /\ bufSize = [s \in Str |-> 0]
  /\ allocated = {}
  /\ size = [b \in Block |-> 0] /\ data = [b \in Block |-> <<>>]
  /\ target = NIL /\ text = <<>> /\ fresh = FALSE /\ grown = FALSE
  /\ short = {} /\ overflow = FALSE

\* The program may make its next call.
Idle == target = NIL /\ ~overflow

\* The characters of s.
Content(s) == IF buffer[s] = NIL THEN <<>> ELSE data[buffer[s]]

\* s is constructed with these fields.
Construct(s, b, n, capacity) ==
  /\ live' = live \cup {s}
  /\ buffer' = [buffer EXCEPT ![s] = b]
  /\ length' = [length EXCEPT ![s] = n]
  /\ bufSize' = [bufSize EXCEPT ![s] = capacity]

\* b is allocated with room for n characters, the first of them being t.
Allocate(b, n, t) ==
  /\ allocated' = allocated \cup {b}
  /\ size' = [size EXCEPT ![b] = n]
  /\ data' = [data EXCEPT ![b] = t]

\* s is no more, and its block is free.
Delete(s) ==
  /\ live' = live \ {s}
  /\ buffer' = [buffer EXCEPT ![s] = NIL]
  /\ length' = [length EXCEPT ![s] = 0] /\ bufSize' = [bufSize EXCEPT ![s] = 0]
  /\ allocated' = allocated \ {buffer[s]}
  /\ size' = [b \in Block |-> IF b = buffer[s] THEN 0 ELSE size[b]]
  /\ data' = [b \in Block |-> IF b = buffer[s] THEN <<>> ELSE data[b]]
  /\ short' = short \ {s}

\* A function that appends t to s is called, and has ended.
Call(s, t, new) == target' = s /\ text' = t /\ fresh' = new /\ grown' = FALSE
Return          == target' = NIL /\ text' = <<>> /\ fresh' = FALSE /\ grown' = FALSE
-----------------------------------------------------------------------------
New(s) ==
  /\ Idle /\ s \notin live
  /\ \E b \in Block \ allocated :
       /\ Construct(s, b, 0, FirstBufferSize)
       /\ Allocate(b, FirstBufferSize, <<>>)
  /\ UNCHANGED <<call, short, overflow>>

\* from_char, from_pointer: a new string that t is appended to.
From(s, t) ==
  /\ Idle /\ s \notin live /\ Len(t) <= MaxLength
  /\ \E b \in Block \ allocated :
       /\ Construct(s, b, 0, FirstBufferSize)
       /\ Allocate(b, FirstBufferSize, <<>>)
  /\ Call(s, t, TRUE)
  /\ UNCHANGED <<short, overflow>>

\* from_pointer_move: the block of the caller, with t and a 0 in it, replaces
\* the first buffer, which nobody frees.
FromPointerMove(s, t) ==
  /\ Idle /\ s \notin live /\ Len(t) <= MaxLength
  /\ \E b, first \in Block \ allocated :
       /\ b # first
       /\ Construct(s, b, Len(t), Len(t))
       /\ allocated' = allocated \cup {b, first}
       /\ size' = [size EXCEPT ![b] = Len(t) + 1, ![first] = FirstBufferSize]
       /\ data' = [data EXCEPT ![b] = t]
  /\ UNCHANGED <<call, short, overflow>>

\* clone: a block with room for the characters only, and the _buf_size of the
\* original; the first buffer of the copy is not freed.
Clone(s, t) ==
  /\ Idle /\ s \in live /\ t \notin live
  /\ \E b, first \in Block \ allocated :
       /\ b # first
       /\ Construct(t, b, length[s], bufSize[s])
       /\ allocated' = allocated \cup {b, first}
       /\ size' = [size EXCEPT ![b] = length[s], ![first] = FirstBufferSize]
       /\ data' = [data EXCEPT ![b] = Content(s)]
  /\ short' = short \cup {t}
  /\ UNCHANGED <<call, overflow>>

\* Mutant of Move: the other string keeps the buffer.
MoveShared(s, t) ==
  /\ Idle /\ s \in live /\ t \notin live
  /\ live' = live \cup {t}
  /\ buffer' = [buffer EXCEPT ![t] = buffer[s]]
  /\ length' = [length EXCEPT ![t] = length[s], ![s] = 0]
  /\ bufSize' = [bufSize EXCEPT ![t] = bufSize[s], ![s] = 0]
  /\ short' = IF s \in short THEN (short \ {s}) \cup {t} ELSE short
  /\ UNCHANGED <<heap, call, overflow>>

\* string(string&&): t takes the buffer of s.
Move(s, t) ==
  /\ Idle /\ s \in live /\ t \notin live
  /\ live' = live \cup {t}
  /\ buffer' = [buffer EXCEPT ![t] = buffer[s], ![s] = NIL]
  /\ length' = [length EXCEPT ![t] = length[s], ![s] = 0]
  /\ bufSize' = [bufSize EXCEPT ![t] = bufSize[s], ![s] = 0]
  /\ short' = IF s \in short THEN (short \ {s}) \cup {t} ELSE short
  /\ UNCHANGED <<heap, call, overflow>>

Destruct(s) ==
  /\ Idle /\ s \in live
  /\ Delete(s)
  /\ UNCHANGED <<call, overflow>>

\* append, append_str (of another string or of s itself), append_str_ptr.
AppendText(s, t) ==
  /\ Idle /\ s \in live /\ length[s] + Len(t) <= MaxLength
  /\ Call(s, t, FALSE)
  /\ UNCHANGED <<objects, heap, short, overflow>>
-----------------------------------------------------------------------------
(* The rest of a call that appends.                                        *)

Fits == length[target] + Len(text) < bufSize[target]

\* Mutant of Double: the size is multiplied by itself, so that 1 stays 1.
DoubleSquared ==
  /\ target # NIL /\ ~Fits
  /\ bufSize' = [bufSize EXCEPT ![target] = @ * @]
  /\ grown' = TRUE
  /\ UNCHANGED <<live, buffer, length, heap, target, text, fresh, short, overflow>>

\* A turn of the loop in _check_buf_size.
Double ==
  /\ target # NIL /\ ~Fits
  /\ bufSize' = [bufSize EXCEPT ![target] = @ * 2]
  /\ grown' = TRUE
  /\ UNCHANGED <<live, buffer, length, heap, target, text, fresh, short, overflow>>

\* Mutant of Reallocate: what the new buffer is to hold is not copied.
ReallocateEmpty ==
  /\ target # NIL /\ Fits /\ grown
  /\ \E b \in Block \ allocated :
       /\ buffer' = [buffer EXCEPT ![target] = b]
       /\ allocated' = (allocated \ {buffer[target]}) \cup {b}
       /\ size' = [size EXCEPT ![buffer[target]] = 0, ![b] = bufSize[target]]
       /\ data' = [data EXCEPT ![buffer[target]] = <<>>, ![b] = <<>>]
  /\ grown' = FALSE
  /\ short' = short \ {target}
  /\ UNCHANGED <<live, length, bufSize, target, text, fresh, overflow>>

\* The new buffer, with the old characters.
Reallocate ==
  /\ target # NIL /\ Fits /\ grown
  /\ \E b \in Block \ allocated :
       /\ buffer' = [buffer EXCEPT ![target] = b]
       /\ allocated' = (allocated \ {buffer[target]}) \cup {b}
       /\ size' = [size EXCEPT ![buffer[target]] = 0, ![b] = bufSize[target]]
       /\ data' = [data EXCEPT ![buffer[target]] = <<>>, ![b] = Content(target)]
  /\ grown' = FALSE
  /\ short' = short \ {target}
  /\ UNCHANGED <<live, length, bufSize, target, text, fresh, overflow>>

\* There is no memory for it: operator new throws.  A string that was there
\* before keeps its doubled _buf_size, the local one is destructed.
OutOfMemory ==
  /\ target # NIL /\ Fits /\ grown
  /\ allocated = Block
  /\ Return
  /\ IF fresh THEN Delete(target)
     ELSE short' = short \cup {target} /\ UNCHANGED <<objects, heap>>
  /\ UNCHANGED overflow

\* The text is written behind the characters, if there is room or not.
Write ==
  /\ target # NIL /\ Fits /\ ~grown
  /\ IF length[target] + Len(text) <= size[buffer[target]]
     THEN /\ data' = [data EXCEPT ![buffer[target]] = @ \o text]
          /\ length' = [length EXCEPT ![target] = @ + Len(text)]
          /\ Return
          /\ UNCHANGED overflow
     ELSE overflow' = TRUE /\ UNCHANGED <<data, length, call>>
  /\ UNCHANGED <<live, buffer, bufSize, allocated, size, short>>

GoOn == ~overflow /\ (Double \/ Reallocate \/ OutOfMemory \/ Write)

Next ==
  \/ GoOn
  \/ \E s \in Str :
       \/ New(s)
       \/ Destruct(s)
       \/ \E t \in Texts : From(s, t) \/ FromPointerMove(s, t) \/ AppendText(s, t)
       \/ \E o \in Str : Clone(s, o) \/ Move(s, o)
       \/ \E o \in live : AppendText(s, Content(o))

\* A call goes on once it has begun.
Spec == Init /\ [][Next]_vars /\ WF_vars(GoOn)
=============================================================================
