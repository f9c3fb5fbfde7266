---------------------------- MODULE DriverProofs ----------------------------
(***************************************************************************)
(* The inductive invariant of the loader, proved for every file tree,      *)
(* program, command line and depth limit.                                  *)
(***************************************************************************)
EXTENDS DriverInvariant, TLAPS

(***************************************************************************)
(* Sequences as collections.                                               *)
(***************************************************************************)

\* (Arithmetic the provers do for a number and not for a length.)
LEMMA OneOrMore == ASSUME NEW n \in Nat, n > 0 PROVE n # 0 /\ (n = 1 \/ n > 1)
OBVIOUS

\* What appending an element does to what a sequence holds.
LEMMA ListedAppend ==
  ASSUME NEW S, NEW s \in Seq(S), NEW x \in S
  PROVE  /\ Listed(Append(s, x)) = Listed(s) \cup {x}
         /\ NoRepeat(s) /\ x \notin Listed(s) => NoRepeat(Append(s, x))
BY DEF Listed, NoRepeat

\* Where the elements of an extended sequence are.
LEMMA AppendFacts ==
  ASSUME NEW s \in Seq(Nat), NEW x \in Nat
  PROVE  /\ Append(s, x) \in Seq(Nat) /\ Len(s) \in Nat /\ Len(Append(s, x)) = Len(s) + 1
         /\ \A i \in 1 .. Len(s) : Append(s, x)[i] = s[i]
         /\ Append(s, x)[Len(s) + 1] = x
OBVIOUS

\* What joining two sequences does to what they hold.
LEMMA ListedConcat ==
  ASSUME NEW S, NEW s \in Seq(S), NEW t \in Seq(S)
  PROVE  /\ Listed(s \o t) = Listed(s) \cup Listed(t)
         /\ NoRepeat(s) /\ NoRepeat(t) /\ Listed(s) \cap Listed(t) = {}
              => NoRepeat(s \o t)
<1>1. \A i \in 1 .. Len(s \o t) :
        (s \o t)[i] = IF i <= Len(s) THEN s[i] ELSE t[i - Len(s)]
  OBVIOUS
<1>2. Listed(s \o t) \subseteq Listed(s) \cup Listed(t)
  BY <1>1 DEF Listed
<1>3. Listed(s) \subseteq Listed(s \o t)
  BY <1>1 DEF Listed
<1>4. Listed(t) \subseteq Listed(s \o t)
  <2>1. SUFFICES ASSUME NEW i \in 1 .. Len(t) PROVE t[i] \in Listed(s \o t)
    BY DEF Listed
  <2>2. Len(s) + i \in 1 .. Len(s \o t) /\ (s \o t)[Len(s) + i] = t[i]
    BY <1>1
  <2>3. QED BY <2>2 DEF Listed
<1>5. ASSUME NoRepeat(s), NoRepeat(t), Listed(s) \cap Listed(t) = {}
      PROVE  NoRepeat(s \o t)
  <2>1. SUFFICES ASSUME NEW i \in 1 .. Len(s \o t), NEW j \in 1 .. Len(s \o t),
                        (s \o t)[i] = (s \o t)[j]
                 PROVE  i = j
    BY DEF NoRepeat
  <2>2. CASE i <= Len(s) /\ j <= Len(s)
    BY <1>1, <1>5, <2>1, <2>2 DEF NoRepeat
  <2>3. CASE i > Len(s) /\ j > Len(s)
    <3>1. i - Len(s) \in 1 .. Len(t) /\ j - Len(s) \in 1 .. Len(t)
          /\ t[i - Len(s)] = t[j - Len(s)]
      BY <1>1, <2>1, <2>3
    <3>2. QED BY <3>1, <1>5 DEF NoRepeat
  <2>4. CASE i <= Len(s) /\ j > Len(s)
    <3>1. j - Len(s) \in 1 .. Len(t) /\ s[i] = t[j - Len(s)]
      BY <1>1, <2>1, <2>4
    <3>2. s[i] \in Listed(s) /\ s[i] \in Listed(t)
      BY <3>1, <2>4 DEF Listed
    <3>3. QED BY <3>2, <1>5
  <2>5. CASE i > Len(s) /\ j <= Len(s)
    <3>1. i - Len(s) \in 1 .. Len(t) /\ s[j] = t[i - Len(s)]
      BY <1>1, <2>1, <2>5
    <3>2. s[j] \in Listed(s) /\ s[j] \in Listed(t)
      BY <3>1, <2>5 DEF Listed
    <3>3. QED BY <3>2, <1>5
  <2>6. QED BY <2>2, <2>3, <2>4, <2>5
<1>6. QED BY <1>2, <1>3, <1>4, <1>5
-----------------------------------------------------------------------------
(***************************************************************************)
(* The innermost parse.                                                    *)
(***************************************************************************)

\* Types of what an object holds.
LEMMA ObjFacts ==
  ASSUME IInv, NEW o \in Obj
  PROVE  /\ sources[o] \in SourceFile
         /\ sources[o].path \in Path /\ sources[o].parent \in Nat
         /\ sources[o].imports \in Seq(Nat)
         /\ sources[o].parsedMod \in Seq(Nat) \cup {NIL}
         /\ program[sources[o].path] \in Text
         /\ program[sources[o].path].imports \in Seq(Statement)
         /\ Len(program[sources[o].path].imports) \in Nat
<1>1. sources \in Seq(SourceFile) /\ program \in [Path -> Text]
  BY DEF IInv, TypeOK
<1>2. sources[o] \in SourceFile
  BY <1>1 DEF Obj
<1>3. /\ sources[o].path \in Path /\ sources[o].parent \in Nat
      /\ sources[o].imports \in Seq(Nat)
      /\ sources[o].parsedMod \in Seq(Nat) \cup {NIL}
  BY <1>2 DEF SourceFile
<1>4. program[sources[o].path] \in Text
  BY <1>1, <1>3
<1>5. program[sources[o].path].imports \in Seq(Statement)
  BY <1>4 DEF Text
<1>6. QED BY <1>2, <1>3, <1>4, <1>5

\* What an object imports was created later, with that object as parent.
LEMMA ImportFacts ==
  ASSUME IInv, NEW o \in Obj
  PROVE  /\ o \in Nat /\ o > 0 /\ ImportsOf(o) \in Seq(Nat) /\ NoRepeat(ImportsOf(o))
         /\ \A i \in 1 .. Len(ImportsOf(o)) :
              /\ ImportsOf(o)[i] \in Obj /\ o < ImportsOf(o)[i]
              /\ sources[ImportsOf(o)[i]].parent = o
<1>1. ImportsOf(o) \in Seq(Nat) /\ NoRepeat(ImportsOf(o))
  BY ObjFacts DEF ImportsOf, IInv, Forest
<1>2. ASSUME NEW i \in 1 .. Len(ImportsOf(o))
      PROVE  /\ ImportsOf(o)[i] \in Obj /\ o < ImportsOf(o)[i]
             /\ sources[ImportsOf(o)[i]].parent = o
  <2>1. ImportsOf(o)[i] \in Listed(ImportsOf(o))
    BY DEF Listed
  <2>2. ImportsOf(o)[i] \in Obj /\ sources[ImportsOf(o)[i]].parent = o
    BY <2>1 DEF IInv, Forest, ImportsOf
  <2>3. QED BY <2>2 DEF IInv, Forest
<1>3. QED BY <1>1, <1>2 DEF Obj

\* A frame, its source, and the frame above it.
LEMMA FrameFacts ==
  ASSUME IInv, NEW k \in 1 .. Len(stack)
  PROVE  /\ stack[k] \in Frame /\ stack[k].src \in Obj
         /\ stack[k].stmt \in Nat /\ stack[k].next \in Nat /\ stack[k].items \in Seq(Nat)
         /\ stack[k].next <= Len(ImportsOf(stack[k].src))
         /\ k < Len(stack) =>
              /\ k + 1 \in 1 .. Len(stack)
              /\ stack[k].next + 1 \in 1 .. Len(ImportsOf(stack[k].src))
              /\ ImportsOf(stack[k].src)[stack[k].next + 1] = stack[k + 1].src
              /\ sources[stack[k + 1].src].parent = stack[k].src
<1>1. stack \in Seq(Frame) /\ stack[k] \in Frame
  BY DEF IInv, TypeOK
<1>2. /\ stack[k].src \in Obj
      /\ stack[k].next <= Len(ImportsOf(stack[k].src))
      /\ k < Len(stack) =>
           /\ stack[k].next < Len(ImportsOf(stack[k].src))
           /\ ImportsOf(stack[k].src)[stack[k].next + 1] = stack[k + 1].src
  BY DEF IInv, Calls
<1>3. stack[k].stmt \in Nat /\ stack[k].next \in Nat /\ stack[k].items \in Seq(Nat)
  BY <1>1 DEF Frame
<1>4. ImportsOf(stack[k].src) \in Seq(Nat)
  BY <1>2, ImportFacts
<1>5. ASSUME k < Len(stack)
      PROVE  /\ k + 1 \in 1 .. Len(stack)
             /\ stack[k].next + 1 \in 1 .. Len(ImportsOf(stack[k].src))
  BY <1>1, <1>2, <1>3, <1>4, <1>5
<1>6. QED BY <1>1, <1>2, <1>3, <1>5, ImportFacts

\* Types of what the innermost parse looks at.
LEMMA TopFacts ==
  ASSUME IInv, stack # <<>>
  PROVE  /\ Len(stack) \in Nat /\ Len(stack) > 0
         /\ Len(stack) \in 1 .. Len(stack)
         /\ Top \in Frame /\ Top.src \in Obj
         /\ Me \in SourceFile /\ Me.path \in Path /\ ImportsOf(Top.src) = Me.imports
         /\ program[Me.path] \in Text
         /\ Stmts \in Seq(Statement) /\ Here \in Folder
         /\ Top.stmt <= Len(Stmts) /\ Top.next <= Len(Me.imports)
         /\ Me.parsedMod = NIL
         /\ Top.next > 0 => Top.stmt = Len(Stmts)
<1>1. stack \in Seq(Frame) /\ Len(stack) \in Nat /\ Len(stack) > 0 /\ Top \in Frame
  BY DEF IInv, TypeOK, Top
<1>2. /\ Top.src \in Obj /\ ~Parsed(Top.src) /\ Top.next <= Len(ImportsOf(Top.src))
      /\ Top.stmt <= Len(program[sources[Top.src].path].imports)
      /\ Top.next > 0 => Top.stmt = Len(program[sources[Top.src].path].imports)
  BY <1>1 DEF IInv, Calls, Top
<1>3. Me \in SourceFile /\ Me.path \in Path
  BY <1>2, ObjFacts DEF Me
<1>4. program[Me.path] \in Text /\ Stmts \in Seq(Statement)
  BY <1>2, ObjFacts DEF Me, Stmts
<1>5. Here \in Folder
  BY <1>3, TreeAssumption DEF Here
<1>6. QED BY <1>1, <1>2, <1>3, <1>4, <1>5 DEF Me, Stmts, ImportsOf, Parsed
-----------------------------------------------------------------------------
(***************************************************************************)
(* Steps that leave the call stack as it is, up to the statement counter   *)
(* of the innermost parse, and the heap as it is or larger by one import.  *)
(***************************************************************************)

\* The same parses are under way; an import statement may be over.
SameCalls ==
  /\ stack' \in Seq(Frame) /\ Len(stack') = Len(stack)
  /\ \A k \in 1 .. Len(stack) :
        /\ stack'[k].src = stack[k].src
        /\ stack'[k].next = stack[k].next
        /\ stack'[k].items = stack[k].items
        /\ stack'[k].stmt >= stack[k].stmt
        /\ stack'[k].stmt <= Len(program[sources[stack[k].src].path].imports)

\* The part of Items about finished modules.
Finished ==
  \A o \in Obj : Parsed(o) =>
    /\ Listed(sources[o].parsedMod) \subseteq Obj
    /\ \A i, j \in 1 .. Len(sources[o].parsedMod) :
          sources[sources[o].parsedMod[i]].path = sources[sources[o].parsedMod[j]].path
            => i = j

\* The parts of the invariant that speak of the heap and the call stack.
Heap == Forest /\ OneObjectPerFile /\ InputsAreRoots /\ Calls /\ ImportsWaiting /\ Items

\* An unchanged stack is the same calls, and so is one on which an import
\* statement has ended.
LEMMA SameCallsFacts ==
  ASSUME IInv
  PROVE  /\ UNCHANGED stack => SameCalls
         /\ stack # <<>> /\ Top.stmt < Len(Stmts) /\ NextStatement => SameCalls
<1>1. stack \in Seq(Frame) /\ \A k \in 1 .. Len(stack) : stack[k] \in Frame
  BY DEF IInv, TypeOK
<1>2. ASSUME UNCHANGED stack PROVE SameCalls
  BY <1>1, <1>2 DEF IInv, Calls, SameCalls, Frame
<1>3. ASSUME stack # <<>>, Top.stmt < Len(Stmts), NextStatement PROVE SameCalls
  <2>1. Len(stack) \in 1 .. Len(stack) /\ Top \in Frame /\ Top.src \in Obj
    BY <1>3, TopFacts
  <2>2. stack' = [stack EXCEPT ![Len(stack)] = [Top EXCEPT !.stmt = @ + 1]]
    BY <1>3 DEF NextStatement, Top
  <2>3. [Top EXCEPT !.stmt = @ + 1] \in Frame
    BY <2>1 DEF Frame
  <2>4. stack' \in Seq(Frame) /\ Len(stack') = Len(stack)
    BY <1>1, <2>1, <2>2, <2>3
  <2>5. ASSUME NEW k \in 1 .. Len(stack)
        PROVE  /\ stack'[k].src = stack[k].src
               /\ stack'[k].next = stack[k].next
               /\ stack'[k].items = stack[k].items
               /\ stack'[k].stmt >= stack[k].stmt
               /\ stack'[k].stmt <= Len(program[sources[stack[k].src].path].imports)
    <3>1. CASE k # Len(stack)
      <4>1. stack'[k] = stack[k] /\ stack[k].stmt \in Nat
        <5>1. stack[k] \in Frame
          BY <1>1
        <5>2. stack'[k] = stack[k]
          BY <2>2, <3>1
        <5>3. QED BY <5>1, <5>2 DEF Frame
      <4>2. stack[k].stmt <= Len(program[sources[stack[k].src].path].imports)
        BY DEF IInv, Calls
      <4>3. QED BY <4>1, <4>2
    <3>2. CASE k = Len(stack)
      <4>1. stack'[k] = [Top EXCEPT !.stmt = @ + 1] /\ stack[k] = Top
        BY <1>1, <2>1, <2>2, <3>2 DEF Top
      <4>2. Top.stmt + 1 <= Len(Stmts) /\ Top.stmt \in Nat
        BY <1>3, <2>1, TopFacts DEF Frame
      <4>3. QED BY <4>1, <4>2, <2>1 DEF Frame, Stmts, Me
    <3>3. QED BY <3>1, <3>2
  <2>6. QED BY <2>4, <2>5 DEF SameCalls
<1>4. QED BY <1>2, <1>3

\* The heap unchanged.
LEMMA HeapStays ==
  ASSUME IInv, SameCalls, UNCHANGED <<program, sources, allSources, inputs, cur, phase>>
  PROVE  Heap'
<1>2. Forest' /\ OneObjectPerFile'
  BY DEF IInv, Forest, OneObjectPerFile, Known, Obj
<1>3. InputsAreRoots'
  BY DEF IInv, InputsAreRoots, Obj, Fresh, Parsed, ImportsOf
<1>4. Calls'
  <2>1. stack # <<>> /\ stack' # <<>> => stack'[1].src = inputs'[cur']
    BY DEF IInv, Calls, SameCalls, TypeOK
  <2>2. ASSUME NEW k \in 1 .. Len(stack) PROVE stack[k] \in Frame /\ stack'[k] \in Frame
    BY DEF IInv, SameCalls, TypeOK
  <2>3. ASSUME NEW k \in 1 .. Len(stack)
        PROVE  LET f == stack'[k] IN
               /\ f.src \in Obj
               /\ sources[f.src].parsedMod = NIL
               /\ f.stmt <= Len(program[sources[f.src].path].imports)
               /\ f.next <= Len(sources[f.src].imports)
               /\ k < Len(stack) \/ f.next > 0
                    => f.stmt = Len(program[sources[f.src].path].imports)
               /\ k < Len(stack) =>
                    /\ f.next < Len(sources[f.src].imports)
                    /\ sources[f.src].imports[f.next + 1] = stack'[k + 1].src
    <3>1. LET f == stack[k] IN
          /\ f.src \in Obj
          /\ sources[f.src].parsedMod = NIL
          /\ f.next <= Len(sources[f.src].imports)
          /\ k < Len(stack) \/ f.next > 0
               => f.stmt = Len(program[sources[f.src].path].imports)
          /\ k < Len(stack) =>
               /\ f.next < Len(sources[f.src].imports)
               /\ sources[f.src].imports[f.next + 1] = stack[k + 1].src
      BY DEF IInv, Calls, Parsed, ImportsOf
    <3>2. stack[k].stmt \in Nat /\ stack'[k].stmt \in Nat
      BY <2>2 DEF Frame
    <3>4. Len(program[sources[stack[k].src].path].imports) \in Nat
      BY <3>1, ObjFacts
    <3>5. /\ stack'[k].src = stack[k].src
          /\ stack'[k].next = stack[k].next
          /\ stack'[k].stmt >= stack[k].stmt
          /\ stack'[k].stmt <= Len(program[sources[stack[k].src].path].imports)
          /\ k < Len(stack) => stack'[k + 1].src = stack[k + 1].src
      <4>1. k < Len(stack) => k + 1 \in 1 .. Len(stack)
        BY DEF IInv, TypeOK
      <4>2. QED BY <4>1 DEF SameCalls
    <3>6. QED BY <3>1, <3>2, <3>4, <3>5
  <2>4. \A k, l \in 1 .. Len(stack) : k < l => stack'[k].src < stack'[l].src
    BY DEF IInv, Calls, SameCalls
  <2>5. QED BY <2>1, <2>3, <2>4 DEF Calls, SameCalls, Obj, Parsed, ImportsOf
<1>5. ImportsWaiting'
  <2>1. Len(stack') = Len(stack)
    BY DEF SameCalls
  <2>2. ASSUME NEW k \in 1 .. Len(stack)
        PROVE  stack'[k].src = stack[k].src /\ stack'[k].next = stack[k].next
    BY DEF SameCalls
  <2>3. ASSUME NEW k \in 1 .. Len(stack),
               NEW i \in stack[k].next + (IF k < Len(stack) THEN 2 ELSE 1)
                           .. Len(sources[stack[k].src].imports)
        PROVE  Fresh(sources[stack[k].src].imports[i])
    BY DEF IInv, ImportsWaiting, ImportsOf
  <2>4. ASSUME NEW k \in 1 .. Len(stack'),
               NEW i \in stack'[k].next + (IF k < Len(stack') THEN 2 ELSE 1)
                           .. Len(sources'[stack'[k].src].imports)
        PROVE  Fresh(sources'[stack'[k].src].imports[i])
    BY <2>1, <2>2, <2>3
  <2>5. QED BY <2>4 DEF ImportsWaiting, ImportsOf, Fresh, Parsed
<1>6. Items'
  <2>1. Len(stack') = Len(stack) /\ \A k \in 1 .. Len(stack) : stack'[k].items = stack[k].items
    BY DEF SameCalls
  <2>2. Items
    BY DEF IInv
  <2>3. /\ \A k \in 1 .. Len(stack') :
             /\ NoRepeat(stack'[k].items)
             /\ \A o \in Listed(stack'[k].items) : o \in Obj /\ Parsed(o) /\ sources[o].parent # 0
        /\ \A k, l \in 1 .. Len(stack') :
             k # l => Listed(stack'[k].items) \cap Listed(stack'[l].items) = {}
    BY <2>1, <2>2 DEF Items
  <2>4. Obj' = Obj /\ (\A o : Parsed(o)' <=> Parsed(o))
    BY DEF Obj, Parsed
  <2>5. \A o \in Obj' : Parsed(o)' =>
          /\ Listed(sources'[o].parsedMod) \subseteq Obj'
          /\ \A i, j \in 1 .. Len(sources'[o].parsedMod) :
                sources'[sources'[o].parsedMod[i]].path = sources'[sources'[o].parsedMod[j]].path
                  => i = j
    BY <2>2, <2>4 DEF Items
  <2>6. QED BY <2>3, <2>4, <2>5 DEF Items
<1>7. QED BY <1>2, <1>3, <1>4, <1>5, <1>6 DEF Heap

\* What importing a file that is not registered does to the heap.
LEMMA ImportEffect ==
  ASSUME IInv, stack # <<>>, NEW p \in Path, Opening(p), Import(p)
  PROVE  /\ sources' \in Seq(SourceFile) /\ Len(sources') = Len(sources) + 1
         /\ allSources' = [allSources EXCEPT ![p] = Len(sources) + 1]
         /\ \A o \in Obj :
              /\ sources'[o].path = sources[o].path
              /\ sources'[o].parent = sources[o].parent
              /\ sources'[o].isNodeImported = sources[o].isNodeImported
              /\ sources'[o].parsedMod = sources[o].parsedMod
              /\ o # Top.src => sources'[o].imports = sources[o].imports
         /\ sources'[Top.src].imports = Append(sources[Top.src].imports, Len(sources) + 1)
         /\ sources'[Len(sources) + 1] = NewSource(p, Top.src)
<1> DEFINE n == Len(sources) + 1
           t == Top.src
           grown == [sources EXCEPT ![t].imports = Append(@, n)]
<1>1. sources \in Seq(SourceFile) /\ n \in Nat /\ t \in Obj /\ t \in Nat
  BY TopFacts DEF IInv, TypeOK, Obj
<1>2. sources' = Append(grown, NewSource(p, t))
      /\ allSources' = [allSources EXCEPT ![p] = n]
  BY DEF Import
<1>3. sources[t] \in SourceFile /\ Append(sources[t].imports, n) \in Seq(Nat)
  BY <1>1, ObjFacts
<1>4. [sources[t] EXCEPT !.imports = Append(@, n)] \in SourceFile
  BY <1>3 DEF SourceFile
<1>5. grown \in Seq(SourceFile) /\ Len(grown) = Len(sources)
  BY <1>1, <1>4 DEF Obj
<1>6. NewSource(p, t) \in SourceFile
  BY <1>1 DEF NewSource, SourceFile
<1>7. sources' \in Seq(SourceFile) /\ Len(sources') = n /\ sources'[n] = NewSource(p, t)
  BY <1>2, <1>5, <1>6
<1>8. ASSUME NEW o \in Obj
      PROVE  /\ sources'[o].path = sources[o].path
             /\ sources'[o].parent = sources[o].parent
             /\ sources'[o].isNodeImported = sources[o].isNodeImported
             /\ sources'[o].parsedMod = sources[o].parsedMod
             /\ sources'[o].imports = IF o = t THEN Append(sources[o].imports, n)
                                      ELSE sources[o].imports
  <2>1. sources'[o] = grown[o]
    BY <1>1, <1>2, <1>5, <1>6 DEF Obj
  <2>2. grown[o] = IF o = t THEN [sources[t] EXCEPT !.imports = Append(@, n)] ELSE sources[o]
    BY <1>1 DEF Obj
  <2>3. sources[o] \in SourceFile
    BY ObjFacts
  <2>4. QED BY <2>1, <2>2, <2>3 DEF SourceFile
<1>9. sources'[t].imports = Append(sources[t].imports, n)
  BY <1>1, <1>8
<1>10. QED BY <1>2, <1>7, <1>8, <1>9

\* The source that imports is not one that waits to be looked at: neither an
\* import some parse has still to reach nor an input still to be started.
LEMMA TopNotWaiting ==
  ASSUME IInv, stack # <<>>
  PROVE  /\ \A k \in 1 .. Len(stack) :
              LET f == stack[k] IN
              \A i \in f.next + (IF k < Len(stack) THEN 2 ELSE 1) .. Len(ImportsOf(f.src)) :
                ImportsOf(f.src)[i] # Top.src
         /\ \A i \in cur + 1 .. Len(inputs) : inputs[i] # Top.src
<1>1. /\ Len(stack) \in Nat /\ Len(stack) > 0 /\ Len(stack) \in 1 .. Len(stack)
      /\ Top.src \in Obj /\ Top.src \in Nat /\ Top.src > 0 /\ Top = stack[Len(stack)]
  BY TopFacts DEF IInv, TypeOK, Top, Obj
<1> DEFINE below == Len(stack) - 1
<1>2. Len(stack) = 1 \/ Len(stack) > 1
  BY <1>1, OneOrMore, Zenon
<1>3. ASSUME NEW k \in 1 .. Len(stack),
             NEW i \in stack[k].next + (IF k < Len(stack) THEN 2 ELSE 1)
                       .. Len(ImportsOf(stack[k].src)),
             ImportsOf(stack[k].src)[i] = Top.src
      PROVE  FALSE
  <2>1. stack[k].next \in Nat /\ stack[k].src \in Obj
    BY FrameFacts
  <2>2. i \in 1 .. Len(ImportsOf(stack[k].src))
    BY <2>1, ImportFacts
  <2>3. sources[Top.src].parent = stack[k].src /\ stack[k].src < Top.src
    BY <1>3, <2>1, <2>2, ImportFacts
  <2>4. k < Len(stack)
    BY <1>1, <2>3
  <2>5. below \in 1 .. Len(stack) /\ below < Len(stack) /\ below + 1 = Len(stack)
    BY <1>1, <2>4
  <2>6. /\ sources[Top.src].parent = stack[below].src
        /\ stack[below].next + 1 \in 1 .. Len(ImportsOf(stack[below].src))
        /\ ImportsOf(stack[below].src)[stack[below].next + 1] = Top.src
    BY <1>1, <2>5, FrameFacts
  <2>7. k = below
    <3>1. k < below => stack[k].src < stack[below].src
      BY <2>5 DEF IInv, Calls
    <3>2. stack[k].src = stack[below].src /\ stack[k].src \in Nat
      BY <2>3, <2>6, <2>1, ImportFacts
    <3>3. QED BY <3>1, <3>2, <2>4, <2>5, <1>1
  <2>8. i = stack[k].next + 1
    <3>1. NoRepeat(ImportsOf(stack[k].src))
      BY <2>1, ImportFacts
    <3>2. ImportsOf(stack[k].src)[i] = ImportsOf(stack[k].src)[stack[k].next + 1]
      BY <1>3, <2>2, <2>6, <2>7
    <3>3. QED BY <2>1, <2>2, <2>6, <2>7, <3>1, <3>2 DEF NoRepeat
  <2>9. QED BY <2>8, <2>4, <2>1, ImportFacts
<1>4. ASSUME NEW i \in cur + 1 .. Len(inputs), inputs[i] = Top.src
      PROVE  FALSE
  <2>1. inputs \in Seq(Nat) /\ cur \in 0 .. Len(inputs) /\ cur > 0
    BY DEF IInv, TypeOK, Control
  <2>2. i \in 1 .. Len(inputs) /\ cur \in 1 .. Len(inputs) /\ cur # i
    BY <2>1
  <2>3. sources[Top.src].parent = 0
    BY <2>2, <1>4 DEF IInv, InputsAreRoots
  <2>4. CASE Len(stack) = 1
    <3>1. Top.src = inputs[cur]
      BY <1>1, <2>4 DEF IInv, Calls
    <3>2. QED BY <3>1, <2>2, <1>4 DEF IInv, InputsAreRoots, NoRepeat
  <2>5. CASE Len(stack) > 1
    <3>1. below \in 1 .. Len(stack) /\ below < Len(stack) /\ below + 1 = Len(stack)
      BY <1>1, <2>5
    <3>2. sources[Top.src].parent = stack[below].src /\ stack[below].src \in Obj
      BY <1>1, <3>1, FrameFacts
    <3>3. stack[below].src > 0 /\ stack[below].src \in Nat
      BY <3>2, ImportFacts
    <3>4. QED BY <3>2, <3>3, <2>3
  <2>6. QED BY <1>2, <2>4, <2>5
<1>5. QED BY <1>3, <1>4

\* The heap larger by one import of the innermost parse.
LEMMA HeapGrows ==
  ASSUME IInv, SameCalls, stack # <<>>, Top.stmt < Len(Stmts),
         NEW p \in Path, Opening(p), Import(p),
         UNCHANGED <<program, inputs, cur, phase>>
  PROVE  Heap'
<1> DEFINE n == Len(sources) + 1
           t == Top.src
<1>1. /\ n \in Nat /\ n > 0 /\ n \notin Obj /\ Obj' = Obj \cup {n}
      /\ \A o \in Obj : o < n
      /\ t \in Obj
  BY ImportEffect, TopFacts DEF Obj, IInv, TypeOK
<1>2. /\ \A o \in Obj :
           /\ sources'[o].path = sources[o].path
           /\ sources'[o].parent = sources[o].parent
           /\ sources'[o].isNodeImported = sources[o].isNodeImported
           /\ sources'[o].parsedMod = sources[o].parsedMod
           /\ o # t => sources'[o].imports = sources[o].imports
      /\ sources'[t].imports = Append(sources[t].imports, n)
      /\ sources'[n].path = p /\ sources'[n].parent = t
      /\ sources'[n].imports = <<>> /\ sources'[n].parsedMod = NIL
      /\ sources'[n].isNodeImported = FALSE
  <2>1. sources'[n] = NewSource(p, t)
    BY ImportEffect
  <2>2. /\ sources'[n].path = p /\ sources'[n].parent = t
        /\ sources'[n].imports = <<>> /\ sources'[n].parsedMod = NIL
        /\ sources'[n].isNodeImported = FALSE
    BY <2>1 DEF NewSource
  <2>3. QED BY <2>2, ImportEffect
<1>t. allSources \in [Path -> Nat] /\ allSources' = [allSources EXCEPT ![p] = n]
  BY ImportEffect DEF IInv, TypeOK
<1>3. \A o \in Obj : sources[o].path # p
  <2>1. allSources[p] = 0
    BY DEF Opening, Known
  <2>2. \A o \in Obj : sources[o].path = p => o <= 0
    BY <2>1 DEF IInv, Forest
  <2>3. QED BY <2>2, ImportFacts
<1>4. Forest'
  <2>1. \A o \in Obj' : sources'[o].parent < o
    BY <1>1, <1>2, ImportFacts DEF IInv, Forest
  <2>2. ASSUME NEW o \in Obj'
        PROVE  /\ NoRepeat(sources'[o].imports)
               /\ Listed(sources'[o].imports) = {q \in Obj' : sources'[q].parent = o}
    <3>1. CASE o = n
      <4>1. \A q \in Obj : sources[q].parent # n
        BY <1>1, ObjFacts, ImportFacts DEF IInv, Forest
      <4>2. {q \in Obj' : sources'[q].parent = n} = {}
        BY <4>1, <1>1, <1>2
      <4>3. sources'[o].imports = <<>>
        BY <3>1, <1>2
      <4>4. NoRepeat(<<>>) /\ Listed(<<>>) = {}
        BY DEF NoRepeat, Listed
      <4>5. QED BY <4>2, <4>3, <4>4, <3>1
    <3>2. CASE o = t
      <4>1. sources[o].imports \in Seq(Nat) /\ sources'[o].imports = Append(sources[o].imports, n)
        BY <3>2, <1>1, <1>2, ObjFacts
      <4>2. NoRepeat(sources[o].imports)
            /\ Listed(sources[o].imports) = {q \in Obj : sources[q].parent = o}
        BY <3>2, <1>1 DEF IInv, Forest
      <4>3. n \notin Listed(sources[o].imports)
        BY <4>2, <1>1
      <4>4. NoRepeat(sources'[o].imports)
            /\ Listed(sources'[o].imports) = Listed(sources[o].imports) \cup {n}
        BY <4>1, <4>2, <4>3, <1>1, ListedAppend
      <4>5. QED BY <4>2, <4>4, <3>2, <1>1, <1>2
    <3>3. CASE o # n /\ o # t
      <4>1. o \in Obj /\ sources'[o].imports = sources[o].imports
        BY <3>3, <1>1, <1>2
      <4>2. NoRepeat(sources[o].imports)
            /\ Listed(sources[o].imports) = {q \in Obj : sources[q].parent = o}
        BY <4>1 DEF IInv, Forest
      <4>3. QED BY <4>1, <4>2, <3>3, <1>1, <1>2
    <3>4. QED BY <3>1, <3>2, <3>3
  <2>3. ASSUME NEW x \in Path
        PROVE  /\ allSources'[x] \in Obj' \cup {0}
               /\ allSources'[x] # 0 => sources'[allSources'[x]].path = x
               /\ \A o \in Obj' : sources'[o].path = x => o <= allSources'[x]
    <3>1. CASE x = p
      BY <3>1, <1>1, <1>2, <1>3, <1>t
    <3>2. CASE x # p
      <4>1. /\ allSources[x] \in Obj \cup {0}
            /\ allSources[x] # 0 => sources[allSources[x]].path = x
            /\ \A o \in Obj : sources[o].path = x => o <= allSources[x]
        BY DEF IInv, Forest, Known
      <4>2. allSources'[x] = allSources[x]
        BY <3>2, <1>2, <1>t
      <4>3. QED BY <4>1, <4>2, <3>2, <1>1, <1>2
    <3>3. QED BY <3>1, <3>2
  <2>4. QED BY <2>1, <2>2, <2>3 DEF Forest, Known
<1>5. OneObjectPerFile'
  BY <1>1, <1>2, <1>3 DEF IInv, OneObjectPerFile
<1>6. InputsAreRoots'
  <2>1. phase = "parsing" /\ cur \in Nat /\ inputs \in Seq(Nat)
    BY DEF IInv, Control, TypeOK
  <2>2. ASSUME NEW i \in 1 .. Len(inputs)
        PROVE  inputs[i] \in Obj /\ inputs[i] \in Obj' /\ sources'[inputs[i]].parent = 0
    BY <1>1, <1>2 DEF IInv, InputsAreRoots
  <2>3. ASSUME NEW i \in cur + 1 .. Len(inputs)
        PROVE  /\ sources'[inputs[i]].parsedMod = NIL /\ ~sources'[inputs[i]].isNodeImported
               /\ sources'[inputs[i]].imports = <<>>
    <3>1. i \in 1 .. Len(inputs) /\ inputs[i] # t
      BY <2>1, TopNotWaiting
    <3>2. inputs[i] \in Obj /\ Fresh(inputs[i])
      BY <2>2, <3>1 DEF IInv, InputsAreRoots
    <3>3. QED BY <3>1, <3>2, <1>2 DEF Fresh, Parsed, ImportsOf
  <2>4. QED BY <2>1, <2>2, <2>3 DEF IInv, InputsAreRoots, Fresh, Parsed, ImportsOf
<1>7. Calls'
  <2>1. stack' # <<>> => stack'[1].src = inputs'[cur']
    BY DEF IInv, Calls, SameCalls, TypeOK
  <2>2. ASSUME NEW k \in 1 .. Len(stack)
        PROVE  LET f == stack'[k] IN
               /\ f.src \in Obj'
               /\ sources'[f.src].parsedMod = NIL
               /\ f.stmt <= Len(program[sources'[f.src].path].imports)
               /\ f.next <= Len(sources'[f.src].imports)
               /\ k < Len(stack) \/ f.next > 0
                    => f.stmt = Len(program[sources'[f.src].path].imports)
               /\ k < Len(stack) =>
                    /\ f.next < Len(sources'[f.src].imports)
                    /\ sources'[f.src].imports[f.next + 1] = stack'[k + 1].src
    <3>1. /\ stack[k].src \in Obj /\ stack[k].stmt \in Nat /\ stack[k].next \in Nat
          /\ stack[k].next <= Len(sources[stack[k].src].imports)
          /\ k < Len(stack) =>
               /\ k + 1 \in 1 .. Len(stack)
               /\ stack[k].next + 1 \in 1 .. Len(sources[stack[k].src].imports)
               /\ sources[stack[k].src].imports[stack[k].next + 1] = stack[k + 1].src
      BY FrameFacts DEF ImportsOf
    <3>2. /\ sources[stack[k].src].parsedMod = NIL
          /\ k < Len(stack) \/ stack[k].next > 0
               => stack[k].stmt = Len(program[sources[stack[k].src].path].imports)
      BY DEF IInv, Calls, Parsed
    <3>3. /\ stack'[k].src = stack[k].src
          /\ stack'[k].next = stack[k].next
          /\ stack'[k].stmt >= stack[k].stmt /\ stack'[k].stmt \in Nat
          /\ stack'[k].stmt <= Len(program[sources[stack[k].src].path].imports)
          /\ k < Len(stack) => stack'[k + 1].src = stack[k + 1].src
      <4>1. stack'[k] \in Frame
        BY DEF SameCalls
      <4>2. QED BY <4>1, <3>1 DEF SameCalls, Frame
    <3>4. Len(program[sources[stack[k].src].path].imports) \in Nat
      BY <3>1, ObjFacts
    <3>5. sources[stack[k].src].imports \in Seq(Nat)
      BY <3>1, ObjFacts
    <3>6. /\ Len(sources[stack[k].src].imports) <= Len(sources'[stack[k].src].imports)
          /\ \A i \in 1 .. Len(sources[stack[k].src].imports) :
               sources'[stack[k].src].imports[i] = sources[stack[k].src].imports[i]
          /\ Len(sources'[stack[k].src].imports) \in Nat
      <4>1. /\ sources'[stack[k].src].imports = Append(sources[stack[k].src].imports, n)
            \/ sources'[stack[k].src].imports = sources[stack[k].src].imports
        BY <3>1, <1>2
      <4>2. CASE sources'[stack[k].src].imports = sources[stack[k].src].imports
        BY <4>2, <3>5
      <4>3. CASE sources'[stack[k].src].imports = Append(sources[stack[k].src].imports, n)
        <5>1. sources[stack[k].src].imports \in Seq(Nat) /\ n \in Nat
          BY <3>5, <1>1
        <5> DEFINE s == sources[stack[k].src].imports
        <5>2. /\ Len(s) \in Nat /\ Len(Append(s, n)) = Len(s) + 1
              /\ \A i \in 1 .. Len(s) : Append(s, n)[i] = s[i]
          BY <5>1, AppendFacts
        <5> HIDE DEF s
        <5>3. /\ Len(s) <= Len(Append(s, n)) /\ Len(Append(s, n)) \in Nat
              /\ \A i \in 1 .. Len(s) : Append(s, n)[i] = s[i]
          BY <5>2
        <5>4. sources'[stack[k].src].imports = Append(s, n)
          BY <4>3 DEF s
        <5>5. QED BY <5>3, <5>4 DEF s
      <4>4. QED BY <4>1, <4>2, <4>3
    <3>7. stack[k].src \in Obj' /\ sources'[stack[k].src].path = sources[stack[k].src].path
          /\ sources'[stack[k].src].parsedMod = NIL
      BY <3>1, <3>2, <1>1, <1>2
    <3>8. k < Len(stack) \/ stack'[k].next > 0
            => stack'[k].stmt = Len(program[sources'[stack'[k].src].path].imports)
      BY <3>1, <3>2, <3>3, <3>4, <3>7
    <3>9. ASSUME k < Len(stack)
          PROVE  /\ stack'[k].next < Len(sources'[stack'[k].src].imports)
                 /\ sources'[stack'[k].src].imports[stack'[k].next + 1] = stack'[k + 1].src
      <4>1. stack[k].next + 1 \in 1 .. Len(sources[stack[k].src].imports)
        BY <3>1, <3>9
      <4>2. sources'[stack[k].src].imports[stack[k].next + 1] = stack[k + 1].src
        BY <4>1, <3>1, <3>6, <3>9
      <4>3. stack[k].next < Len(sources'[stack[k].src].imports)
        <5> DEFINE a == Len(sources[stack[k].src].imports)
                   b == Len(sources'[stack[k].src].imports)
        <5>1. a \in Nat /\ b \in Nat /\ a <= b /\ stack[k].next \in Nat
          BY <3>1, <3>5, <3>6
        <5>2. stack[k].next + 1 <= a
          BY <4>1
        <5> HIDE DEF a, b
        <5>3. stack[k].next < b
          BY <5>1, <5>2
        <5>4. QED BY <5>3 DEF b
      <4>4. QED BY <4>2, <4>3, <3>3, <3>9
    <3>10. stack'[k].next <= Len(sources'[stack'[k].src].imports)
      <4>1. Len(sources[stack[k].src].imports) \in Nat
        BY <3>5
      <4>2. stack[k].next <= Len(sources'[stack[k].src].imports)
        BY <4>1, <3>1, <3>6
      <4>3. QED BY <4>2, <3>3
    <3>11. QED BY <3>3, <3>7, <3>8, <3>9, <3>10
  <2>3. \A k, l \in 1 .. Len(stack) : k < l => stack'[k].src < stack'[l].src
    BY DEF IInv, Calls, SameCalls
  <2>4. QED BY <2>1, <2>2, <2>3 DEF Calls, SameCalls, Parsed, ImportsOf
<1>8. ImportsWaiting'
  <2>1. ASSUME NEW k \in 1 .. Len(stack),
               NEW i \in stack'[k].next + (IF k < Len(stack) THEN 2 ELSE 1)
                         .. Len(sources'[stack'[k].src].imports)
        PROVE  LET q == sources'[stack'[k].src].imports[i]
               IN  /\ sources'[q].parsedMod = NIL /\ ~sources'[q].isNodeImported
                   /\ sources'[q].imports = <<>>
    <3>1. /\ stack'[k].src = stack[k].src /\ stack'[k].next = stack[k].next
          /\ stack[k].src \in Obj /\ stack[k].next \in Nat
          /\ sources[stack[k].src].imports \in Seq(Nat)
      BY FrameFacts, ImportFacts DEF SameCalls, ImportsOf
    <3>2. CASE i \in 1 .. Len(sources[stack[k].src].imports)
      <4>1. sources'[stack[k].src].imports[i] = sources[stack[k].src].imports[i]
        <5>1. CASE stack[k].src = t
          BY <5>1, <3>1, <3>2, <1>1, <1>2, AppendFacts
        <5>2. CASE stack[k].src # t
          BY <5>2, <3>1, <1>2
        <5>3. QED BY <5>1, <5>2
      <4>2. i \in stack[k].next + (IF k < Len(stack) THEN 2 ELSE 1)
                   .. Len(sources[stack[k].src].imports)
        BY <3>1, <3>2
      <4>3. sources[stack[k].src].imports[i] # t /\ Fresh(sources[stack[k].src].imports[i])
        BY <4>2, TopNotWaiting DEF IInv, ImportsWaiting, ImportsOf
      <4>4. sources[stack[k].src].imports[i] \in Obj
        BY <3>1, <3>2, ImportFacts DEF ImportsOf
      <4>5. QED BY <3>1, <4>1, <4>3, <4>4, <1>2 DEF Fresh, Parsed, ImportsOf
    <3>3. CASE i \notin 1 .. Len(sources[stack[k].src].imports)
      <4>1. i \in Nat /\ i > 0 /\ i > Len(sources[stack[k].src].imports)
            /\ i <= Len(sources'[stack[k].src].imports)
        BY <3>1, <3>3
      <4>2. stack[k].src = t
            /\ sources'[t].imports = Append(sources[t].imports, n)
        BY <4>1, <3>1, <1>2
      <4>3. sources'[t].imports[i] = n
        <5>1. sources[t].imports \in Seq(Nat) /\ n \in Nat
          BY <4>2, <3>1, <1>1
        <5>2. /\ Len(sources[t].imports) \in Nat
              /\ Len(Append(sources[t].imports, n)) = Len(sources[t].imports) + 1
              /\ Append(sources[t].imports, n)[Len(sources[t].imports) + 1] = n
          BY <5>1, AppendFacts
        <5>3. i = Len(sources[t].imports) + 1
          BY <4>1, <4>2, <5>2
        <5>4. QED BY <4>2, <5>2, <5>3
      <4>4. /\ sources'[n].parsedMod = NIL /\ ~sources'[n].isNodeImported
            /\ sources'[n].imports = <<>>
        BY <1>2
      <4>5. sources'[stack'[k].src].imports[i] = n
        BY <4>2, <4>3, <3>1
      <4>6. QED BY <4>4, <4>5
    <3>4. QED BY <3>2, <3>3
  <2>2. QED BY <2>1 DEF ImportsWaiting, SameCalls, Fresh, Parsed, ImportsOf
<1>9. Items'
  <2>1. ASSUME NEW k \in 1 .. Len(stack)
        PROVE  /\ NoRepeat(stack'[k].items)
               /\ \A o \in Listed(stack'[k].items) :
                    /\ o \in Obj' /\ sources'[o].parsedMod # NIL /\ sources'[o].parent # 0
    <3>1. stack'[k].items = stack[k].items
      BY DEF SameCalls
    <3>2. /\ NoRepeat(stack[k].items)
          /\ \A o \in Listed(stack[k].items) :
               o \in Obj /\ sources[o].parsedMod # NIL /\ sources[o].parent # 0
      BY DEF IInv, Items, Parsed
    <3>3. QED BY <3>1, <3>2, <1>1, <1>2
  <2>2. \A k, l \in 1 .. Len(stack) :
          k # l => Listed(stack'[k].items) \cap Listed(stack'[l].items) = {}
    BY DEF IInv, Items, SameCalls
  <2>3. ASSUME NEW o \in Obj', sources'[o].parsedMod # NIL
        PROVE  /\ Listed(sources'[o].parsedMod) \subseteq Obj'
               /\ \A i, j \in 1 .. Len(sources'[o].parsedMod) :
                    sources'[sources'[o].parsedMod[i]].path = sources'[sources'[o].parsedMod[j]].path
                      => i = j
    <3>1. o \in Obj /\ sources'[o].parsedMod = sources[o].parsedMod
          /\ sources[o].parsedMod # NIL
      BY <2>3, <1>1, <1>2
    <3>2. /\ Listed(sources[o].parsedMod) \subseteq Obj
          /\ \A i, j \in 1 .. Len(sources[o].parsedMod) :
               sources[sources[o].parsedMod[i]].path = sources[sources[o].parsedMod[j]].path
                 => i = j
      BY <3>1 DEF IInv, Items, Parsed
    <3>3. \A i \in 1 .. Len(sources[o].parsedMod) :
            /\ sources[o].parsedMod[i] \in Obj
            /\ sources'[sources[o].parsedMod[i]].path = sources[sources[o].parsedMod[i]].path
      BY <3>2, <1>2 DEF Listed
    <3>4. Listed(sources[o].parsedMod) \subseteq Obj'
      BY <3>2, <1>1
    <3>5. QED BY <3>1, <3>2, <3>3, <3>4
  <2>4. QED BY <2>1, <2>2, <2>3 DEF Items, Parsed, SameCalls
<1>10. QED BY <1>4, <1>5, <1>6, <1>7, <1>8, <1>9 DEF Heap
-----------------------------------------------------------------------------
(***************************************************************************)
(* Steps that begin or abandon parses; the heap is unchanged.              *)
(***************************************************************************)

\* The heap's own part of the invariant does not look at the stack.
LEMMA ForestStays ==
  ASSUME IInv, UNCHANGED <<sources, allSources>>
  PROVE  Forest' /\ OneObjectPerFile' /\ Finished'
BY DEF IInv, Forest, OneObjectPerFile, Known, Obj, Items, Finished, Parsed

\* No parse is under way afterwards.
LEMMA HeapQuiet ==
  ASSUME IInv, UNCHANGED <<program, sources, allSources, inputs, cur>>,
         stack' = <<>>, phase' # "arguments"
  PROVE  Heap'
<1>1. InputsAreRoots'
  BY DEF IInv, InputsAreRoots, Obj, Fresh, Parsed, ImportsOf
<1>2. Calls' /\ ImportsWaiting'
  BY DEF Calls, ImportsWaiting
<1>3. Items'
  BY DEF IInv, Items, Obj, Parsed
<1>4. QED BY <1>1, <1>2, <1>3, ForestStays DEF Heap

\* An input is started: its parse is the only one, or its lexer has failed.
LEMMA HeapStarts ==
  ASSUME IInv, UNCHANGED <<program, sources, allSources, inputs>>,
         phase = "next", cur < Len(inputs), cur' = cur + 1, phase' = "parsing",
         stack' = <<NewFrame(inputs[cur + 1])>> \/ stack' = <<>>
  PROVE  Heap'
<1> DEFINE o == inputs[cur + 1]
<1>1. /\ inputs \in Seq(Nat) /\ cur \in Nat /\ cur + 1 \in 1 .. Len(inputs)
      /\ cur + 1 \in cur + 1 .. Len(inputs)
  BY DEF IInv, TypeOK
<1>2. o \in Obj /\ sources[o].parsedMod = NIL /\ sources[o].imports = <<>>
  BY <1>1 DEF IInv, InputsAreRoots, Fresh, Parsed, ImportsOf
<1>3. InputsAreRoots'
  <2>1. \A i \in cur' + 1 .. Len(inputs') : i \in cur + 1 .. Len(inputs)
    BY <1>1
  <2>2. QED BY <2>1 DEF IInv, InputsAreRoots, Obj, Fresh, Parsed, ImportsOf
<1>4. CASE stack' = <<>>
  <2>1. Calls' /\ ImportsWaiting'
    BY <1>4 DEF Calls, ImportsWaiting
  <2>2. Items'
    BY <1>4, ForestStays DEF Items, Finished
  <2>3. QED BY <1>3, <2>1, <2>2, ForestStays DEF Heap
<1>5. CASE stack' = <<NewFrame(o)>>
  <2>1. Len(stack') = 1 /\ stack'[1] = NewFrame(o)
    BY <1>5
  <2>2. /\ stack'[1].src = o /\ stack'[1].stmt = 0 /\ stack'[1].next = 0
        /\ stack'[1].items = <<>>
    BY <2>1 DEF NewFrame
  <2>3. Len(program[sources[o].path].imports) \in Nat
    BY <1>2, ObjFacts
  <2>4. Calls'
    <3>1. \A k \in 1 .. Len(stack') : k = 1
      BY <2>1
    <3>2. stack' # <<>> => stack'[1].src = inputs'[cur']
      BY <2>2
    <3>3. QED BY <3>1, <3>2, <1>2, <2>1, <2>2, <2>3 DEF Calls, Obj, Parsed, ImportsOf
  <2>5. ImportsWaiting'
    BY <1>2, <2>1, <2>2 DEF ImportsWaiting, ImportsOf
  <2>6. Items'
    <3>1. Listed(<<>>) = {} /\ NoRepeat(<<>>)
      BY DEF Listed, NoRepeat
    <3>2. \A k \in 1 .. Len(stack') : stack'[k].items = <<>>
      BY <2>1, <2>2
    <3>3. QED BY <3>1, <3>2 DEF IInv, Items, Obj, Parsed
  <2>7. QED BY <1>3, <2>4, <2>5, <2>6, ForestStays DEF Heap
<1>6. QED BY <1>4, <1>5

\* The import that the innermost parse has reached, parsed in its turn.
LEMMA HeapNests ==
  ASSUME IInv, UNCHANGED <<program, sources, allSources, inputs, cur, phase>>,
         stack # <<>>, Top.stmt = Len(Stmts), Top.next < Len(Me.imports),
         stack' = Append(stack, NewFrame(Me.imports[Top.next + 1]))
  PROVE  Heap'
<1> DEFINE o == Me.imports[Top.next + 1]
           n == Len(stack)
<1>1. /\ n \in Nat /\ n > 0 /\ n \in 1 .. n /\ Top = stack[n] /\ Top.src \in Obj
      /\ Top.next \in Nat /\ Me.imports = ImportsOf(Top.src) /\ Me = sources[Top.src]
      /\ Top.next + 1 \in 1 .. Len(Me.imports)
      /\ Top.next + 1 \in Top.next + 1 .. Len(Me.imports)
  <2>0. Top.next < Len(Me.imports)
    OBVIOUS
  <2>1. /\ n \in Nat /\ n > 0 /\ n \in 1 .. n /\ Top = stack[n] /\ Top.src \in Obj
        /\ Me.imports = ImportsOf(Top.src) /\ Me = sources[Top.src]
    BY TopFacts DEF Top, Me
  <2>2. Top.next \in Nat /\ Me.imports \in Seq(Nat)
    BY <2>1, FrameFacts, ImportFacts
  <2>3. Len(Me.imports) \in Nat
    BY <2>2
  <2>4. /\ Top.next + 1 \in 1 .. Len(Me.imports)
        /\ Top.next + 1 \in Top.next + 1 .. Len(Me.imports)
    BY <2>0, <2>2, <2>3
  <2>5. QED BY <2>1, <2>2, <2>4
<1>2. o \in Obj /\ Top.src < o /\ o \in Nat /\ Top.src \in Nat
  BY <1>1, ImportFacts
<1>3. Fresh(o)
  <2>1. \A i \in stack[n].next + 1 .. Len(ImportsOf(stack[n].src)) :
          Fresh(ImportsOf(stack[n].src)[i])
    BY <1>1 DEF IInv, ImportsWaiting
  <2>2. QED BY <1>1, <2>1
<1>4. stack \in Seq(Frame) /\ NewFrame(o) \in Frame
  BY <1>2 DEF NewFrame, Frame, IInv, TypeOK
<1>5. /\ Len(stack') = n + 1 /\ stack'[n + 1] = NewFrame(o)
      /\ \A k \in 1 .. n : stack'[k] = stack[k]
      /\ \A k \in 1 .. Len(stack') : k \in 1 .. n \/ k = n + 1
  BY <1>1, <1>4
<1>6. /\ stack'[n + 1].src = o /\ stack'[n + 1].stmt = 0 /\ stack'[n + 1].next = 0
      /\ stack'[n + 1].items = <<>>
  BY <1>5 DEF NewFrame
<1>7. InputsAreRoots'
  BY DEF IInv, InputsAreRoots, Obj, Fresh, Parsed, ImportsOf
<1>8. Calls'
  <2>1. stack'[1].src = inputs'[cur']
    BY <1>1, <1>5 DEF IInv, Calls
  <2>2. ASSUME NEW k \in 1 .. Len(stack')
        PROVE  LET f == stack'[k] IN
               /\ f.src \in Obj
               /\ sources[f.src].parsedMod = NIL
               /\ f.stmt <= Len(program[sources[f.src].path].imports)
               /\ f.next <= Len(sources[f.src].imports)
               /\ k < n + 1 \/ f.next > 0
                    => f.stmt = Len(program[sources[f.src].path].imports)
               /\ k < n + 1 =>
                    /\ f.next < Len(sources[f.src].imports)
                    /\ sources[f.src].imports[f.next + 1] = stack'[k + 1].src
    <3>1. CASE k = n + 1
      <4>1. Len(program[sources[o].path].imports) \in Nat
        BY <1>2, ObjFacts
      <4>2. sources[o].parsedMod = NIL /\ sources[o].imports = <<>>
        BY <1>3 DEF Fresh, Parsed, ImportsOf
      <4>3. Len(sources[o].imports) = 0
        BY <4>2
      <4>4. /\ stack'[k].src = o /\ stack'[k].stmt = 0 /\ stack'[k].next = 0
            /\ ~(k < n + 1) /\ ~(0 > 0)
        BY <3>1, <1>1, <1>6
      <4>5. QED BY <4>1, <4>2, <4>3, <4>4, <1>2
    <3>2. CASE k = n
      <4>1. stack'[k] = Top /\ stack'[k + 1].src = o /\ k < n + 1
        BY <3>2, <1>1, <1>5, <1>6
      <4>2. Top.stmt = Len(program[sources[Top.src].path].imports)
            /\ sources[Top.src].parsedMod = NIL /\ Top.stmt \in Nat
        BY TopFacts DEF Stmts, Me, Frame
      <4>3. Top.src \in Obj /\ Top.next < Len(Me.imports) /\ Me.imports = sources[Top.src].imports
        BY <1>1
      <4>4. Top.next <= Len(sources[Top.src].imports)
        BY <4>3, <1>1
      <4>5. QED BY <4>1, <4>2, <4>3, <4>4
    <3>3. CASE k \in 1 .. n /\ k # n
      <4>1. k \in 1 .. n /\ k < n /\ k < n + 1 /\ k + 1 \in 1 .. n
        BY <3>3, <1>1
      <4>2. stack'[k] = stack[k] /\ stack'[k + 1] = stack[k + 1]
        BY <4>1, <1>5
      <4>3. QED BY <4>1, <4>2 DEF IInv, Calls, Parsed, ImportsOf
    <3>4. QED BY <3>1, <3>2, <3>3, <1>5
  <2>3. ASSUME NEW k \in 1 .. Len(stack'), NEW l \in 1 .. Len(stack'), k < l
        PROVE  stack'[k].src < stack'[l].src
    <3>1. k \in 1 .. n /\ stack[k].src \in Nat /\ (k = n \/ stack[k].src < Top.src)
      <4>1. k \in 1 .. n /\ (k = n \/ k < n)
        BY <2>3, <1>1, <1>5
      <4>2. QED BY <4>1, <1>1, FrameFacts, ImportFacts DEF IInv, Calls
    <3>2. CASE l = n + 1
      <4>1. stack[k].src = Top.src \/ stack[k].src < Top.src
        BY <3>1, <1>1
      <4>2. QED BY <4>1, <3>1, <3>2, <1>2, <1>5, <1>6
    <3>3. CASE l \in 1 .. n
      BY <3>1, <3>3, <2>3, <1>5 DEF IInv, Calls
    <3>4. QED BY <3>2, <3>3, <1>5
  <2>4. QED BY <2>1, <2>2, <2>3, <1>5 DEF Calls, Obj, Parsed, ImportsOf
<1>9. ImportsWaiting'
  <2>1. ASSUME NEW k \in 1 .. Len(stack'),
               NEW i \in stack'[k].next + (IF k < n + 1 THEN 2 ELSE 1)
                         .. Len(sources[stack'[k].src].imports)
        PROVE  Fresh(sources[stack'[k].src].imports[i])
    <3>1. CASE k = n + 1
      BY <3>1, <1>3, <1>6 DEF Fresh, ImportsOf
    <3>2. CASE k \in 1 .. n
      <4>1. stack'[k] = stack[k] /\ k < n + 1
        BY <3>2, <1>1, <1>5
      <4>2. stack[k].next \in Nat /\ sources[stack[k].src].imports \in Seq(Nat)
        BY <3>2, FrameFacts, ImportFacts DEF ImportsOf
      <4>3. i \in stack[k].next + (IF k < n THEN 2 ELSE 1)
                   .. Len(sources[stack[k].src].imports)
        <5> DEFINE a == stack[k].next
                   b == Len(sources[stack[k].src].imports)
        <5>1. a \in Nat /\ b \in Nat /\ k < n + 1 /\ i \in a + (IF k < n + 1 THEN 2 ELSE 1) .. b
          BY <4>1, <4>2
        <5> HIDE DEF a, b
        <5>2. i \in a + (IF k < n THEN 2 ELSE 1) .. b
          BY <5>1
        <5>3. QED BY <5>2 DEF a, b
      <4>4. QED BY <4>1, <4>3, <3>2 DEF IInv, ImportsWaiting, ImportsOf
    <3>3. QED BY <3>1, <3>2, <1>5
  <2>2. QED BY <2>1, <1>5 DEF ImportsWaiting, Fresh, Parsed, ImportsOf
<1>10. Items'
  <2>1. Listed(<<>>) = {} /\ NoRepeat(<<>>)
    BY DEF Listed, NoRepeat
  <2>2. \A k \in 1 .. Len(stack') :
          /\ k \in 1 .. n => stack'[k].items = stack[k].items
          /\ k \notin 1 .. n => stack'[k].items = <<>>
    BY <1>5, <1>6
  <2>3. \A k \in 1 .. Len(stack') :
          /\ NoRepeat(stack'[k].items)
          /\ \A x \in Listed(stack'[k].items) :
               x \in Obj /\ sources[x].parsedMod # NIL /\ sources[x].parent # 0
    BY <2>1, <2>2 DEF IInv, Items, Parsed
  <2>4. \A k, l \in 1 .. Len(stack') :
          k # l => Listed(stack'[k].items) \cap Listed(stack'[l].items) = {}
    BY <2>1, <2>2 DEF IInv, Items
  <2>5. QED BY <2>3, <2>4, ForestStays DEF Items, Finished, Obj, Parsed
<1>11. QED BY <1>7, <1>8, <1>9, <1>10, ForestStays DEF Heap
-----------------------------------------------------------------------------
(***************************************************************************)
(* The return from a parse.                                                *)
(***************************************************************************)

\* The step of ReadItems on which the module is complete.
Returns ==
  LET o     == Top.src
      items == Append(Top.items, o)
      below == Len(stack) - 1
  IN  /\ sources' = [sources EXCEPT ![o].parsedMod = items,
                                    ![o].isNodeImported = @ \/ below > 0]
      /\ stack' = IF below = 0 THEN <<>>
                  ELSE [Pop(stack) EXCEPT ![below] = Spliced(@, items)]

\* A frame after a splice.
LEMMA SplicedFacts ==
  ASSUME NEW f \in Frame, NEW m \in Seq(Nat)
  PROVE  /\ Spliced(f, m) \in Frame
         /\ Spliced(f, m).src = f.src /\ Spliced(f, m).stmt = f.stmt
         /\ Spliced(f, m).next = f.next + 1 /\ Spliced(f, m).items = f.items \o m
<1>1. f.items \o m \in Seq(Nat) /\ f.next + 1 \in Nat
  BY DEF Frame
<1>2. QED BY <1>1 DEF Spliced, Frame

\* A stack with one frame replaced.
LEMMA ReplacedFacts ==
  ASSUME NEW s \in Seq(Frame), NEW b \in 1 .. Len(s), NEW x \in Frame
  PROVE  /\ [s EXCEPT ![b] = x] \in Seq(Frame) /\ Len([s EXCEPT ![b] = x]) = Len(s)
         /\ [s EXCEPT ![b] = x][b] = x
         /\ \A k \in 1 .. Len(s) : k # b => [s EXCEPT ![b] = x][k] = s[k]
OBVIOUS

\* The items of a complete module.
LEMMA ReturnedItems ==
  ASSUME IInv, stack # <<>>
  PROVE  LET items == Append(Top.items, Top.src) IN
         /\ items \in Seq(Nat) /\ items # NIL /\ NoRepeat(items)
         /\ Listed(items) = Listed(Top.items) \cup {Top.src}
         /\ Top.src \notin Listed(Top.items)
         /\ \A x \in Listed(Top.items) :
              x \in Obj /\ sources[x].parsedMod # NIL /\ sources[x].parent # 0
<1> DEFINE items == Append(Top.items, Top.src)
<1>1. /\ Len(stack) \in 1 .. Len(stack) /\ Top = stack[Len(stack)] /\ Top.src \in Obj
      /\ sources[Top.src].parsedMod = NIL
  BY TopFacts DEF Top, Me
<1>2. Top.items \in Seq(Nat) /\ Top.src \in Nat
  BY <1>1, FrameFacts, ImportFacts
<1>3. /\ NoRepeat(Top.items)
      /\ \A x \in Listed(Top.items) :
           x \in Obj /\ sources[x].parsedMod # NIL /\ sources[x].parent # 0
  BY <1>1 DEF IInv, Items, Parsed
<1>4. Top.src \notin Listed(Top.items)
  BY <1>1, <1>3
<1>5. items \in Seq(Nat) /\ items # NIL
  BY <1>2, AppendFacts, ProgramAssumption
<1>6. NoRepeat(items) /\ Listed(items) = Listed(Top.items) \cup {Top.src}
  BY <1>2, <1>3, <1>4, ListedAppend
<1>7. QED BY <1>3, <1>4, <1>5, <1>6

\* What the return does to the heap and to the stack.
LEMMA ReturnEffect ==
  ASSUME IInv, stack # <<>>, Returns
  PROVE  LET items == Append(Top.items, Top.src)
             below == Len(stack) - 1
         IN
         /\ sources' \in Seq(SourceFile) /\ Len(sources') = Len(sources) /\ Obj' = Obj
         /\ \A x \in Obj :
              /\ sources'[x].path = sources[x].path
              /\ sources'[x].parent = sources[x].parent
              /\ sources'[x].imports = sources[x].imports
              /\ x # Top.src =>
                   /\ sources'[x].parsedMod = sources[x].parsedMod
                   /\ sources'[x].isNodeImported = sources[x].isNodeImported
         /\ sources'[Top.src].parsedMod = items
         /\ below \in Nat
         /\ below = 0 => stack' = <<>>
         /\ below > 0 =>
              /\ stack' \in Seq(Frame) /\ Len(stack') = below
              /\ \A k \in 1 .. below - 1 : stack'[k] = stack[k]
              /\ stack'[below].src = stack[below].src
              /\ stack'[below].stmt = stack[below].stmt
              /\ stack'[below].next = stack[below].next + 1
              /\ stack'[below].items = stack[below].items \o items
<1> DEFINE o == Top.src
           items == Append(Top.items, o)
           below == Len(stack) - 1
<1>1. /\ o \in Obj /\ sources \in Seq(SourceFile) /\ stack \in Seq(Frame)
      /\ Len(stack) \in Nat /\ Len(stack) > 0 /\ items \in Seq(Nat)
      /\ sources[o] \in SourceFile
  BY TopFacts, ReturnedItems, ObjFacts DEF IInv, TypeOK
<1>2. below \in Nat
  BY <1>1
<1>i. items \in Seq(Nat)
  BY <1>1
<1> DEFINE done == [[sources[o] EXCEPT !.parsedMod = items]
                      EXCEPT !.isNodeImported = @ \/ below > 0]
<1>3. /\ done \in SourceFile /\ done.parsedMod = items /\ done.path = sources[o].path
      /\ done.parent = sources[o].parent /\ done.imports = sources[o].imports
  BY <1>1 DEF SourceFile
<1>4. sources' = [sources EXCEPT ![o] = done]
  BY <1>1 DEF Returns, Obj
<1> HIDE DEF done
<1>5. /\ sources' \in Seq(SourceFile) /\ Len(sources') = Len(sources) /\ Obj' = Obj
      /\ sources'[o] = done /\ \A x \in Obj : x # o => sources'[x] = sources[x]
  BY <1>1, <1>3, <1>4 DEF Obj
<1>6. below = 0 => stack' = <<>>
  BY DEF Returns
<1>7. ASSUME below > 0
      PROVE  /\ stack' \in Seq(Frame) /\ Len(stack') = below
             /\ \A k \in 1 .. below - 1 : stack'[k] = stack[k]
             /\ stack'[below].src = stack[below].src
             /\ stack'[below].stmt = stack[below].stmt
             /\ stack'[below].next = stack[below].next + 1
             /\ stack'[below].items = stack[below].items \o items
  <2>1. stack' = [SubSeq(stack, 1, below) EXCEPT ![below] = Spliced(@, items)]
    <3>1. below # 0
      BY <1>2, <1>7, OneOrMore
    <3>2. QED BY <3>1 DEF Returns, Pop
  <2>2. /\ SubSeq(stack, 1, below) \in Seq(Frame) /\ Len(SubSeq(stack, 1, below)) = below
        /\ \A k \in 1 .. below : SubSeq(stack, 1, below)[k] = stack[k]
        /\ below \in 1 .. below
    BY <1>1, <1>2, <1>7
  <2>3. stack[below] \in Frame /\ stack[below].items \o items \in Seq(Nat)
    <3>1. stack[below] \in Frame
      BY <1>1, <1>2, <1>7
    <3>2. stack[below].items \in Seq(Nat)
      BY <3>1 DEF Frame
    <3>3. QED BY <3>1, <3>2, <1>1
  <2> HIDE DEF items
  <2>4. /\ Spliced(stack[below], items) \in Frame
        /\ Spliced(stack[below], items).src = stack[below].src
        /\ Spliced(stack[below], items).stmt = stack[below].stmt
        /\ Spliced(stack[below], items).next = stack[below].next + 1
        /\ Spliced(stack[below], items).items = stack[below].items \o items
    BY <2>3, <1>i, SplicedFacts
  <2>5. stack' = [SubSeq(stack, 1, below) EXCEPT ![below] = Spliced(stack[below], items)]
    BY <2>1, <2>2
  <2>6. /\ stack' \in Seq(Frame) /\ Len(stack') = below
        /\ stack'[below] = Spliced(stack[below], items)
        /\ \A k \in 1 .. below - 1 : stack'[k] = stack[k]
    <3>1. below \in Nat /\ Spliced(stack[below], items) \in Frame
      BY <1>2, <2>4
    <3>2. /\ stack' \in Seq(Frame) /\ Len(stack') = below
          /\ stack'[below] = Spliced(stack[below], items)
          /\ \A k \in 1 .. below : k # below => stack'[k] = stack[k]
      <4> DEFINE s == SubSeq(stack, 1, below)
                 x == Spliced(stack[below], items)
      <4>1. /\ s \in Seq(Frame) /\ x \in Frame /\ below \in 1 .. Len(s) /\ Len(s) = below
            /\ stack' = [s EXCEPT ![below] = x]
            /\ \A k \in 1 .. below : s[k] = stack[k]
        BY <3>1, <2>2, <2>5
      <4> HIDE DEF s, x, below
      <4>2. QED BY <4>1, ReplacedFacts DEF x
    <3> HIDE DEF below
    <3>3. \A k \in 1 .. below - 1 : k \in 1 .. below /\ k # below
      BY <3>1
    <3>4. QED BY <3>2, <3>3
  <2>7. QED BY <2>4, <2>6
<1>8. QED BY <1>2, <1>3, <1>5, <1>6, <1>7

\* A parse returns: its module is cached, and spliced by the waiting importer.
LEMMA HeapReturns ==
  ASSUME IInv, stack # <<>>, Top.stmt = Len(Stmts), Top.next = Len(Me.imports), Returns,
         UNCHANGED <<program, allSources, inputs, cur, phase>>
  PROVE  Heap'
<1>0. PICK n \in Nat, below \in Nat, o \in Obj, items \in Seq(Nat) :
        /\ n = Len(stack) /\ below = n - 1 /\ o = Top.src
        /\ items = Append(Top.items, Top.src)
  <2>1. Len(stack) \in Nat /\ Len(stack) - 1 \in Nat /\ Top.src \in Obj
    BY TopFacts
  <2>2. Append(Top.items, Top.src) \in Seq(Nat)
    BY ReturnedItems
  <2>3. QED BY <2>1, <2>2
<1>1. /\ n > 0 /\ n \in 1 .. n /\ n = below + 1
      /\ o \in Nat /\ stack[n].src = o /\ stack[n].items = Top.items
      /\ sources[o].parsedMod = NIL
      /\ (below = 0 \/ below > 0)
  BY <1>0, TopFacts, ImportFacts DEF Top, Me
<1>2. /\ Obj' = Obj
      /\ \A x \in Obj :
           /\ sources'[x].path = sources[x].path
           /\ sources'[x].parent = sources[x].parent
           /\ sources'[x].imports = sources[x].imports
           /\ x # o =>
                /\ sources'[x].parsedMod = sources[x].parsedMod
                /\ sources'[x].isNodeImported = sources[x].isNodeImported
      /\ sources'[o].parsedMod = items
  BY <1>0, ReturnEffect
<1>3. /\ items \in Seq(Nat) /\ items # NIL /\ NoRepeat(items)
      /\ Listed(items) = Listed(Top.items) \cup {o}
      /\ o \notin Listed(Top.items)
      /\ \A x \in Listed(Top.items) :
           x \in Obj /\ sources[x].parsedMod # NIL /\ sources[x].parent # 0
  BY <1>0, ReturnedItems
<1>4. below > 0 =>
        /\ stack' \in Seq(Frame) /\ Len(stack') = below
        /\ \A k \in 1 .. below - 1 : stack'[k] = stack[k]
        /\ stack'[below].src = stack[below].src
        /\ stack'[below].stmt = stack[below].stmt
        /\ stack'[below].next = stack[below].next + 1
        /\ stack'[below].items = stack[below].items \o items
  BY <1>0, ReturnEffect
<1>5. below = 0 => stack' = <<>>
  BY <1>0, ReturnEffect
<1>6. Forest' /\ OneObjectPerFile'
  BY <1>2 DEF IInv, Forest, OneObjectPerFile, Known
<1>7. InputsAreRoots'
  <2>1. phase = "parsing" /\ cur \in Nat /\ inputs \in Seq(Nat)
    BY DEF IInv, Control, TypeOK
  <2>2. ASSUME NEW i \in cur + 1 .. Len(inputs)
        PROVE  /\ sources'[inputs[i]].parsedMod = NIL /\ ~sources'[inputs[i]].isNodeImported
               /\ sources'[inputs[i]].imports = <<>>
    <3>1. i \in 1 .. Len(inputs) /\ inputs[i] # o
      BY <2>1, <1>0, TopNotWaiting
    <3>2. inputs[i] \in Obj /\ Fresh(inputs[i])
      BY <3>1 DEF IInv, InputsAreRoots
    <3>3. QED BY <3>1, <3>2, <1>2 DEF Fresh, Parsed, ImportsOf
  <2>3. \A i \in 1 .. Len(inputs) : inputs[i] \in Obj' /\ sources'[inputs[i]].parent = 0
    BY <1>2 DEF IInv, InputsAreRoots
  <2>4. QED BY <2>1, <2>2, <2>3 DEF IInv, InputsAreRoots, Fresh, Parsed, ImportsOf
<1>8. Finished'
  <2>1. ASSUME NEW x \in Obj, x # o, sources[x].parsedMod # NIL
        PROVE  /\ Listed(sources[x].parsedMod) \subseteq Obj
               /\ \A i, j \in 1 .. Len(sources[x].parsedMod) :
                    sources'[sources[x].parsedMod[i]].path = sources'[sources[x].parsedMod[j]].path
                      => i = j
    <3>1. Listed(sources[x].parsedMod) \subseteq Obj
      BY <2>1 DEF IInv, Items, Parsed
    <3>2. \A i \in 1 .. Len(sources[x].parsedMod) : sources[x].parsedMod[i] \in Obj
      BY <3>1 DEF Listed
    <3>3. \A i, j \in 1 .. Len(sources[x].parsedMod) :
            sources[sources[x].parsedMod[i]].path = sources[sources[x].parsedMod[j]].path
              => i = j
      BY <2>1 DEF IInv, Items, Parsed
    <3>4. \A i \in 1 .. Len(sources[x].parsedMod) :
            sources'[sources[x].parsedMod[i]].path = sources[sources[x].parsedMod[i]].path
      BY <3>2, <1>2
    <3>5. QED BY <3>1, <3>3, <3>4
  <2>2. Listed(items) \subseteq Obj
    BY <1>1, <1>3
  <2>3. ASSUME NEW i \in 1 .. Len(items), NEW j \in 1 .. Len(items),
               sources'[items[i]].path = sources'[items[j]].path
        PROVE  i = j
    <3>1. items[i] \in Listed(items) /\ items[j] \in Listed(items)
      BY DEF Listed
    <3>2. items[i] \in Obj /\ items[j] \in Obj
      BY <2>2, <3>1
    <3>3. sources[items[i]].path = sources[items[j]].path
      BY <2>3, <3>2, <1>2
    <3>4. items[i] = items[j]
      <4>1. sources[items[i]].parent # 0 \/ sources[items[j]].parent # 0 \/ items[i] = items[j]
        BY <3>1, <1>3
      <4>2. QED BY <3>2, <3>3, <4>1 DEF IInv, OneObjectPerFile
    <3>5. QED BY <3>4, <1>3 DEF NoRepeat
  <2>4. QED BY <2>1, <2>2, <2>3, <1>2 DEF Finished, Parsed
<1>9. CASE below = 0
  <2>1. stack' = <<>>
    BY <1>5, <1>9
  <2>2. Calls' /\ ImportsWaiting'
    BY <2>1 DEF Calls, ImportsWaiting
  <2>3. Items'
    BY <2>1, <1>8 DEF Items, Finished
  <2>4. QED BY <1>6, <1>7, <2>2, <2>3 DEF Heap
<1>10. CASE below > 0
  <2>1. /\ below \in 1 .. n /\ below < n /\ Len(stack') = below
        /\ \A k \in 1 .. below : k \in 1 .. n /\ k < n /\ (k = below \/ k \in 1 .. below - 1)
        /\ \A k \in 1 .. below - 1 : k + 1 \in 1 .. below /\ k < below /\ k \in 1 .. below
    BY <1>1, <1>4, <1>10
  <2>2. \A k \in 1 .. below : stack'[k].src = stack[k].src /\ stack'[k].stmt = stack[k].stmt
    BY <2>1, <1>4, <1>10
  <2>3. ASSUME NEW k \in 1 .. below
        PROVE  /\ stack[k].src \in Obj /\ stack[k].src # o
               /\ sources[stack[k].src].parsedMod = NIL
               /\ stack[k].stmt \in Nat /\ stack[k].next \in Nat
               /\ stack[k].stmt = Len(program[sources[stack[k].src].path].imports)
               /\ sources[stack[k].src].imports \in Seq(Nat)
               /\ stack[k].next + 1 \in 1 .. Len(sources[stack[k].src].imports)
               /\ sources[stack[k].src].imports[stack[k].next + 1] = stack[k + 1].src
    <3>1. k \in 1 .. n /\ k < n
      BY <2>1
    <3>2. stack[k].src < o
      BY <3>1, <1>0, <1>1 DEF IInv, Calls
    <3>3. stack[k].src \in Obj /\ stack[k].src \in Nat
      BY <3>1, <1>0, FrameFacts, ImportFacts
    <3>4. stack[k].src # o
      BY <3>2, <3>3, <1>1
    <3>5. /\ sources[stack[k].src].parsedMod = NIL
          /\ stack[k].stmt = Len(program[sources[stack[k].src].path].imports)
      BY <3>1, <1>0 DEF IInv, Calls, Parsed
    <3>6. QED BY <3>1, <3>3, <3>4, <3>5, <1>0, FrameFacts, ImportFacts DEF ImportsOf
  <2>4. Calls'
    <3>1. stack'[1].src = inputs'[cur']
      BY <1>1, <2>1, <2>2 DEF IInv, Calls
    <3>2. ASSUME NEW k \in 1 .. below
          PROVE  LET f == stack'[k] IN
                 /\ f.src \in Obj'
                 /\ sources'[f.src].parsedMod = NIL
                 /\ f.stmt <= Len(program[sources'[f.src].path].imports)
                 /\ f.next <= Len(sources'[f.src].imports)
                 /\ k < below \/ f.next > 0
                      => f.stmt = Len(program[sources'[f.src].path].imports)
                 /\ k < below =>
                      /\ f.next < Len(sources'[f.src].imports)
                      /\ sources'[f.src].imports[f.next + 1] = stack'[k + 1].src
      <4>1. /\ stack'[k].src = stack[k].src /\ stack'[k].stmt = stack[k].stmt
            /\ sources'[stack[k].src].path = sources[stack[k].src].path
            /\ sources'[stack[k].src].imports = sources[stack[k].src].imports
            /\ sources'[stack[k].src].parsedMod = NIL
        BY <2>2, <2>3, <1>2
      <4>2. CASE k = below
        BY <4>1, <4>2, <2>3, <1>1, <1>2, <1>4, <1>10
      <4>3. CASE k \in 1 .. below - 1
        <5>1. stack'[k] = stack[k] /\ k + 1 \in 1 .. below /\ stack'[k + 1].src = stack[k + 1].src
          BY <4>3, <2>1, <2>2, <1>4, <1>10
        <5>2. /\ sources[stack[k].src].imports[stack[k].next + 1] = stack[k + 1].src
              /\ stack[k].src \in Obj
              /\ stack[k].stmt = Len(program[sources[stack[k].src].path].imports)
              /\ stack[k].next + 1 \in 1 .. Len(sources[stack[k].src].imports)
              /\ stack[k].next \in Nat /\ sources[stack[k].src].imports \in Seq(Nat)
          BY <2>3
        <5>3. stack[k].next < Len(sources[stack[k].src].imports)
          BY <5>2
        <5>4. stack[k].src \in Obj'
          BY <5>2, <1>2
        <5>5. QED BY <5>1, <5>2, <5>3, <5>4, <4>1
      <4>4. QED BY <4>2, <4>3, <2>1
    <3>3. ASSUME NEW k \in 1 .. below, NEW l \in 1 .. below, k < l
          PROVE  stack'[k].src < stack'[l].src
      <4>1. k \in 1 .. n /\ l \in 1 .. n
        BY <2>1
      <4>2. stack[k].src < stack[l].src
        BY <3>3, <4>1, <1>0 DEF IInv, Calls
      <4>3. QED BY <4>2, <2>2
    <3>4. QED BY <3>1, <3>2, <3>3, <2>1 DEF Calls, Parsed, ImportsOf
  <2>5. ImportsWaiting'
    <3>1. ASSUME NEW k \in 1 .. below,
                 NEW i \in stack'[k].next + (IF k < below THEN 2 ELSE 1)
                           .. Len(sources'[stack'[k].src].imports)
          PROVE  LET q == sources'[stack'[k].src].imports[i]
                 IN  /\ sources'[q].parsedMod = NIL /\ ~sources'[q].isNodeImported
                     /\ sources'[q].imports = <<>>
      <4>1. k \in 1 .. n /\ k < n
        BY <2>1
      <4>2. sources'[stack'[k].src].imports = sources[stack[k].src].imports
        BY <2>2, <2>3, <1>2
      <4>3. i \in stack[k].next + 2 .. Len(sources[stack[k].src].imports)
        <5>1. CASE k = below
          BY <5>1, <4>2, <2>3, <1>1, <1>4, <1>10
        <5>2. CASE k \in 1 .. below - 1
          BY <5>2, <4>2, <2>1, <1>4, <1>10
        <5>3. QED BY <5>1, <5>2, <2>1
      <4>4. /\ Fresh(sources[stack[k].src].imports[i])
            /\ sources[stack[k].src].imports[i] # o
        <5>1. i \in stack[k].next + (IF k < Len(stack) THEN 2 ELSE 1)
                     .. Len(ImportsOf(stack[k].src))
          BY <4>1, <4>3, <1>0 DEF ImportsOf
        <5>2. Fresh(ImportsOf(stack[k].src)[i]) /\ ImportsOf(stack[k].src)[i] # Top.src
          BY <5>1, <4>1, <1>0, TopNotWaiting DEF IInv, ImportsWaiting
        <5>3. QED BY <5>2, <1>0 DEF ImportsOf
      <4>5. sources[stack[k].src].imports[i] \in Obj
        <5>1. stack[k].next + 2 > 0 /\ i \in 1 .. Len(sources[stack[k].src].imports)
          BY <4>3, <2>3
        <5>2. QED BY <5>1, <2>3, ImportFacts DEF ImportsOf
      <4>6. QED BY <4>2, <4>4, <4>5, <1>2 DEF Fresh, Parsed, ImportsOf
    <3>2. QED BY <3>1, <2>1 DEF ImportsWaiting, Fresh, Parsed, ImportsOf
  <2>6. Items'
    <3>1. \A k \in 1 .. n :
            /\ NoRepeat(stack[k].items)
            /\ \A x \in Listed(stack[k].items) :
                 x \in Obj /\ sources[x].parsedMod # NIL /\ sources[x].parent # 0
      BY <1>0 DEF IInv, Items, Parsed
    <3>2. \A k, l \in 1 .. n :
            k # l => Listed(stack[k].items) \cap Listed(stack[l].items) = {}
      BY <1>0 DEF IInv, Items
    <3>3. \A k \in 1 .. n : o \notin Listed(stack[k].items)
      BY <3>1, <1>1
    <3>4. \A x \in Obj : sources[x].parsedMod # NIL => sources'[x].parsedMod # NIL
      BY <1>1, <1>2
    <3>5. sources'[o].parsedMod # NIL /\ sources'[o].parent # 0
      <4>1. sources[o].parent = stack[below].src
        <5>1. below \in 1 .. Len(stack) /\ below < Len(stack) /\ below + 1 = n
          BY <1>0, <1>1, <2>1
        <5>2. sources[stack[below + 1].src].parent = stack[below].src
          BY <5>1, FrameFacts
        <5>3. QED BY <5>1, <5>2, <1>1
      <4>2. sources[o].parent # 0
        <5>1. stack[below].src \in Obj
          BY <2>3, <2>1, <1>10
        <5>2. stack[below].src > 0
          BY <5>1, ImportFacts
        <5>3. stack[below].src # 0
          BY <5>1, <5>2 DEF Obj
        <5>4. QED BY <4>1, <5>3
      <4>3. QED BY <4>2, <1>1, <1>2, <1>3
    <3>6. /\ Listed(stack'[below].items) = Listed(stack[below].items) \cup Listed(items)
          /\ NoRepeat(stack'[below].items)
      <4>1. stack[below].items \in Seq(Nat)
        BY <1>0, <2>1, FrameFacts
      <4>2. Listed(stack[below].items) \cap Listed(Top.items) = {}
        <5>1. below \in 1 .. n /\ n \in 1 .. n /\ below # n
          BY <2>1, <1>1
        <5>2. QED BY <5>1, <3>2, <1>1
      <4>3. Listed(stack[below].items) \cap Listed(items) = {}
        BY <4>2, <3>3, <2>1, <1>3
      <4>4. NoRepeat(stack[below].items) /\ stack'[below].items = stack[below].items \o items
        BY <3>1, <2>1, <1>4, <1>10
      <4>5. QED BY <4>1, <4>3, <4>4, <1>3, ListedConcat
    <3>7. \A k \in 1 .. below - 1 : stack'[k].items = stack[k].items
      BY <1>4, <1>10
    <3>8. \A k \in 1 .. below :
            Listed(stack'[k].items) \subseteq
              Listed(stack[k].items)
                \cup (IF k = below THEN Listed(Top.items) \cup {o} ELSE {})
      BY <3>6, <3>7, <2>1, <1>3
    <3>9. ASSUME NEW k \in 1 .. below
          PROVE  /\ NoRepeat(stack'[k].items)
                 /\ \A x \in Listed(stack'[k].items) :
                      x \in Obj' /\ sources'[x].parsedMod # NIL /\ sources'[x].parent # 0
      <4>1. NoRepeat(stack'[k].items)
        BY <3>1, <3>6, <3>7, <2>1
      <4>2. ASSUME NEW x \in Listed(stack'[k].items)
            PROVE  x \in Obj' /\ sources'[x].parsedMod # NIL /\ sources'[x].parent # 0
        <5>1. CASE x = o
          BY <5>1, <3>5, <1>1, <1>2
        <5>2. CASE x # o
          <6>1. x \in Listed(stack[k].items) \/ x \in Listed(Top.items)
            BY <5>2, <3>8
          <6>2. x \in Obj /\ sources[x].parsedMod # NIL /\ sources[x].parent # 0
            BY <6>1, <3>1, <2>1, <1>3
          <6>3. QED BY <6>2, <3>4, <1>2
        <5>3. QED BY <5>1, <5>2
      <4>3. QED BY <4>1, <4>2
    <3>10. ASSUME NEW k \in 1 .. below, NEW l \in 1 .. below, k # l
           PROVE  Listed(stack'[k].items) \cap Listed(stack'[l].items) = {}
      <4>1. k \in 1 .. n /\ l \in 1 .. n /\ k # n /\ l # n
        BY <2>1, <1>1
      <4>2. /\ Listed(stack[k].items) \cap Listed(stack[l].items) = {}
            /\ Listed(stack[k].items) \cap Listed(Top.items) = {}
            /\ Listed(stack[l].items) \cap Listed(Top.items) = {}
        BY <4>1, <3>2, <3>10, <1>1
      <4>3. o \notin Listed(stack[k].items) /\ o \notin Listed(stack[l].items)
        BY <4>1, <3>3
      <4>4. ~(k = below /\ l = below)
        BY <3>10
      <4>5. QED BY <4>2, <4>3, <4>4, <3>8
    <3>11. QED BY <3>9, <3>10, <1>8, <2>1 DEF Items, Finished, Parsed
  <2>7. QED BY <1>6, <1>7, <2>4, <2>5, <2>6 DEF Heap
<1>11. QED BY <1>1, <1>9, <1>10

\* Another input: while the command line is read there are only fresh roots.
LEMMA HeapOpens ==
  ASSUME IInv, phase = "arguments", NEW p \in Path,
         sources' = Append(sources, NewSource(p, 0)),
         allSources' = [allSources EXCEPT ![p] = Len(sources) + 1],
         inputs' = Append(inputs, Len(sources) + 1),
         UNCHANGED <<program, stack, cur, phase>>
  PROVE  Heap'
<1>1. /\ sources \in Seq(SourceFile) /\ inputs \in Seq(Nat) /\ allSources \in [Path -> Nat]
      /\ stack = <<>> /\ cur = 0
  BY DEF IInv, TypeOK, Control, InputsAreRoots
<1>2. PICK n \in Nat : n = Len(sources) + 1
  BY <1>1
<1>3. NewSource(p, 0) \in SourceFile
  BY DEF NewSource, SourceFile
<1>4. /\ n > 0 /\ n \notin Obj /\ Obj' = Obj \cup {n} /\ \A o \in Obj : o < n
      /\ \A o \in Obj : sources'[o] = sources[o]
      /\ sources'[n] = NewSource(p, 0)
  BY <1>1, <1>2, <1>3 DEF Obj
<1>n. /\ sources'[n].path = p /\ sources'[n].parent = 0 /\ sources'[n].parsedMod = NIL
      /\ sources'[n].isNodeImported = FALSE /\ sources'[n].imports = <<>>
  <2>1. sources'[n] = NewSource(p, 0)
    BY <1>4
  <2>2. /\ NewSource(p, 0).path = p /\ NewSource(p, 0).parent = 0
        /\ NewSource(p, 0).parsedMod = NIL
        /\ NewSource(p, 0).isNodeImported = FALSE /\ NewSource(p, 0).imports = <<>>
    BY DEF NewSource
  <2>3. QED BY <2>1, <2>2
<1>5. \A o \in Obj : /\ sources[o].parent = 0 /\ sources[o].parsedMod = NIL
                     /\ ~sources[o].isNodeImported /\ sources[o].imports = <<>>
  BY DEF IInv, InputsAreRoots, Fresh, Parsed, ImportsOf
<1>6. \A o \in Obj' : /\ sources'[o].parent = 0 /\ sources'[o].parsedMod = NIL
                      /\ ~sources'[o].isNodeImported /\ sources'[o].imports = <<>>
  <2>1. SUFFICES ASSUME NEW o \in Obj'
                 PROVE  /\ sources'[o].parent = 0 /\ sources'[o].parsedMod = NIL
                        /\ ~sources'[o].isNodeImported /\ sources'[o].imports = <<>>
    OBVIOUS
  <2>2. CASE o = n
    BY <2>2, <1>n
  <2>3. CASE o # n
    <3>1. o \in Obj /\ sources'[o] = sources[o]
      BY <2>1, <2>3, <1>4
    <3>2. QED BY <3>1, <1>5
  <2>4. QED BY <2>2, <2>3
<1>7. Forest'
  <2>1. \A o \in Obj' : o > 0
    BY DEF Obj
  <2>2. \A o \in Obj' : sources'[o].parent < o
    BY <1>6, <2>1
  <2>3. NoRepeat(<<>>) /\ Listed(<<>>) = {}
    BY DEF NoRepeat, Listed
  <2>4. ASSUME NEW o \in Obj'
        PROVE  /\ NoRepeat(sources'[o].imports)
               /\ Listed(sources'[o].imports) = {q \in Obj' : sources'[q].parent = o}
    <3>1. {q \in Obj' : sources'[q].parent = o} = {}
      <4>1. \A q \in Obj' : sources'[q].parent = 0
        BY <1>6
      <4>2. o # 0
        BY <2>1
      <4>3. QED BY <4>1, <4>2
    <3>2. QED BY <3>1, <2>3, <1>6
  <2>5. ASSUME NEW q \in Path
        PROVE  /\ allSources'[q] \in Obj' \cup {0}
               /\ allSources'[q] # 0 => sources'[allSources'[q]].path = q
               /\ \A o \in Obj' : sources'[o].path = q => o <= allSources'[q]
    <3>1. /\ allSources[q] \in Obj \cup {0}
          /\ allSources[q] # 0 => sources[allSources[q]].path = q
          /\ \A o \in Obj : sources[o].path = q => o <= allSources[q]
      BY DEF IInv, Forest, Known
    <3>2. sources'[n].path = p
      BY <1>n
    <3>3. CASE q = p
      <4>1. allSources'[q] = n
        BY <3>3, <1>1, <1>2
      <4>2. \A o \in Obj' : o \in Nat /\ (o < n \/ o = n)
        BY <1>4 DEF Obj
      <4>3. QED BY <4>1, <4>2, <3>2, <3>3, <1>2, <1>4
    <3>4. CASE q # p
      <4>1. allSources'[q] = allSources[q]
        BY <3>4, <1>1
      <4>2. \A o \in Obj : sources'[o].path = sources[o].path
        BY <1>4
      <4>3. allSources'[q] \in Obj' \cup {0}
        BY <4>1, <3>1, <1>4
      <4>4. allSources'[q] # 0 => sources'[allSources'[q]].path = q
        BY <4>1, <4>2, <3>1
      <4>5. ASSUME NEW o \in Obj', sources'[o].path = q PROVE o <= allSources'[q]
        <5>1. o # n
          BY <4>5, <3>2, <3>4
        <5>2. o \in Obj /\ sources[o].path = q
          BY <5>1, <4>5, <4>2, <1>4
        <5>3. QED BY <5>2, <4>1, <3>1
      <4>6. QED BY <4>3, <4>4, <4>5
    <3>5. QED BY <3>3, <3>4
  <2>6. QED BY <2>2, <2>4, <2>5 DEF Forest, Known
<1>8. OneObjectPerFile'
  BY <1>6 DEF OneObjectPerFile
<1>9. InputsAreRoots'
  <2>1. PICK m \in Nat : m = Len(inputs)
    BY <1>1
  <2>2. /\ Len(inputs') = m + 1 /\ inputs'[m + 1] = n
        /\ \A i \in 1 .. m : inputs'[i] = inputs[i]
        /\ \A i \in 1 .. m + 1 : i \in 1 .. m \/ i = m + 1
    BY <1>1, <1>2, <2>1, AppendFacts
  <2>3. \A i \in 1 .. m : inputs[i] \in Obj
    BY <2>1 DEF IInv, InputsAreRoots
  <2>4. \A i \in 1 .. m + 1 : inputs'[i] \in Obj'
    BY <2>2, <2>3, <1>4
  <2>5. NoRepeat(inputs')
    <3>1. NoRepeat(inputs) /\ n \notin Listed(inputs)
      BY <2>1, <2>3, <1>4 DEF IInv, InputsAreRoots, Listed
    <3>2. QED BY <3>1, <1>1, <1>2, ListedAppend
  <2>6. \A i \in cur' + 1 .. Len(inputs') : i \in 1 .. m + 1
    BY <1>1, <2>2
  <2>7. QED BY <1>1, <1>6, <2>2, <2>4, <2>5, <2>6
            DEF InputsAreRoots, Fresh, Parsed, ImportsOf
<1>10. Calls' /\ ImportsWaiting'
  BY <1>1 DEF Calls, ImportsWaiting
<1>11. Items'
  <2>1. Len(stack') = 0
    BY <1>1
  <2>2. \A o \in Obj' : ~Parsed(o)'
    BY <1>6 DEF Parsed
  <2>3. QED BY <2>1, <2>2 DEF Items
<1>12. QED BY <1>7, <1>8, <1>9, <1>10, <1>11 DEF Heap
-----------------------------------------------------------------------------
(***************************************************************************)
(* The steps.  What each does to the types and to the control state comes  *)
(* first, then the invariant, one lemma for the driver's own steps and one *)
(* for the loader's.                                                       *)
(***************************************************************************)

LEMMA Parts == /\ TypeOK /\ Control /\ Heap => IInv
               /\ IInv => TypeOK /\ Control /\ Heap
BY DEF IInv, Heap

\* No import statement is half done afterwards.
LEMMA ControlIdle ==
  ASSUME climb' = NIL, dirs' = <<>>, phase' # "parsing" => stack' = <<>>,
         phase' \in {"parsing", "analysis"} => cur' > 0
  PROVE  Control'
BY DEF Control

\* While a parse is under way.
LEMMA ParsingFacts ==
  ASSUME IInv, stack # <<>>
  PROVE  phase = "parsing" /\ cur > 0
BY DEF IInv, Control

\* An import statement of the innermost parse is half done, before and after.
LEMMA ControlBusy ==
  ASSUME IInv, stack # <<>>, Top.stmt < Len(Stmts), UNCHANGED <<program, stack, phase, cur>>,
         sources'[Top.src].path = Me.path, thrown' = NIL,
         climb' # NIL => dirs' = <<>> /\ Named \in Name
  PROVE  Control'
<1>1. Top' = Top /\ Stmts' = Stmts /\ Named' = Named
  BY DEF Top, Me, Stmts, Named
<1>2. QED BY <1>1, ParsingFacts DEF Control

\* Outside of parsing, after a throw and between inputs nothing is half done.
LEMMA IdleFacts ==
  ASSUME IInv, phase # "parsing" \/ thrown # NIL \/ stack = <<>>
  PROVE  climb = NIL /\ dirs = <<>> /\ (phase # "parsing" => stack = <<>>)
BY DEF IInv, Control

\* Where an import statement begins.
LEMMA AtImportFacts ==
  ASSUME IInv, NEW n, AtImport(n)
  PROVE  /\ stack # <<>> /\ Top.stmt < Len(Stmts) /\ n = Named
         /\ climb = NIL /\ dirs = <<>> /\ thrown = NIL /\ exitCode = NIL
         /\ Here \in Folder /\ Me.path \in Path /\ Top.src \in Obj
BY TopFacts DEF AtImport, Running

\* Calling parse pushes a frame, or fails.
LEMMA CallParseFacts ==
  ASSUME NEW o, CallParse(o)
  PROVE  \/ stack' = Append(stack, NewFrame(o)) /\ UNCHANGED <<thrown, exitCode>>
         \/ UNCHANGED <<stack, exitCode>> /\ thrown' = "lex_error"
         \/ UNCHANGED <<stack, thrown>> /\ exitCode' = 22
BY DEF CallParse, Throw, Exit

\* The driver's own steps.
LEMMA DriverSteps ==
  ASSUME IInv,
         \/ ReadOption \/ OpenInput \/ ArgumentsRead \/ StartInput \/ AllFailed
         \/ Catch \/ CheckMain \/ AnalysisFails \/ LowerFull
  PROVE  IInv'
<1> USE DEF At
<1>t. TypeOK
  BY DEF IInv
<1>1. CASE ReadOption
  <2>1. climb = NIL /\ dirs = <<>> /\ stack = <<>>
    BY <1>1, IdleFacts DEF ReadOption
  <2>2. TypeOK'
    <3>1. args' \in Seq(Argument) /\ exitCode' \in {NIL, -1, 1, 22}
      <4>1. args \in Seq(Argument) /\ args # <<>>
        BY <1>t, <1>1 DEF ReadOption, TypeOK
      <4>2. Tail(args) \in Seq(Argument)
        BY <4>1
      <4>3. args' \in {args, Tail(args)} /\ exitCode' \in {exitCode, -1}
        BY <1>1 DEF ReadOption, Exit
      <4>4. QED BY <4>1, <4>2, <4>3, <1>t DEF TypeOK, Exception, ExitCode
    <3>2. QED BY <3>1, <1>t, <1>1 DEF ReadOption, TypeOK, Exception, ExitCode
  <2>3. Control'
    BY <2>1, <1>1, ControlIdle DEF ReadOption
  <2>4. Heap'
    BY <1>1, SameCallsFacts, HeapStays DEF ReadOption
  <2>5. QED BY <2>2, <2>3, <2>4, Parts DEF IInv, Heap
<1>2. CASE OpenInput
  <2>1. climb = NIL /\ dirs = <<>> /\ stack = <<>>
    BY <1>2, IdleFacts DEF OpenInput
  <2>2. Control'
    BY <2>1, <1>2, ControlIdle DEF OpenInput
  <2>3. CASE Head(args) \in Unreadable
    <3>1. UNCHANGED <<sources, allSources, args, inputs>> /\ exitCode' = 1
      BY <1>2, <2>3 DEF OpenInput, Exit
    <3>2. TypeOK'
      BY <3>1, <1>t, <1>2 DEF OpenInput, TypeOK, Exception, ExitCode
    <3>3. Heap'
      BY <3>1, <1>2, SameCallsFacts, HeapStays DEF OpenInput
    <3>4. QED BY <3>2, <3>3, <2>2 DEF IInv, Heap
  <2>4. CASE Head(args) \notin Unreadable
    <3>1. /\ sources' = Append(sources, NewSource(Head(args), 0))
          /\ allSources' = [allSources EXCEPT ![Head(args)] = Len(sources) + 1]
          /\ inputs' = Append(inputs, Len(sources) + 1)
          /\ args' = Tail(args) /\ UNCHANGED exitCode
          /\ Head(args) \in Path /\ args # <<>> /\ phase = "arguments"
          /\ UNCHANGED <<program, stack, climb, dirs, thrown, cur, phase>>
      BY <1>2, <2>4 DEF OpenInput
    <3>2. NewSource(Head(args), 0) \in SourceFile
      BY <3>1 DEF NewSource, SourceFile
    <3>3. sources' \in Seq(SourceFile) /\ allSources' \in [Path -> Nat]
      BY <3>1, <3>2, <1>t DEF TypeOK
    <3>4. /\ inputs' \in Seq(Nat) /\ args' \in Seq(Argument)
          /\ cur \in 0 .. Len(inputs')
      BY <3>1, <1>t DEF TypeOK
    <3>5. TypeOK'
      BY <3>1, <3>3, <3>4, <1>t DEF TypeOK
    <3>6. Heap'
      BY <3>1, HeapOpens
    <3>7. QED BY <3>5, <3>6, <2>2 DEF IInv, Heap
  <2>5. QED BY <2>3, <2>4
<1>3. CASE ArgumentsRead
  <2>1. climb = NIL /\ dirs = <<>> /\ stack = <<>>
    BY <1>3, IdleFacts DEF ArgumentsRead
  <2>2. TypeOK'
    BY <1>t, <1>3 DEF ArgumentsRead, TypeOK, Exit, Exception, ExitCode
  <2>3. Control'
    BY <2>1, <1>3, ControlIdle DEF ArgumentsRead
  <2>4. CASE inputs = <<>>
    <3>1. Heap'
      BY <1>3, <2>4, SameCallsFacts, HeapStays DEF ArgumentsRead
    <3>2. QED BY <3>1, <2>2, <2>3 DEF IInv, Heap
  <2>5. CASE inputs # <<>>
    <3>1. Heap'
      BY <1>3, <2>1, <2>5, HeapQuiet DEF ArgumentsRead
    <3>2. QED BY <3>1, <2>2, <2>3 DEF IInv, Heap
  <2>6. QED BY <2>4, <2>5
<1>4. CASE StartInput
  <2> DEFINE o == inputs[cur + 1]
  <2>1. climb = NIL /\ dirs = <<>> /\ stack = <<>>
    BY <1>4, IdleFacts DEF StartInput
  <2>2. cur \in Nat /\ cur + 1 \in 1 .. Len(inputs) /\ inputs \in Seq(Nat)
    BY <1>t, <1>4 DEF StartInput, TypeOK
  <2>3. o \in Nat
    BY <2>2
  <2>4. /\ stack' = <<NewFrame(o)>> \/ stack' = <<>>
        /\ thrown' \in {thrown, "lex_error"} /\ exitCode' \in {exitCode, 22}
    <3>1. CASE sources[o].parsedMod # NIL
      BY <3>1, <2>1, <1>4 DEF StartInput
    <3>2. CASE CallParse(o)
      <4>1. Append(<<>>, NewFrame(o)) = <<NewFrame(o)>>
        OBVIOUS
      <4>2. QED BY <3>2, <4>1, <2>1, CallParseFacts
    <3>3. QED BY <3>1, <3>2, <1>4 DEF StartInput
  <2>5. NewFrame(o) \in Frame
    BY <2>3 DEF NewFrame, Frame
  <2>6. stack' \in Seq(Frame)
    <3>1. ASSUME NEW f \in Frame PROVE <<f>> \in Seq(Frame)
      OBVIOUS
    <3>2. <<NewFrame(o)>> \in Seq(Frame) /\ <<>> \in Seq(Frame)
      BY <3>1, <2>5
    <3>3. QED BY <3>2, <2>4
  <2>7. cur' \in 0 .. Len(inputs') /\ cur' > 0
    BY <2>2, <1>4 DEF StartInput
  <2>8. TypeOK'
    BY <2>4, <2>6, <2>7, <1>t, <1>4 DEF StartInput, TypeOK, Exception, ExitCode
  <2>9. Control'
    BY <2>1, <2>7, <1>4, ControlIdle DEF StartInput
  <2>10. Heap'
    BY <2>4, <1>4, HeapStarts DEF StartInput
  <2>11. QED BY <2>8, <2>9, <2>10 DEF IInv, Heap
<1>5. CASE AllFailed
  <2>1. climb = NIL /\ dirs = <<>> /\ stack = <<>>
    BY <1>5, IdleFacts DEF AllFailed
  <2>2. TypeOK'
    BY <1>t, <1>5 DEF AllFailed, TypeOK, Exit, driverVars, Exception, ExitCode
  <2>3. Control'
    BY <2>1, <1>5, ControlIdle DEF AllFailed, driverVars
  <2>4. Heap'
    BY <1>5, SameCallsFacts, HeapStays DEF AllFailed, driverVars
  <2>5. QED BY <2>2, <2>3, <2>4 DEF IInv, Heap
<1>6. CASE Catch
  <2>1. climb = NIL /\ dirs = <<>>
    BY <1>6, IdleFacts DEF Catch
  <2>2. TypeOK'
    <3>1. stack' \in Seq(Frame)
      BY <1>6 DEF Catch
    <3>2. QED BY <3>1, <1>t, <1>6 DEF Catch, TypeOK
  <2>3. Control'
    BY <2>1, <1>6, ControlIdle DEF Catch
  <2>4. Heap'
    BY <1>6, HeapQuiet DEF Catch
  <2>5. QED BY <2>2, <2>3, <2>4 DEF IInv, Heap
<1>7. CASE CheckMain
  <2>1. climb = NIL /\ dirs = <<>> /\ stack = <<>> /\ cur > 0
    BY <1>7, IdleFacts DEF CheckMain, IInv, Control
  <2>2. TypeOK'
    BY <1>t, <1>7 DEF CheckMain, TypeOK, Exit, Exception, ExitCode
  <2>3. Control'
    BY <2>1, <1>7, ControlIdle DEF CheckMain
  <2>4. phase' # "arguments"
    BY <1>7 DEF CheckMain
  <2>5. Heap'
    BY <1>7, <2>1, <2>4, HeapQuiet DEF CheckMain
  <2>6. QED BY <2>2, <2>3, <2>5 DEF IInv, Heap
<1>8. CASE AnalysisFails
  <2>1. climb = NIL /\ dirs = <<>> /\ stack = <<>> /\ cur > 0
    BY <1>8, IdleFacts DEF AnalysisFails, IInv, Control
  <2>2. TypeOK'
    BY <1>t, <1>8 DEF AnalysisFails, TypeOK, Throw, driverVars, Exception, ExitCode
  <2>3. Control'
    BY <2>1, <1>8, ControlIdle DEF AnalysisFails, driverVars
  <2>4. Heap'
    BY <1>8, SameCallsFacts, HeapStays DEF AnalysisFails, driverVars
  <2>5. QED BY <2>2, <2>3, <2>4 DEF IInv, Heap
<1>9. CASE LowerFull
  <2>1. climb = NIL /\ dirs = <<>> /\ stack = <<>> /\ cur > 0
    BY <1>9, IdleFacts DEF LowerFull, IInv, Control
  <2>2. TypeOK'
    BY <1>t, <1>9 DEF LowerFull, TypeOK, Exit, driverVars, Exception, ExitCode
  <2>3. Control'
    BY <2>1, <1>9, ControlIdle DEF LowerFull, driverVars
  <2>4. Heap'
    BY <1>9, SameCallsFacts, HeapStays DEF LowerFull, driverVars
  <2>5. QED BY <2>2, <2>3, <2>4 DEF IInv, Heap
<1>10. QED BY <1>1, <1>2, <1>3, <1>4, <1>5, <1>6, <1>7, <1>8, <1>9

\* What the innermost parse gives to the directory iterator is of its type.
LEMMA DirsFacts ==
  ASSUME TypeOK, NEW d \in Folder
  PROVE  /\ <<Entries[d]>> \in Seq(SUBSET (Path \cup Folder)) /\ <<Entries[d]>> # <<>>
         /\ \A s \in Seq(SUBSET (Path \cup Folder)) :
              Append(s, Entries[d]) \in Seq(SUBSET (Path \cup Folder))
<1>1. Entries[d] \in SUBSET (Path \cup Folder)
  BY TreeAssumption
<1>2. QED BY <1>1

\* The statement whose import is over: types and control.
LEMMA StatementOver ==
  ASSUME IInv, stack # <<>>, Top.stmt < Len(Stmts), NextStatement,
         UNCHANGED <<phase, cur>>, climb' = NIL, dirs' = <<>>
  PROVE  SameCalls /\ stack' \in Seq(Frame) /\ Control'
<1>1. SameCalls /\ stack' \in Seq(Frame)
  BY SameCallsFacts DEF SameCalls
<1>2. Control'
  BY ParsingFacts, ControlIdle
<1>3. QED BY <1>1, <1>2

\* Import statements that bring no file in by themselves.
LEMMA StatementSteps ==
  ASSUME IInv, UNCHANGED driverVars, NEW n \in Statement,
         \/ ImportDirectory(n) \/ ImportPlain(n) \/ ImportMissing(n) \/ ImportIllFormed(n)
  PROVE  IInv'
<1>t. TypeOK /\ UNCHANGED <<args, inputs, cur, phase>>
  BY DEF IInv, driverVars
<1>0. /\ stack # <<>> /\ Top.stmt < Len(Stmts) /\ n = Named
      /\ climb = NIL /\ dirs = <<>> /\ thrown = NIL /\ exitCode = NIL
      /\ Here \in Folder /\ Me.path \in Path /\ Top.src \in Obj
  BY AtImportFacts DEF ImportDirectory, ImportPlain, ImportMissing, ImportIllFormed
<1>1. CASE ImportDirectory(n)
  <2>1. n \in Name /\ DirAt[Here][n] \in Folder
    BY <1>0, <1>1, TreeAssumption DEF ImportDirectory
  <2>2. dirs' \in Seq(SUBSET (Path \cup Folder))
    BY <2>1, <1>1, <1>t, DirsFacts DEF ImportDirectory
  <2>3. TypeOK'
    BY <2>2, <1>t, <1>1 DEF ImportDirectory, TypeOK
  <2>4. Control'
    BY <1>0, <1>t, <1>1, ControlBusy DEF ImportDirectory, Me
  <2>5. Heap'
    BY <1>1, <1>t, SameCallsFacts, HeapStays DEF ImportDirectory
  <2>6. QED BY <2>3, <2>4, <2>5 DEF IInv, Heap
<1>2. CASE ImportPlain(n)
  <2>1. SameCalls /\ stack' \in Seq(Frame) /\ Control'
    BY <1>0, <1>t, <1>2, StatementOver DEF ImportPlain
  <2>2. TypeOK'
    BY <2>1, <1>t, <1>2 DEF ImportPlain, TypeOK
  <2>3. Heap'
    BY <2>1, <1>2, <1>t, HeapStays DEF ImportPlain
  <2>4. QED BY <2>1, <2>2, <2>3 DEF IInv, Heap
<1>3. CASE ImportMissing(n)
  <2>1. TypeOK'
    BY <1>0, <1>t, <1>3 DEF ImportMissing, TypeOK
  <2>2. Control'
    BY <1>0, <1>t, <1>3, ControlBusy DEF ImportMissing, Me
  <2>3. Heap'
    BY <1>3, <1>t, SameCallsFacts, HeapStays DEF ImportMissing
  <2>4. QED BY <2>1, <2>2, <2>3 DEF IInv, Heap
<1>4. CASE ImportIllFormed(n)
  <2>1. TypeOK'
    BY <1>t, <1>4 DEF ImportIllFormed, TypeOK, Throw, Exit, Exception, ExitCode
  <2>2. Control'
    BY <1>0, <1>t, <1>4, ParsingFacts, ControlIdle DEF ImportIllFormed
  <2>3. Heap'
    BY <1>4, <1>t, SameCallsFacts, HeapStays DEF ImportIllFormed
  <2>4. QED BY <2>1, <2>2, <2>3 DEF IInv, Heap
<1>5. QED BY <1>1, <1>2, <1>3, <1>4

\* SourceFile::import in the middle of an import statement: the heap, the
\* types of what it changes, and the path of the importer, which stays.
LEMMA ImportStep ==
  ASSUME IInv, stack # <<>>, Top.stmt < Len(Stmts), NEW p \in Path, Import(p), SameCalls,
         UNCHANGED <<program, inputs, cur, phase>>
  PROVE  /\ Heap' /\ sources' \in Seq(SourceFile) /\ allSources' \in [Path -> Nat]
         /\ sources'[Top.src].path = Me.path
<1>1. sources \in Seq(SourceFile) /\ allSources \in [Path -> Nat] /\ Top.src \in Obj
  BY TopFacts DEF IInv, TypeOK
<1>2. CASE Opening(p)
  <2>1. /\ sources' \in Seq(SourceFile) /\ Len(sources) + 1 \in Nat
        /\ allSources' = [allSources EXCEPT ![p] = Len(sources) + 1]
        /\ sources'[Top.src].path = sources[Top.src].path
    BY <1>1, <1>2, ImportEffect
  <2>2. allSources' \in [Path -> Nat]
    BY <1>1, <2>1
  <2>3. Heap'
    BY <1>2, HeapGrows
  <2>4. QED BY <2>1, <2>2, <2>3 DEF Me
<1>3. CASE ~Opening(p)
  <2>1. UNCHANGED <<sources, allSources>>
    BY <1>3 DEF Import
  <2>2. QED BY <1>1, <2>1, HeapStays DEF Me
<1>4. QED BY <1>2, <1>3

\* A file beside the importing one, and the directory iterator's steps.
LEMMA FileSteps ==
  ASSUME IInv, UNCHANGED driverVars,
         \/ \E n \in Statement : ImportFile(n)
         \/ \E e \in Path \cup Folder : DirectoryEntry(e)
         \/ DirectoryDone
  PROVE  IInv'
<1>t. TypeOK /\ UNCHANGED <<args, inputs, cur, phase>>
  BY DEF IInv, driverVars
<1>1. ASSUME NEW n \in Statement, ImportFile(n) PROVE IInv'
  <2>0. /\ stack # <<>> /\ Top.stmt < Len(Stmts)
        /\ climb = NIL /\ dirs = <<>> /\ Here \in Folder
    BY <1>1, AtImportFacts DEF ImportFile
  <2> DEFINE p == FireAt[Here][n]
  <2>1. p \in Path
    <3>1. n \in Name /\ p # NIL
      BY <1>1 DEF ImportFile
    <3>2. QED BY <3>1, <2>0, TreeAssumption
  <2>2. /\ Import(p) /\ UNCHANGED <<program, climb, dirs>>
        /\ \/ UNCHANGED <<stack, thrown>> /\ exitCode' = 1
           \/ UNCHANGED <<stack, exitCode>> /\ thrown' = "import_depth_limit_exceeded"
           \/ UNCHANGED <<thrown, exitCode>> /\ NextStatement
    BY <1>1 DEF ImportFile, Throw, Exit
  <2>3. SameCalls /\ stack' \in Seq(Frame)
    BY <2>0, <2>2, SameCallsFacts DEF SameCalls
  <2>4. Heap' /\ sources' \in Seq(SourceFile) /\ allSources' \in [Path -> Nat]
    BY <2>0, <2>1, <2>2, <2>3, <1>t, ImportStep
  <2>5. TypeOK'
    BY <2>2, <2>3, <2>4, <1>t DEF TypeOK, Exception, ExitCode
  <2>6. Control'
    BY <2>0, <2>2, <1>t, ParsingFacts, ControlIdle
  <2>7. QED BY <2>4, <2>5, <2>6 DEF IInv, Heap
<1>2. ASSUME NEW e \in Path \cup Folder, DirectoryEntry(e) PROVE IInv'
  <2> DEFINE rest == [dirs EXCEPT ![Len(dirs)] = @ \ {e}]
  <2>0. /\ dirs # <<>> /\ climb = NIL /\ thrown = NIL /\ stack # <<>>
        /\ Top.stmt < Len(Stmts) /\ dirs \in Seq(SUBSET (Path \cup Folder))
        /\ e \in dirs[Len(dirs)] /\ UNCHANGED <<program, stack, climb, thrown>>
    BY <1>2 DEF DirectoryEntry, IInv, Control, TypeOK
  <2>1. rest \in Seq(SUBSET (Path \cup Folder)) /\ SameCalls
    <3>1. dirs[Len(dirs)] \ {e} \in SUBSET (Path \cup Folder)
      BY <2>0
    <3>2. QED BY <3>1, <2>0, SameCallsFacts
  <2>2. CASE e \in Folder
    <3>1. dirs' = Append(rest, Entries[e]) /\ UNCHANGED <<sources, allSources, exitCode>>
      BY <1>2, <2>2 DEF DirectoryEntry
    <3>2. dirs' \in Seq(SUBSET (Path \cup Folder))
      BY <3>1, <2>1, <2>2, <1>t, DirsFacts
    <3>3. TypeOK'
      BY <3>1, <3>2, <2>0, <1>t DEF TypeOK
    <3>4. Control'
      BY <3>1, <2>0, <1>t, ControlBusy DEF Me
    <3>5. Heap'
      BY <3>1, <2>0, <2>1, <1>t, HeapStays
    <3>6. QED BY <3>3, <3>4, <3>5 DEF IInv, Heap
  <2>3. CASE e \notin Folder
    <3>1. dirs' = rest /\ Import(e) /\ exitCode' \in {exitCode, 1} /\ e \in Path
      BY <1>2, <2>3 DEF DirectoryEntry, Exit
    <3>2. /\ Heap' /\ sources' \in Seq(SourceFile) /\ allSources' \in [Path -> Nat]
          /\ sources'[Top.src].path = Me.path
      BY <3>1, <2>0, <2>1, <1>t, ImportStep
    <3>3. TypeOK'
      BY <3>1, <3>2, <2>0, <2>1, <1>t DEF TypeOK, Exception, ExitCode
    <3>4. Control'
      BY <3>2, <2>0, <1>t, ControlBusy
    <3>5. QED BY <3>2, <3>3, <3>4 DEF IInv, Heap
  <2>4. QED BY <2>2, <2>3
<1>3. CASE DirectoryDone
  <2>0. /\ dirs # <<>> /\ climb = NIL /\ thrown = NIL /\ stack # <<>>
        /\ Top.stmt < Len(Stmts) /\ dirs \in Seq(SUBSET (Path \cup Folder))
        /\ dirs' = SubSeq(dirs, 1, Len(dirs) - 1)
        /\ UNCHANGED <<program, sources, allSources, climb, thrown, exitCode>>
    BY <1>3 DEF DirectoryDone, Pop, IInv, Control, TypeOK
  <2>1. dirs' \in Seq(SUBSET (Path \cup Folder)) /\ (Len(dirs) = 1 => dirs' = <<>>)
    BY <2>0
  <2>2. CASE Len(dirs) = 1
    <3>1. NextStatement /\ dirs' = <<>>
      BY <1>3, <2>1, <2>2 DEF DirectoryDone
    <3>2. SameCalls /\ stack' \in Seq(Frame) /\ Control'
      BY <3>1, <2>0, <1>t, StatementOver
    <3>3. TypeOK'
      BY <3>2, <2>0, <2>1, <1>t DEF TypeOK
    <3>4. Heap'
      BY <3>2, <2>0, <1>t, HeapStays
    <3>5. QED BY <3>2, <3>3, <3>4 DEF IInv, Heap
  <2>3. CASE Len(dirs) # 1
    <3>1. UNCHANGED stack
      BY <1>3, <2>3 DEF DirectoryDone
    <3>2. TypeOK'
      BY <3>1, <2>0, <2>1, <1>t DEF TypeOK
    <3>3. Control'
      BY <3>1, <2>0, <1>t, ControlBusy DEF Me
    <3>4. Heap'
      BY <3>1, <2>0, <1>t, SameCallsFacts, HeapStays
    <3>5. QED BY <3>2, <3>3, <3>4 DEF IInv, Heap
  <2>4. QED BY <2>2, <2>3
<1>4. QED BY <1>1, <1>2, <1>3

\* The search through the parent folders.
LEMMA ClimbSteps ==
  ASSUME IInv, UNCHANGED driverVars, Climb
  PROVE  IInv'
<1>t. TypeOK /\ UNCHANGED <<args, inputs, cur, phase>>
  BY DEF IInv, driverVars
<1>0. /\ climb \in Folder /\ Up[climb] \in Folder /\ dirs = <<>> /\ thrown = NIL
      /\ stack # <<>> /\ Top.stmt < Len(Stmts) /\ Named \in Name
      /\ UNCHANGED <<program, sources, allSources, exitCode>>
  BY TreeAssumption DEF Climb, IInv, Control, TypeOK
<1>1. CASE climb = Cwd
  <2>1. climb' = NIL /\ thrown' = "cannot_open_file" /\ UNCHANGED <<stack, dirs>>
    BY <1>1 DEF Climb, Throw
  <2>2. TypeOK'
    BY <2>1, <1>0, <1>t DEF TypeOK, Exception, ExitCode
  <2>3. Control'
    BY <2>1, <1>0, <1>t, ParsingFacts, ControlIdle
  <2>4. Heap'
    BY <2>1, <1>0, <1>t, SameCallsFacts, HeapStays
  <2>5. QED BY <2>2, <2>3, <2>4 DEF IInv, Heap
<1> DEFINE up == Up[climb]
<1>2. CASE climb # Cwd /\ FireAt[up][Named] # NIL
  <2>1. climb' = NIL /\ NextStatement /\ UNCHANGED <<dirs, thrown>>
    BY <1>2 DEF Climb
  <2>2. SameCalls /\ stack' \in Seq(Frame) /\ Control'
    BY <2>1, <1>0, <1>t, StatementOver
  <2>3. TypeOK'
    BY <2>1, <2>2, <1>0, <1>t DEF TypeOK
  <2>4. Heap'
    BY <2>2, <1>0, <1>t, HeapStays
  <2>5. QED BY <2>2, <2>3, <2>4 DEF IInv, Heap
<1>3. CASE climb # Cwd /\ FireAt[up][Named] = NIL /\ DirAt[up][Named] # NIL
  <2>1. /\ climb' = NIL /\ dirs' = <<Entries[DirAt[up][Named]]>>
        /\ UNCHANGED <<stack, thrown>>
    BY <1>3 DEF Climb
  <2>2. dirs' \in Seq(SUBSET (Path \cup Folder))
    <3>1. DirAt[up][Named] \in Folder
      BY <1>0, <1>3, TreeAssumption
    <3>2. QED BY <3>1, <2>1, <1>t, DirsFacts
  <2>3. TypeOK'
    BY <2>1, <2>2, <1>0, <1>t DEF TypeOK
  <2>4. Control'
    BY <2>1, <1>0, <1>t, ControlBusy DEF Me
  <2>5. Heap'
    BY <2>1, <1>0, <1>t, SameCallsFacts, HeapStays
  <2>6. QED BY <2>3, <2>4, <2>5 DEF IInv, Heap
<1>4. CASE climb # Cwd /\ FireAt[up][Named] = NIL /\ DirAt[up][Named] = NIL
  <2>1. climb' = up /\ UNCHANGED <<stack, thrown, dirs>>
    BY <1>4 DEF Climb
  <2>2. TypeOK'
    BY <2>1, <1>0, <1>t DEF TypeOK
  <2>3. Control'
    BY <2>1, <1>0, <1>t, ControlBusy DEF Me
  <2>4. Heap'
    BY <2>1, <1>0, <1>t, SameCallsFacts, HeapStays
  <2>5. QED BY <2>2, <2>3, <2>4 DEF IInv, Heap
<1>5. QED BY <1>1, <1>2, <1>3, <1>4

\* What the import loop finds next is fresh, so that it is always parsed.
LEMMA NextIsFresh ==
  ASSUME IInv, stack # <<>>, Top.next < Len(Me.imports)
  PROVE  LET o == Me.imports[Top.next + 1] IN
         o \in Obj /\ Fresh(o)
<1>1. /\ Len(stack) \in Nat /\ Len(stack) \in 1 .. Len(stack) /\ Top = stack[Len(stack)]
      /\ Top.src \in Obj /\ Me.imports = ImportsOf(Top.src)
  BY TopFacts DEF Top
<1>2. Top.next \in Nat /\ Me.imports \in Seq(Nat)
  BY <1>1, FrameFacts, ImportFacts
<1>3. /\ Top.next + 1 \in 1 .. Len(Me.imports)
      /\ Top.next + 1 \in Top.next + 1 .. Len(Me.imports)
  BY <1>2
<1>4. Me.imports[Top.next + 1] \in Obj
  BY <1>1, <1>3, ImportFacts
<1>5. Fresh(Me.imports[Top.next + 1])
  BY <1>1, <1>3 DEF IInv, ImportsWaiting
<1>6. QED BY <1>4, <1>5

\* Going through the imports, and the return from parse.
LEMMA SpliceSteps ==
  ASSUME IInv, UNCHANGED driverVars, SpliceNext \/ ReadItems
  PROVE  IInv'
<1>t. TypeOK /\ UNCHANGED <<args, inputs, cur, phase>>
  BY DEF IInv, driverVars
<1>0. /\ stack # <<>> /\ Top.stmt = Len(Stmts) /\ climb = NIL /\ dirs = <<>>
      /\ UNCHANGED <<program, allSources, climb, dirs>>
      /\ phase = "parsing" /\ cur > 0
  BY ParsingFacts DEF SpliceNext, ReadItems, AtSplice, Running
<1>c. Control'
  BY <1>0, <1>t, ControlIdle
<1>1. CASE SpliceNext
  <2> DEFINE o == Me.imports[Top.next + 1]
  <2>1. Top.next < Len(Me.imports)
    BY <1>1 DEF SpliceNext
  <2>2. o \in Obj /\ ~sources[o].isNodeImported /\ sources[o].parsedMod = NIL
    BY <2>1, <1>0, NextIsFresh DEF Fresh, Parsed
  <2>3. CallParse(o) /\ UNCHANGED sources
    BY <2>2, <1>1 DEF SpliceNext
  <2>4. CASE stack' = Append(stack, NewFrame(o)) /\ UNCHANGED <<thrown, exitCode>>
    <3>1. stack' \in Seq(Frame)
      <4>1. NewFrame(o) \in Frame
        BY <2>2 DEF NewFrame, Frame, Obj
      <4>2. QED BY <4>1, <2>4, <1>t DEF TypeOK
    <3>2. TypeOK'
      BY <3>1, <2>3, <2>4, <1>0, <1>t DEF TypeOK
    <3>3. Heap'
      BY <2>1, <2>3, <2>4, <1>0, <1>t, HeapNests
    <3>4. QED BY <3>2, <3>3, <1>c DEF IInv, Heap
  <2>5. CASE /\ UNCHANGED stack /\ thrown' \in {thrown, "lex_error"}
             /\ exitCode' \in {exitCode, 22}
    <3>1. TypeOK'
      BY <2>3, <2>5, <1>0, <1>t DEF TypeOK, Exception, ExitCode
    <3>2. Heap'
      BY <2>3, <2>5, <1>0, <1>t, SameCallsFacts, HeapStays
    <3>3. QED BY <3>1, <3>2, <1>c DEF IInv, Heap
  <2>6. QED BY <2>3, <2>4, <2>5, CallParseFacts
<1>2. CASE ReadItems
  <2>0. Top.next = Len(Me.imports) /\ UNCHANGED exitCode
    BY <1>2 DEF ReadItems
  <2>1. CASE program[Me.path].fault = "item"
    <3>1. UNCHANGED <<sources, stack>> /\ thrown' = "parse_error"
      BY <1>2, <2>1 DEF ReadItems, Throw
    <3>2. TypeOK'
      BY <3>1, <2>0, <1>0, <1>t DEF TypeOK, Exception, ExitCode
    <3>3. Heap'
      BY <3>1, <1>0, <1>t, SameCallsFacts, HeapStays
    <3>4. QED BY <3>2, <3>3, <1>c DEF IInv, Heap
  <2>2. CASE program[Me.path].fault # "item"
    <3>1. Returns /\ UNCHANGED thrown
      BY <1>2, <2>2 DEF ReadItems, Returns
    <3>2. sources' \in Seq(SourceFile)
      BY <3>1, <1>0, ReturnEffect
    <3>3. stack' \in Seq(Frame)
      <4>1. Len(stack) - 1 \in Nat
        BY <1>0, TopFacts
      <4>2. ASSUME NEW m \in Nat PROVE m = 0 \/ m > 0
        OBVIOUS
      <4>3. Len(stack) - 1 = 0 \/ Len(stack) - 1 > 0
        BY <4>1, <4>2
      <4>4. /\ Len(stack) - 1 = 0 => stack' = <<>>
            /\ Len(stack) - 1 > 0 => stack' \in Seq(Frame)
        BY <3>1, <1>0, ReturnEffect
      <4>5. <<>> \in Seq(Frame)
        OBVIOUS
      <4>6. QED BY <4>3, <4>4, <4>5
    <3>4. TypeOK'
      BY <3>1, <3>2, <3>3, <2>0, <1>0, <1>t DEF TypeOK
    <3>5. Heap'
      BY <3>1, <2>0, <1>0, <1>t, HeapReturns
    <3>6. QED BY <3>4, <3>5, <1>c DEF IInv, Heap
  <2>3. QED BY <2>1, <2>2
<1>3. QED BY <1>1, <1>2
-----------------------------------------------------------------------------
(***************************************************************************)
(* The theorems.                                                           *)
(***************************************************************************)

\* The program begins with no source and no parse.
LEMMA InitInv == Init => IInv
<1> SUFFICES ASSUME Init PROVE IInv
  OBVIOUS
<1>1. /\ program \in Programs /\ sources = <<>> /\ allSources = [p \in Path |-> 0]
      /\ stack = <<>> /\ climb = NIL /\ dirs = <<>> /\ thrown = NIL /\ exitCode = NIL
      /\ args \in ArgLists /\ inputs = <<>> /\ cur = 0 /\ phase = "arguments"
  BY DEF Init, ImportsInit
<1>2. Obj = {}
  BY <1>1 DEF Obj
<1>3. TypeOK
  <2>1. program \in [Path -> Text] /\ args \in Seq(Argument)
    BY <1>1, ProgramAssumption, ArgsAssumption
  <2>2. allSources \in [Path -> Nat]
    BY <1>1
  <2>3. sources \in Seq(SourceFile) /\ stack \in Seq(Frame)
        /\ dirs \in Seq(SUBSET (Path \cup Folder)) /\ inputs \in Seq(Nat)
        /\ cur \in 0 .. Len(inputs)
    BY <1>1
  <2>4. QED BY <1>1, <2>1, <2>2, <2>3 DEF TypeOK
<1>4. Forest /\ OneObjectPerFile
  BY <1>1, <1>2 DEF Forest, OneObjectPerFile, Known
<1>5. InputsAreRoots
  BY <1>1, <1>2 DEF InputsAreRoots, NoRepeat
<1>6. Control
  BY <1>1 DEF Control
<1>7. Calls /\ ImportsWaiting /\ Items
  BY <1>1, <1>2 DEF Calls, ImportsWaiting, Items
<1>8. QED BY <1>3, <1>4, <1>5, <1>6, <1>7 DEF IInv

\* A step in which nothing happens.
LEMMA StutterInv ==
  ASSUME IInv, UNCHANGED vars
  PROVE  IInv'
<1>1. TypeOK'
  BY DEF IInv, TypeOK, vars
<1>2. Control'
  BY DEF IInv, Control, vars, Top, Stmts, Me, Named
<1>3. Heap'
  BY SameCallsFacts, HeapStays DEF vars
<1>4. QED BY <1>1, <1>2, <1>3 DEF IInv, Heap

\* Every step keeps the invariant.
LEMMA NextInv == IInv /\ [Next]_vars => IInv'
<1> SUFFICES ASSUME IInv, [Next]_vars PROVE IInv'
  OBVIOUS
<1>1. CASE \/ ReadOption \/ OpenInput \/ ArgumentsRead \/ StartInput \/ AllFailed
           \/ Catch \/ CheckMain \/ AnalysisFails \/ LowerFull
  BY <1>1, DriverSteps
<1>2. CASE Load
  <2>1. UNCHANGED driverVars /\ ImportsNext
    BY <1>2 DEF Load
  <2>2. CASE \E n \in Statement : \/ ImportDirectory(n) \/ ImportPlain(n)
                                 \/ ImportMissing(n) \/ ImportIllFormed(n)
    BY <2>1, <2>2, StatementSteps
  <2>3. CASE \/ \E n \in Statement : ImportFile(n)
             \/ \E e \in Path \cup Folder : DirectoryEntry(e)
             \/ DirectoryDone
    BY <2>1, <2>3, FileSteps
  <2>4. CASE Climb
    BY <2>1, <2>4, ClimbSteps
  <2>5. CASE SpliceNext \/ ReadItems
    BY <2>1, <2>5, SpliceSteps
  <2>6. QED BY <2>1, <2>2, <2>3, <2>4, <2>5 DEF ImportsNext
<1>3. CASE UNCHANGED vars
  BY <1>3, StutterInv
<1>4. QED BY <1>1, <1>2, <1>3 DEF Next

\* The inductive invariant holds in every state of the loader.
THEOREM Invariant == Spec => []IInv
<1>1. QED BY InitInv, NextInv, PTL DEF Spec

\* Every variable has its type.
THEOREM TypeCorrect == Spec => []TypeOK
<1>1. QED BY Invariant, Parts, PTL

\* The importers form a forest that the registry agrees with, for every file
\* tree, program and command line.
THEOREM ForestHolds == Spec => []Forest
<1>1. IInv => Forest
  BY DEF IInv
<1>2. QED BY <1>1, Invariant, PTL

\* A parse is never entered while it is under way, whatever cycles the
\* imports of the program have.
THEOREM NeverReentered == Spec => []NoReentrantParse
<1>1. ASSUME IInv PROVE NoReentrantParse
  <2>1. ASSUME NEW k \in 1 .. Len(stack), NEW l \in 1 .. Len(stack),
               stack[k].src = stack[l].src
        PROVE  k = l
    <3>1. stack[k].src \in Nat /\ stack[l].src \in Nat
      BY <1>1, FrameFacts, ImportFacts
    <3>2. ~(stack[k].src < stack[l].src) /\ ~(stack[l].src < stack[k].src)
      BY <2>1, <3>1
    <3>3. ~(k < l) /\ ~(l < k)
      BY <1>1, <3>2 DEF IInv, Calls
    <3>4. QED BY <3>3
  <2>2. ASSUME NEW k \in 1 .. Len(stack) - 1
        PROVE  /\ stack[k].next < Len(sources[stack[k].src].imports)
               /\ sources[stack[k].src].imports[stack[k].next + 1] = stack[k + 1].src
    <3>1. k \in 1 .. Len(stack) /\ k < Len(stack)
      BY <1>1 DEF IInv, TypeOK
    <3>2. QED BY <1>1, <3>1 DEF IInv, Calls, ImportsOf
  <2>3. QED BY <2>1, <2>2 DEF NoReentrantParse
<1>2. QED BY <1>1, Invariant, PTL

\* No module ever holds the items of a file twice.
THEOREM NeverMergedTwice == Spec => []MergedOnce
<1>1. ASSUME IInv PROVE MergedOnce
  <2>1. ASSUME NEW k \in 1 .. Len(stack),
               NEW i \in 1 .. Len(stack[k].items), NEW j \in 1 .. Len(stack[k].items),
               sources[stack[k].items[i]].path = sources[stack[k].items[j]].path
        PROVE  i = j
    <3>1. stack[k].items[i] \in Listed(stack[k].items)
          /\ stack[k].items[j] \in Listed(stack[k].items)
      BY DEF Listed
    <3>2. /\ NoRepeat(stack[k].items)
          /\ \A o \in Listed(stack[k].items) : o \in Obj /\ sources[o].parent # 0
      BY <1>1 DEF IInv, Items
    <3>3. stack[k].items[i] = stack[k].items[j]
      BY <1>1, <2>1, <3>1, <3>2 DEF IInv, OneObjectPerFile
    <3>4. QED BY <3>2, <3>3 DEF NoRepeat
  <2>2. ASSUME NEW o \in Obj, sources[o].parsedMod # NIL
        PROVE  \A i, j \in 1 .. Len(sources[o].parsedMod) :
                 sources[sources[o].parsedMod[i]].path = sources[sources[o].parsedMod[j]].path
                   => i = j
    BY <1>1, <2>2 DEF IInv, Items, Parsed
  <2>3. ASSUME NEW m \in OpenModules \cup Modules
        PROVE  NoRepeat([i \in 1 .. Len(m) |-> sources[m[i]].path])
    <3>1. /\ m \in Seq(Nat)
          /\ \A i, j \in 1 .. Len(m) : sources[m[i]].path = sources[m[j]].path => i = j
      <4>1. CASE m \in OpenModules
        <5>1. PICK k \in 1 .. Len(stack) : m = stack[k].items
          BY <4>1 DEF OpenModules
        <5>2. QED BY <5>1, <2>1, <1>1, FrameFacts
      <4>2. CASE m \in Modules
        <5>1. PICK o \in Obj : m = sources[o].parsedMod /\ m # NIL
          BY <4>2 DEF Modules
        <5>2. QED BY <5>1, <2>2, <1>1, ObjFacts
      <4>3. QED BY <4>1, <4>2
    <3>2. PICK n \in Nat : n = Len(m)
      BY <3>1
    <3>3. /\ Len([i \in 1 .. n |-> sources[m[i]].path]) = n
          /\ \A i \in 1 .. n : [j \in 1 .. n |-> sources[m[j]].path][i] = sources[m[i]].path
      OBVIOUS
    <3>4. QED BY <3>1, <3>2, <3>3 DEF NoRepeat
  <2>4. \A k, l \in 1 .. Len(stack) :
          k # l => Listed(stack[k].items) \cap Listed(stack[l].items) = {}
    BY <1>1 DEF IInv, Items
  <2>5. QED BY <2>3, <2>4 DEF MergedOnce
<1>2. QED BY <1>1, Invariant, PTL

\* The import loop never meets a source that anybody has parsed or marked:
\* the branches that skip an import and that reuse a module are dead.
THEOREM ImportsAreFresh == Spec => []NextImportIsFresh
<1>1. ASSUME IInv PROVE NextImportIsFresh
  BY <1>1, NextIsFresh DEF NextImportIsFresh, Fresh, Parsed, ImportsOf
<1>2. QED BY <1>1, Invariant, PTL

\* Which of an object's members a step may change, and where: its imports
\* grow by an import statement of its own parse, its module is set when that
\* parse returns.
LEMMA WhatStepsChange ==
  ASSUME IInv, Next, NEW o \in Obj
  PROVE  /\ sources'[o].imports # sources[o].imports =>
              stack # <<>> /\ Top.src = o /\ Top.stmt < Len(Stmts)
         /\ sources'[o].parsedMod # sources[o].parsedMod =>
              stack # <<>> /\ Top.src = o /\ sources[o].parsedMod = NIL
<1>1. ASSUME stack # <<>>, NEW p \in Path, Import(p), Top.stmt < Len(Stmts)
      PROVE  /\ sources'[o].imports # sources[o].imports =>
                  stack # <<>> /\ Top.src = o /\ Top.stmt < Len(Stmts)
             /\ sources'[o].parsedMod = sources[o].parsedMod
  <2>1. CASE Opening(p)
    BY <1>1, <2>1, ImportEffect
  <2>2. CASE ~Opening(p)
    BY <1>1, <2>2 DEF Import
  <2>3. QED BY <2>1, <2>2
<1>2. CASE UNCHANGED sources
  BY <1>2
<1>3. CASE OpenInput
  <2>1. UNCHANGED sources \/ sources' = Append(sources, NewSource(Head(args), 0))
    BY <1>3 DEF OpenInput
  <2>2. sources \in Seq(SourceFile)
    BY DEF IInv, TypeOK
  <2>3. ASSUME NEW s \in SourceFile, sources' = Append(sources, s)
        PROVE  sources'[o] = sources[o]
    BY <2>2, <2>3 DEF Obj
  <2>4. Head(args) \in Path => NewSource(Head(args), 0) \in SourceFile
    BY DEF NewSource, SourceFile
  <2>5. QED BY <1>3, <2>1, <2>3, <2>4 DEF OpenInput
<1>4. CASE \E n \in Statement : ImportFile(n)
  <2>1. PICK n \in Statement : ImportFile(n)
    BY <1>4
  <2>2. stack # <<>> /\ Top.stmt < Len(Stmts) /\ Here \in Folder
    BY <2>1, AtImportFacts DEF ImportFile
  <2>3. n \in Name /\ FireAt[Here][n] # NIL /\ Import(FireAt[Here][n])
    BY <2>1 DEF ImportFile
  <2>4. FireAt[Here][n] \in Path
    BY <2>2, <2>3, TreeAssumption
  <2>5. QED BY <1>1, <2>2, <2>3, <2>4
<1>5. CASE \E e \in Path \cup Folder : DirectoryEntry(e)
  <2>1. PICK e \in Path \cup Folder : DirectoryEntry(e)
    BY <1>5
  <2>2. stack # <<>> /\ Top.stmt < Len(Stmts)
    BY <2>1 DEF DirectoryEntry, IInv, Control
  <2>3. UNCHANGED sources \/ (e \in Path /\ Import(e))
    BY <2>1 DEF DirectoryEntry
  <2>4. QED BY <1>1, <2>2, <2>3
<1>6. CASE SpliceNext
  <2>1. UNCHANGED sources
    BY <1>6, NextIsFresh DEF SpliceNext, AtSplice, Running, Fresh, Parsed
  <2>2. QED BY <2>1
<1>7. CASE ReadItems
  <2>1. stack # <<>>
    BY <1>7 DEF ReadItems, AtSplice, Running
  <2>2. UNCHANGED sources \/ Returns
    BY <1>7 DEF ReadItems, Returns
  <2>3. sources[Top.src].parsedMod = NIL
    BY <2>1, TopFacts DEF Me
  <2>4. QED BY <2>1, <2>2, <2>3, ReturnEffect
<1>8. \/ UNCHANGED sources \/ OpenInput \/ SpliceNext \/ ReadItems
      \/ \E n \in Statement : ImportFile(n)
      \/ \E e \in Path \cup Folder : DirectoryEntry(e)
  BY DEF Next, Load, ImportsNext, ReadOption, ArgumentsRead, StartInput, AllFailed, Catch,
         CheckMain, AnalysisFails, LowerFull, ImportDirectory, ImportPlain, ImportMissing,
         ImportIllFormed, Climb, DirectoryDone
<1>9. QED BY <1>2, <1>3, <1>4, <1>5, <1>6, <1>7, <1>8

\* A module is cached at most once, by the parse it belongs to.
THEOREM CachedOnce == Spec => ParsedOnce
<1>1. ASSUME IInv, [Next]_vars
      PROVE  [\A o \in Obj : sources'[o].parsedMod # sources[o].parsedMod
                => sources[o].parsedMod = NIL /\ stack # <<>> /\ Top.src = o]_vars
  BY <1>1, WhatStepsChange
<1>2. QED BY <1>1, Invariant, PTL DEF Spec, ParsedOnce

\* While a parse goes through its imports, nested parses and all, nothing is
\* added to them: the reference ps_mod iterates over stays valid.
THEOREM ImportsAreFrozen == Spec => ImportsFrozenWhileSpliced
<1>1. ASSUME IInv, Next, NEW k \in 1 .. Len(stack),
             stack[k].stmt = Len(program[sources[stack[k].src].path].imports)
      PROVE  sources'[stack[k].src].imports = sources[stack[k].src].imports
  <2>1. SUFFICES ASSUME sources'[stack[k].src].imports # sources[stack[k].src].imports
                 PROVE  FALSE
    OBVIOUS
  <2>2. stack[k].src \in Obj /\ stack[k].src \in Nat
    BY <1>1, FrameFacts, ImportFacts
  <2>3. stack # <<>> /\ Top.src = stack[k].src /\ Top.stmt < Len(Stmts)
    BY <1>1, <2>1, <2>2, WhatStepsChange
  <2>4. Len(stack) \in Nat /\ Len(stack) \in 1 .. Len(stack) /\ Top = stack[Len(stack)]
    BY <1>1, <2>3, TopFacts DEF Top
  <2>5. ~(k < Len(stack))
    BY <1>1, <2>2, <2>3, <2>4 DEF IInv, Calls
  <2>6. k = Len(stack)
    BY <2>4, <2>5
  <2>7. Stmts = program[sources[stack[k].src].path].imports
    BY <2>3 DEF Stmts, Me
  <2>8. Len(Stmts) \in Nat /\ Top.stmt = Len(Stmts)
    BY <1>1, <2>3, <2>4, <2>6, <2>7, TopFacts
  <2>9. QED BY <2>3, <2>8
<1>2. ASSUME IInv, [Next]_vars
      PROVE  [\A k \in 1 .. Len(stack) :
                LET f == stack[k] IN
                f.stmt = Len(program[sources[f.src].path].imports)
                  => sources'[f.src].imports = sources[f.src].imports]_vars
  BY <1>1, <1>2
<1>3. QED BY <1>2, Invariant, PTL DEF Spec, ImportsFrozenWhileSpliced
=============================================================================
