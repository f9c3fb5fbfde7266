-------------------------- MODULE NamespacesProofs ---------------------------
(***************************************************************************)
(* Merging and regrouping, proved for every program: the inductive         *)
(* invariant and what follows from it; then that nothing is lost, nothing  *)
(* invented, and the order in which the items of a kind were written kept. *)
(* What is found below a node is defined by recursion; it ends because     *)
(* what a list holds lies one level deeper.                                *)
(***************************************************************************)
EXTENDS NamespacesInvariant, ListProofs, FiniteSetTheorems

\* What a program is, and that the steps keep it.
LEMMA ProgramFacts ==
  ASSUME program \in Programs
  PROVE  /\ program \in Program
         /\ program.kind \in [Node -> Kind]
         /\ program.level \in [Node -> 0 .. Cardinality(Node)]
         /\ program.inside \in [Node -> Seq(Node)]
         /\ program.order \in Seq(Node) /\ Len(program.order) \in Nat
         /\ program.imports \in [Node -> Seq(Node)]
         /\ WrittenOnce(program) /\ ImportedOnce(program)
<1>1. program \in Program /\ WrittenOnce(program) /\ ImportedOnce(program)
  BY ProgramsAssumption
<1>2. QED BY <1>1 DEF Program

\* The module being parsed.
LEMMA CurrentFacts ==
  ASSUME TypeOK, program \in Programs, Parsing
  PROVE  /\ done \in Nat /\ done + 1 \in 1 .. Len(program.order)
         /\ Current \in Node /\ program.kind[Current] = "Module"
         /\ program.level[Current] = 0
         /\ program.imports[Current] \in Seq(Node) /\ Len(program.imports[Current]) \in Nat
         /\ program.inside[Current] \in Seq(Node)
<1>1. done \in Nat /\ done + 1 \in 1 .. Len(program.order)
  BY ProgramFacts DEF TypeOK, Parsing
<1>2. Current \in Node /\ Current \in Listed(program.order)
  BY <1>1, ProgramFacts, ListedAt DEF Current
<1>3. program.kind[Current] = "Module" /\ program.level[Current] = 0
  BY <1>2, ProgramFacts DEF ImportedOnce
<1>4. QED BY <1>1, <1>2, <1>3, ProgramFacts

\* The modules that were taken over are imports of modules parsed before, or of
\* the one being parsed; each of them was parsed before.
LEMMA SplicedFacts ==
  ASSUME TypeOK, program \in Programs, Splicing
  PROVE  /\ \A x \in Spliced :
               \/ \E k \in 1 .. done : x \in Listed(program.imports[program.order[k]])
               \/ Parsing /\ \E i \in 1 .. spliced : x = program.imports[Current][i]
         /\ \A k \in 1 .. done : Listed(program.imports[program.order[k]]) \subseteq Spliced
         /\ Parsing => \A i \in 1 .. spliced : program.imports[Current][i] \in Spliced
         /\ \A x \in Spliced :
               x \in Node /\ program.kind[x] = "Module" /\ \E k \in 1 .. done : program.order[k] = x
<1>1. /\ \A x \in Spliced :
               \/ \E k \in 1 .. done : x \in Listed(program.imports[program.order[k]])
               \/ Parsing /\ \E i \in 1 .. spliced : x = program.imports[Current][i]
      /\ \A k \in 1 .. done : Listed(program.imports[program.order[k]]) \subseteq Spliced
      /\ Parsing => \A i \in 1 .. spliced : program.imports[Current][i] \in Spliced
  <2> DEFINE A == UNION {Listed(program.imports[program.order[i]]) : i \in 1 .. done}
             B == {program.imports[Current][i] : i \in 1 .. spliced}
  <2>1. Spliced = A \cup (IF Parsing THEN B ELSE {})
    BY DEF Spliced
  <2>2. \A x : x \in A <=> \E k \in 1 .. done : x \in Listed(program.imports[program.order[k]])
    OBVIOUS
  <2>3. \A x : x \in B <=> \E i \in 1 .. spliced : x = program.imports[Current][i]
    OBVIOUS
  <2> HIDE DEF A, B
  <2>4. QED BY <2>1, <2>2, <2>3
<1>2. done \in Nat /\ done <= Len(program.order)
  BY ProgramFacts DEF TypeOK
<1>3. ASSUME NEW k \in 1 .. Len(program.order), k <= done + 1,
             NEW x \in Listed(program.imports[program.order[k]])
      PROVE  x \in Node /\ program.kind[x] = "Module" /\ \E i \in 1 .. done : program.order[i] = x
  <2>1. PICK i \in 1 .. k - 1 : program.order[i] = x
    BY ProgramFacts DEF ImportedOnce
  <2>2. i \in 1 .. done /\ i \in 1 .. Len(program.order)
    BY <1>2, <1>3, <2>1
  <2>3. x \in Node /\ x \in Listed(program.order)
    BY <2>1, <2>2, ProgramFacts, ListedAt
  <2>4. QED BY <2>1, <2>2, <2>3, ProgramFacts DEF ImportedOnce
<1>4. ASSUME NEW x \in Spliced
      PROVE  x \in Node /\ program.kind[x] = "Module" /\ \E k \in 1 .. done : program.order[k] = x
  <2>1. CASE \E k \in 1 .. done : x \in Listed(program.imports[program.order[k]])
    <3>1. PICK k \in 1 .. done : x \in Listed(program.imports[program.order[k]])
      BY <2>1
    <3>2. k \in 1 .. Len(program.order) /\ k <= done + 1
      BY <1>2, ProgramFacts
    <3>3. QED BY <1>3, <3>1, <3>2
  <2>2. CASE Parsing /\ \E i \in 1 .. spliced : x = program.imports[Current][i]
    <3>1. PICK i \in 1 .. spliced : x = program.imports[Current][i]
      BY <2>2
    <3>2. done + 1 \in 1 .. Len(program.order) /\ done + 1 <= done + 1
          /\ program.order[done + 1] = Current /\ Len(program.imports[Current]) \in Nat
      BY <2>2, CurrentFacts DEF Current
    <3>3. i \in 1 .. Len(program.imports[Current])
      BY <2>2, <3>2 DEF Splicing, TypeOK
    <3>4. x \in Listed(program.imports[program.order[done + 1]])
      BY <3>1, <3>2, <3>3, ListedAt
    <3>5. QED BY <1>3, <3>2, <3>4
  <2>3. QED BY <1>1, <2>1, <2>2
<1>5. QED BY <1>1, <1>4

\* The import to be spliced next is a module returned before, in use still.
LEMMA ImportFacts ==
  ASSUME TypeOK, program \in Programs, Splicing, Levels,
         Parsing, spliced < Len(program.imports[Current])
  PROVE  LET imp == program.imports[Current][spliced + 1] IN
         /\ imp \in Node /\ imp \in InUse /\ imp # Current
         /\ program.kind[imp] = "Module" /\ program.level[imp] = 0
         /\ \E k \in 1 .. done : program.order[k] = imp
<1> DEFINE imp == program.imports[Current][spliced + 1]
<1>1. spliced \in Nat /\ spliced + 1 \in 1 .. Len(program.imports[Current])
  BY CurrentFacts DEF TypeOK
<1>2. imp \in Node /\ imp \in Listed(program.imports[Current])
  BY <1>1, CurrentFacts, ListedAt
<1>3. done \in Nat /\ done + 1 \in 1 .. Len(program.order) /\ program.order[done + 1] = Current
  BY CurrentFacts DEF Current
<1> HIDE DEF imp
<1>4. PICK k \in 1 .. (done + 1) - 1 : program.order[k] = imp
  BY <1>2, <1>3, ProgramFacts DEF ImportedOnce
<1>5. k \in 1 .. done /\ k \in 1 .. Len(program.order) /\ k # done + 1
  BY <1>3, <1>4
<1>6. imp # Current
  BY <1>3, <1>4, <1>5, ProgramFacts DEF ImportedOnce, NoRepeat
<1>7. imp \in Listed(program.order) /\ Current \in Listed(program.order)
  BY <1>3, <1>4, <1>5, ListedAt
<1>8. program.kind[imp] = "Module" /\ program.level[imp] = 0
  BY <1>7, ProgramFacts DEF ImportedOnce
<1>9. imp \notin freed
  BY <1>8 DEF Levels, IsNamespace
<1>10. imp \notin Spliced
  <2>1. ASSUME NEW l \in 1 .. done, imp \in Listed(program.imports[program.order[l]]) PROVE FALSE
    <3>1. l \in 1 .. Len(program.order) /\ l # done + 1
      BY <1>3
    <3>2. program.order[l] # Current /\ program.order[l] \in Listed(program.order)
      BY <1>3, <3>1, ProgramFacts, ListedAt DEF ImportedOnce, NoRepeat
    <3>3. Listed(program.imports[program.order[l]]) \cap Listed(program.imports[Current]) = {}
      BY <1>7, <3>2, ProgramFacts DEF ImportedOnce
    <3>4. QED BY <1>2, <2>1, <3>3
  <2>2. ASSUME NEW i \in 1 .. spliced, imp = program.imports[Current][i] PROVE FALSE
    <3>1. i \in 1 .. Len(program.imports[Current]) /\ i # spliced + 1
      BY <1>1, CurrentFacts
    <3>2. NoRepeat(program.imports[Current])
      BY <1>7, ProgramFacts DEF ImportedOnce
    <3>3. QED BY <1>1, <2>2, <3>1, <3>2 DEF NoRepeat, imp
  <2>3. QED BY <2>1, <2>2, SplicedFacts
<1>11. QED BY <1>2, <1>5, <1>4, <1>6, <1>8, <1>9, <1>10 DEF InUse, imp

\* The module being parsed is in use.
LEMMA CurrentInUse ==
  ASSUME TypeOK, program \in Programs, Splicing, Levels, Parsing
  PROVE  Current \in InUse
<1>1. Current \in Node /\ Current \notin freed
  BY CurrentFacts DEF Levels, IsNamespace
<1>2. done \in Nat /\ done + 1 \in 1 .. Len(program.order) /\ program.order[done + 1] = Current
  BY CurrentFacts DEF Current
<1>3. ASSUME NEW k \in 1 .. done, program.order[k] = Current PROVE FALSE
  <2>1. k \in 1 .. Len(program.order) /\ k # done + 1
    BY <1>2
  <2>2. QED BY <1>2, <1>3, <2>1, ProgramFacts DEF ImportedOnce, NoRepeat
<1>4. Current \notin Spliced
  BY <1>3, SplicedFacts
<1>5. QED BY <1>1, <1>4 DEF InUse
-----------------------------------------------------------------------------
(***************************************************************************)
(* The call under way, and what the steps do to calls and lists.           *)
(***************************************************************************)

\* The innermost call.
LEMMA TopFacts ==
  ASSUME IInv, calls # <<>>
  PROVE  /\ Len(calls) \in Nat /\ Len(calls) \in 1 .. Len(calls) /\ Top = calls[Len(calls)]
         /\ calls \in Seq(Call) /\ Top \in Call /\ Top.i \in Nat /\ Top.i > 0
         /\ Top.owner \in Node /\ Top.owner \in InUse
         /\ List = items[Top.owner] /\ List \in Seq(Node) /\ Len(List) \in Nat
         /\ NoRepeat(List)
         /\ Parsing /\ phase # "items"
<1>1. Len(calls) \in Nat /\ Len(calls) \in 1 .. Len(calls) /\ Top = calls[Len(calls)]
      /\ calls \in Seq(Call)
  BY DEF IInv, TypeOK, Top
<1>2. Top \in Call
  BY <1>1
<1>3. Top.i \in Nat /\ Top.i > 0 /\ Top.owner \in Node /\ Top.owner \in InUse
  BY <1>1, <1>2 DEF Call, IInv, Calls
<1>4. List = items[Top.owner] /\ List \in Seq(Node) /\ Len(List) \in Nat
  BY <1>3 DEF List, IInv, TypeOK
<1>5. NoRepeat(List)
  BY <1>3, <1>4 DEF IInv, ListsDisjoint
<1>6. Parsing /\ phase # "items"
  BY DEF IInv, Calls, Splicing
<1>7. QED BY <1>1, <1>2, <1>3, <1>4, <1>5, <1>6

\* The call under way goes on, and those around it stay as they are.
LEMMA ContinueFacts ==
  ASSUME calls \in Seq(Call), calls # <<>>, NEW c \in Call, Continue(c)
  PROVE  /\ calls' \in Seq(Call) /\ Len(calls') = Len(calls) /\ calls' # <<>>
         /\ calls'[Len(calls)] = c
         /\ \A k \in 1 .. Len(calls) : k # Len(calls) => calls'[k] = calls[k]
<1>1. Len(calls) \in Nat /\ Len(calls) \in 1 .. Len(calls)
  OBVIOUS
<1>2. calls' = [calls EXCEPT ![Len(calls)] = c]
  BY DEF Continue
<1>3. Len(calls') = Len(calls) /\ calls' \in Seq(Call)
  BY <1>1, <1>2
<1>4. calls'[Len(calls)] = c /\ \A k \in 1 .. Len(calls) : k # Len(calls) => calls'[k] = calls[k]
  BY <1>1, <1>2
<1>5. QED BY <1>1, <1>3, <1>4

\* A call keeps its type when its fields change within theirs.
LEMMA CallWith ==
  ASSUME NEW c \in Call, NEW d,
         \E a \in {"first", "inner"}, i \in Nat, g \in BOOLEAN, u \in 1 .. 2 :
           d = [owner |-> c.owner, at |-> a, i |-> i, again |-> g, turn |-> u]
  PROVE  d \in Call
BY DEF Call

\* The fields of a call.
LEMMA CallFields ==
  ASSUME NEW c \in Call
  PROVE  /\ c.owner \in Node /\ c.at \in {"first", "inner"} /\ c.i \in Nat
         /\ c.again \in BOOLEAN /\ c.turn \in 1 .. 2
         /\ c = [owner |-> c.owner, at |-> c.at, i |-> c.i, again |-> c.again, turn |-> c.turn]
BY DEF Call

\* A namespace in the list that is gone through is in use, and no call is
\* under way on it.
LEMMA ChildFacts ==
  ASSUME IInv, calls # <<>>, NEW i \in 1 .. Len(List), IsNamespace(List[i])
  PROVE  /\ List[i] \in Node /\ List[i] \in InUse /\ List[i] \in Listed(items[Top.owner])
         /\ \A k \in 1 .. Len(calls) : calls[k].owner # List[i]
<1> DEFINE x == List[i]
<1>1. x \in Node /\ x \in Listed(items[Top.owner])
  BY TopFacts, ListedAt
<1>2. x \notin freed
  BY <1>1, TopFacts DEF IInv, ListsDisjoint
<1>3. program.kind[x] = "Namespace" /\ TypeOK /\ program \in Programs /\ Splicing
  BY DEF IInv, IsNamespace
<1>4. x \notin Spliced
  BY <1>3, SplicedFacts
<1>5. x \in InUse
  BY <1>1, <1>2, <1>4 DEF InUse
<1> HIDE DEF x
<1>6. ASSUME NEW k \in 1 .. Len(calls), calls[k].owner = x PROVE FALSE
  <2>1. k \in Nat /\ Len(calls) \in Nat
    BY TopFacts
  <2>2. CASE k = 1
    <3>1. calls[1].owner = Current /\ TypeOK /\ Parsing
      BY TopFacts DEF IInv, Calls
    <3>2. program.kind[Current] = "Module"
      BY <3>1, <1>3, CurrentFacts
    <3>3. QED BY <3>1, <3>2, <2>2, <1>6, <1>3
  <2>3. CASE k > 1
    <3>1. k - 1 \in 1 .. Len(calls) - 1 /\ k - 1 \in 1 .. Len(calls)
          /\ k - 1 # Len(calls) /\ (k - 1) + 1 = k
      BY <2>1, <2>3
    <3> DEFINE p == calls[k - 1]
    <3>2. p.i - 1 \in 1 .. Len(items[p.owner]) /\ items[p.owner][p.i - 1] = x
          /\ p.owner \in InUse
      BY <3>1, <1>6 DEF IInv, Calls
    <3>3. x \in Listed(items[p.owner])
      BY <3>2, ListedAt
    <3>4. p.owner = Top.owner
      <4> HIDE DEF p
      <4>1. QED BY <3>2, <3>3, <1>1, TopFacts DEF IInv, ListsDisjoint
    <3>5. k - 1 = Len(calls)
      BY <3>1, <3>4, TopFacts DEF IInv, Calls
    <3>6. QED BY <3>1, <3>5
  <2>4. QED BY <2>1, <2>2, <2>3
<1>7. QED BY <1>1, <1>5, <1>6 DEF x

\* What regrouping a list gives.
LEMMA GroupedFacts ==
  ASSUME program.kind \in [Node -> Kind], NEW s \in Seq(Node), NoRepeat(s),
         \A x \in Listed(s) : program.kind[x] # "Module"
  PROVE  /\ Grouped(s) \in Seq(Node)
         /\ Listed(Grouped(s)) = Listed(s)
         /\ NoRepeat(Grouped(s))
<1> DEFINE K(k)  == {n \in Node : program.kind[n] = k}
           Of(k) == Sublist(s, K(k))
           Good(u, T) == u \in Seq(Node) /\ NoRepeat(u) /\ Listed(u) = Listed(s) \cap T
<1>1. \A k : Good(Of(k), K(k))
  BY SublistFacts, SublistNoRepeat
<1>2. ASSUME NEW u, NEW v, NEW T, NEW V, Good(u, T), Good(v, V), T \cap V = {}
      PROVE  Good(u \o v, T \cup V)
  BY <1>2, JoinFacts
<1> HIDE DEF Good, Of
<1> DEFINE K2 == K("Let") \cup K("Namespace")
           K3 == K2 \cup K("Enum")
           K4 == K3 \cup K("Class")
           K5 == K4 \cup K("Function")
<1>3. /\ K("Let") \cap K("Namespace") = {} /\ K2 \cap K("Enum") = {}
      /\ K3 \cap K("Class") = {} /\ K4 \cap K("Function") = {}
  OBVIOUS
<1>4. Listed(s) \cap K5 = Listed(s)
  <2>1. \A x \in Listed(s) : x \in Node
    BY DEF Listed
  <2>2. \A x \in Listed(s) : program.kind[x] \in Kind /\ program.kind[x] # "Module"
    BY <2>1
  <2>3. QED BY <2>1, <2>2 DEF Kind
<1> HIDE DEF K, K2, K3, K4, K5
<1>5. Good(Of("Let") \o Of("Namespace"), K2)
  BY <1>1, <1>2, <1>3 DEF K2
<1>6. Good((Of("Let") \o Of("Namespace")) \o Of("Enum"), K3)
  BY <1>1, <1>2, <1>3, <1>5 DEF K3
<1>7. Good(((Of("Let") \o Of("Namespace")) \o Of("Enum")) \o Of("Class"), K4)
  BY <1>1, <1>2, <1>3, <1>6 DEF K4
<1>8. Good((((Of("Let") \o Of("Namespace")) \o Of("Enum")) \o Of("Class")) \o Of("Function"), K5)
  BY <1>1, <1>2, <1>3, <1>7 DEF K5
<1>9. Grouped(s) = (((Of("Let") \o Of("Namespace")) \o Of("Enum")) \o Of("Class")) \o Of("Function")
  BY DEF Grouped, Of, K
<1>10. QED BY <1>4, <1>8, <1>9 DEF Good

\* The merge of the duplicate at j: what it changes.
MergeEffect(o, orig, dup, j) ==
  /\ o = Top.owner /\ orig = List[Top.i] /\ dup = List[j]
  /\ Top.i \in 1 .. Len(List) /\ j \in 1 .. Len(List) /\ Top.i < j
  /\ SameNamespace(List, Top.i, j)
  /\ o \in InUse /\ orig \in InUse /\ dup \in InUse
  /\ orig # o /\ dup # o /\ orig # dup
  /\ items' \in [Node -> Seq(Node)]
  /\ items'[orig] = items[orig] \o items[dup]
  /\ items'[o] = Without(items[o], j)
  /\ \A n \in Node : n # o /\ n # orig => items'[n] = items[n]
  /\ freed' = freed \cup {dup}
  /\ InUse' = InUse \ {dup}

LEMMA MergeFacts ==
  ASSUME IInv, calls # <<>>, NEW j \in Nat, Merge(j)
  PROVE  MergeEffect(Top.owner, List[Top.i], List[j], j)
<1> DEFINE o == Top.owner
           orig == List[Top.i]
           dup == List[j]
<1>1. Top.i \in 1 .. Len(List) /\ j \in 1 .. Len(List) /\ Top.i < j
      /\ SameNamespace(List, Top.i, j)
  <2>1. Top.i <= Len(List) /\ j \in Duplicates(Top.i)
    BY DEF Merge
  <2>2. QED BY <2>1, TopFacts DEF Duplicates, SameNamespace
<1>2. IsNamespace(orig) /\ IsNamespace(dup)
  BY <1>1 DEF SameNamespace
<1>3. /\ orig \in Node /\ orig \in InUse /\ \A k \in 1 .. Len(calls) : calls[k].owner # orig
      /\ dup \in Node /\ dup \in InUse /\ \A k \in 1 .. Len(calls) : calls[k].owner # dup
  BY <1>1, <1>2, ChildFacts
<1>4. o \in Node /\ o \in InUse /\ o # orig /\ o # dup
  BY <1>3, TopFacts
<1>5. orig # dup
  BY <1>1, TopFacts DEF NoRepeat
<1>6. items' = [items EXCEPT ![orig] = @ \o items[dup], ![o] = Without(@, j)]
      /\ freed' = freed \cup {dup} /\ UNCHANGED <<program, done, spliced>>
  BY DEF Merge
<1>7. items \in [Node -> Seq(Node)]
  BY DEF IInv, TypeOK
<1>8. items[orig] \o items[dup] \in Seq(Node) /\ Without(items[o], j) \in Seq(Node)
  <2>1. items[orig] \in Seq(Node) /\ items[dup] \in Seq(Node)
    BY <1>3, <1>7
  <2>2. items[o] \in Seq(Node) /\ j \in 1 .. Len(items[o])
    BY <1>1, TopFacts
  <2>3. QED BY <2>1, <2>2, JoinFacts, WithoutFacts
<1> HIDE DEF o, orig, dup
<1>9. /\ items' \in [Node -> Seq(Node)]
      /\ items'[orig] = items[orig] \o items[dup]
      /\ items'[o] = Without(items[o], j)
      /\ \A n \in Node : n # o /\ n # orig => items'[n] = items[n]
  BY <1>3, <1>4, <1>6, <1>7, <1>8
<1>10. Spliced' = Spliced
  BY <1>6 DEF Spliced, Parsing, Current
<1>11. InUse' = InUse \ {dup}
  BY <1>6, <1>10 DEF InUse
<1>12. QED BY <1>1, <1>3, <1>4, <1>5, <1>6, <1>9, <1>11 DEF MergeEffect, o, orig, dup

\* What the lists hold after a merge.
LEMMA MergeLists ==
  ASSUME IInv, calls # <<>>, NEW j \in Nat,
         NEW o, NEW orig, NEW dup, MergeEffect(o, orig, dup, j)
  PROVE  /\ orig \in Listed(items[o]) /\ dup \in Listed(items[o])
         /\ Listed(items'[o]) = Listed(items[o]) \ {dup} /\ NoRepeat(items'[o])
         /\ Listed(items'[orig]) = Listed(items[orig]) \cup Listed(items[dup])
         /\ NoRepeat(items'[orig])
<1>1. items \in [Node -> Seq(Node)] /\ InUse \subseteq Node
  BY DEF IInv, TypeOK, InUse
<1>2. o \in Node /\ orig \in Node /\ dup \in Node
  BY <1>1 DEF MergeEffect
<1>3. orig \in Listed(items[o]) /\ dup \in Listed(items[o])
  BY TopFacts, ListedAt DEF MergeEffect
<1>4. Listed(items'[o]) = Listed(items[o]) \ {dup} /\ NoRepeat(items'[o])
  <2> DEFINE s == items[o]
  <2>1. o = Top.owner /\ List = s
    BY TopFacts DEF MergeEffect
  <2>2. items'[o] = Without(s, j) /\ dup = List[j] /\ j \in 1 .. Len(List)
    BY DEF MergeEffect
  <2>3. List \in Seq(Node) /\ NoRepeat(List)
    BY TopFacts
  <2> HIDE DEF s
  <2>4. s \in Seq(Node) /\ j \in 1 .. Len(s) /\ NoRepeat(s) /\ dup = s[j]
    BY <2>1, <2>2, <2>3
  <2>5. Listed(Without(s, j)) = Listed(s) \ {s[j]} /\ NoRepeat(Without(s, j))
    BY <2>4, WithoutFacts
  <2>6. QED BY <2>2, <2>4, <2>5 DEF s
<1>5. /\ Listed(items'[orig]) = Listed(items[orig]) \cup Listed(items[dup])
      /\ NoRepeat(items'[orig])
  <2>1. items[orig] \in Seq(Node) /\ items[dup] \in Seq(Node)
        /\ items'[orig] = items[orig] \o items[dup]
    BY <1>1, <1>2 DEF MergeEffect
  <2>2. NoRepeat(items[orig]) /\ NoRepeat(items[dup])
        /\ Listed(items[orig]) \cap Listed(items[dup]) = {}
    BY DEF MergeEffect, IInv, ListsDisjoint
  <2>3. QED BY <2>1, <2>2, JoinFacts
<1>6. QED BY <1>3, <1>4, <1>5

\* The next module's items join those of the importer.
SpliceEffect(imp) ==
  /\ imp \in InUse /\ Current \in InUse /\ imp # Current /\ Parsing /\ phase = "items"
  /\ program.level[imp] = 0 /\ program.level[Current] = 0
  /\ items' \in [Node -> Seq(Node)]
  /\ items'[Current] = items[Current] \o items[imp]
  /\ \A n \in Node : n # Current => items'[n] = items[n]
  /\ InUse' = InUse \ {imp}

LEMMA SpliceFacts ==
  ASSUME IInv, SpliceModule
  PROVE  SpliceEffect(program.imports[Current][spliced + 1])
<1> DEFINE imp == program.imports[Current][spliced + 1]
<1>1. TypeOK /\ program \in Programs /\ Splicing /\ Levels /\ Parsing /\ phase = "items"
      /\ spliced < Len(program.imports[Current])
  BY DEF IInv, SpliceModule
<1>2. /\ imp \in Node /\ imp \in InUse /\ imp # Current
      /\ program.kind[imp] = "Module" /\ program.level[imp] = 0
  BY <1>1, ImportFacts
<1>3. Current \in Node /\ Current \in InUse /\ program.level[Current] = 0
  BY <1>1, CurrentFacts, CurrentInUse
<1>4. /\ items' = [items EXCEPT ![Current] = @ \o items[imp]]
      /\ spliced' = spliced + 1 /\ UNCHANGED <<program, freed, done>>
  BY DEF SpliceModule
<1>5. items \in [Node -> Seq(Node)] /\ spliced \in Nat
  BY <1>1 DEF TypeOK
<1>6. items[Current] \o items[imp] \in Seq(Node)
  BY <1>2, <1>3, <1>5
<1>7. Spliced' = Spliced \cup {imp}
  <2> DEFINE A == UNION {Listed(program.imports[program.order[i]]) : i \in 1 .. done}
             B(n) == {program.imports[Current][i] : i \in 1 .. n}
  <2>1. B(spliced + 1) = B(spliced) \cup {imp}
    <3>1. \A i : i \in 1 .. spliced + 1 <=> i \in 1 .. spliced \/ i = spliced + 1
      BY <1>5
    <3>2. QED BY <3>1
  <2>2. Spliced = A \cup B(spliced)
    BY <1>1 DEF Spliced
  <2>3. Spliced' = A \cup B(spliced + 1)
    BY <1>1, <1>4 DEF Spliced, Parsing, Current
  <2> HIDE DEF A, B, imp
  <2>4. QED BY <2>1, <2>2, <2>3
<1>8. InUse' = InUse \ {imp}
  BY <1>4, <1>7 DEF InUse
<1> HIDE DEF imp
<1>9. /\ items' \in [Node -> Seq(Node)]
      /\ items'[Current] = items[Current] \o items[imp]
      /\ \A n \in Node : n # Current => items'[n] = items[n]
  BY <1>3, <1>4, <1>5, <1>6
<1>10. QED BY <1>1, <1>2, <1>3, <1>8, <1>9 DEF SpliceEffect, imp

LEMMA SpliceLists ==
  ASSUME IInv, NEW imp, SpliceEffect(imp)
  PROVE  /\ Listed(items'[Current]) = Listed(items[Current]) \cup Listed(items[imp])
         /\ NoRepeat(items'[Current])
<1>1. items[Current] \in Seq(Node) /\ items[imp] \in Seq(Node)
      /\ items'[Current] = items[Current] \o items[imp]
  BY DEF SpliceEffect, IInv, TypeOK, InUse
<1>2. NoRepeat(items[Current]) /\ NoRepeat(items[imp])
      /\ Listed(items[Current]) \cap Listed(items[imp]) = {}
  BY DEF SpliceEffect, IInv, ListsDisjoint
<1>3. QED BY <1>1, <1>2, JoinFacts

\* The module's own items join those it imported.
OwnEffect ==
  /\ Current \in InUse /\ Current \in Node /\ Parsing /\ phase = "items"
  /\ spliced = Len(program.imports[Current])
  /\ ~ Taken(Current) /\ program.kind[Current] = "Module"
  /\ items' \in [Node -> Seq(Node)]
  /\ items'[Current] = items[Current] \o program.inside[Current]
  /\ \A n \in Node : n # Current => items'[n] = items[n]
  /\ InUse' = InUse
  /\ Listed(items'[Current]) = Listed(items[Current]) \cup Listed(program.inside[Current])
  /\ NoRepeat(items'[Current])

LEMMA OwnFacts ==
  ASSUME IInv, OwnItems
  PROVE  OwnEffect
<1>1. TypeOK /\ program \in Programs /\ Splicing /\ Levels /\ Parsing /\ phase = "items"
      /\ spliced = Len(program.imports[Current])
  BY DEF IInv, OwnItems
<1>2. Current \in Node /\ Current \in InUse /\ program.kind[Current] = "Module"
      /\ program.inside[Current] \in Seq(Node)
      /\ done \in Nat /\ done + 1 \in 1 .. Len(program.order)
  BY <1>1, CurrentFacts, CurrentInUse
<1>3. ~ Taken(Current)
  <2>1. SUFFICES ASSUME NEW k \in 1 .. Len(program.order), program.order[k] = Current, k <= done
                 PROVE  FALSE
    BY <1>1 DEF Taken
  <2>2. k # done + 1 /\ program.order[done + 1] = Current
    BY <1>2, <2>1 DEF Current
  <2>3. QED BY <1>1, <1>2, <2>1, <2>2, ProgramFacts DEF ImportedOnce, NoRepeat
<1>4. /\ items' = [items EXCEPT ![Current] = @ \o program.inside[Current]]
      /\ UNCHANGED <<program, freed, done, spliced>>
  BY DEF OwnItems
<1>5. items \in [Node -> Seq(Node)]
  BY <1>1 DEF TypeOK
<1>6. items[Current] \in Seq(Node) /\ items[Current] \o program.inside[Current] \in Seq(Node)
  BY <1>2, <1>5
<1>7. /\ items' \in [Node -> Seq(Node)]
      /\ items'[Current] = items[Current] \o program.inside[Current]
      /\ \A n \in Node : n # Current => items'[n] = items[n]
  BY <1>2, <1>4, <1>5, <1>6
<1>8. InUse' = InUse
  BY <1>4 DEF InUse, Spliced, Parsing, Current
<1>9. NoRepeat(items[Current]) /\ NoRepeat(program.inside[Current])
      /\ Listed(items[Current]) \cap Listed(program.inside[Current]) = {}
  BY <1>1, <1>2, <1>3, ProgramFacts DEF IInv, ListsDisjoint, OwnItemsWaiting, WrittenOnce
<1>10. /\ Listed(items'[Current]) = Listed(items[Current]) \cup Listed(program.inside[Current])
       /\ NoRepeat(items'[Current])
  BY <1>2, <1>6, <1>7, <1>9, JoinFacts
<1>11. QED BY <1>1, <1>2, <1>3, <1>7, <1>8, <1>10 DEF OwnEffect

\* A list is regrouped.
ReorderEffect(o) ==
  /\ o \in InUse /\ o = Top.owner
  /\ items' \in [Node -> Seq(Node)]
  /\ items'[o] = Grouped(items[o])
  /\ Listed(items'[o]) = Listed(items[o]) /\ NoRepeat(items'[o])
  /\ \A n \in Node : n # o => items'[n] = items[n]
  /\ InUse' = InUse

LEMMA ReorderFacts ==
  ASSUME IInv, calls # <<>>, Reorder
  PROVE  ReorderEffect(Top.owner)
<1> DEFINE o == Top.owner
<1>1. /\ items' = [items EXCEPT ![o] = Grouped(@)]
      /\ UNCHANGED <<program, freed, done, spliced>>
  BY DEF Reorder
<1>2. o \in Node /\ o \in InUse /\ items[o] \in Seq(Node) /\ NoRepeat(items[o])
      /\ items \in [Node -> Seq(Node)]
  BY TopFacts DEF IInv, TypeOK
<1>3. program.kind \in [Node -> Kind] /\ \A x \in Listed(items[o]) : program.kind[x] # "Module"
  BY <1>2, ProgramFacts DEF IInv, Levels
<1>4. Grouped(items[o]) \in Seq(Node) /\ Listed(Grouped(items[o])) = Listed(items[o])
      /\ NoRepeat(Grouped(items[o]))
  BY <1>2, <1>3, GroupedFacts
<1> HIDE DEF o
<1>5. /\ items' \in [Node -> Seq(Node)]
      /\ items'[o] = Grouped(items[o])
      /\ \A n \in Node : n # o => items'[n] = items[n]
  BY <1>1, <1>2, <1>4
<1>6. InUse' = InUse
  BY <1>1 DEF InUse, Spliced, Parsing, Current
<1>7. QED BY <1>2, <1>4, <1>5, <1>6 DEF ReorderEffect, o
-----------------------------------------------------------------------------
(***************************************************************************)
(* The lists: each step keeps what the invariant says of them.             *)
(***************************************************************************)
Lists == Levels /\ ListsDisjoint /\ OwnItemsWaiting

\* A step that only changes the calls leaves the lists as they are.
LEMMA ListsKept ==
  ASSUME IInv, UNCHANGED <<program, items, freed, done, spliced>>,
         phase # "items", phase' # "items"
  PROVE  Lists' /\ InUse' = InUse /\ Splicing'
<1>1. InUse' = InUse /\ Parsing' = Parsing /\ Current' = Current
  BY DEF InUse, Spliced, Parsing, Current
<1>2. \A m : Taken(m)' = Taken(m)
  BY DEF Taken
<1>3. Splicing'
  BY <1>1 DEF IInv, Splicing, Calls
<1>4. Levels'
  BY DEF IInv, Levels, IsNamespace
<1>5. ListsDisjoint'
  BY <1>1 DEF IInv, ListsDisjoint
<1>6. OwnItemsWaiting'
  BY <1>1, <1>2 DEF IInv, OwnItemsWaiting
<1>7. QED BY <1>1, <1>3, <1>4, <1>5, <1>6 DEF Lists

LEMMA MergeKeepsLists ==
  ASSUME IInv, calls # <<>>, NEW j \in Nat, Merge(j)
  PROVE  Lists' /\ items' \in [Node -> Seq(Node)] /\ freed' \subseteq Node
<1>1. PICK o, orig, dup : MergeEffect(o, orig, dup, j)
  BY MergeFacts
<1>2. /\ orig \in Listed(items[o]) /\ dup \in Listed(items[o])
      /\ Listed(items'[o]) = Listed(items[o]) \ {dup} /\ NoRepeat(items'[o])
      /\ Listed(items'[orig]) = Listed(items[orig]) \cup Listed(items[dup])
      /\ NoRepeat(items'[orig])
  BY <1>1, MergeLists
<1>3. /\ o \in InUse /\ orig \in InUse /\ dup \in InUse
      /\ orig # o /\ dup # o /\ orig # dup
      /\ items' \in [Node -> Seq(Node)]
      /\ \A n \in Node : n # o /\ n # orig => items'[n] = items[n]
      /\ freed' = freed \cup {dup} /\ InUse' = InUse \ {dup}
      /\ IsNamespace(orig) /\ IsNamespace(dup)
  BY <1>1 DEF MergeEffect, SameNamespace
<1>4. InUse \subseteq Node
  BY DEF InUse
<1>5. UNCHANGED <<program, done, spliced, phase>>
  BY DEF Merge
<1>6. \A m : Taken(m)' = Taken(m)
  BY <1>5 DEF Taken
<1>7. Levels'
  <2>1. ASSUME NEW n \in Node, NEW x \in Listed(items'[n])
        PROVE  /\ program.kind[n] \in {"Namespace", "Module"} /\ program.kind[x] # "Module"
               /\ program.level[x] = program.level[n] + 1
    <3>1. CASE n = orig
      <4>1. x \in Listed(items[orig]) \/ x \in Listed(items[dup])
        BY <1>2, <2>1, <3>1
      <4>2. program.level[dup] = program.level[orig]
        BY <1>2, <1>3, <1>4 DEF IInv, Levels
      <4>3. QED BY <1>3, <1>4, <3>1, <4>1, <4>2 DEF IInv, Levels, IsNamespace
    <3>2. CASE n # orig
      <4>1. x \in Listed(items[n])
        BY <1>2, <1>3, <2>1, <3>2
      <4>2. QED BY <4>1 DEF IInv, Levels
    <3>3. QED BY <3>1, <3>2
  <2>2. \A x \in freed' : program.kind[x] = "Namespace"
    BY <1>3 DEF IInv, Levels, IsNamespace
  <2>3. QED BY <1>5, <2>1, <2>2 DEF Levels, IsNamespace
<1>8. ListsDisjoint'
  <2>1. ASSUME NEW n \in InUse'
        PROVE  NoRepeat(items'[n]) /\ Listed(items'[n]) \cap freed' = {}
    <3>1. n \in InUse /\ n # dup /\ n \in Node
      BY <1>3, <1>4
    <3>2. NoRepeat(items'[n])
      BY <1>2, <1>3, <3>1 DEF IInv, ListsDisjoint
    <3>3. Listed(items'[n]) \cap freed = {}
      BY <1>2, <1>3, <3>1 DEF IInv, ListsDisjoint
    <3>4. dup \notin Listed(items'[n])
      BY <1>2, <1>3, <3>1 DEF IInv, ListsDisjoint
    <3>5. QED BY <1>3, <3>2, <3>3, <3>4
  <2>2. ASSUME NEW m \in InUse', NEW n \in InUse', m # n, NEW x \in Listed(items'[m]),
               x \in Listed(items'[n])
        PROVE  FALSE
    <3>1. m \in InUse /\ n \in InUse /\ m # dup /\ n # dup /\ m \in Node /\ n \in Node
      BY <1>3, <1>4
    <3>2. \A k \in InUse : k # dup /\ x \in Listed(items'[k]) =>
            x \in Listed(items[k]) \/ (k = orig /\ x \in Listed(items[dup]))
      BY <1>2, <1>3, <1>4
    <3>3. QED BY <1>3, <2>2, <3>1, <3>2 DEF IInv, ListsDisjoint
  <2>3. QED BY <2>1, <2>2 DEF ListsDisjoint
<1>9. OwnItemsWaiting'
  <2>1. ASSUME NEW m \in Node, program.kind[m] = "Module", ~ Taken(m)
        PROVE  /\ Listed(program.inside[m]) \cap freed' = {}
               /\ \A n \in InUse' : Listed(program.inside[m]) \cap Listed(items'[n]) = {}
    <3>1. /\ Listed(program.inside[m]) \cap freed = {}
          /\ \A n \in InUse : Listed(program.inside[m]) \cap Listed(items[n]) = {}
      BY <2>1 DEF IInv, OwnItemsWaiting
    <3>2. \A n \in InUse' : n \in InUse /\ n \in Node
      BY <1>3, <1>4
    <3>3. dup \notin Listed(program.inside[m])
      BY <1>2, <1>3, <3>1
    <3>4. ASSUME NEW n \in InUse', NEW x \in Listed(items'[n])
          PROVE  \E k \in InUse : x \in Listed(items[k])
      <4>1. n = o => x \in Listed(items[o])
        BY <1>2, <3>4
      <4>2. n = orig => x \in Listed(items[orig]) \/ x \in Listed(items[dup])
        BY <1>2, <3>4
      <4>3. n # o /\ n # orig => x \in Listed(items[n])
        BY <1>3, <3>2, <3>4
      <4>4. n \in InUse /\ o \in InUse /\ orig \in InUse /\ dup \in InUse
        BY <1>3, <3>2, <3>4
      <4>5. QED BY <4>1, <4>2, <4>3, <4>4
    <3>5. Listed(program.inside[m]) \cap freed' = {}
      BY <1>3, <3>1, <3>3
    <3>6. ASSUME NEW n \in InUse' PROVE Listed(program.inside[m]) \cap Listed(items'[n]) = {}
      BY <3>1, <3>4, <3>6
    <3>7. QED BY <3>5, <3>6
  <2>2. QED BY <1>5, <1>6, <2>1 DEF OwnItemsWaiting
<1>10. items' \in [Node -> Seq(Node)] /\ freed' \subseteq Node
  BY <1>3, <1>4 DEF IInv, TypeOK
<1>11. QED BY <1>7, <1>8, <1>9, <1>10 DEF Lists

LEMMA SpliceKeepsLists ==
  ASSUME IInv, SpliceModule
  PROVE  Lists' /\ items' \in [Node -> Seq(Node)] /\ Splicing'
<1>1. PICK imp : SpliceEffect(imp)
  BY SpliceFacts
<1>2. /\ Listed(items'[Current]) = Listed(items[Current]) \cup Listed(items[imp])
      /\ NoRepeat(items'[Current])
  BY <1>1, SpliceLists
<1>3. /\ imp \in InUse /\ Current \in InUse /\ imp # Current /\ Parsing /\ phase = "items"
      /\ program.level[imp] = 0 /\ program.level[Current] = 0
      /\ items' \in [Node -> Seq(Node)]
      /\ \A n \in Node : n # Current => items'[n] = items[n]
      /\ InUse' = InUse \ {imp}
  BY <1>1 DEF SpliceEffect
<1>12. program.kind[Current] = "Module"
  BY <1>3, CurrentFacts DEF IInv
<1>4. InUse \subseteq Node
  BY DEF InUse
<1>5. UNCHANGED <<program, freed, done, phase>> /\ spliced' = spliced + 1
      /\ spliced < Len(program.imports[Current])
  BY DEF SpliceModule
<1>6. \A m : Taken(m)' = Taken(m)
  BY <1>5 DEF Taken
<1>7. Levels'
  <2>1. ASSUME NEW n \in Node, NEW x \in Listed(items'[n])
        PROVE  /\ program.kind[n] \in {"Namespace", "Module"} /\ program.kind[x] # "Module"
               /\ program.level[x] = program.level[n] + 1
    <3>1. CASE n = Current
      <4>1. x \in Listed(items[Current]) \/ x \in Listed(items[imp])
        BY <1>2, <2>1, <3>1
      <4>2. QED BY <1>3, <1>4, <1>12, <3>1, <4>1 DEF IInv, Levels
    <3>2. CASE n # Current
      <4>1. x \in Listed(items[n])
        BY <1>3, <2>1, <3>2
      <4>2. QED BY <4>1 DEF IInv, Levels
    <3>3. QED BY <3>1, <3>2
  <2>2. \A x \in freed' : program.kind[x] = "Namespace"
    BY <1>5 DEF IInv, Levels, IsNamespace
  <2>3. QED BY <1>5, <2>1, <2>2 DEF Levels, IsNamespace
<1>8. ListsDisjoint'
  <2>1. ASSUME NEW n \in InUse'
        PROVE  NoRepeat(items'[n]) /\ Listed(items'[n]) \cap freed' = {}
    <3>1. n \in InUse /\ n # imp /\ n \in Node
      BY <1>3, <1>4
    <3>2. NoRepeat(items'[n])
      BY <1>2, <1>3, <3>1 DEF IInv, ListsDisjoint
    <3>3. Listed(items'[n]) \cap freed = {}
      BY <1>2, <1>3, <3>1 DEF IInv, ListsDisjoint
    <3>4. QED BY <1>5, <3>2, <3>3
  <2>2. ASSUME NEW m \in InUse', NEW n \in InUse', m # n, NEW x \in Listed(items'[m]),
               x \in Listed(items'[n])
        PROVE  FALSE
    <3>1. m \in InUse /\ n \in InUse /\ m # imp /\ n # imp /\ m \in Node /\ n \in Node
      BY <1>3, <1>4
    <3>2. \A k \in InUse : k # imp /\ x \in Listed(items'[k]) =>
            x \in Listed(items[k]) \/ (k = Current /\ x \in Listed(items[imp]))
      BY <1>2, <1>3, <1>4
    <3>3. QED BY <1>3, <2>2, <3>1, <3>2 DEF IInv, ListsDisjoint
  <2>3. QED BY <2>1, <2>2 DEF ListsDisjoint
<1>9. OwnItemsWaiting'
  <2>1. ASSUME NEW m \in Node, program.kind[m] = "Module", ~ Taken(m)
        PROVE  /\ Listed(program.inside[m]) \cap freed' = {}
               /\ \A n \in InUse' : Listed(program.inside[m]) \cap Listed(items'[n]) = {}
    <3>1. /\ Listed(program.inside[m]) \cap freed = {}
          /\ \A n \in InUse : Listed(program.inside[m]) \cap Listed(items[n]) = {}
      BY <2>1 DEF IInv, OwnItemsWaiting
    <3>2. \A n \in InUse' : n \in InUse /\ n \in Node
      BY <1>3, <1>4
    <3>3. \A n \in InUse' : \A x \in Listed(items'[n]) :
            \E k \in InUse : x \in Listed(items[k])
      BY <1>2, <1>3, <3>2
    <3>4. QED BY <1>5, <3>1, <3>3
  <2>2. QED BY <1>5, <1>6, <2>1 DEF OwnItemsWaiting
<1>10. Splicing'
  <2>1. Parsing' /\ Current' = Current
    BY <1>3, <1>5 DEF Parsing, Current
  <2>2. spliced \in Nat /\ Len(program.imports[Current]) \in Nat
    BY <1>3, CurrentFacts DEF IInv, TypeOK
  <2>3. QED BY <1>3, <1>5, <2>1, <2>2 DEF Splicing
<1>11. QED BY <1>3, <1>7, <1>8, <1>9, <1>10 DEF Lists

LEMMA OwnKeepsLists ==
  ASSUME IInv, OwnItems
  PROVE  Lists' /\ items' \in [Node -> Seq(Node)] /\ InUse' = InUse /\ Splicing'
<1>1. OwnEffect
  BY OwnFacts
<1>2. /\ Current \in InUse /\ Current \in Node /\ program.kind[Current] = "Module" /\ ~ Taken(Current)
      /\ Parsing /\ phase = "items" /\ spliced = Len(program.imports[Current])
      /\ items' \in [Node -> Seq(Node)]
      /\ \A n \in Node : n # Current => items'[n] = items[n]
      /\ InUse' = InUse
      /\ Listed(items'[Current]) = Listed(items[Current]) \cup Listed(program.inside[Current])
      /\ NoRepeat(items'[Current])
  BY <1>1 DEF OwnEffect
<1>3. InUse \subseteq Node /\ WrittenOnce(program)
  BY ProgramFacts DEF InUse, IInv
<1>4. UNCHANGED <<program, freed, done, spliced>> /\ phase' = "merge"
  BY DEF OwnItems
<1>5. \A m : ~ Taken(m)' => ~ Taken(m) /\ m # Current
  <2>1. done \in Nat /\ done + 1 \in 1 .. Len(program.order) /\ Current = program.order[done + 1]
    BY <1>2, CurrentFacts DEF IInv, Current
  <2>2. QED BY <1>2, <1>4, <2>1 DEF Taken
<1>6. Levels'
  <2>1. ASSUME NEW n \in Node, NEW x \in Listed(items'[n])
        PROVE  /\ program.kind[n] \in {"Namespace", "Module"} /\ program.kind[x] # "Module"
               /\ program.level[x] = program.level[n] + 1
    <3>1. CASE n = Current
      <4>1. x \in Listed(items[Current]) \/ x \in Listed(program.inside[Current])
        BY <1>2, <2>1, <3>1
      <4>2. QED BY <1>2, <1>3, <3>1, <4>1 DEF IInv, Levels, WrittenOnce
    <3>2. CASE n # Current
      <4>1. x \in Listed(items[n])
        BY <1>2, <2>1, <3>2
      <4>2. QED BY <4>1 DEF IInv, Levels
    <3>3. QED BY <3>1, <3>2
  <2>2. \A x \in freed' : program.kind[x] = "Namespace"
    BY <1>4 DEF IInv, Levels, IsNamespace
  <2>3. QED BY <1>4, <2>1, <2>2 DEF Levels, IsNamespace
<1>7. /\ Listed(program.inside[Current]) \cap freed = {}
      /\ \A n \in InUse : Listed(program.inside[Current]) \cap Listed(items[n]) = {}
  BY <1>2 DEF IInv, OwnItemsWaiting
<1>8. ListsDisjoint'
  <2>1. ASSUME NEW n \in InUse
        PROVE  NoRepeat(items'[n]) /\ Listed(items'[n]) \cap freed = {}
    BY <1>2, <1>3, <1>7 DEF IInv, ListsDisjoint
  <2>2. ASSUME NEW m \in InUse, NEW n \in InUse, m # n, NEW x \in Listed(items'[m]),
               x \in Listed(items'[n])
        PROVE  FALSE
    <3>1. \A k \in InUse : x \in Listed(items'[k]) =>
            x \in Listed(items[k]) \/ (k = Current /\ x \in Listed(program.inside[Current]))
      BY <1>2, <1>3
    <3>2. QED BY <1>7, <2>2, <3>1 DEF IInv, ListsDisjoint
  <2>3. QED BY <1>2, <1>4, <2>1, <2>2 DEF ListsDisjoint
<1>9. OwnItemsWaiting'
  <2>1. ASSUME NEW m \in Node, program.kind[m] = "Module", ~ Taken(m)'
        PROVE  /\ Listed(program.inside[m]) \cap freed = {}
               /\ \A n \in InUse : Listed(program.inside[m]) \cap Listed(items'[n]) = {}
    <3>1. /\ Listed(program.inside[m]) \cap freed = {}
          /\ \A n \in InUse : Listed(program.inside[m]) \cap Listed(items[n]) = {}
      BY <1>5, <2>1 DEF IInv, OwnItemsWaiting
    <3>2. Listed(program.inside[m]) \cap Listed(program.inside[Current]) = {}
      BY <1>2, <1>3, <1>5, <2>1 DEF WrittenOnce
    <3>3. \A n \in InUse : \A x \in Listed(items'[n]) :
            x \in Listed(items[n]) \/ x \in Listed(program.inside[Current])
      BY <1>2, <1>3
    <3>4. QED BY <3>1, <3>2, <3>3
  <2>2. QED BY <1>2, <1>4, <2>1 DEF OwnItemsWaiting
<1>10. Splicing'
  <2>1. Parsing' /\ Current' = Current
    BY <1>2, <1>4 DEF Parsing, Current
  <2>2. Len(program.imports[Current]) \in Nat
    BY <1>2, CurrentFacts DEF IInv
  <2>3. QED BY <1>2, <1>4, <2>1, <2>2 DEF Splicing
<1>11. QED BY <1>2, <1>6, <1>8, <1>9, <1>10 DEF Lists

LEMMA ReorderKeepsLists ==
  ASSUME IInv, calls # <<>>, Reorder
  PROVE  Lists' /\ items' \in [Node -> Seq(Node)] /\ InUse' = InUse /\ Splicing'
<1>1. PICK o : ReorderEffect(o)
  BY ReorderFacts
<1>2. /\ o \in InUse /\ items' \in [Node -> Seq(Node)]
      /\ \A n \in Node : Listed(items'[n]) = Listed(items[n])
      /\ \A n \in InUse : NoRepeat(items'[n])
      /\ InUse' = InUse
  BY <1>1 DEF ReorderEffect, IInv, ListsDisjoint, InUse
<1>3. UNCHANGED <<program, freed, done, spliced, phase>>
  BY DEF Reorder
<1>4. \A m : Taken(m)' = Taken(m)
  BY <1>3 DEF Taken
<1>5. Levels'
  BY <1>2, <1>3 DEF IInv, Levels, IsNamespace
<1>6. ListsDisjoint'
  <2>1. InUse \subseteq Node
    BY DEF InUse
  <2>2. QED BY <1>2, <1>3, <2>1 DEF IInv, ListsDisjoint
<1>7. OwnItemsWaiting'
  <2>1. InUse \subseteq Node
    BY DEF InUse
  <2>2. QED BY <1>2, <1>3, <1>4, <2>1 DEF IInv, OwnItemsWaiting
<1>8. Splicing'
  BY <1>3 DEF IInv, Splicing, Parsing, Current
<1>9. QED BY <1>2, <1>5, <1>6, <1>7, <1>8 DEF Lists

\* The module is returned.
LEMMA ReturnKeepsLists ==
  ASSUME IInv, UNCHANGED <<program, items, freed>>, Parsing, phase # "items",
         done' = done + 1, spliced' = 0, phase' = "items"
  PROVE  Lists' /\ InUse' = InUse /\ Splicing' /\ done' \in 0 .. Len(program.order)
<1>1. TypeOK /\ program \in Programs /\ Splicing /\ spliced = Len(program.imports[Current])
  BY DEF IInv, Splicing
<1>2. done \in Nat /\ done + 1 \in 1 .. Len(program.order) /\ program.order[done + 1] = Current
      /\ Len(program.order) \in Nat
      /\ program.imports[Current] \in Seq(Node) /\ Len(program.imports[Current]) \in Nat
  BY <1>1, CurrentFacts, ProgramFacts DEF Current
<1>3. Spliced' = Spliced
  <2> DEFINE A(n) == UNION {Listed(program.imports[program.order[i]]) : i \in 1 .. n}
             B == {program.imports[Current][i] : i \in 1 .. spliced}
  <2>1. Spliced = A(done) \cup B
    BY DEF Spliced
  <2>2. Spliced' = A(done + 1)
    <3>1. (IF Parsing THEN {program.imports[Current][i] : i \in 1 .. spliced} ELSE {})' = {}
      <4>1. {(program.imports[Current][i])' : i \in 1 .. 0} = {}
        OBVIOUS
      <4>2. QED BY <4>1
    <3>2. Spliced' = A(done + 1) \cup
                     (IF Parsing THEN {program.imports[Current][i] : i \in 1 .. spliced} ELSE {})'
      BY DEF Spliced
    <3>3. QED BY <3>1, <3>2
  <2>3. B = Listed(program.imports[program.order[done + 1]])
    BY <1>1, <1>2 DEF Listed
  <2>4. A(done + 1) = A(done) \cup Listed(program.imports[program.order[done + 1]])
    <3>1. \A i : i \in 1 .. done + 1 <=> i \in 1 .. done \/ i = done + 1
      BY <1>2
    <3>2. QED BY <3>1
  <2> HIDE DEF A, B
  <2>5. QED BY <2>1, <2>2, <2>3, <2>4
<1>4. InUse' = InUse
  BY <1>3 DEF InUse
<1>5. \A m : Taken(m)' = Taken(m)
  <2>1. \A k \in 1 .. Len(program.order) :
           k <= done \/ (k = done + 1 /\ phase # "items")
             <=> k <= done + 1 \/ (k = (done + 1) + 1 /\ phase' # "items")
    BY <1>2
  <2>2. QED BY <2>1 DEF Taken
<1>6. Levels'
  BY DEF IInv, Levels, IsNamespace
<1>7. ListsDisjoint'
  BY <1>4 DEF IInv, ListsDisjoint
<1>8. OwnItemsWaiting'
  BY <1>4, <1>5 DEF IInv, OwnItemsWaiting
<1>9. Splicing' /\ done' \in 0 .. Len(program.order)
  <2>1. done' \in 0 .. Len(program.order)
    BY <1>2
  <2>2. ASSUME Parsing' PROVE 0 <= Len(program.imports[Current'])
    <3>1. program.order \in Seq(Node) /\ (done + 1) + 1 \in 1 .. Len(program.order)
      BY <1>1, <1>2, <2>2, ProgramFacts DEF Parsing
    <3>2. Current' = program.order[(done + 1) + 1] /\ Current' \in Node
      BY <3>1 DEF Current
    <3>3. program.imports[Current'] \in Seq(Node)
      BY <1>1, <3>2, ProgramFacts
    <3>4. QED BY <3>3
  <2>3. QED BY <2>1, <2>2 DEF Splicing
<1>10. QED BY <1>4, <1>6, <1>7, <1>8, <1>9 DEF Lists
-----------------------------------------------------------------------------
(***************************************************************************)
(* The calls: each step keeps what the invariant says of them.             *)
(***************************************************************************)

\* The call under way goes on, on its own list; the lists of the calls around
\* it are not touched.
LEMMA CallsGoOn ==
  ASSUME IInv, calls # <<>>, UNCHANGED <<program, done, phase>>,
         NEW c \in Call, Continue(c), c.owner = Top.owner, c.i > 0,
         \A k \in 1 .. Len(calls) : calls[k].owner \in InUse',
         \A k \in 1 .. Len(calls) - 1 : items'[calls[k].owner] = items[calls[k].owner]
  PROVE  /\ calls' \in Seq(Call) /\ Calls'
         /\ \A k \in 1 .. Len(calls') - 1 :
               calls'[k] = calls[k] /\ items'[calls'[k].owner] = items[calls[k].owner]
<1> DEFINE n == Len(calls)
<1>1. /\ n \in Nat /\ n \in 1 .. n /\ Top = calls[n] /\ calls \in Seq(Call) /\ phase # "items"
      /\ Parsing
  BY TopFacts
<1>2. /\ calls' \in Seq(Call) /\ Len(calls') = n /\ calls' # <<>> /\ calls'[n] = c
      /\ \A k \in 1 .. n : k # n => calls'[k] = calls[k]
  BY <1>1, ContinueFacts
<1>3. \A k \in 1 .. n - 1 : k \in 1 .. n /\ k # n /\ k + 1 \in 1 .. n
  BY <1>1
<1> HIDE DEF n
<1>4. \A k \in 1 .. n : calls'[k].owner = calls[k].owner /\ calls'[k].i > 0
  BY <1>1, <1>2 DEF IInv, Calls, n
<1>5. \A k \in 1 .. n - 1 :
        calls'[k] = calls[k] /\ items'[calls'[k].owner] = items[calls[k].owner]
  BY <1>2, <1>3 DEF n
<1>6. Current' = Current /\ 1 \in 1 .. n
  BY <1>1 DEF Current
<1>7. calls'[1].owner = Current'
  BY <1>4, <1>6 DEF IInv, Calls
<1>8. \A k \in 1 .. n : calls'[k].i > 0 /\ calls'[k].owner \in InUse'
  BY <1>4 DEF n
<1>9. \A k \in 1 .. n - 1 :
        /\ calls'[k].at = "inner"
        /\ calls'[k].i - 1 \in 1 .. Len(items'[calls'[k].owner])
        /\ items'[calls'[k].owner][calls'[k].i - 1] = calls'[k + 1].owner
        /\ program.kind[calls'[k + 1].owner] = "Namespace"
  <2>1. \A k \in 1 .. n - 1 :
          /\ calls[k].at = "inner"
          /\ calls[k].i - 1 \in 1 .. Len(items[calls[k].owner])
          /\ items[calls[k].owner][calls[k].i - 1] = calls[k + 1].owner
          /\ program.kind[calls[k + 1].owner] = "Namespace"
    BY DEF IInv, Calls, n, IsNamespace
  <2>2. \A k \in 1 .. n - 1 : calls'[k + 1].owner = calls[k + 1].owner
    BY <1>3, <1>4
  <2>3. QED BY <1>5, <2>1, <2>2
<1>10. \A k, l \in 1 .. n : calls'[k].owner = calls'[l].owner => k = l
  <2>1. \A k, l \in 1 .. n : calls[k].owner = calls[l].owner => k = l
    BY DEF IInv, Calls, n
  <2>2. QED BY <1>4, <2>1
<1>11. Calls'
  BY <1>1, <1>2, <1>7, <1>8, <1>9, <1>10 DEF Calls, IsNamespace
<1>12. QED BY <1>2, <1>5, <1>11

\* What its list must be for the scan to have got there.
ScanAt(s, c) ==
  /\ c.turn = 2 => ~c.again
  /\ phase = "reorder" => c.turn = 1 /\ ~c.again
  /\ phase = "merge" /\ c.at = "first" => CleanTo(s, c.i - 1)
  /\ phase = "merge" /\ (c.at = "inner" \/ c.turn = 2) => CleanTo(s, Len(s))

LEMMA ScansAt ==
  IInv => \A k \in 1 .. Len(calls) : ScanAt(items[calls[k].owner], calls[k])
BY DEF IInv, Scans, RestartIsIdle, ScanAt

LEMMA ScansGoOn ==
  ASSUME IInv, UNCHANGED <<program, phase>>,
         \A k \in 1 .. Len(calls') : ScanAt(items'[calls'[k].owner], calls'[k])
  PROVE  Scans'
BY DEF Scans, RestartIsIdle, ScanAt, CleanTo, SameNamespace, IsNamespace

\* The calls around the one under way are on other lists than it.
LEMMA AroundFacts ==
  ASSUME IInv, calls # <<>>
  PROVE  \A k \in 1 .. Len(calls) - 1 :
           /\ k \in 1 .. Len(calls) /\ k # Len(calls)
           /\ calls[k].owner \in Node /\ calls[k].owner \in InUse
           /\ calls[k].owner # Top.owner
<1>1. \A k \in 1 .. Len(calls) - 1 : k \in 1 .. Len(calls) /\ k # Len(calls)
  BY TopFacts
<1>2. InUse \subseteq Node
  BY DEF InUse
<1>3. QED BY <1>1, <1>2, TopFacts DEF IInv, Calls

LEMMA MergeStep ==
  ASSUME IInv, NEW j \in Nat, Merge(j)
  PROVE  IInv'
<1> DEFINE c == [Top EXCEPT !.again = TRUE]
<1>1. /\ phase = "merge" /\ Top.at = "first" /\ Top.i <= Len(List) /\ Continue(c)
      /\ UNCHANGED <<program, done, spliced, phase>>
  BY DEF Merge
<1>2. calls # <<>>
  BY <1>1 DEF IInv, Calls
<1>3. PICK o, orig, dup :
        /\ MergeEffect(o, orig, dup, j)
        /\ o = Top.owner /\ orig = List[Top.i] /\ dup = List[j]
  BY <1>2, MergeFacts
<1>4. /\ Top.i \in 1 .. Len(List) /\ j \in 1 .. Len(List) /\ Top.i < j
      /\ SameNamespace(List, Top.i, j)
      /\ items'[o] = Without(items[o], j)
      /\ \A n \in Node : n # o /\ n # orig => items'[n] = items[n]
      /\ InUse' = InUse \ {dup}
  BY <1>3 DEF MergeEffect
<1>5. /\ \A k \in 1 .. Len(calls) : calls[k].owner # orig
      /\ \A k \in 1 .. Len(calls) : calls[k].owner # dup
  <2>1. IsNamespace(List[Top.i]) /\ IsNamespace(List[j])
    BY <1>4 DEF SameNamespace
  <2>2. QED BY <1>2, <1>3, <1>4, <2>1, ChildFacts
<1>6. c \in Call /\ c.owner = Top.owner /\ c.i = Top.i /\ c.i > 0 /\ c.at = "first"
      /\ c.turn = Top.turn /\ c.again = TRUE /\ Top.turn \in 1 .. 2
  <2>1. Top \in Call /\ Top.i > 0
    BY <1>2, TopFacts
  <2>2. QED BY <1>1, <2>1 DEF Call
<1>7. \A k \in 1 .. Len(calls) : calls[k].owner \in InUse'
  BY <1>4, <1>5 DEF IInv, Calls
<1>8. \A k \in 1 .. Len(calls) - 1 : items'[calls[k].owner] = items[calls[k].owner]
  BY <1>2, <1>3, <1>4, <1>5, AroundFacts
<1> HIDE DEF c
<1>9. /\ calls' \in Seq(Call) /\ Calls'
      /\ \A k \in 1 .. Len(calls') - 1 :
            calls'[k] = calls[k] /\ items'[calls'[k].owner] = items[calls[k].owner]
  BY <1>1, <1>2, <1>6, <1>7, <1>8, CallsGoOn
<1>10. Len(calls') = Len(calls) /\ calls'[Len(calls)] = c
  BY <1>1, <1>2, <1>6, TopFacts, ContinueFacts
<1>11. ScanAt(List, Top)
  BY <1>2, TopFacts, ScansAt
<1>12. Top.turn = 1
  <2>1. ASSUME Top.turn = 2 PROVE FALSE
    <3>1. CleanTo(List, Len(List))
      BY <1>1, <1>11, <2>1 DEF ScanAt
    <3>2. Top.i <= Len(List)
      BY <1>1
    <3>3. QED BY <1>4, <3>1, <3>2 DEF CleanTo
  <2>2. QED BY <1>6, <2>1
<1>13. CleanTo(Without(List, j), Top.i - 1)
  <2> DEFINE u == Without(List, j)
  <2>1. /\ List \in Seq(Node) /\ Len(List) \in Nat /\ Len(u) = Len(List) - 1
        /\ \A i \in 1 .. Len(List) - 1 : u[i] = IF i < j THEN List[i] ELSE List[i + 1]
    BY <1>2, <1>4, TopFacts, WithoutFacts
  <2>2. CleanTo(List, Top.i - 1)
    BY <1>1, <1>11 DEF ScanAt
  <2> HIDE DEF u
  <2>3. ASSUME NEW a \in 1 .. Len(u), NEW b \in 1 .. Len(u), a <= Top.i - 1, a < b,
               SameNamespace(u, a, b)
        PROVE  FALSE
    <3>1. a \in 1 .. Len(List) - 1 /\ b \in 1 .. Len(List) - 1 /\ Top.i \in Nat /\ j \in Nat
      BY <1>4, <2>1
    <3>2. a < j /\ u[a] = List[a] /\ a \in 1 .. Len(List)
      BY <1>4, <2>1, <2>3, <3>1
    <3>3. \E d \in 1 .. Len(List) : a < d /\ u[b] = List[d]
      <4>1. CASE b < j
        BY <2>1, <2>3, <3>1, <4>1
      <4>2. CASE ~ (b < j)
        <5>1. u[b] = List[b + 1] /\ b + 1 \in 1 .. Len(List) /\ a < b + 1
          BY <2>1, <2>3, <3>1, <4>2
        <5>2. QED BY <5>1
      <4>3. QED BY <4>1, <4>2
    <3>4. PICK d \in 1 .. Len(List) : a < d /\ u[b] = List[d]
      BY <3>3
    <3>5. SameNamespace(List, a, d)
      BY <2>3, <3>2, <3>4 DEF SameNamespace
    <3>6. QED BY <2>2, <2>3, <3>2, <3>4, <3>5 DEF CleanTo
  <2>4. CleanTo(u, Top.i - 1)
    BY <2>3 DEF CleanTo
  <2>5. QED BY <2>4 DEF u
<1>14. ScanAt(items'[c.owner], c)
  <2>1. items'[c.owner] = Without(List, j)
    BY <1>2, <1>3, <1>4, <1>6, TopFacts
  <2>2. QED BY <1>1, <1>6, <1>12, <1>13, <2>1 DEF ScanAt
<1>15. \A k \in 1 .. Len(calls') : ScanAt(items'[calls'[k].owner], calls'[k])
  <2>1. ASSUME NEW k \in 1 .. Len(calls')
        PROVE  ScanAt(items'[calls'[k].owner], calls'[k])
    <3>1. CASE k = Len(calls)
      BY <1>10, <1>14, <3>1
    <3>2. CASE k # Len(calls)
      <4>1. k \in 1 .. Len(calls') - 1 /\ k \in 1 .. Len(calls)
        BY <1>2, <1>10, <3>2, TopFacts
      <4>2. calls'[k] = calls[k] /\ items'[calls'[k].owner] = items[calls[k].owner]
        BY <1>9, <4>1
      <4>3. QED BY <4>1, <4>2, ScansAt
    <3>3. QED BY <3>1, <3>2
  <2>2. QED BY <2>1
<1>16. Scans'
  BY <1>1, <1>15, ScansGoOn
<1>17. Lists' /\ items' \in [Node -> Seq(Node)] /\ freed' \subseteq Node
  BY <1>2, MergeKeepsLists
<1>18. Splicing'
  BY <1>1 DEF IInv, Splicing, Parsing, Current
<1>19. TypeOK' /\ program' \in Programs
  BY <1>1, <1>9, <1>17 DEF IInv, TypeOK
<1>20. QED BY <1>9, <1>16, <1>17, <1>18, <1>19 DEF IInv, Lists

\* A step of the scan that changes no list.
LEMMA ScanStep ==
  ASSUME IInv, calls # <<>>, UNCHANGED <<program, items, freed, done, spliced, phase>>,
         NEW c \in Call, Continue(c), c.owner = Top.owner, c.i > 0, ScanAt(List, c)
  PROVE  IInv'
<1>1. phase # "items" /\ phase' # "items"
  BY TopFacts
<1>2. Lists' /\ InUse' = InUse /\ Splicing'
  BY <1>1, ListsKept
<1>3. \A k \in 1 .. Len(calls) : calls[k].owner \in InUse'
  BY <1>2 DEF IInv, Calls
<1>4. \A k \in 1 .. Len(calls) - 1 : items'[calls[k].owner] = items[calls[k].owner]
  OBVIOUS
<1>5. /\ calls' \in Seq(Call) /\ Calls'
      /\ \A k \in 1 .. Len(calls') - 1 :
            calls'[k] = calls[k] /\ items'[calls'[k].owner] = items[calls[k].owner]
  BY <1>3, <1>4, CallsGoOn
<1>6. Len(calls') = Len(calls) /\ calls'[Len(calls)] = c /\ Len(calls) \in Nat
  BY TopFacts, ContinueFacts
<1>7. ASSUME NEW k \in 1 .. Len(calls')
      PROVE  ScanAt(items'[calls'[k].owner], calls'[k])
  <2>1. CASE k = Len(calls)
    BY <1>6, <2>1, TopFacts
  <2>2. CASE k # Len(calls)
    <3>1. k \in 1 .. Len(calls') - 1 /\ k \in 1 .. Len(calls)
      BY <1>6, <2>2
    <3>2. calls'[k] = calls[k] /\ items'[calls'[k].owner] = items[calls[k].owner]
      BY <1>5, <3>1
    <3>3. QED BY <3>1, <3>2, ScansAt
  <2>3. QED BY <2>1, <2>2
<1>8. Scans'
  BY <1>7, ScansGoOn
<1>9. TypeOK' /\ program' \in Programs
  BY <1>5 DEF IInv, TypeOK
<1>10. QED BY <1>2, <1>5, <1>8, <1>9 DEF IInv, Lists

LEMMA NoDuplicateStep ==
  ASSUME IInv, NoDuplicate
  PROVE  IInv'
<1> DEFINE c == [Top EXCEPT !.i = @ + 1]
<1>1. /\ phase = "merge" /\ Top.at = "first" /\ Top.i <= Len(List) /\ Duplicates(Top.i) = {}
      /\ Continue(c) /\ UNCHANGED <<program, items, freed, done, spliced, phase>>
  BY DEF NoDuplicate
<1>2. calls # <<>>
  BY <1>1 DEF IInv, Calls
<1>3. Top \in Call /\ Top.i \in Nat /\ Top.i > 0
  BY <1>2, TopFacts
<1>4. c \in Call /\ c.owner = Top.owner /\ c.i = Top.i + 1 /\ c.i > 0 /\ c.at = "first"
      /\ c.turn = Top.turn /\ c.again = Top.again
  BY <1>1, <1>3 DEF Call
<1>5. ScanAt(List, Top)
  BY <1>2, TopFacts, ScansAt
<1>6. CleanTo(List, Top.i)
  <2>1. ASSUME NEW a \in 1 .. Len(List), NEW b \in 1 .. Len(List), a <= Top.i, a < b,
               SameNamespace(List, a, b)
        PROVE  FALSE
    <3>1. CASE a = Top.i
      <4>1. b \in Top.i + 1 .. Len(List)
        BY <1>2, <1>3, <2>1, <3>1, TopFacts
      <4>2. QED BY <1>1, <2>1, <3>1, <4>1 DEF SameNamespace, Duplicates
    <3>2. CASE a <= Top.i - 1
      BY <1>1, <1>5, <2>1, <3>2 DEF ScanAt, CleanTo
    <3>3. QED BY <1>2, <1>3, <2>1, <3>1, <3>2, TopFacts
  <2>2. QED BY <2>1 DEF CleanTo
<1> HIDE DEF c
<1>7. (Top.i + 1) - 1 = Top.i
  BY <1>3
<1>8. ScanAt(List, c)
  BY <1>1, <1>4, <1>5, <1>6, <1>7 DEF ScanAt
<1>9. QED BY <1>1, <1>2, <1>4, <1>8, ScanStep

LEMMA ScanEndsStep ==
  ASSUME IInv, ScanEnds
  PROVE  IInv'
<1> DEFINE c == IF Top.again THEN [Top EXCEPT !.i = 1, !.again = FALSE, !.turn = 2]
                ELSE [Top EXCEPT !.at = "inner", !.i = 1]
<1>1. /\ phase = "merge" /\ Top.at = "first" /\ Top.i > Len(List)
      /\ Continue(c) /\ UNCHANGED <<program, items, freed, done, spliced, phase>>
  BY DEF ScanEnds
<1>2. calls # <<>>
  BY <1>1 DEF IInv, Calls
<1>3. Top \in Call /\ Top.i \in Nat /\ Len(List) \in Nat
  BY <1>2, TopFacts
<1>4. /\ c \in Call /\ c.owner = Top.owner /\ c.i = 1
      /\ c.turn = 2 => ~c.again
  <2>1. CASE Top.again
    <3>1. c = [Top EXCEPT !.i = 1, !.again = FALSE, !.turn = 2]
      BY <2>1
    <3>2. c = [owner |-> Top.owner, at |-> Top.at, i |-> 1, again |-> FALSE, turn |-> 2]
      BY <3>1, <1>3 DEF Call
    <3>3. Top.owner \in Node /\ Top.at \in {"first", "inner"}
      BY <1>3, CallFields
    <3> HIDE DEF c
    <3>4. c \in Call
      BY <3>2, <3>3 DEF Call
    <3>5. QED BY <3>2, <3>4
  <2>2. CASE ~Top.again
    BY <1>3, <2>2 DEF Call
  <2>3. QED BY <2>1, <2>2
<1>5. CleanTo(List, Top.i - 1)
  BY <1>1, <1>2, TopFacts, ScansAt DEF ScanAt
<1>6. CleanTo(List, Len(List))
  BY <1>1, <1>3, <1>5 DEF CleanTo
<1> HIDE DEF c
<1>7. CleanTo(List, 1 - 1)
  <2>1. \A a \in 1 .. Len(List) : ~ (a <= 1 - 1)
    OBVIOUS
  <2>2. QED BY <2>1 DEF CleanTo
<1>8. ScanAt(List, c)
  BY <1>1, <1>4, <1>6, <1>7 DEF ScanAt
<1>9. QED BY <1>1, <1>2, <1>4, <1>8, ScanStep

LEMMA ReorderStep ==
  ASSUME IInv, Reorder
  PROVE  IInv'
<1> DEFINE c == [Top EXCEPT !.at = "inner"]
<1>1. /\ phase = "reorder" /\ Top.at = "first"
      /\ Continue(c) /\ UNCHANGED <<program, freed, done, spliced, phase>>
  BY DEF Reorder
<1>2. calls # <<>>
  BY <1>1 DEF IInv, Calls
<1>3. Top \in Call /\ Top.i > 0 /\ Len(calls) \in Nat
  BY <1>2, TopFacts
<1>4. c \in Call /\ c.owner = Top.owner /\ c.i = Top.i /\ c.i > 0 /\ c.at = "inner"
      /\ c.turn = Top.turn /\ c.again = Top.again
  BY <1>1, <1>3 DEF Call
<1>5. Lists' /\ items' \in [Node -> Seq(Node)] /\ InUse' = InUse /\ Splicing'
  BY <1>2, ReorderKeepsLists
<1>6. \A n \in Node : n # Top.owner => items'[n] = items[n]
  BY <1>2, ReorderFacts DEF ReorderEffect
<1>7. \A k \in 1 .. Len(calls) - 1 : items'[calls[k].owner] = items[calls[k].owner]
  BY <1>2, <1>6, AroundFacts
<1>8. \A k \in 1 .. Len(calls) : calls[k].owner \in InUse'
  BY <1>5 DEF IInv, Calls
<1> HIDE DEF c
<1>9. /\ calls' \in Seq(Call) /\ Calls'
      /\ \A k \in 1 .. Len(calls') - 1 :
            calls'[k] = calls[k] /\ items'[calls'[k].owner] = items[calls[k].owner]
  BY <1>1, <1>2, <1>4, <1>7, <1>8, CallsGoOn
<1>10. Len(calls') = Len(calls) /\ calls'[Len(calls)] = c
  BY <1>1, <1>2, <1>4, TopFacts, ContinueFacts
<1>11. ASSUME NEW k \in 1 .. Len(calls')
       PROVE  ScanAt(items'[calls'[k].owner], calls'[k])
  <2>1. CASE k = Len(calls)
    <3>1. ScanAt(List, Top)
      BY <1>2, TopFacts, ScansAt
    <3>2. QED BY <1>1, <1>4, <1>10, <2>1, <3>1 DEF ScanAt
  <2>2. CASE k # Len(calls)
    <3>1. k \in 1 .. Len(calls') - 1 /\ k \in 1 .. Len(calls)
      BY <1>3, <1>10, <2>2
    <3>2. calls'[k] = calls[k] /\ items'[calls'[k].owner] = items[calls[k].owner]
      BY <1>9, <3>1
    <3>3. QED BY <3>1, <3>2, ScansAt
  <2>3. QED BY <2>1, <2>2
<1>12. Scans'
  BY <1>1, <1>11, ScansGoOn
<1>13. TypeOK' /\ program' \in Programs
  BY <1>1, <1>5, <1>9 DEF IInv, TypeOK
<1>14. QED BY <1>5, <1>9, <1>12, <1>13 DEF IInv, Lists

\* A new call stands before its list, of which it knows nothing yet.
LEMMA NewCallFacts ==
  ASSUME NEW n \in Node
  PROVE  /\ NewCall(n) \in Call /\ NewCall(n).owner = n /\ NewCall(n).i = 1
         /\ NewCall(n).at = "first" /\ NewCall(n).turn = 1 /\ NewCall(n).again = FALSE
         /\ \A s : ScanAt(s, NewCall(n))
<1>1. /\ NewCall(n) \in Call /\ NewCall(n).owner = n /\ NewCall(n).i = 1
      /\ NewCall(n).at = "first" /\ NewCall(n).turn = 1 /\ NewCall(n).again = FALSE
  BY DEF NewCall, Call
<1>2. \A s : CleanTo(s, NewCall(n).i - 1)
  <2>1. \A s : \A a \in 1 .. Len(s) : ~ (a <= 1 - 1)
    OBVIOUS
  <2>2. NewCall(n).i - 1 = 1 - 1
    BY <1>1
  <2> HIDE DEF NewCall
  <2>3. QED BY <2>1, <2>2 DEF CleanTo
<1>3. \A s : ScanAt(s, NewCall(n))
  BY <1>1, <1>2 DEF ScanAt
<1>4. QED BY <1>1, <1>3

LEMMA DescendStep ==
  ASSUME IInv, Descend
  PROVE  IInv'
<1> DEFINE n == Len(calls)
           c == [Top EXCEPT !.i = @ + 1]
           rest == [calls EXCEPT ![n].i = @ + 1]
           x == List[Top.i]
<1>1. /\ phase \in {"merge", "reorder"} /\ Top.at = "inner" /\ Top.i <= Len(List)
      /\ calls' = IF IsNamespace(x) THEN Append(rest, NewCall(x)) ELSE rest
      /\ UNCHANGED <<program, items, freed, done, spliced, phase>>
  BY DEF Descend
<1>2. calls # <<>>
  BY <1>1 DEF IInv, Calls
<1>3. n \in Nat /\ n \in 1 .. n /\ Top = calls[n] /\ calls \in Seq(Call) /\ Top \in Call
      /\ Top.i \in Nat /\ Top.i > 0 /\ Top.i \in 1 .. Len(List)
      /\ Top.owner \in Node /\ List = items[Top.owner]
  BY <1>1, <1>2, TopFacts
<1>4. c \in Call /\ c.owner = Top.owner /\ c.i = Top.i + 1 /\ c.i > 0 /\ c.at = "inner"
      /\ c.turn = Top.turn /\ c.again = Top.again
  <2>1. Top \in Call /\ Top.i \in Nat /\ Top.i > 0 /\ Top.at = "inner"
    BY <1>1, <1>3
  <2>2. QED BY <2>1 DEF Call
<1>5. rest = [calls EXCEPT ![n] = c]
  BY <1>3
<1>6. ScanAt(List, c)
  <2>1. ScanAt(List, Top)
    BY <1>2, TopFacts, ScansAt
  <2> HIDE DEF c
  <2>2. QED BY <1>1, <1>4, <2>1 DEF ScanAt
<1> HIDE DEF c
<1>7. CASE ~ IsNamespace(x)
  <2>1. Continue(c)
    BY <1>1, <1>5, <1>7 DEF Continue
  <2> HIDE DEF rest, n
  <2>2. QED BY <1>1, <1>2, <1>4, <1>6, <2>1, ScanStep
<1>8. CASE IsNamespace(x)
  <2>1. /\ x \in Node /\ x \in InUse /\ \A k \in 1 .. n : calls[k].owner # x
    BY <1>2, <1>3, <1>8, ChildFacts
  <2>2. /\ NewCall(x) \in Call /\ NewCall(x).owner = x /\ NewCall(x).i = 1
        /\ \A s : ScanAt(s, NewCall(x))
    BY <2>1, NewCallFacts
  <2>3. /\ rest \in Seq(Call) /\ Len(rest) = n /\ rest[n] = c
        /\ \A k \in 1 .. n - 1 : rest[k] = calls[k]
    BY <1>3, <1>4, <1>5
  <2>4. calls' = Append(rest, NewCall(x))
    BY <1>1, <1>8
  <2> HIDE DEF rest
  <2>5. /\ calls' \in Seq(Call) /\ Len(calls') = n + 1
        /\ \A k \in 1 .. n : calls'[k] = rest[k]
        /\ calls'[n + 1] = NewCall(x)
    BY <1>3, <2>2, <2>3, <2>4
  <2>6. \A k \in 1 .. n - 1 : k \in 1 .. n /\ k + 1 \in 1 .. n /\ k # n
    BY <1>3
  <2>7. /\ calls'[n] = c
        /\ \A k \in 1 .. n - 1 : calls'[k] = calls[k]
    BY <1>3, <2>3, <2>5, <2>6
  <2>8. /\ \A k \in 1 .. n : calls'[k].owner = calls[k].owner /\ calls'[k].i > 0
        /\ calls'[n + 1].owner = x /\ calls'[n + 1].i = 1
    <3>1. ASSUME NEW k \in 1 .. n PROVE calls'[k].owner = calls[k].owner /\ calls'[k].i > 0
      <4>1. CASE k = n
        BY <1>3, <1>4, <2>7, <4>1
      <4>2. CASE k # n
        <5>1. k \in 1 .. n - 1
          BY <1>3, <4>2
        <5>2. QED BY <5>1, <2>6, <2>7 DEF IInv, Calls
      <4>3. QED BY <4>1, <4>2
    <3>2. QED BY <2>2, <2>5, <3>1
  <2> DEFINE m == n + 1
  <2>9. /\ m \in Nat /\ m - 1 = n /\ \A k \in 1 .. m : k \in 1 .. n \/ k = n + 1
        /\ \A k \in 1 .. n : k \in 1 .. n - 1 \/ k = n
    BY <1>3
  <2>10. Lists' /\ InUse' = InUse /\ Splicing'
    BY <1>1, ListsKept
  <2>11. \A k \in 1 .. m : calls'[k].i > 0 /\ calls'[k].owner \in InUse'
    <3>1. ASSUME NEW k \in 1 .. m PROVE calls'[k].i > 0 /\ calls'[k].owner \in InUse
      <4>1. CASE k \in 1 .. n
        BY <4>1, <2>8 DEF IInv, Calls
      <4>2. CASE k = n + 1
        <5>1. 1 > 0
          OBVIOUS
        <5>2. QED BY <4>2, <5>1, <2>1, <2>8
      <4>3. QED BY <4>1, <4>2, <2>9
    <3>2. QED BY <3>1, <2>10
  <2>12. \A k \in 1 .. n :
           /\ calls'[k].at = "inner"
           /\ calls'[k].i - 1 \in 1 .. Len(items[calls'[k].owner])
           /\ items[calls'[k].owner][calls'[k].i - 1] = calls'[k + 1].owner
           /\ IsNamespace(calls'[k + 1].owner)
    <3>1. ASSUME NEW k \in 1 .. n - 1
          PROVE  /\ calls'[k].at = "inner"
                 /\ calls'[k].i - 1 \in 1 .. Len(items[calls'[k].owner])
                 /\ items[calls'[k].owner][calls'[k].i - 1] = calls'[k + 1].owner
                 /\ IsNamespace(calls'[k + 1].owner)
      <4>1. calls'[k] = calls[k] /\ calls'[k + 1].owner = calls[k + 1].owner
        BY <2>6, <2>7, <2>8
      <4>2. QED BY <4>1 DEF IInv, Calls
    <3>2. c.i - 1 = Top.i
      BY <1>3, <1>4
    <3>3. /\ calls'[n].at = "inner"
          /\ calls'[n].i - 1 \in 1 .. Len(items[calls'[n].owner])
          /\ items[calls'[n].owner][calls'[n].i - 1] = calls'[n + 1].owner
          /\ IsNamespace(calls'[n + 1].owner)
      BY <1>3, <1>4, <1>8, <2>7, <2>8, <3>2
    <3>4. QED BY <2>9, <3>1, <3>3
  <2>13. ASSUME NEW k \in 1 .. m, NEW l \in 1 .. m, calls'[k].owner = calls'[l].owner
         PROVE  k = l
    <3>1. CASE k \in 1 .. n /\ l \in 1 .. n
      BY <3>1, <2>8, <2>13 DEF IInv, Calls
    <3>2. CASE k = n + 1 /\ l \in 1 .. n
      BY <3>2, <2>1, <2>8, <2>13
    <3>3. CASE l = n + 1 /\ k \in 1 .. n
      BY <3>3, <2>1, <2>8, <2>13
    <3>4. QED BY <2>9, <3>1, <3>2, <3>3
  <2>14. calls'[1].owner = Current' /\ calls' # <<>>
    <3>1. Current' = Current /\ 1 \in 1 .. n
      BY <1>1, <1>3 DEF Current
    <3>2. calls' # <<>>
      BY <1>3, <2>5
    <3>3. QED BY <1>2, <2>8, <3>1, <3>2 DEF IInv, Calls
  <2>15. Calls'
    <3>1. Len(calls') = m /\ Len(calls') - 1 = n
      BY <2>5, <2>9
    <3> HIDE DEF m, n
    <3>2. \A y : IsNamespace(y)' <=> IsNamespace(y)
      BY <1>1 DEF IsNamespace
    <3>3. QED BY <1>1, <2>11, <2>12, <2>13, <2>14, <3>1, <3>2 DEF Calls
  <2>16. ASSUME NEW k \in 1 .. Len(calls')
         PROVE  ScanAt(items'[calls'[k].owner], calls'[k])
    <3>1. CASE k = n + 1
      BY <2>2, <2>5, <3>1
    <3>2. CASE k = n
      BY <1>1, <1>3, <1>4, <1>6, <2>7, <3>2
    <3>3. CASE k \in 1 .. n - 1
      <4>1. calls'[k] = calls[k] /\ k \in 1 .. Len(calls)
        BY <2>6, <2>7, <3>3
      <4>2. QED BY <1>1, <4>1, ScansAt
    <3>4. QED BY <2>5, <2>9, <3>1, <3>2, <3>3
  <2>17. Scans'
    <3> HIDE DEF n
    <3>1. QED BY <1>1, <2>16, ScansGoOn
  <2>18. TypeOK' /\ program' \in Programs
    BY <1>1, <2>5 DEF IInv, TypeOK
  <2>19. QED BY <2>10, <2>15, <2>17, <2>18 DEF IInv, Lists
<1>9. QED BY <1>7, <1>8

LEMMA ReturnStep ==
  ASSUME IInv, Return
  PROVE  IInv'
<1> DEFINE n == Len(calls)
<1>1. /\ phase \in {"merge", "reorder"} /\ Top.at = "inner"
      /\ UNCHANGED <<program, items, freed>>
  BY DEF Return
<1>2. calls # <<>>
  BY <1>1 DEF IInv, Calls
<1>3. n \in Nat /\ n \in 1 .. n /\ calls \in Seq(Call) /\ Parsing /\ phase # "items"
  BY <1>2, TopFacts
<1>4. TypeOK /\ program \in Programs /\ Splicing /\ Levels
  BY DEF IInv
<1>5. CASE n > 1
  <2>1. /\ calls' = SubSeq(calls, 1, n - 1) /\ UNCHANGED <<done, spliced, phase>>
    BY <1>5 DEF Return
  <2>2. /\ calls' \in Seq(Call) /\ Len(calls') = n - 1
        /\ \A k \in 1 .. n - 1 : calls'[k] = calls[k]
    BY <1>3, <1>5, <2>1
  <2>3. /\ \A k \in 1 .. n - 1 : k \in 1 .. n
        /\ \A k \in 1 .. (n - 1) - 1 : k \in 1 .. n - 1 /\ k + 1 \in 1 .. n - 1
        /\ 1 \in 1 .. n - 1 /\ n - 1 \in Nat
    BY <1>3, <1>5
  <2>4. calls' # <<>>
    BY <2>2, <2>3
  <2>5. Lists' /\ InUse' = InUse /\ Splicing'
    BY <1>1, <1>3, <2>1, ListsKept
  <2>6. Calls'
    <3>1. Current' = Current /\ \A y : IsNamespace(y)' <=> IsNamespace(y)
      BY <1>1, <2>1 DEF Current, IsNamespace
    <3>2. calls'[1].owner = Current'
      BY <1>2, <2>2, <2>3, <3>1 DEF IInv, Calls
    <3>3. \A k \in 1 .. n - 1 : calls'[k].i > 0 /\ calls'[k].owner \in InUse'
      BY <2>2, <2>3, <2>5 DEF IInv, Calls
    <3>4. \A k \in 1 .. (n - 1) - 1 :
             /\ calls'[k].at = "inner"
             /\ calls'[k].i - 1 \in 1 .. Len(items'[calls'[k].owner])
             /\ items'[calls'[k].owner][calls'[k].i - 1] = calls'[k + 1].owner
             /\ IsNamespace(calls'[k + 1].owner)
      <4>1. \A k \in 1 .. n - 1 :
              /\ calls[k].at = "inner"
              /\ calls[k].i - 1 \in 1 .. Len(items[calls[k].owner])
              /\ items[calls[k].owner][calls[k].i - 1] = calls[k + 1].owner
              /\ IsNamespace(calls[k + 1].owner)
        BY DEF IInv, Calls
      <4>2. \A k \in 1 .. (n - 1) - 1 : calls'[k] = calls[k] /\ calls'[k + 1] = calls[k + 1]
        BY <2>2, <2>3
      <4>3. items' = items
        BY <1>1
      <4>4. QED BY <2>3, <4>1, <4>2, <4>3
    <3>5. \A k, l \in 1 .. n - 1 : calls'[k].owner = calls'[l].owner => k = l
      <4>1. \A k, l \in 1 .. n : calls[k].owner = calls[l].owner => k = l
        BY DEF IInv, Calls
      <4>2. QED BY <2>2, <2>3, <4>1
    <3>6. phase' # "items"
      BY <1>3, <2>1
    <3> HIDE DEF n
    <3>7. QED BY <2>2, <2>4, <3>1, <3>2, <3>3, <3>4, <3>5, <3>6 DEF Calls
  <2>7. ASSUME NEW k \in 1 .. Len(calls')
        PROVE  ScanAt(items'[calls'[k].owner], calls'[k])
    BY <1>1, <2>2, <2>3, ScansAt
  <2>8. Scans'
    BY <1>1, <2>1, <2>7, ScansGoOn
  <2>9. TypeOK' /\ program' \in Programs
    BY <1>1, <1>4, <2>1, <2>2 DEF TypeOK, IInv
  <2>10. QED BY <2>5, <2>6, <2>8, <2>9 DEF IInv, Lists
<1>6. CASE n = 1 /\ phase = "merge"
  <2>1. /\ calls' = <<NewCall(Current)>> /\ phase' = "reorder" /\ UNCHANGED <<done, spliced>>
    BY <1>6 DEF Return
  <2>2. Current \in Node /\ Current \in InUse
    BY <1>3, <1>4, CurrentFacts, CurrentInUse
  <2>3. /\ NewCall(Current) \in Call /\ NewCall(Current).owner = Current /\ NewCall(Current).i = 1
        /\ NewCall(Current).turn = 1 /\ NewCall(Current).again = FALSE
    BY <2>2, NewCallFacts
  <2>4. Lists' /\ InUse' = InUse /\ Splicing'
    BY <1>1, <1>3, <2>1, ListsKept
  <2>5. calls' \in Seq(Call) /\ Len(calls') = 1 /\ calls'[1] = NewCall(Current) /\ calls' # <<>>
    BY <2>1, <2>3
  <2>6. Current' = Current
    BY <1>1, <2>1 DEF Current
  <2>7. Calls'
    <3>1. \A k \in 1 .. 1 : k = 1
      OBVIOUS
    <3>2. \A k \in 1 .. 1 - 1 : FALSE
      OBVIOUS
    <3>3. 1 > 0
      OBVIOUS
    <3>4. QED BY <2>1, <2>2, <2>3, <2>4, <2>5, <2>6, <3>1, <3>2, <3>3 DEF Calls
  <2>8. Scans'
    <3>1. \A k \in 1 .. 1 : k = 1
      OBVIOUS
    <3>2. QED BY <2>1, <2>3, <2>5, <3>1 DEF Scans, RestartIsIdle
  <2>9. TypeOK' /\ program' \in Programs
    BY <1>1, <1>4, <2>1, <2>5 DEF TypeOK, IInv
  <2>10. QED BY <2>4, <2>7, <2>8, <2>9 DEF IInv, Lists
<1>7. CASE n = 1 /\ phase = "reorder"
  <2>1. calls' = <<>> /\ phase' = "items" /\ done' = done + 1 /\ spliced' = 0
    BY <1>7 DEF Return
  <2>2. Lists' /\ InUse' = InUse /\ Splicing' /\ done' \in 0 .. Len(program.order)
    BY <1>1, <1>3, <2>1, ReturnKeepsLists
  <2>3. \A k \in 1 .. Len(calls') : FALSE
    BY <2>1
  <2>4. \A k \in 1 .. Len(calls') - 1 : FALSE
    BY <2>1
  <2>5. Calls' /\ Scans'
    BY <2>1, <2>3, <2>4 DEF Calls, Scans, RestartIsIdle
  <2>6. TypeOK' /\ program' \in Programs
    <3>1. calls' \in Seq(Call) /\ spliced' \in Nat
      BY <2>1
    <3>2. program' \in Program /\ items' \in [Node -> Seq(Node)] /\ freed' \subseteq Node
      BY <1>1, <1>4 DEF TypeOK
    <3>3. done' \in 0 .. Len(program'.order) /\ program' \in Programs
      BY <1>1, <1>4, <2>2
    <3>4. phase' \in {"items", "merge", "reorder"}
      BY <2>1
    <3>5. QED BY <3>1, <3>2, <3>3, <3>4 DEF TypeOK
  <2>7. QED BY <2>2, <2>5, <2>6 DEF IInv, Lists
<1>8. n = 1 \/ n > 1
  <2> HIDE DEF n
  <2>1. QED BY <1>3
<1>9. phase = "merge" \/ phase = "reorder"
  BY <1>1
<1> HIDE DEF n
<1>10. QED BY <1>5, <1>6, <1>7, <1>8, <1>9

LEMMA SpliceStep ==
  ASSUME IInv, SpliceModule
  PROVE  IInv'
<1>1. Lists' /\ items' \in [Node -> Seq(Node)] /\ Splicing'
  BY SpliceKeepsLists
<1>2. phase = "items" /\ UNCHANGED <<program, freed, done, phase, calls>> /\ spliced' = spliced + 1
  BY DEF SpliceModule
<1>3. calls = <<>>
  BY <1>2 DEF IInv, Calls
<1>4. /\ \A k \in 1 .. Len(calls') : FALSE
      /\ \A k \in 1 .. Len(calls') - 1 : FALSE
  BY <1>2, <1>3
<1>5. Calls' /\ Scans'
  BY <1>2, <1>3, <1>4 DEF Calls, Scans, RestartIsIdle
<1>6. TypeOK' /\ program' \in Programs
  BY <1>1, <1>2 DEF TypeOK, IInv
<1>7. QED BY <1>1, <1>5, <1>6 DEF IInv, Lists

LEMMA OwnStep ==
  ASSUME IInv, OwnItems
  PROVE  IInv'
<1>1. Lists' /\ items' \in [Node -> Seq(Node)] /\ InUse' = InUse /\ Splicing'
  BY OwnKeepsLists
<1>2. /\ calls' = <<NewCall(Current)>> /\ phase' = "merge"
      /\ UNCHANGED <<program, freed, done, spliced>>
  BY DEF OwnItems
<1>3. Current \in Node /\ Current \in InUse
  BY OwnFacts DEF OwnEffect
<1>4. /\ NewCall(Current) \in Call /\ NewCall(Current).owner = Current /\ NewCall(Current).i = 1
      /\ NewCall(Current).at = "first" /\ NewCall(Current).turn = 1
      /\ NewCall(Current).again = FALSE
  BY <1>3, NewCallFacts
<1>5. calls' \in Seq(Call) /\ Len(calls') = 1 /\ calls'[1] = NewCall(Current) /\ calls' # <<>>
  BY <1>2, <1>4
<1>6. Current' = Current
  BY <1>2 DEF Current
<1>7. /\ \A k \in 1 .. 1 : k = 1
      /\ \A k \in 1 .. 1 - 1 : FALSE
      /\ 1 > 0 /\ \A s : \A a \in 1 .. Len(s) : ~ (a <= 1 - 1)
  OBVIOUS
<1>8. Calls'
  BY <1>1, <1>2, <1>3, <1>4, <1>5, <1>6, <1>7 DEF Calls
<1>9. Scans'
  BY <1>2, <1>4, <1>5, <1>7 DEF Scans, RestartIsIdle, CleanTo
<1>10. TypeOK' /\ program' \in Programs
  BY <1>1, <1>2, <1>5 DEF TypeOK, IInv
<1>11. QED BY <1>1, <1>8, <1>9, <1>10 DEF IInv, Lists

LEMMA InitIInv == Init => IInv
<1> SUFFICES ASSUME Init PROVE IInv
  OBVIOUS
<1>1. /\ program \in Programs /\ freed = {} /\ done = 0 /\ spliced = 0 /\ phase = "items"
      /\ calls = <<>>
      /\ items = [n \in Node |-> IF program.kind[n] = "Module" THEN <<>> ELSE program.inside[n]]
  BY DEF Init
<1>2. /\ program \in Program /\ Len(program.order) \in Nat /\ WrittenOnce(program)
      /\ program.inside \in [Node -> Seq(Node)] /\ program.order \in Seq(Node)
      /\ program.imports \in [Node -> Seq(Node)]
  BY <1>1, ProgramFacts
<1>3. items \in [Node -> Seq(Node)]
  BY <1>1, <1>2
<1>4. TypeOK
  BY <1>1, <1>2, <1>3 DEF TypeOK
<1>5. \A n \in Node : program.kind[n] = "Module" \/ items[n] = program.inside[n]
  BY <1>1
<1>6. \A n \in Node : program.kind[n] = "Module" => items[n] = <<>> /\ Listed(items[n]) = {}
  BY <1>1 DEF Listed
<1>7. Splicing
  <2>1. ASSUME Parsing PROVE 0 <= Len(program.imports[Current])
    <3>1. Current \in Node
      BY <1>1, <1>4, <2>1, CurrentFacts
    <3>2. QED BY <1>2, <3>1
  <2>2. QED BY <1>1, <2>1 DEF Splicing
<1>8. Levels
  BY <1>1, <1>2, <1>5, <1>6 DEF Levels, WrittenOnce
<1>9. \A n \in Node : Listed(items[n]) \subseteq Listed(program.inside[n])
  BY <1>5, <1>6
<1>10. InUse \subseteq Node
  BY DEF InUse
<1>11. ListsDisjoint
  <2>1. NoRepeat(<<>>)
    BY DEF NoRepeat
  <2>2. \A n \in Node : NoRepeat(items[n])
    BY <1>2, <1>5, <1>6, <2>1 DEF WrittenOnce
  <2>3. \A m, n \in Node : m # n => Listed(items[m]) \cap Listed(items[n]) = {}
    BY <1>2, <1>9 DEF WrittenOnce
  <2>4. QED BY <1>1, <1>10, <2>2, <2>3 DEF ListsDisjoint
<1>12. OwnItemsWaiting
  <2>1. ASSUME NEW m \in Node, program.kind[m] = "Module", NEW n \in InUse
        PROVE  Listed(program.inside[m]) \cap Listed(items[n]) = {}
    <3>1. CASE n = m
      BY <2>1, <3>1, <1>6
    <3>2. CASE n # m
      BY <2>1, <3>2, <1>2, <1>9, <1>10 DEF WrittenOnce
    <3>3. QED BY <3>1, <3>2
  <2>2. QED BY <1>1, <2>1 DEF OwnItemsWaiting
<1>13. Calls /\ Scans
  <2>1. /\ \A k \in 1 .. Len(calls) : FALSE
        /\ \A k \in 1 .. Len(calls) - 1 : FALSE
    BY <1>1
  <2>2. QED BY <1>1, <2>1 DEF Calls, Scans, RestartIsIdle
<1>14. QED BY <1>1, <1>4, <1>7, <1>8, <1>11, <1>12, <1>13 DEF IInv

LEMMA NextIInv == IInv /\ [Next]_vars => IInv'
<1> SUFFICES ASSUME IInv, [Next]_vars PROVE IInv'
  OBVIOUS
<1>1. CASE SpliceModule
  BY <1>1, SpliceStep
<1>2. CASE OwnItems
  BY <1>2, OwnStep
<1>3. ASSUME NEW j \in 1 .. Cardinality(Node), Merge(j)
      PROVE  IInv'
  <2>1. j \in Nat
    BY ProgramsAssumption, FS_CardinalityType
  <2>2. QED BY <1>3, <2>1, MergeStep
<1>4. CASE NoDuplicate
  BY <1>4, NoDuplicateStep
<1>5. CASE ScanEnds
  BY <1>5, ScanEndsStep
<1>6. CASE Reorder
  BY <1>6, ReorderStep
<1>7. CASE Descend
  BY <1>7, DescendStep
<1>8. CASE Return
  BY <1>8, ReturnStep
<1>9. CASE UNCHANGED vars
  <2>1. UNCHANGED <<program, items, freed, done, spliced, phase, calls>>
    BY <1>9 DEF vars
  <2>2. /\ InUse' = InUse /\ Parsing' = Parsing /\ Current' = Current
        /\ \A m : Taken(m)' = Taken(m)
    BY <2>1 DEF InUse, Spliced, Parsing, Current, Taken
  <2>3. TypeOK' /\ program' \in Programs
    BY <2>1 DEF IInv, TypeOK
  <2>4. Splicing' /\ Levels'
    BY <2>1, <2>2 DEF IInv, Splicing, Levels, IsNamespace
  <2>5. ListsDisjoint' /\ OwnItemsWaiting'
    BY <2>1, <2>2 DEF IInv, ListsDisjoint, OwnItemsWaiting
  <2>6. Calls'
    BY <2>1, <2>2 DEF IInv, Calls, IsNamespace
  <2>7. Scans'
    <3>1. RestartIsIdle'
      BY <2>1 DEF IInv, Scans, RestartIsIdle
    <3>2. QED BY <2>1, <3>1 DEF IInv, Scans, CleanTo, SameNamespace, IsNamespace
  <2>8. QED BY <2>3, <2>4, <2>5, <2>6, <2>7 DEF IInv
<1>10. QED BY <1>1, <1>2, <1>3, <1>4, <1>5, <1>6, <1>7, <1>8, <1>9 DEF Next
-----------------------------------------------------------------------------
(***************************************************************************)
(* What follows.                                                           *)
(***************************************************************************)

\* The inductive invariant holds in every reachable state.
THEOREM Invariant == Spec => []IInv
BY InitIInv, NextIInv, PTL DEF Spec

\* Every variable of the merging parser keeps its type.
THEOREM TypeCorrect == Spec => []TypeOK
<1>1. IInv => TypeOK
  BY DEF IInv
<1>2. QED BY <1>1, Invariant, PTL

\* merge_namespaces: no list that is still looked at, and no call under way,
\* holds a namespace that has been deleted.
THEOREM NeverUsedAfterFree == Spec => []NoUseAfterFree
<1>1. IInv => NoUseAfterFree
  BY DEF IInv, ListsDisjoint, Calls, NoUseAfterFree
<1>2. QED BY <1>1, Invariant, PTL

\* Among the lists in use a node is listed once: nothing is merged into two
\* places and nothing is deleted twice.
THEOREM EachListedOnce == Spec => []ListedOnce
<1>1. ASSUME IInv PROVE ListedOnce
  <2>1. SUFFICES ASSUME NEW m \in InUse, NEW n \in InUse,
                        NEW i \in 1 .. Len(items[m]), NEW j \in 1 .. Len(items[n]),
                        items[m][i] = items[n][j]
                 PROVE  m = n /\ i = j
    BY DEF ListedOnce
  <2>2. items[m][i] \in Listed(items[m]) /\ items[n][j] \in Listed(items[n])
    BY ListedAt
  <2>3. m = n
    BY <1>1, <2>1, <2>2 DEF IInv, ListsDisjoint
  <2>4. QED BY <1>1, <2>1, <2>3 DEF IInv, ListsDisjoint, NoRepeat
<1>2. QED BY <1>1, Invariant, PTL

\* The restart of merge_namespaces after a pass that merged something merges
\* nothing: one pass suffices, for any lists of namespaces.
THEOREM OnePassSuffices == Spec => []RestartIsIdle
<1>1. IInv => RestartIsIdle
  BY DEF IInv, Scans
<1>2. QED BY <1>1, Invariant, PTL
-----------------------------------------------------------------------------
(***************************************************************************)
(* What is below the lists: merged all the way down.                       *)
(***************************************************************************)

\* The tidy nodes are the largest tidy set.
LEMMA TidyFacts ==
  /\ Tidy(TidyNodes) /\ TidyNodes \subseteq Node
  /\ \A S \in SUBSET Node : Tidy(S) => S \subseteq TidyNodes
<1>1. ASSUME NEW n \in TidyNodes
      PROVE  /\ n \in InUse /\ n \in Node
             /\ CleanTo(items[n], Len(items[n]))
             /\ \A x \in Listed(items[n]) : IsNamespace(x) => x \in TidyNodes
  <2>1. PICK S \in SUBSET Node : Tidy(S) /\ n \in S
    BY DEF TidyNodes
  <2>2. S \subseteq TidyNodes
    BY <2>1 DEF TidyNodes
  <2>3. QED BY <2>1, <2>2 DEF Tidy
<1>2. QED BY <1>1 DEF Tidy, TidyNodes

\* What is tidy stays so while the lists below it stay as they are.
LEMMA TidyKept ==
  ASSUME UNCHANGED <<program, items>>, InUse' = InUse
  PROVE  TidyNodes' = TidyNodes
<1>1. \A S : Tidy(S)' <=> Tidy(S)
  BY DEF Tidy, CleanTo, SameNamespace, IsNamespace
<1>2. QED BY <1>1 DEF TidyNodes

\* A set that is tidy after the step.
LEMMA TidyAfter ==
  ASSUME UNCHANGED program, NEW S \in SUBSET Node,
         \A n \in S : /\ n \in InUse'
                      /\ CleanTo(items'[n], Len(items'[n]))
                      /\ \A x \in Listed(items'[n]) : IsNamespace(x) => x \in S
  PROVE  S \subseteq TidyNodes'
<1>1. Tidy(S)'
  BY DEF Tidy, CleanTo, SameNamespace, IsNamespace
<1>2. QED BY <1>1 DEF TidyNodes

\* Clean by what the list holds, whatever its order.
LEMMA CleanAnyOrder ==
  ASSUME NEW s, NEW t, Len(s) \in Nat, Len(t) \in Nat, NoRepeat(t),
         Listed(t) = Listed(s), CleanTo(s, Len(s))
  PROVE  CleanTo(t, Len(t))
<1>1. SUFFICES ASSUME NEW a \in 1 .. Len(t), NEW b \in 1 .. Len(t), a < b, SameNamespace(t, a, b)
               PROVE  FALSE
  BY DEF CleanTo
<1>2. t[a] \in Listed(s) /\ t[b] \in Listed(s)
  BY ListedAt
<1>3. PICK i \in 1 .. Len(s) : s[i] = t[a]
  BY <1>2, AtListed
<1>4. PICK j \in 1 .. Len(s) : s[j] = t[b]
  BY <1>2, AtListed
<1>5. i # j
  <2>1. a # b
    BY <1>1
  <2>2. t[a] # t[b]
    BY <2>1 DEF NoRepeat
  <2>3. QED BY <2>2, <1>3, <1>4
<1>6. i < j \/ j < i
  BY <1>5
<1>7. SameNamespace(s, i, j) /\ SameNamespace(s, j, i)
  BY <1>1, <1>3, <1>4 DEF SameNamespace
<1>8. i <= Len(s) /\ j <= Len(s)
  OBVIOUS
<1>9. QED BY <1>6, <1>7, <1>8 DEF CleanTo

\* The namespace a call is on is listed by the call around it, at one place.
LEMMA WhereCalled ==
  ASSUME IInv, NEW l \in 1 .. Len(calls), IsNamespace(calls[l].owner)
  PROVE  /\ l - 1 \in 1 .. Len(calls) /\ l - 1 \in 1 .. Len(calls) - 1
         /\ calls[l - 1].owner \in InUse
         /\ calls[l].owner \in Listed(items[calls[l - 1].owner])
         /\ \A k \in 1 .. Len(calls) : \A i \in 1 .. Len(items[calls[k].owner]) :
               items[calls[k].owner][i] = calls[l].owner
                 => k = l - 1 /\ i = calls[l - 1].i - 1
<1> DEFINE x == calls[l].owner
           p == calls[l - 1]
<1>1. calls # <<>> /\ Len(calls) \in Nat /\ l \in Nat
  BY DEF IInv, TypeOK
<1>2. l # 1
  <2>1. ASSUME l = 1 PROVE FALSE
    <3>1. calls[1].owner = Current /\ TypeOK /\ program \in Programs /\ Parsing
      BY <1>1, TopFacts DEF IInv, Calls
    <3>2. program.kind[Current] = "Module"
      BY <3>1, CurrentFacts
    <3>3. QED BY <2>1, <3>1, <3>2 DEF IsNamespace
  <2>2. QED BY <2>1
<1>3. l - 1 \in 1 .. Len(calls) /\ l - 1 \in 1 .. Len(calls) - 1 /\ (l - 1) + 1 = l
  BY <1>1, <1>2
<1>4. /\ p.owner \in InUse
      /\ p.i - 1 \in 1 .. Len(items[p.owner])
      /\ items[p.owner][p.i - 1] = x
  BY <1>3 DEF IInv, Calls
<1>5. x \in Listed(items[p.owner])
  BY <1>4, ListedAt
<1> HIDE DEF x
<1>6. ASSUME NEW k \in 1 .. Len(calls), NEW i \in 1 .. Len(items[calls[k].owner]),
             items[calls[k].owner][i] = x
      PROVE  k = l - 1 /\ i = p.i - 1
  <2>1. calls[k].owner \in InUse /\ x \in Listed(items[calls[k].owner])
    BY <1>6, ListedAt DEF IInv, Calls
  <2>2. calls[k].owner = p.owner
    <3> HIDE DEF p
    <3>1. QED BY <1>4, <1>5, <2>1 DEF IInv, ListsDisjoint
  <2>3. k = l - 1
    BY <1>3, <2>2 DEF IInv, Calls
  <2>4. NoRepeat(items[p.owner])
    BY <1>4 DEF IInv, ListsDisjoint
  <2> HIDE DEF p
  <2>5. QED BY <1>4, <1>6, <2>2, <2>3, <2>4 DEF NoRepeat
<1>7. QED BY <1>3, <1>4, <1>5, <1>6 DEF x

\* What the calls have behind them, one call and one place at a time.
Behind(k, i) ==
  /\ phase = "merge" /\ calls[k].at = "inner"
  /\ i < calls[k].i /\ (k < Len(calls) => i < calls[k].i - 1)
  /\ IsNamespace(items[calls[k].owner][i])

LEMMA MergedBehind ==
  Merged <=>
    /\ \A k \in 1 .. Len(calls) : \A i \in 1 .. Len(items[calls[k].owner]) :
          Behind(k, i) => items[calls[k].owner][i] \in TidyNodes
    /\ phase = "reorder" => Current \in TidyNodes
    /\ done > 0 /\ phase = "items" /\ spliced = 0 => program.order[done] \in TidyNodes
BY DEF Merged, Behind

LEMMA MergedAfter ==
  ASSUME \A k \in 1 .. Len(calls') : \A i \in 1 .. Len(items'[calls'[k].owner]) :
            Behind(k, i)' => items'[calls'[k].owner][i] \in TidyNodes',
         phase' = "reorder" => Current' \in TidyNodes',
         done' > 0 /\ phase' = "items" /\ spliced' = 0 => (program.order[done])' \in TidyNodes'
  PROVE  Merged'
BY DEF Merged, Behind

LEMMA MergeMerged ==
  ASSUME IInv, Merged, NEW j \in Nat, Merge(j)
  PROVE  Merged'
<1> DEFINE c == [Top EXCEPT !.again = TRUE]
           n == Len(calls)
<1>1. /\ phase = "merge" /\ Top.at = "first" /\ Continue(c)
      /\ UNCHANGED <<program, done, spliced, phase>>
  BY DEF Merge
<1>2. calls # <<>>
  BY <1>1 DEF IInv, Calls
<1>3. PICK o, orig, dup : MergeEffect(o, orig, dup, j) /\ o = Top.owner
  BY <1>2, MergeFacts
<1>4. /\ \A m \in Node : m # o /\ m # orig => items'[m] = items[m]
      /\ InUse' = InUse \ {dup} /\ o \in InUse /\ InUse \subseteq Node
      /\ orig \in Listed(items[o]) /\ dup \in Listed(items[o])
  <2>1. InUse \subseteq Node
    BY DEF InUse
  <2>2. orig \in Listed(items[o]) /\ dup \in Listed(items[o])
    BY <1>2, <1>3, MergeLists
  <2>3. QED BY <1>3, <2>1, <2>2 DEF MergeEffect
<1> DEFINE Out  == {calls[k].owner : k \in 1 .. n} \cup Listed(items[o])
           Kept == TidyNodes \ Out
<1>5. /\ n \in Nat /\ n \in 1 .. n /\ Top = calls[n] /\ Top \in Call /\ calls \in Seq(Call)
  BY <1>2, TopFacts
<1>6. o \in Out /\ orig \in Out /\ dup \in Out
  BY <1>3, <1>4, <1>5
<1>7. ASSUME NEW m \in Kept
      PROVE  /\ m \in InUse' /\ m \in Node /\ items'[m] = items[m]
             /\ CleanTo(items'[m], Len(items'[m]))
             /\ \A x \in Listed(items'[m]) : IsNamespace(x) => x \in Kept
  <2>1. m \in TidyNodes /\ m \notin Out
    BY <1>7
  <2>2. /\ m \in InUse /\ m \in Node /\ CleanTo(items[m], Len(items[m]))
        /\ \A x \in Listed(items[m]) : IsNamespace(x) => x \in TidyNodes
    BY <2>1, TidyFacts DEF Tidy
  <2>3. m # o /\ m # orig /\ m # dup
    BY <1>6, <2>1
  <2>4. m \in InUse' /\ items'[m] = items[m]
    BY <1>4, <2>2, <2>3
  <2>5. ASSUME NEW x \in Listed(items[m]), IsNamespace(x)
        PROVE  x \in Kept
    <3>1. x \in TidyNodes
      BY <2>2, <2>5
    <3>2. x \notin Listed(items[o])
      BY <1>4, <2>2, <2>3, <2>5 DEF IInv, ListsDisjoint
    <3>3. ASSUME NEW l \in 1 .. n, calls[l].owner = x PROVE FALSE
      <4>1. l - 1 \in 1 .. n /\ calls[l - 1].owner \in InUse
            /\ x \in Listed(items[calls[l - 1].owner])
        BY <2>5, <3>3, WhereCalled
      <4>2. m = calls[l - 1].owner
        BY <2>2, <2>5, <4>1 DEF IInv, ListsDisjoint
      <4>3. QED BY <2>1, <4>1, <4>2
    <3>4. QED BY <3>1, <3>2, <3>3
  <2>6. QED BY <2>2, <2>4, <2>5
<1>8. Kept \subseteq TidyNodes'
  <2>1. Kept \in SUBSET Node
    BY TidyFacts
  <2> HIDE DEF Kept
  <2>2. QED BY <1>1, <1>7, <2>1, TidyAfter
<1>9. c \in Call /\ c.owner = Top.owner /\ c.at = "first"
  BY <1>1, <1>5 DEF Call
<1>10. Len(calls') = n /\ calls'[n] = c /\ \A k \in 1 .. n : k # n => calls'[k] = calls[k]
  <2> HIDE DEF c
  <2>1. QED BY <1>1, <1>2, <1>5, <1>9, ContinueFacts
<1>11. ASSUME NEW k \in 1 .. n, NEW i \in 1 .. Len(items'[calls'[k].owner]), Behind(k, i)'
       PROVE  items'[calls'[k].owner][i] \in TidyNodes'
  <2>1. k # n
    BY <1>9, <1>10, <1>11 DEF Behind
  <2>2. calls'[k] = calls[k]
    BY <1>10, <2>1
  <2> DEFINE ow == calls[k].owner
  <2>3. k \in 1 .. n - 1 /\ ow \in Node /\ ow # o /\ ow \in InUse
    <3>1. k \in 1 .. n - 1
      BY <1>5, <2>1
    <3>2. QED BY <1>2, <1>3, <3>1, AroundFacts
  <2>4. ow # orig
    <3>1. IsNamespace(orig) /\ \E a \in 1 .. Len(List) : List[a] = orig
      BY <1>2, <1>3, MergeFacts DEF MergeEffect, SameNamespace
    <3>2. QED BY <1>2, <3>1, ChildFacts
  <2>5. items'[ow] = items[ow]
    BY <1>4, <2>3, <2>4
  <2> DEFINE x == items[ow][i]
  <2>6. Behind(k, i) /\ i \in 1 .. Len(items[ow]) /\ i < calls[k].i - 1 /\ IsNamespace(x)
    BY <1>1, <1>5, <1>10, <1>11, <2>1, <2>2, <2>3, <2>5 DEF Behind, IsNamespace
  <2>7. x \in TidyNodes
    BY <2>6, MergedBehind
  <2>8. x \notin Listed(items[o])
    <3>1. x \in Listed(items[ow])
      BY <2>6, ListedAt
    <3>2. QED BY <1>4, <2>3, <3>1 DEF IInv, ListsDisjoint
  <2>9. ASSUME NEW l \in 1 .. n, calls[l].owner = x PROVE FALSE
    <3>1. k = l - 1 /\ i = calls[l - 1].i - 1
      BY <2>6, <2>9, WhereCalled
    <3>2. calls[k] \in Call /\ calls[k].i \in Nat
      BY <1>5, CallFields
    <3>3. QED BY <2>6, <3>1, <3>2
  <2>10. x \in Kept
    BY <2>7, <2>8, <2>9
  <2>11. QED BY <1>8, <2>2, <2>5, <2>10
<1>12. QED BY <1>1, <1>10, <1>11, MergedAfter

\* A step of a scan leaves behind what was behind, and what is no namespace.
LEMMA ScanMerged ==
  ASSUME IInv, Merged, calls # <<>>,
         UNCHANGED <<program, items, freed, done, spliced, phase>>,
         NEW c \in Call, Continue(c), c.owner = Top.owner,
         c.at = "inner" =>
           \/ c.i = 1
           \/ Top.at = "inner" /\ Top.i \in 1 .. Len(List) /\ ~IsNamespace(List[Top.i]) /\ c.i = Top.i + 1
  PROVE  Merged'
<1> DEFINE n == Len(calls)
<1>1. /\ n \in Nat /\ n \in 1 .. n /\ Top = calls[n] /\ calls \in Seq(Call) /\ phase # "items"
      /\ Top.i \in Nat /\ Top.i > 0 /\ List = items[Top.owner] /\ Len(List) \in Nat
  BY TopFacts
<1>2. TidyNodes' = TidyNodes
  <2>1. InUse' = InUse
    BY <1>1, ListsKept
  <2>2. QED BY <2>1, TidyKept
<1>3. Len(calls') = n /\ calls'[n] = c /\ \A k \in 1 .. n : k # n => calls'[k] = calls[k]
  BY <1>1, ContinueFacts
<1>4. ASSUME NEW k \in 1 .. n, NEW i \in 1 .. Len(items'[calls'[k].owner]), Behind(k, i)'
      PROVE  items'[calls'[k].owner][i] \in TidyNodes'
  <2>1. CASE k # n
    <3>1. calls'[k] = calls[k]
      BY <1>3, <2>1
    <3>2. Behind(k, i)
      BY <1>3, <1>4, <3>1 DEF Behind, IsNamespace
    <3>3. QED BY <1>2, <1>4, <3>1, <3>2, MergedBehind
  <2>2. CASE k = n
    <3>1. i \in 1 .. Len(List) /\ i < c.i /\ c.at = "inner" /\ phase = "merge" /\ IsNamespace(List[i])
      BY <1>1, <1>3, <1>4, <2>2 DEF Behind, IsNamespace
    <3>2. c.i # 1
      BY <1>1, <3>1
    <3>3. Top.at = "inner" /\ ~IsNamespace(List[Top.i]) /\ c.i = Top.i + 1
      BY <3>1, <3>2
    <3>4. i # Top.i
      BY <3>1, <3>3
    <3>5. i < Top.i
      BY <1>1, <3>1, <3>3, <3>4
    <3>6. ~ (n < Len(calls))
      BY <1>1
    <3>7. Behind(n, i)
      BY <1>1, <3>1, <3>3, <3>5, <3>6 DEF Behind
    <3>8. List[i] \in TidyNodes
      BY <1>1, <3>1, <3>7, MergedBehind
    <3>9. QED BY <1>1, <1>2, <1>3, <2>2, <3>8
  <2>3. QED BY <2>1, <2>2
<1>5. phase' = "reorder" => Current' \in TidyNodes'
  BY <1>2, MergedBehind DEF Current
<1>6. QED BY <1>1, <1>3, <1>4, <1>5, MergedAfter

LEMMA NoDuplicateMerged ==
  ASSUME IInv, Merged, NoDuplicate
  PROVE  Merged'
<1> DEFINE c == [Top EXCEPT !.i = @ + 1]
<1>1. /\ phase = "merge" /\ Top.at = "first"
      /\ Continue(c) /\ UNCHANGED <<program, items, freed, done, spliced, phase>>
  BY DEF NoDuplicate
<1>2. calls # <<>>
  BY <1>1 DEF IInv, Calls
<1>3. Top \in Call /\ Top.i \in Nat
  BY <1>2, TopFacts
<1>4. c \in Call /\ c.owner = Top.owner /\ c.at = "first"
  BY <1>1, <1>3 DEF Call
<1> HIDE DEF c
<1>5. QED BY <1>1, <1>2, <1>4, ScanMerged

LEMMA ScanEndsMerged ==
  ASSUME IInv, Merged, ScanEnds
  PROVE  Merged'
<1> DEFINE c == IF Top.again THEN [Top EXCEPT !.i = 1, !.again = FALSE, !.turn = 2]
                ELSE [Top EXCEPT !.at = "inner", !.i = 1]
<1>1. /\ phase = "merge" /\ Top.at = "first"
      /\ Continue(c) /\ UNCHANGED <<program, items, freed, done, spliced, phase>>
  BY DEF ScanEnds
<1>2. calls # <<>>
  BY <1>1 DEF IInv, Calls
<1>3. Top \in Call
  BY <1>2, TopFacts
<1>4. c \in Call /\ c.owner = Top.owner /\ c.i = 1
  <2>1. CASE Top.again
    <3>1. c = [owner |-> Top.owner, at |-> Top.at, i |-> 1, again |-> FALSE, turn |-> 2]
      BY <2>1, <1>3 DEF Call
    <3>2. Top.owner \in Node /\ Top.at \in {"first", "inner"}
      BY <1>3, CallFields
    <3> HIDE DEF c
    <3>3. QED BY <3>1, <3>2 DEF Call
  <2>2. CASE ~Top.again
    BY <1>3, <2>2 DEF Call
  <2>3. QED BY <2>1, <2>2
<1> HIDE DEF c
<1>5. QED BY <1>1, <1>2, <1>4, ScanMerged

LEMMA ReorderMerged ==
  ASSUME IInv, Merged, Reorder
  PROVE  Merged'
<1>1. /\ phase = "reorder" /\ UNCHANGED <<program, freed, done, spliced, phase>>
  BY DEF Reorder
<1>2. calls # <<>>
  BY <1>1 DEF IInv, Calls
<1>3. PICK o : ReorderEffect(o)
  BY <1>2, ReorderFacts
<1>4. InUse \subseteq Node /\ items \in [Node -> Seq(Node)]
  BY DEF InUse, IInv, TypeOK
<1>5. ASSUME NEW m \in TidyNodes
      PROVE  /\ m \in InUse'
             /\ CleanTo(items'[m], Len(items'[m]))
             /\ \A x \in Listed(items'[m]) : IsNamespace(x) => x \in TidyNodes
  <2>1. /\ m \in InUse /\ m \in Node /\ CleanTo(items[m], Len(items[m]))
        /\ \A x \in Listed(items[m]) : IsNamespace(x) => x \in TidyNodes
    BY TidyFacts DEF Tidy
  <2>2. /\ Listed(items'[m]) = Listed(items[m]) /\ m \in InUse'
        /\ items'[m] \in Seq(Node) /\ items[m] \in Seq(Node)
    BY <1>3, <1>4, <2>1 DEF ReorderEffect
  <2>3. NoRepeat(items'[m])
    BY <1>3, <2>1 DEF ReorderEffect, IInv, ListsDisjoint
  <2>4. CleanTo(items'[m], Len(items'[m]))
    <3>1. Len(items'[m]) \in Nat /\ Len(items[m]) \in Nat
      BY <2>2
    <3>2. QED BY <2>1, <2>2, <2>3, <3>1, CleanAnyOrder
  <2>5. QED BY <2>1, <2>2, <2>4
<1>6. TidyNodes \subseteq TidyNodes'
  <2>1. TidyNodes \in SUBSET Node
    BY TidyFacts
  <2>2. QED BY <1>1, <1>5, <2>1, TidyAfter
<1>7. Current' \in TidyNodes'
  BY <1>1, <1>6, MergedBehind DEF Current
<1>8. QED BY <1>1, <1>7, MergedAfter DEF Behind

LEMMA DescendMerged ==
  ASSUME IInv, Merged, Descend
  PROVE  Merged'
<1> DEFINE n == Len(calls)
           c == [Top EXCEPT !.i = @ + 1]
           rest == [calls EXCEPT ![n].i = @ + 1]
           x == List[Top.i]
<1>1. /\ phase \in {"merge", "reorder"} /\ Top.at = "inner" /\ Top.i <= Len(List)
      /\ calls' = IF IsNamespace(x) THEN Append(rest, NewCall(x)) ELSE rest
      /\ UNCHANGED <<program, items, freed, done, spliced, phase>>
  BY DEF Descend
<1>2. calls # <<>>
  BY <1>1 DEF IInv, Calls
<1>3. n \in Nat /\ n \in 1 .. n /\ Top = calls[n] /\ calls \in Seq(Call) /\ Top \in Call
      /\ Top.i \in Nat /\ Top.i > 0 /\ Top.i \in 1 .. Len(List)
      /\ Top.owner \in Node /\ List = items[Top.owner]
  BY <1>1, <1>2, TopFacts
<1>4. c \in Call /\ c.owner = Top.owner /\ c.i = Top.i + 1 /\ c.at = "inner"
  <2>1. Top \in Call /\ Top.i \in Nat /\ Top.at = "inner"
    BY <1>1, <1>3
  <2>2. QED BY <2>1 DEF Call
<1>5. rest = [calls EXCEPT ![n] = c]
  BY <1>3
<1> HIDE DEF c
<1>6. CASE ~ IsNamespace(x)
  <2>1. Continue(c)
    BY <1>1, <1>5, <1>6 DEF Continue
  <2> HIDE DEF rest, n
  <2>2. QED BY <1>1, <1>2, <1>3, <1>4, <1>6, <2>1, ScanMerged
<1>7. CASE IsNamespace(x)
  <2>1. x \in Node
    BY <1>2, <1>3, <1>7, ChildFacts
  <2>2. NewCall(x) \in Call /\ NewCall(x).at = "first"
    BY <2>1, NewCallFacts
  <2>3. /\ rest \in Seq(Call) /\ Len(rest) = n /\ rest[n] = c
        /\ \A k \in 1 .. n - 1 : rest[k] = calls[k]
    BY <1>3, <1>4, <1>5
  <2>4. calls' = Append(rest, NewCall(x))
    BY <1>1, <1>7
  <2> HIDE DEF rest
  <2>5. /\ Len(calls') = n + 1
        /\ \A k \in 1 .. n : calls'[k] = rest[k]
        /\ calls'[n + 1] = NewCall(x)
    BY <1>3, <2>2, <2>3, <2>4
  <2>6. TidyNodes' = TidyNodes
    <3>1. phase # "items" /\ phase' # "items"
      BY <1>1
    <3>2. InUse' = InUse
      BY <1>1, <3>1, ListsKept
    <3>3. QED BY <1>1, <3>2, TidyKept
  <2>7. ASSUME NEW k \in 1 .. Len(calls'), NEW i \in 1 .. Len(items'[calls'[k].owner]),
               Behind(k, i)'
        PROVE  items'[calls'[k].owner][i] \in TidyNodes'
    <3>1. k # n + 1
      BY <2>2, <2>5, <2>7 DEF Behind
    <3>2. k \in 1 .. n /\ k < Len(calls')
      BY <1>3, <2>5, <3>1
    <3>3. calls'[k].owner = calls[k].owner /\ calls'[k].at = "inner" /\ phase = "merge"
          /\ i \in 1 .. Len(items[calls[k].owner]) /\ i < calls'[k].i - 1
          /\ IsNamespace(items[calls[k].owner][i])
      <4>1. calls'[k].owner = calls[k].owner
        <5>1. CASE k = n
          BY <1>3, <1>4, <2>3, <2>5, <5>1
        <5>2. CASE k # n
          <6>1. k \in 1 .. n - 1
            BY <1>3, <3>2, <5>2
          <6>2. QED BY <2>3, <2>5, <3>2, <6>1
        <5>3. QED BY <5>1, <5>2
      <4>2. QED BY <1>1, <2>7, <3>2, <4>1 DEF Behind, IsNamespace
    <3>4. Behind(k, i)
      <4>1. CASE k = n
        <5>1. calls'[k] = c /\ calls[k] = Top
          BY <1>3, <2>3, <2>5, <4>1
        <5>2. i < Top.i
          BY <1>3, <1>4, <3>3, <5>1
        <5>3. ~ (k < Len(calls))
          BY <1>3, <4>1
        <5>4. QED BY <1>1, <3>3, <5>1, <5>2, <5>3 DEF Behind
      <4>2. CASE k # n
        <5>1. k \in 1 .. n - 1
          BY <1>3, <3>2, <4>2
        <5>2. calls'[k] = calls[k]
          BY <2>3, <2>5, <3>2, <5>1
        <5>3. calls[k].i \in Nat
          BY <1>3, <3>2, CallFields
        <5>4. i < calls[k].i - 1 /\ i < calls[k].i
          BY <3>3, <5>2, <5>3
        <5>5. QED BY <3>3, <5>2, <5>4 DEF Behind
      <4>3. QED BY <4>1, <4>2
    <3>5. QED BY <1>1, <2>6, <3>2, <3>3, <3>4, MergedBehind
  <2>8. phase' = "reorder" => Current' \in TidyNodes'
    BY <1>1, <2>6, MergedBehind DEF Current
  <2>9. QED BY <1>1, <2>7, <2>8, MergedAfter
<1>8. QED BY <1>6, <1>7

\* A call of merge_namespaces that returns leaves its list merged all the way
\* down.
LEMMA ReturnsTidy ==
  ASSUME IInv, Merged, phase = "merge", calls # <<>>, Top.at = "inner", Top.i > Len(List)
  PROVE  Top.owner \in TidyNodes
<1> DEFINE n == Len(calls)
           S == TidyNodes \cup {Top.owner}
<1>1. /\ n \in Nat /\ n \in 1 .. n /\ Top = calls[n] /\ Top.i \in Nat
      /\ List = items[Top.owner] /\ Len(List) \in Nat
      /\ Top.owner \in Node /\ Top.owner \in InUse
  BY TopFacts
<1>2. CleanTo(List, Len(List))
  BY <1>1, ScansAt DEF ScanAt
<1>3. ASSUME NEW x \in Listed(List), IsNamespace(x)
      PROVE  x \in TidyNodes
  <2>1. PICK i \in 1 .. Len(List) : List[i] = x
    BY AtListed
  <2>2. i < Top.i /\ ~ (n < Len(calls))
    BY <1>1
  <2>3. Behind(n, i)
    BY <1>1, <1>3, <2>1, <2>2 DEF Behind
  <2>4. QED BY <1>1, <2>1, <2>3, MergedBehind
<1>4. S \in SUBSET Node
  BY <1>1, TidyFacts
<1>5. ASSUME NEW m \in S
      PROVE  /\ m \in InUse
             /\ CleanTo(items[m], Len(items[m]))
             /\ \A x \in Listed(items[m]) : IsNamespace(x) => x \in S
  <2>1. CASE m \in TidyNodes
    BY <2>1, TidyFacts DEF Tidy
  <2>2. CASE m = Top.owner
    BY <2>2, <1>1, <1>2, <1>3
  <2>3. QED BY <2>1, <2>2
<1>6. Tidy(S)
  <2> HIDE DEF S
  <2>1. QED BY <1>5 DEF Tidy
<1>7. QED BY <1>4, <1>6, TidyFacts

LEMMA ReturnMerged ==
  ASSUME IInv, Merged, Return
  PROVE  Merged'
<1> DEFINE n == Len(calls)
<1>1. /\ phase \in {"merge", "reorder"} /\ Top.at = "inner" /\ Top.i > Len(List)
      /\ UNCHANGED <<program, items, freed>>
  BY DEF Return
<1>2. calls # <<>>
  BY <1>1 DEF IInv, Calls
<1>3. n \in Nat /\ n \in 1 .. n /\ calls \in Seq(Call) /\ Parsing /\ phase # "items"
      /\ Top = calls[n] /\ (n = 1 \/ n > 1)
  <2>1. n \in Nat /\ n \in 1 .. n /\ calls \in Seq(Call) /\ Parsing /\ phase # "items"
        /\ Top = calls[n]
    BY <1>2, TopFacts
  <2> HIDE DEF n
  <2>2. QED BY <2>1
<1>4. CASE n > 1
  <2>1. /\ calls' = SubSeq(calls, 1, n - 1) /\ UNCHANGED <<done, spliced, phase>>
    BY <1>4 DEF Return
  <2>2. /\ Len(calls') = n - 1
        /\ \A k \in 1 .. n - 1 : calls'[k] = calls[k] /\ k \in 1 .. n
    BY <1>3, <1>4, <2>1
  <2>3. TidyNodes' = TidyNodes
    <3>1. phase' # "items" /\ phase # "items"
      BY <1>3, <2>1
    <3>2. InUse' = InUse
      BY <1>1, <2>1, <3>1, ListsKept
    <3>3. QED BY <1>1, <3>2, TidyKept
  <2>4. ASSUME NEW k \in 1 .. Len(calls'), NEW i \in 1 .. Len(items'[calls'[k].owner]),
               Behind(k, i)'
        PROVE  items'[calls'[k].owner][i] \in TidyNodes'
    <3>1. /\ k \in 1 .. n /\ calls'[k] = calls[k] /\ k \in 1 .. n - 1
      BY <2>2
    <3>2. /\ phase = "merge" /\ calls[k].at = "inner" /\ i < calls[k].i
          /\ IsNamespace(items[calls[k].owner][i]) /\ i \in 1 .. Len(items[calls[k].owner])
      BY <1>1, <2>1, <2>4, <3>1 DEF Behind, IsNamespace
    <3>3. CASE i = calls[k].i - 1
      <4>1. items[calls[k].owner][i] = calls[k + 1].owner
        BY <3>1, <3>3 DEF IInv, Calls
      <4>2. CASE k = n - 1
        <5>1. k + 1 = n
          BY <1>3, <4>2
        <5>2. items[calls[k].owner][i] = Top.owner
          BY <1>3, <4>1, <5>1
        <5>3. Top.owner \in TidyNodes
          BY <1>1, <1>2, <3>2, ReturnsTidy
        <5>4. QED BY <1>1, <2>3, <3>1, <5>2, <5>3
      <4>3. CASE k # n - 1
        <5>1. k < Len(calls')
          BY <1>3, <2>2, <3>1, <4>3
        <5>2. i < calls[k].i - 1
          BY <2>4, <3>1, <5>1 DEF Behind
        <5>3. calls[k].i \in Nat
          BY <1>3, <3>1, CallFields
        <5>4. QED BY <3>3, <5>2, <5>3
      <4>4. QED BY <4>2, <4>3
    <3>4. CASE i # calls[k].i - 1
      <4>1. calls[k].i \in Nat
        BY <1>3, <3>1, CallFields
      <4>2. i < calls[k].i - 1
        BY <3>2, <3>4, <4>1
      <4>3. Behind(k, i)
        BY <3>2, <4>2 DEF Behind
      <4>4. QED BY <1>1, <2>3, <3>1, <3>2, <4>3, MergedBehind
    <3>5. QED BY <3>3, <3>4
  <2>5. phase' = "reorder" => Current' \in TidyNodes'
    BY <1>1, <2>1, <2>3, MergedBehind DEF Current
  <2>6. QED BY <1>3, <2>1, <2>4, <2>5, MergedAfter
<1>5. CASE n = 1 /\ phase = "merge"
  <2>1. /\ calls' = <<NewCall(Current)>> /\ phase' = "reorder" /\ UNCHANGED <<done, spliced>>
    BY <1>5 DEF Return
  <2>2. TidyNodes' = TidyNodes
    <3>1. phase' # "items" /\ phase # "items"
      BY <1>3, <2>1
    <3>2. InUse' = InUse
      BY <1>1, <2>1, <3>1, ListsKept
    <3>3. QED BY <1>1, <3>2, TidyKept
  <2>3. Top.owner = Current
    BY <1>2, <1>3, <1>5 DEF IInv, Calls
  <2>4. Current' \in TidyNodes'
    BY <1>1, <1>2, <1>5, <2>1, <2>2, <2>3, ReturnsTidy DEF Current
  <2>5. QED BY <2>1, <2>4, MergedAfter DEF Behind
<1>6. CASE n = 1 /\ phase = "reorder"
  <2>1. calls' = <<>> /\ phase' = "items" /\ done' = done + 1 /\ spliced' = 0
    BY <1>6 DEF Return
  <2>2. InUse' = InUse
    BY <1>1, <1>3, <2>1, ReturnKeepsLists
  <2>3. TidyNodes' = TidyNodes
    BY <1>1, <2>2, TidyKept
  <2>4. (program.order[done])' = Current
    BY <1>1, <2>1 DEF Current
  <2>5. Current \in TidyNodes
    BY <1>6, MergedBehind
  <2>6. QED BY <2>1, <2>3, <2>4, <2>5, MergedAfter DEF Behind
<1>7. QED BY <1>1, <1>3, <1>4, <1>5, <1>6

\* The two invariants together.
LEMMA NextMerged == IInv /\ Merged /\ [Next]_vars => Merged'
<1> SUFFICES ASSUME IInv, Merged, [Next]_vars PROVE Merged'
  OBVIOUS
<1>1. CASE SpliceModule
  <2>1. phase' = "items" /\ spliced' = spliced + 1 /\ spliced \in Nat
    BY <1>1 DEF SpliceModule, IInv, TypeOK
  <2>2. spliced' # 0
    BY <2>1
  <2>3. QED BY <2>1, <2>2, MergedAfter DEF Behind
<1>2. CASE OwnItems
  <2>1. phase' = "merge" /\ calls' = <<NewCall(Current)>>
    BY <1>2 DEF OwnItems
  <2>2. Len(calls') = 1 /\ calls'[1].at = "first"
    BY <2>1 DEF NewCall
  <2>3. \A k \in 1 .. Len(calls') : calls'[k].at # "inner"
    BY <2>2
  <2>4. QED BY <2>1, <2>3, MergedAfter DEF Behind
<1>3. ASSUME NEW j \in 1 .. Cardinality(Node), Merge(j)
      PROVE  Merged'
  <2>1. j \in Nat
    BY ProgramsAssumption, FS_CardinalityType
  <2>2. QED BY <1>3, <2>1, MergeMerged
<1>4. CASE NoDuplicate
  BY <1>4, NoDuplicateMerged
<1>5. CASE ScanEnds
  BY <1>5, ScanEndsMerged
<1>6. CASE Reorder
  BY <1>6, ReorderMerged
<1>7. CASE Descend
  BY <1>7, DescendMerged
<1>8. CASE Return
  BY <1>8, ReturnMerged
<1>9. CASE UNCHANGED vars
  <2>1. UNCHANGED <<program, items, freed, done, spliced, phase, calls>>
    BY <1>9 DEF vars
  <2>2. InUse' = InUse /\ Current' = Current
    BY <2>1 DEF InUse, Spliced, Parsing, Current
  <2>3. TidyNodes' = TidyNodes
    BY <2>1, <2>2, TidyKept
  <2>4. QED BY <2>1, <2>2, <2>3 DEF Merged, IsNamespace
<1>10. QED BY <1>1, <1>2, <1>3, <1>4, <1>5, <1>6, <1>7, <1>8, <1>9 DEF Next

LEMMA InitMerged == Init => Merged
<1> SUFFICES ASSUME Init PROVE Merged
  OBVIOUS
<1>1. calls = <<>> /\ phase = "items" /\ done = 0
  BY DEF Init
<1>2. QED BY <1>1, MergedBehind DEF Behind

LEMMA MergedInvariant == Spec => []Merged
BY InitMerged, NextMerged, Invariant, PTL DEF Spec
-----------------------------------------------------------------------------
(***************************************************************************)
(* A module that has been returned.                                        *)
(***************************************************************************)

\* A set that holds what is listed by its members.
Closed(S) == \A y \in S : Listed(items[y]) \subseteq S

\* What can be reached from the list of n.
Reached(n) == {x \in Node : \A S \in SUBSET Node :
                              Listed(items[n]) \subseteq S /\ Closed(S) => x \in S}

LEMMA ReachedFacts ==
  ASSUME items \in [Node -> Seq(Node)], NEW n \in Node
  PROVE  /\ Reached(n) \in SUBSET Node /\ Listed(items[n]) \subseteq Reached(n)
         /\ Closed(Reached(n))
         /\ \A S \in SUBSET Node : Listed(items[n]) \subseteq S /\ Closed(S) => Reached(n) \subseteq S
<1>1. \A m \in Node : Listed(items[m]) \subseteq Node
  <2>1. \A m \in Node : items[m] \in Seq(Node)
    OBVIOUS
  <2>2. QED BY <2>1 DEF Listed
<1>2. Reached(n) \in SUBSET Node /\ Listed(items[n]) \subseteq Reached(n)
  BY <1>1 DEF Reached
<1>3. ASSUME NEW S \in SUBSET Node, Listed(items[n]) \subseteq S, Closed(S)
      PROVE  Reached(n) \subseteq S
  BY <1>3 DEF Reached
<1>4. ASSUME NEW y \in Reached(n), NEW z \in Listed(items[y]) PROVE z \in Reached(n)
  <2>1. y \in Node /\ z \in Node
    BY <1>1, <1>2
  <2>2. ASSUME NEW S \in SUBSET Node, Listed(items[n]) \subseteq S, Closed(S) PROVE z \in S
    <3>1. y \in S
      BY <1>3, <2>2
    <3>2. QED BY <2>2, <3>1 DEF Closed
  <2>3. QED BY <2>1, <2>2 DEF Reached
<1>5. Closed(Reached(n))
  BY <1>4 DEF Closed
<1>6. QED BY <1>2, <1>3, <1>5

\* Below is defined: the recursion has a solution.
LEMMA BelowFacts ==
  ASSUME items \in [Node -> Seq(Node)]
  PROVE  \A n \in Node : Below(n) = Listed(items[n]) \cup UNION {Below(x) : x \in Listed(items[n])}
<1> DEFINE IsB(B) == B = [m \in Node |-> Listed(items[m]) \cup UNION {B[x] : x \in Listed(items[m])}]
           R == [m \in Node |-> Reached(m)]
<1>1. \A m \in Node : Listed(items[m]) \subseteq Node
  <2>1. \A m \in Node : items[m] \in Seq(Node)
    OBVIOUS
  <2>2. QED BY <2>1 DEF Listed
<1>2. ASSUME NEW m \in Node
      PROVE  Reached(m) = Listed(items[m]) \cup UNION {Reached(x) : x \in Listed(items[m])}
  <2> DEFINE U == Listed(items[m]) \cup UNION {Reached(x) : x \in Listed(items[m])}
  <2>1. ASSUME NEW x \in Listed(items[m]) PROVE Reached(x) \subseteq Reached(m)
    <3>1. x \in Node /\ x \in Reached(m) /\ Closed(Reached(m)) /\ Reached(m) \in SUBSET Node
      BY <1>1, ReachedFacts
    <3>2. Listed(items[x]) \subseteq Reached(m)
      BY <3>1 DEF Closed
    <3>3. QED BY <3>1, <3>2, ReachedFacts
  <2>2. U \subseteq Reached(m)
    BY <2>1, ReachedFacts
  <2>3. U \in SUBSET Node
    BY <2>2, ReachedFacts
  <2>4. ASSUME NEW y \in U PROVE Listed(items[y]) \subseteq U
    <3>1. CASE y \in Listed(items[m])
      <4>1. y \in Node
        BY <1>1, <3>1
      <4>2. Listed(items[y]) \subseteq Reached(y)
        BY <4>1, ReachedFacts
      <4>3. QED BY <3>1, <4>2
    <3>2. CASE \E x \in Listed(items[m]) : y \in Reached(x)
      <4>1. PICK x \in Listed(items[m]) : y \in Reached(x)
        BY <3>2
      <4>2. x \in Node
        BY <1>1
      <4>3. Listed(items[y]) \subseteq Reached(x)
        BY <4>1, <4>2, ReachedFacts DEF Closed
      <4>4. QED BY <4>3
    <3>3. QED BY <3>1, <3>2
  <2>5. Closed(U)
    <3> HIDE DEF U
    <3>1. QED BY <2>4 DEF Closed
  <2>6. Reached(m) \subseteq U
    <3>1. Listed(items[m]) \subseteq U
      OBVIOUS
    <3> HIDE DEF U
    <3>2. QED BY <2>3, <2>5, <3>1, ReachedFacts
  <2> HIDE DEF U
  <2>7. Reached(m) = U
    BY <2>2, <2>6
  <2>8. QED BY <2>7 DEF U
<1>3. IsB(R)
  <2>1. ASSUME NEW m \in Node
        PROVE  R[m] = Listed(items[m]) \cup UNION {R[x] : x \in Listed(items[m])}
    <3>1. \A x \in Listed(items[m]) : R[x] = Reached(x)
      BY <1>1
    <3>2. {R[x] : x \in Listed(items[m])} = {Reached(x) : x \in Listed(items[m])}
      BY <3>1
    <3>3. QED BY <1>2, <3>2
  <2>2. R = [m \in Node |-> R[m]]
    OBVIOUS
  <2> HIDE DEF R
  <2>3. [m \in Node |-> R[m]]
          = [m \in Node |-> Listed(items[m]) \cup UNION {R[x] : x \in Listed(items[m])}]
    BY <2>1
  <2>4. QED BY <2>2, <2>3
<1> DEFINE g == CHOOSE B : IsB(B)
<1> HIDE DEF R
<1>4. IsB(g)
  BY <1>3
<1>5. \A n \in Node : Below(n) = g[n]
  BY DEF Below
<1> HIDE DEF g
<1>6. \A n \in Node : g[n] = Listed(items[n]) \cup UNION {g[x] : x \in Listed(items[n])}
  BY <1>4
<1>7. ASSUME NEW n \in Node
      PROVE  Below(n) = Listed(items[n]) \cup UNION {Below(x) : x \in Listed(items[n])}
  <2>1. {g[x] : x \in Listed(items[n])} = {Below(x) : x \in Listed(items[n])}
    BY <1>1, <1>5
  <2>2. QED BY <1>5, <1>6, <2>1
<1>8. QED BY <1>7

\* The namespaces below a tidy node are tidy.
LEMMA BelowTidy ==
  ASSUME IInv, NEW m \in TidyNodes, NEW y \in Below(m), IsNamespace(y)
  PROVE  y \in TidyNodes
<1> DEFINE N == Cardinality(Node)
           Good == {d \in Nat : \A n \in TidyNodes : program.level[n] + d >= N =>
                                   \A x \in Below(n) : IsNamespace(x) => x \in TidyNodes}
<1>1. N \in Nat
  BY ProgramsAssumption, FS_CardinalityType
<1>2. items \in [Node -> Seq(Node)] /\ program.level \in [Node -> 0 .. N]
  BY ProgramFacts DEF IInv, TypeOK
<1>3. \A n \in Node : Listed(items[n]) \subseteq Node
  <2>1. \A n \in Node : items[n] \in Seq(Node)
    BY <1>2
  <2>2. QED BY <2>1 DEF Listed
<1> HIDE DEF N
<1>4. \A n \in TidyNodes : n \in Node /\ \A x \in Listed(items[n]) : IsNamespace(x) => x \in TidyNodes
  BY TidyFacts DEF Tidy
<1>5. ASSUME NEW n \in TidyNodes, NEW x \in Below(n), IsNamespace(x)
      PROVE  \/ x \in Listed(items[n]) /\ x \in TidyNodes
             \/ \E z \in Listed(items[n]) : x \in Below(z) /\ z \in TidyNodes
                                            /\ program.level[z] = program.level[n] + 1
  <2>1. n \in Node
    BY <1>4
  <2>2. x \in Listed(items[n]) \/ \E z \in Listed(items[n]) : x \in Below(z)
    BY <1>2, <2>1, BelowFacts
  <2>3. ASSUME NEW z \in Listed(items[n]), x \in Below(z)
        PROVE  z \in TidyNodes /\ program.level[z] = program.level[n] + 1
    <3>1. z \in Node /\ program.level[z] = program.level[n] + 1 /\ program.kind[z] # "Module"
      BY <1>3, <2>1 DEF IInv, Levels
    <3>2. IsNamespace(z)
      <4>1. x \in Listed(items[z]) \/ \E w \in Listed(items[z]) : x \in Below(w)
        BY <1>2, <2>3, <3>1, BelowFacts
      <4>2. \E w : w \in Listed(items[z])
        BY <4>1
      <4>3. QED BY <3>1, <4>2 DEF IInv, Levels, IsNamespace
    <3>3. QED BY <1>4, <3>1, <3>2
  <2>4. QED BY <1>4, <1>5, <2>2, <2>3
<1>6. \A n \in Node : program.level[n] \in Nat /\ program.level[n] <= N
  BY <1>1, <1>2
<1>7. 0 \in Good
  <2>1. ASSUME NEW n \in TidyNodes, program.level[n] + 0 >= N, NEW x \in Below(n), IsNamespace(x)
        PROVE  x \in TidyNodes
    <3>1. CASE \E z \in Listed(items[n]) : program.level[z] = program.level[n] + 1
      <4>1. PICK z \in Listed(items[n]) : program.level[z] = program.level[n] + 1
        BY <3>1
      <4>2. n \in Node /\ z \in Node
        BY <1>3, <1>4
      <4>3. program.level[n] \in Nat /\ program.level[z] \in Nat /\ program.level[z] <= N
        BY <1>6, <4>2
      <4>4. QED BY <1>1, <2>1, <4>1, <4>3
    <3>2. QED BY <1>5, <2>1, <3>1
  <2>2. QED BY <2>1
<1>8. ASSUME NEW d \in Nat, d \in Good PROVE d + 1 \in Good
  <2>1. ASSUME NEW n \in TidyNodes, program.level[n] + (d + 1) >= N, NEW x \in Below(n), IsNamespace(x)
        PROVE  x \in TidyNodes
    <3>1. ASSUME NEW z \in Listed(items[n]), x \in Below(z), z \in TidyNodes,
                 program.level[z] = program.level[n] + 1
          PROVE  x \in TidyNodes
      <4>1. program.level[n] \in Nat
        BY <1>4, <1>6
      <4>2. program.level[z] + d >= N
        BY <1>1, <2>1, <3>1, <4>1
      <4>3. QED BY <1>8, <2>1, <3>1, <4>2
    <3>2. QED BY <1>5, <2>1, <3>1
  <2>2. QED BY <2>1
<1>9. Nat \subseteq Good
  <2> HIDE DEF Good
  <2>1. QED BY <1>7, <1>8, Induction
<1>10. program.level[m] + N >= N
  <2>1. program.level[m] \in Nat
    BY <1>4, <1>6
  <2>2. QED BY <1>1, <2>1
<1>11. N \in Good
  BY <1>1, <1>9
<1>12. QED BY <1>10, <1>11

\* In a module that Parser::parse returns no two namespaces side by side have
\* one name, on any level, however many files they come from.
THEOREM MergedThroughout == Spec => []FullyMerged
<1>1. ASSUME IInv, Merged PROVE FullyMerged
  <2>1. SUFFICES ASSUME NEW s \in Returned, NEW i \in 1 .. Len(s), NEW j \in 1 .. Len(s),
                        SameNamespace(s, i, j)
                 PROVE  i = j
    BY DEF FullyMerged, SameNamespace
  <2> DEFINE m == program.order[done]
  <2>2. /\ done > 0 /\ phase = "items" /\ spliced = 0
        /\ \E n \in {m} \cup {x \in Below(m) : IsNamespace(x)} : s = items[n]
    BY <2>1 DEF Returned
  <2>3. m \in TidyNodes
    BY <1>1, <2>2, MergedBehind
  <2>4. PICK n \in {m} \cup {x \in Below(m) : IsNamespace(x)} : s = items[n]
    BY <2>2
  <2>5. n \in TidyNodes
    BY <1>1, <2>3, BelowTidy
  <2>6. CleanTo(s, Len(s)) /\ n \in Node
    BY <2>4, <2>5, TidyFacts DEF Tidy
  <2>7. Len(s) \in Nat
    BY <1>1, <2>4, <2>6 DEF IInv, TypeOK
  <2>8. i <= Len(s) /\ j <= Len(s) /\ (i = j \/ i < j \/ j < i)
    BY <2>7
  <2>9. SameNamespace(s, j, i)
    BY <2>1 DEF SameNamespace
  <2>10. QED BY <2>1, <2>6, <2>8, <2>9 DEF CleanTo
<1>2. QED BY <1>1, Invariant, MergedInvariant, PTL
-----------------------------------------------------------------------------
(* What is below the lists.                                                *)

\* The lists hold what lies one level deeper.
Leveled(p, inside) ==
  \A n \in Node : \A x \in Listed(inside[n]) : p.level[x] = p.level[n] + 1

\* A fact about nodes may be taken for granted of the deeper ones.
LEMMA ByLevel ==
  ASSUME NEW p \in Program, NEW S \in SUBSET Node, NEW T,
         \A n \in S : (\A x \in S : p.level[x] > p.level[n] => x \in T) => n \in T
  PROVE  S \subseteq T
<1> DEFINE N == Cardinality(Node)
           Good == {d \in Nat : \A n \in S : p.level[n] + d > N => n \in T}
<1>1. N \in Nat
  BY ProgramsAssumption, FS_CardinalityType
<1>2. p.level \in [Node -> 0 .. N]
  BY DEF Program
<1> HIDE DEF N
<1>3. \A n \in S : p.level[n] \in Nat /\ p.level[n] <= N
  BY <1>1, <1>2
<1>4. 0 \in Good
  BY <1>1, <1>3
<1>5. ASSUME NEW d \in Nat, d \in Good PROVE d + 1 \in Good
  <2>1. SUFFICES ASSUME NEW n \in S, p.level[n] + (d + 1) > N PROVE n \in T
    OBVIOUS
  <2>2. ASSUME NEW x \in S, p.level[x] > p.level[n] PROVE x \in T
    <3>1. p.level[x] + d > N
      BY <1>1, <1>3, <2>1, <2>2
    <3>2. QED BY <1>5, <3>1
  <2>3. QED BY <2>2
<1>6. Nat \subseteq Good
  <2> HIDE DEF Good
  <2>1. QED BY <1>4, <1>5, Induction
<1>7. N + 1 \in Good
  BY <1>1, <1>6
<1>8. ASSUME NEW n \in S PROVE n \in T
  <2>1. p.level[n] + (N + 1) > N
    BY <1>1, <1>3
  <2>2. QED BY <1>7, <2>1
<1>9. QED BY <1>8

\* Sets of qualified names.
Names == SUBSET (Seq(Ident \cup {NIL}) \X (Node \cup {NIL}))

LEMMA EntriesType ==
  ASSUME NEW p \in Program, NEW x \in Node, NEW below \in Names
  PROVE  Entries(p, x, below) \in Names
<1>1. p.name[x] \in Ident \cup {NIL}
  BY DEF Program
<1> DEFINE q == <<p.name[x]>>
<1>2. q \in Seq(Ident \cup {NIL})
  BY <1>1
<1> HIDE DEF q
<1>3. ASSUME NEW c \in below
      PROVE  <<q \o c[1], c[2]>> \in Seq(Ident \cup {NIL}) \X (Node \cup {NIL})
  <2>1. c[1] \in Seq(Ident \cup {NIL}) /\ c[2] \in Node \cup {NIL}
    BY DEF Names
  <2>2. q \o c[1] \in Seq(Ident \cup {NIL})
    BY <1>2, <2>1
  <2>3. QED BY <2>1, <2>2
<1>4. {<<q \o c[1], c[2]>> : c \in below} \in Names
  BY <1>3 DEF Names
<1>5. {<<q, NIL>>} \in Names /\ {<<<<>>, x>>} \in Names
  <2> DEFINE e == <<>>
  <2>1. e \in Seq(Ident \cup {NIL})
    OBVIOUS
  <2> HIDE DEF e
  <2>2. {<<q, NIL>>} \in Names /\ {<<e, x>>} \in Names
    BY <1>2, <2>1 DEF Names
  <2>3. QED BY <2>2 DEF e
<1>6. Entries(p, x, below) = IF p.kind[x] = "Namespace"
                             THEN {<<q, NIL>>} \cup {<<q \o c[1], c[2]>> : c \in below}
                             ELSE {<<<<>>, x>>}
  BY DEF Entries, q
<1>7. QED BY <1>4, <1>5, <1>6 DEF Names

\* Two namespaces of one name hold together what the merged one holds.
LEMMA EntriesJoin ==
  ASSUME NEW p, NEW x, NEW y, NEW K, NEW L,
         p.kind[x] = "Namespace", p.kind[y] = "Namespace", p.name[x] = p.name[y]
  PROVE  Entries(p, x, K \cup L) = Entries(p, x, K) \cup Entries(p, y, L)
BY DEF Entries

\* What lies below an item that is no namespace is not looked at.
LEMMA EntriesOfItem ==
  ASSUME NEW p, NEW x, NEW K, NEW L, p.kind[x] = "Namespace" => K = L
  PROVE  Entries(p, x, K) = Entries(p, x, L)
BY DEF Entries

\* Contents is defined: the recursion has a solution.
LEMMA ContentsFacts ==
  ASSUME NEW p \in Program, NEW inside \in [Node -> Seq(Node)], Leveled(p, inside)
  PROVE  \A n \in Node : Contents(p, inside, n)
           = UNION {Entries(p, x, Contents(p, inside, x)) : x \in Listed(inside[n])}
<1> DEFINE N == Cardinality(Node)
           S == [Node -> Names]
           At(c, m) == UNION {Entries(p, x, c[x]) : x \in Listed(inside[m])}
           F(c) == [m \in Node |-> At(c, m)]
           step == [i \in Nat |-> [c \in S |-> F(c)]]
           first == [m \in Node |-> {}]
<1>1. N \in Nat
  BY ProgramsAssumption, FS_CardinalityType
<1>2. \A m \in Node : Listed(inside[m]) \subseteq Node
  <2>1. \A m \in Node : inside[m] \in Seq(Node)
    OBVIOUS
  <2>2. QED BY <2>1 DEF Listed
<1>3. \A m \in Node : p.level[m] \in Nat /\ p.level[m] <= N
  <2>1. p.level \in [Node -> 0 .. N]
    BY DEF Program
  <2>2. QED BY <1>1, <2>1
<1>4. ASSUME NEW c \in S PROVE F(c) \in S
  <2>1. ASSUME NEW m \in Node PROVE At(c, m) \in Names
    <3>1. \A x \in Listed(inside[m]) : Entries(p, x, c[x]) \in Names
      BY <1>2, EntriesType
    <3>2. QED BY <3>1 DEF Names
  <2> HIDE DEF At
  <2>2. QED BY <2>1
<1>5. first \in S
  BY DEF Names
<1>6. step \in [Nat -> [S -> S]]
  <2> HIDE DEF F, S
  <2>1. QED BY <1>4
<1>7. PICK f \in [0 .. N + 2 -> S] : Recurs(f, first, step, N + 2)
  <2>1. N + 2 \in Nat
    BY <1>1
  <2> HIDE DEF first, step, S
  <2>2. QED BY <1>5, <1>6, <2>1, Recursion
<1>8. ASSUME NEW i \in 1 .. N + 2, NEW m \in Node PROVE f[i][m] = At(f[i - 1], m)
  <2>1. i - 1 \in 0 .. N + 2 /\ i \in Nat
    BY <1>1
  <2>2. f[i - 1] \in S
    BY <2>1
  <2>3. f[i] = step[i][f[i - 1]]
    BY <1>7 DEF Recurs
  <2> HIDE DEF F, S
  <2>4. f[i] = F(f[i - 1])
    BY <2>1, <2>2, <2>3
  <2> HIDE DEF At
  <2>5. QED BY <2>4 DEF F
<1> DEFINE Good == {i \in Nat : i <= N + 1 => \A m \in Node : p.level[m] + i > N => f[i + 1][m] = f[i][m]}
<1> HIDE DEF N, S, step, first
<1>9. 0 \in Good
  BY <1>1, <1>3
<1>10. ASSUME NEW i \in Nat, i \in Good PROVE i + 1 \in Good
  <2>1. SUFFICES ASSUME i + 1 <= N + 1, NEW m \in Node, p.level[m] + (i + 1) > N
                 PROVE  f[i + 1 + 1][m] = f[i + 1][m]
    OBVIOUS
  <2>2. i <= N + 1 /\ i + 1 \in 1 .. N + 2 /\ i + 2 \in 1 .. N + 2
    BY <1>1, <2>1
  <2>3. f[i + 2][m] = At(f[i + 1], m) /\ f[i + 1][m] = At(f[i], m)
    <3>1. (i + 2) - 1 = i + 1 /\ (i + 1) - 1 = i
      OBVIOUS
    <3> HIDE DEF At
    <3>2. QED BY <1>8, <2>2, <3>1
  <2>4. ASSUME NEW x \in Listed(inside[m]) PROVE f[i + 1][x] = f[i][x]
    <3>1. x \in Node /\ p.level[x] = p.level[m] + 1
      BY <1>2 DEF Leveled
    <3>2. p.level[m] \in Nat
      BY <1>3
    <3>3. p.level[x] + i > N
      BY <1>1, <2>1, <3>1, <3>2
    <3>4. QED BY <1>10, <2>2, <3>1, <3>3
  <2>5. At(f[i + 1], m) = At(f[i], m)
    BY <2>4
  <2>6. i + 1 + 1 = i + 2
    OBVIOUS
  <2>7. QED BY <2>3, <2>5, <2>6
<1>11. Nat \subseteq Good
  <2> HIDE DEF Good
  <2>1. QED BY <1>9, <1>10, Induction
<1> DEFINE h == f[N + 1]
<1>12. ASSUME NEW m \in Node PROVE h[m] = At(h, m)
  <2>1. N + 1 \in Nat /\ N + 1 <= N + 1 /\ N + 1 + 1 = N + 2 /\ N + 2 \in 1 .. N + 2
    BY <1>1
  <2>2. N + 1 \in Good
    BY <1>11, <2>1
  <2>3. p.level[m] + (N + 1) > N
    BY <1>1, <1>3
  <2>4. f[N + 1 + 1][m] = f[N + 1][m]
    BY <2>1, <2>2, <2>3
  <2>5. f[N + 2][m] = At(f[N + 1], m)
    <3>1. (N + 2) - 1 = N + 1
      BY <1>1
    <3> HIDE DEF At
    <3>2. QED BY <1>8, <2>1, <3>1
  <2>6. QED BY <2>1, <2>4, <2>5
<1>13. h \in S
  BY <1>1
<1> DEFINE IsC(C) == C = [m \in Node |-> UNION {Entries(p, x, C[x]) : x \in Listed(inside[m])}]
<1> HIDE DEF h
<1>14. IsC(h)
  <2>1. h = [m \in Node |-> h[m]]
    BY <1>13 DEF S
  <2>2. [m \in Node |-> h[m]] = [m \in Node |-> At(h, m)]
    <3> HIDE DEF At
    <3>1. QED BY <1>12
  <2>3. QED BY <2>1, <2>2
<1> DEFINE g == CHOOSE C : IsC(C)
<1>15. IsC(g)
  BY <1>14
<1>16. \A n \in Node : Contents(p, inside, n) = g[n]
  BY DEF Contents
<1> HIDE DEF g
<1>17. \A n \in Node : g[n] = UNION {Entries(p, x, g[x]) : x \in Listed(inside[n])}
  BY <1>15
<1>18. ASSUME NEW n \in Node
       PROVE  Contents(p, inside, n)
                = UNION {Entries(p, x, Contents(p, inside, x)) : x \in Listed(inside[n])}
  <2>1. {Entries(p, x, Contents(p, inside, x)) : x \in Listed(inside[n])}
          = {Entries(p, x, g[x]) : x \in Listed(inside[n])}
    BY <1>2, <1>16
  <2>2. QED BY <1>16, <1>17, <2>1
<1>19. QED BY <1>18

\* The lists of two states hold the same wherever one of them looks.
LEMMA ContentsSame ==
  ASSUME NEW p \in Program,
         NEW a \in [Node -> Seq(Node)], Leveled(p, a),
         NEW b \in [Node -> Seq(Node)], Leveled(p, b),
         NEW S \in SUBSET Node,
         \A n \in S : /\ Listed(b[n]) = Listed(a[n])
                      /\ \A x \in Listed(a[n]) : p.kind[x] = "Namespace" => x \in S
  PROVE  \A n \in S : Contents(p, b, n) = Contents(p, a, n)
<1> DEFINE T == {n \in Node : Contents(p, b, n) = Contents(p, a, n)}
<1>1. ASSUME NEW n \in S, \A x \in S : p.level[x] > p.level[n] => x \in T
      PROVE  n \in T
  <2>1. \A x \in Listed(a[n]) : p.level[x] > p.level[n]
    <3>1. p.level \in [Node -> 0 .. Cardinality(Node)] /\ Cardinality(Node) \in Nat
      BY ProgramsAssumption, FS_CardinalityType DEF Program
    <3>2. p.level[n] \in Nat
      BY <3>1
    <3>3. QED BY <3>2 DEF Leveled
  <2>2. ASSUME NEW x \in Listed(a[n])
        PROVE  Entries(p, x, Contents(p, b, x)) = Entries(p, x, Contents(p, a, x))
    <3>1. p.kind[x] = "Namespace" => Contents(p, b, x) = Contents(p, a, x)
      BY <1>1, <2>1
    <3>2. QED BY <3>1, EntriesOfItem
  <2>3. /\ Contents(p, a, n) = UNION {Entries(p, x, Contents(p, a, x)) : x \in Listed(a[n])}
        /\ Contents(p, b, n) = UNION {Entries(p, x, Contents(p, b, x)) : x \in Listed(a[n])}
    BY ContentsFacts
  <2>4. QED BY <2>2, <2>3
<1> HIDE DEF T
<1>2. S \subseteq T
  BY <1>1, ByLevel
<1>3. QED BY <1>2 DEF T
-----------------------------------------------------------------------------
(***************************************************************************)
(* What modules are made of.                                               *)
(***************************************************************************)
\* A set of modules that holds their imports, and all that module n needs.
ImportsIn(p, S) == \A y \in S : Listed(p.imports[y]) \subseteq S

MadeOf(p, n) == {x \in Node : \A S \in SUBSET Node : n \in S /\ ImportsIn(p, S) => x \in S}

LEMMA MadeOfFacts ==
  ASSUME NEW p \in Program, NEW n \in Node
  PROVE  /\ MadeOf(p, n) \in SUBSET Node /\ n \in MadeOf(p, n)
         /\ ImportsIn(p, MadeOf(p, n))
         /\ \A S \in SUBSET Node : n \in S /\ ImportsIn(p, S) => MadeOf(p, n) \subseteq S
<1>1. \A m \in Node : Listed(p.imports[m]) \subseteq Node
  <2>1. \A m \in Node : p.imports[m] \in Seq(Node)
    BY DEF Program
  <2>2. QED BY <2>1 DEF Listed
<1>2. MadeOf(p, n) \in SUBSET Node /\ n \in MadeOf(p, n)
  BY DEF MadeOf
<1>3. ASSUME NEW S \in SUBSET Node, n \in S, ImportsIn(p, S) PROVE MadeOf(p, n) \subseteq S
  BY <1>3 DEF MadeOf
<1>4. ASSUME NEW y \in MadeOf(p, n), NEW z \in Listed(p.imports[y]) PROVE z \in MadeOf(p, n)
  <2>1. y \in Node /\ z \in Node
    BY <1>1, <1>2
  <2>2. ASSUME NEW S \in SUBSET Node, n \in S, ImportsIn(p, S) PROVE z \in S
    <3>1. y \in S
      BY <1>3, <2>2
    <3>2. QED BY <2>2, <3>1 DEF ImportsIn
  <2>3. QED BY <2>1, <2>2 DEF MadeOf
<1>5. ImportsIn(p, MadeOf(p, n))
  BY <1>4 DEF ImportsIn
<1>6. QED BY <1>2, <1>3, <1>5

\* ModulesOf is defined: the recursion has a solution.
LEMMA ModulesFacts ==
  ASSUME NEW p \in Program
  PROVE  \A n \in Node : ModulesOf(p, n) = {n} \cup UNION {ModulesOf(p, x) : x \in Listed(p.imports[n])}
<1> DEFINE IsM(M) == M = [m \in Node |-> {m} \cup UNION {M[x] : x \in Listed(p.imports[m])}]
           R == [m \in Node |-> MadeOf(p, m)]
<1>1. \A m \in Node : Listed(p.imports[m]) \subseteq Node
  <2>1. \A m \in Node : p.imports[m] \in Seq(Node)
    BY DEF Program
  <2>2. QED BY <2>1 DEF Listed
<1>2. ASSUME NEW m \in Node
      PROVE  MadeOf(p, m) = {m} \cup UNION {MadeOf(p, x) : x \in Listed(p.imports[m])}
  <2> DEFINE U == {m} \cup UNION {MadeOf(p, x) : x \in Listed(p.imports[m])}
  <2>1. ASSUME NEW x \in Listed(p.imports[m]) PROVE MadeOf(p, x) \subseteq MadeOf(p, m)
    <3>1. x \in Node /\ m \in MadeOf(p, m) /\ ImportsIn(p, MadeOf(p, m))
          /\ MadeOf(p, m) \in SUBSET Node
      BY <1>1, MadeOfFacts
    <3>2. x \in MadeOf(p, m)
      BY <3>1 DEF ImportsIn
    <3>3. QED BY <3>1, <3>2, MadeOfFacts
  <2>2. U \subseteq MadeOf(p, m) /\ m \in U
    BY <2>1, MadeOfFacts
  <2>3. U \in SUBSET Node
    BY <2>2, MadeOfFacts
  <2>4. ASSUME NEW y \in U PROVE Listed(p.imports[y]) \subseteq U
    <3>1. CASE y = m
      <4>1. \A z \in Listed(p.imports[m]) : z \in Node /\ z \in MadeOf(p, z)
        BY <1>1, MadeOfFacts
      <4>2. QED BY <3>1, <4>1
    <3>2. CASE \E x \in Listed(p.imports[m]) : y \in MadeOf(p, x)
      <4>1. PICK x \in Listed(p.imports[m]) : y \in MadeOf(p, x)
        BY <3>2
      <4>2. x \in Node
        BY <1>1
      <4>3. Listed(p.imports[y]) \subseteq MadeOf(p, x)
        BY <4>1, <4>2, MadeOfFacts DEF ImportsIn
      <4>4. QED BY <4>3
    <3>3. QED BY <3>1, <3>2
  <2> HIDE DEF U
  <2>5. ImportsIn(p, U)
    BY <2>4 DEF ImportsIn
  <2>6. MadeOf(p, m) = U
    BY <2>2, <2>3, <2>5, MadeOfFacts
  <2>7. QED BY <2>6 DEF U
<1>3. IsM(R)
  <2>1. ASSUME NEW m \in Node
        PROVE  R[m] = {m} \cup UNION {R[x] : x \in Listed(p.imports[m])}
    <3>1. {R[x] : x \in Listed(p.imports[m])} = {MadeOf(p, x) : x \in Listed(p.imports[m])}
      BY <1>1
    <3>2. QED BY <1>2, <3>1
  <2>2. R = [m \in Node |-> R[m]]
    OBVIOUS
  <2> HIDE DEF R
  <2>3. [m \in Node |-> R[m]]
          = [m \in Node |-> {m} \cup UNION {R[x] : x \in Listed(p.imports[m])}]
    BY <2>1
  <2>4. QED BY <2>2, <2>3
<1> DEFINE g == CHOOSE M : IsM(M)
<1> HIDE DEF R
<1>4. IsM(g)
  BY <1>3
<1>5. \A n \in Node : ModulesOf(p, n) = g[n]
  BY DEF ModulesOf
<1> HIDE DEF g
<1>6. \A n \in Node : g[n] = {n} \cup UNION {g[x] : x \in Listed(p.imports[n])}
  BY <1>4
<1>7. ASSUME NEW n \in Node
      PROVE  ModulesOf(p, n) = {n} \cup UNION {ModulesOf(p, x) : x \in Listed(p.imports[n])}
  <2>1. {g[x] : x \in Listed(p.imports[n])} = {ModulesOf(p, x) : x \in Listed(p.imports[n])}
    BY <1>1, <1>5
  <2>2. QED BY <1>5, <1>6, <2>1
<1>8. QED BY <1>7

\* A module was written with its own items and those of what it imports.
LEMMA WrittenFacts ==
  ASSUME NEW p \in Program, NEW m \in Node
  PROVE  Written(p, m) = Contents(p, p.inside, m)
                           \cup UNION {Written(p, x) : x \in Listed(p.imports[m])}
<1>1. ModulesOf(p, m) = {m} \cup UNION {ModulesOf(p, x) : x \in Listed(p.imports[m])}
  BY ModulesFacts
<1>2. Written(p, m) \subseteq Contents(p, p.inside, m)
                           \cup UNION {Written(p, x) : x \in Listed(p.imports[m])}
  BY <1>1 DEF Written
<1>3. Contents(p, p.inside, m) \subseteq Written(p, m)
  BY <1>1 DEF Written
<1>4. \A x \in Listed(p.imports[m]) : Written(p, x) \subseteq Written(p, m)
  BY <1>1 DEF Written
<1>5. QED BY <1>2, <1>3, <1>4
-----------------------------------------------------------------------------
(***************************************************************************)
(* What the steps change.                                                  *)
(***************************************************************************)
LEMMA LeveledFacts ==
  ASSUME IInv
  PROVE  /\ program \in Program /\ items \in [Node -> Seq(Node)] /\ Leveled(program, items)
         /\ program.inside \in [Node -> Seq(Node)] /\ Leveled(program, program.inside)
         /\ \A n \in Node : Listed(items[n]) \subseteq Node /\ Listed(program.inside[n]) \subseteq Node
<1>1. program \in Program /\ items \in [Node -> Seq(Node)] /\ program.inside \in [Node -> Seq(Node)]
  BY ProgramFacts DEF IInv, TypeOK
<1>2. Leveled(program, items)
  BY DEF IInv, Levels, Leveled
<1>3. Leveled(program, program.inside)
  BY ProgramFacts DEF IInv, WrittenOnce, Leveled
<1>4. ASSUME NEW n \in Node PROVE Listed(items[n]) \subseteq Node /\ Listed(program.inside[n]) \subseteq Node
  <2>1. items[n] \in Seq(Node) /\ program.inside[n] \in Seq(Node)
    BY <1>1
  <2>2. QED BY <2>1 DEF Listed
<1>5. QED BY <1>1, <1>2, <1>3, <1>4

LEMMA LeveledAfter ==
  ASSUME Levels', program' = program
  PROVE  Leveled(program, items')
BY DEF Levels, Leveled

\* The modules as they were written.
WrittenAs(n) == Contents(program, items, n) = Contents(program, program.inside, n)

\* What the invariant says, of the state after a step.
LEMMA KeptAfter ==
  ASSUME program' = program,
         \A m \in InUse' : program.kind[m] = "Module" /\ Taken(m)' =>
            Contents(program, items', m) = Written(program, m),
         phase' = "items" /\ Parsing' =>
            Contents(program, items', Current')
              = UNION {Written(program, program.imports[Current'][i]) : i \in 1 .. spliced'},
         \A m \in Node : program.kind[m] = "Module" /\ ~ Taken(m)' =>
            /\ items'[m] = <<>> \/ (phase' = "items" /\ Parsing' /\ m = Current')
            /\ \A x \in Listed(program.inside[m]) : IsNamespace(x) =>
                  Contents(program, items', x) = Contents(program, program.inside, x)
  PROVE  HoldsAll'
BY DEF HoldsAll, IsNamespace

\* A merge changes what is found below nothing but the namespace merged into.
LEMMA MergeContents ==
  ASSUME IInv, calls # <<>>, NEW j \in Nat, NEW o, NEW orig, NEW dup,
         MergeEffect(o, orig, dup, j), Levels', program' = program,
         NEW n \in InUse, n # orig, n # dup
  PROVE  Contents(program, items', n) = Contents(program, items, n)
<1> DEFINE S == InUse \ {orig, dup}
           T == {x \in Node : Contents(program, items', x) = Contents(program, items, x)}
           A(x) == Entries(program, x, Contents(program, items, x))
           B(x) == Entries(program, x, Contents(program, items', x))
<1>1. /\ orig \in Listed(items[o]) /\ dup \in Listed(items[o])
      /\ Listed(items'[o]) = Listed(items[o]) \ {dup}
      /\ Listed(items'[orig]) = Listed(items[orig]) \cup Listed(items[dup])
  BY MergeLists
<1>2. /\ o \in InUse /\ orig \in InUse /\ dup \in InUse
      /\ orig # o /\ dup # o /\ orig # dup
      /\ items' \in [Node -> Seq(Node)]
      /\ \A m \in Node : m # o /\ m # orig => items'[m] = items[m]
      /\ program.kind[orig] = "Namespace" /\ program.kind[dup] = "Namespace"
      /\ program.name[orig] = program.name[dup]
  BY DEF MergeEffect, SameNamespace, IsNamespace
<1>3. InUse \subseteq Node
  BY DEF InUse
<1>4. /\ program \in Program /\ items \in [Node -> Seq(Node)]
      /\ Leveled(program, items) /\ Leveled(program, items')
      /\ \A m \in Node : Listed(items[m]) \subseteq Node
  BY LeveledFacts, LeveledAfter
<1>5. /\ \A m \in Node : Contents(program, items, m) = UNION {A(x) : x \in Listed(items[m])}
      /\ \A m \in Node : Contents(program, items', m) = UNION {B(x) : x \in Listed(items'[m])}
  BY <1>2, <1>4, ContentsFacts
<1>6. \A m \in Node : program.level[m] \in Nat
  <2>1. program.level \in [Node -> 0 .. Cardinality(Node)] /\ Cardinality(Node) \in Nat
    BY <1>4, ProgramsAssumption, FS_CardinalityType DEF Program
  <2>2. QED BY <2>1
<1>7. ASSUME NEW m \in InUse, NEW x \in Listed(items[m])
      PROVE  /\ x \in Node /\ program.level[x] = program.level[m] + 1
             /\ program.kind[x] = "Namespace" => x \in InUse
             /\ x \in {orig, dup} => m = o
  <2>1. x \in Node /\ program.level[x] = program.level[m] + 1 /\ program.kind[x] # "Module"
    BY <1>3, <1>4 DEF IInv, Levels
  <2>2. x \notin freed
    BY DEF IInv, ListsDisjoint
  <2>3. x \notin Spliced
    BY <2>1, SplicedFacts DEF IInv
  <2>4. x \in {orig, dup} => m = o
    BY <1>1, <1>2 DEF IInv, ListsDisjoint
  <2>5. QED BY <2>1, <2>2, <2>3, <2>4 DEF InUse
<1>8. ASSUME NEW m \in S, \A x \in S : program.level[x] > program.level[m] => x \in T
      PROVE  m \in T
  <2>1. m \in InUse /\ m \in Node /\ m # orig /\ m # dup
    BY <1>3
  <2>2. ASSUME NEW x \in S, program.level[x] > program.level[m] PROVE B(x) = A(x)
    BY <1>8, <2>2
  <2>3. ASSUME NEW x \in Node, program.kind[x] # "Namespace" PROVE B(x) = A(x)
    BY <2>3, EntriesOfItem
  <2>4. CASE m # o
    <3>1. ASSUME NEW x \in Listed(items[m]) PROVE B(x) = A(x)
      <4>1. x \in Node /\ program.level[x] = program.level[m] + 1 /\ x \notin {orig, dup}
            /\ (program.kind[x] = "Namespace" => x \in InUse)
        BY <1>7, <2>1, <2>4
      <4>2. program.level[x] > program.level[m]
        BY <1>6, <2>1, <4>1
      <4>3. QED BY <2>2, <2>3, <4>1, <4>2
    <3>2. items'[m] = items[m]
      BY <1>2, <2>1, <2>4
    <3> HIDE DEF A, B, S
    <3>3. {B(x) : x \in Listed(items[m])} = {A(x) : x \in Listed(items[m])}
      BY <3>1
    <3>4. Contents(program, items', m) = Contents(program, items, m)
      BY <1>5, <2>1, <3>2, <3>3
    <3>5. QED BY <2>1, <3>4
  <2>5. CASE m = o
    <3>1. ASSUME NEW x \in Listed(items[m]), x # orig, x # dup PROVE B(x) = A(x)
      <4>1. x \in Node /\ program.level[x] = program.level[m] + 1
            /\ (program.kind[x] = "Namespace" => x \in InUse)
        BY <1>7, <2>1
      <4>2. program.level[x] > program.level[m]
        BY <1>6, <2>1, <4>1
      <4>3. QED BY <2>2, <2>3, <3>1, <4>1, <4>2
    <3>2. ASSUME NEW y \in {orig, dup}, NEW x \in Listed(items[y]) PROVE B(x) = A(x)
      <4>1. y \in InUse /\ y \in Node /\ program.level[y] = program.level[m] + 1
        BY <1>1, <1>2, <1>3, <1>7, <2>1, <2>5
      <4>2. x \in Node /\ program.level[x] = program.level[y] + 1
            /\ (program.kind[x] = "Namespace" => x \in InUse)
            /\ x \notin {orig, dup}
        BY <1>2, <1>7, <4>1
      <4>3. program.level[x] > program.level[m]
        BY <1>6, <2>1, <4>1, <4>2
      <4>4. QED BY <2>2, <2>3, <4>2, <4>3
    <3> HIDE DEF A, B
    <3>3. Contents(program, items', orig)
            = Contents(program, items, orig) \cup Contents(program, items, dup)
      <4>1. orig \in Node /\ dup \in Node
        BY <1>2, <1>3
      <4>2. Contents(program, items', orig) = UNION {B(x) : x \in Listed(items[orig]) \cup Listed(items[dup])}
        BY <1>1, <1>5, <4>1
      <4>3. Contents(program, items, orig) = UNION {A(x) : x \in Listed(items[orig])}
            /\ Contents(program, items, dup) = UNION {A(x) : x \in Listed(items[dup])}
        BY <1>5, <4>1
      <4>4. \A x \in Listed(items[orig]) \cup Listed(items[dup]) : B(x) = A(x)
        BY <3>2
      <4>5. QED BY <4>2, <4>3, <4>4
    <3>4. B(orig) = A(orig) \cup A(dup)
      BY <1>2, <3>3, EntriesJoin DEF A, B
    <3>5. Contents(program, items', m) = UNION {B(x) : x \in Listed(items[m]) \ {dup}}
      BY <1>1, <1>5, <2>1, <2>5
    <3>6. Contents(program, items, m) = UNION {A(x) : x \in Listed(items[m])}
      BY <1>5, <2>1
    <3>7. orig \in Listed(items[m]) /\ dup \in Listed(items[m]) /\ orig # dup
      BY <1>1, <1>2, <2>5
    <3>8. UNION {B(x) : x \in Listed(items[m]) \ {dup}} \subseteq UNION {A(x) : x \in Listed(items[m])}
      <4>1. ASSUME NEW x \in Listed(items[m]) \ {dup}
            PROVE  B(x) \subseteq UNION {A(y) : y \in Listed(items[m])}
        <5>1. CASE x = orig
          BY <3>4, <3>7, <5>1
        <5>2. CASE x # orig
          BY <3>1, <5>2
        <5>3. QED BY <5>1, <5>2
      <4>2. QED BY <4>1
    <3>9. UNION {A(x) : x \in Listed(items[m])} \subseteq UNION {B(x) : x \in Listed(items[m]) \ {dup}}
      <4>1. ASSUME NEW x \in Listed(items[m]) PROVE \E y \in Listed(items[m]) \ {dup} : A(x) \subseteq B(y)
        <5>1. CASE x \in {orig, dup}
          BY <3>4, <3>7, <5>1
        <5>2. CASE x \notin {orig, dup}
          BY <3>1, <5>2
        <5>3. QED BY <5>1, <5>2
      <4>2. QED BY <4>1
    <3>10. Contents(program, items', m) = Contents(program, items, m)
      BY <3>5, <3>6, <3>8, <3>9
    <3>11. QED BY <2>1, <3>10
  <2>6. QED BY <2>4, <2>5
<1>9. S \in SUBSET Node /\ n \in S
  BY <1>3
<1> HIDE DEF S, T
<1>10. S \subseteq T
  BY <1>4, <1>8, <1>9, ByLevel
<1>11. QED BY <1>9, <1>10 DEF T

LEMMA MergeKept ==
  ASSUME IInv, HoldsAll, NEW j \in Nat, Merge(j)
  PROVE  HoldsAll'
<1>1. phase = "merge" /\ UNCHANGED <<program, done, spliced, phase>>
  BY DEF Merge
<1>2. calls # <<>>
  BY <1>1 DEF IInv, Calls
<1>3. PICK o, orig, dup : MergeEffect(o, orig, dup, j)
  BY <1>2, MergeFacts
<1>4. Levels'
  BY <1>2, MergeKeepsLists DEF Lists
<1>5. /\ o \in InUse /\ orig \in InUse /\ dup \in InUse /\ InUse' = InUse \ {dup}
      /\ \A m \in Node : m # o /\ m # orig => items'[m] = items[m]
      /\ IsNamespace(orig) /\ IsNamespace(dup)
      /\ orig \in Listed(items[o]) /\ dup \in Listed(items[o])
  <2>1. orig \in Listed(items[o]) /\ dup \in Listed(items[o])
    BY <1>2, <1>3, MergeLists
  <2>2. QED BY <1>3, <2>1 DEF MergeEffect, SameNamespace
<1>6. \A n \in InUse : n # orig /\ n # dup =>
         Contents(program, items', n) = Contents(program, items, n)
  BY <1>1, <1>2, <1>3, <1>4, MergeContents
<1>7. \A m : Taken(m)' = Taken(m)
  BY <1>1 DEF Taken
<1>8. ASSUME NEW m \in InUse', program.kind[m] = "Module", Taken(m)'
      PROVE  Contents(program, items', m) = Written(program, m)
  <2>1. m \in InUse /\ Taken(m) /\ m # orig /\ m # dup
    BY <1>5, <1>7, <1>8 DEF IsNamespace
  <2>2. QED BY <1>6, <1>8, <2>1 DEF HoldsAll
<1>9. ASSUME NEW m \in Node, program.kind[m] = "Module", ~ Taken(m)'
      PROVE  /\ items'[m] = <<>> \/ (phase' = "items" /\ Parsing' /\ m = Current')
             /\ \A x \in Listed(program.inside[m]) : IsNamespace(x) =>
                   Contents(program, items', x) = Contents(program, program.inside, x)
  <2>1. ~ Taken(m) /\ m # orig /\ items[m] = <<>>
    BY <1>1, <1>5, <1>7, <1>9 DEF IsNamespace, HoldsAll
  <2>2. m # o
    <3>1. Listed(items[m]) = {}
      BY <2>1 DEF Listed
    <3>2. QED BY <1>5, <3>1
  <2>3. items'[m] = <<>>
    BY <1>5, <1>9, <2>1, <2>2
  <2>4. ASSUME NEW x \in Listed(program.inside[m]), IsNamespace(x)
        PROVE  Contents(program, items', x) = Contents(program, program.inside, x)
    <3>1. Listed(program.inside[m]) \cap freed = {}
          /\ Listed(program.inside[m]) \cap Listed(items[o]) = {}
      BY <1>5, <1>9, <2>1 DEF IInv, OwnItemsWaiting
    <3>2. x \in Node /\ x \notin Spliced
      BY <1>9, <2>4, LeveledFacts, SplicedFacts DEF IInv, IsNamespace
    <3>3. x \in InUse /\ x # orig /\ x # dup
      BY <1>5, <3>1, <3>2, <2>4 DEF InUse
    <3>4. Contents(program, items, x) = Contents(program, program.inside, x)
      BY <1>9, <2>1, <2>4 DEF HoldsAll
    <3>5. QED BY <1>6, <3>3, <3>4
  <2>5. QED BY <2>3, <2>4
<1>10. QED BY <1>1, <1>8, <1>9, KeptAfter

\* A step that only changes the calls, or regroups a list.
LEMMA SameKept ==
  ASSUME IInv, HoldsAll, program' = program, InUse' = InUse, Levels',
         items' \in [Node -> Seq(Node)],
         \A n \in Node : Listed(items'[n]) = Listed(items[n]),
         UNCHANGED <<done, spliced>>, phase # "items", phase' # "items"
  PROVE  HoldsAll'
<1>1. /\ program \in Program /\ items \in [Node -> Seq(Node)]
      /\ Leveled(program, items) /\ Leveled(program, items')
      /\ \A m \in Node : Listed(items[m]) \subseteq Node
      /\ \A m \in Node : Listed(program.inside[m]) \subseteq Node
  BY LeveledFacts, LeveledAfter
<1>2. \A n \in Node : Contents(program, items', n) = Contents(program, items, n)
  BY <1>1, ContentsSame
<1>3. \A m : Taken(m)' = Taken(m)
  BY DEF Taken
<1>4. InUse \subseteq Node
  BY DEF InUse
<1>5. ASSUME NEW m \in InUse', program.kind[m] = "Module", Taken(m)'
      PROVE  Contents(program, items', m) = Written(program, m)
  BY <1>2, <1>3, <1>4, <1>5 DEF HoldsAll
<1>6. ASSUME NEW m \in Node, program.kind[m] = "Module", ~ Taken(m)'
      PROVE  /\ items'[m] = <<>> \/ (phase' = "items" /\ Parsing' /\ m = Current')
             /\ \A x \in Listed(program.inside[m]) : IsNamespace(x) =>
                   Contents(program, items', x) = Contents(program, program.inside, x)
  <2>1. items[m] = <<>>
    BY <1>3, <1>6 DEF HoldsAll
  <2>2. items'[m] = <<>>
    <3>1. Listed(items[m]) = {}
      BY <2>1 DEF Listed
    <3>2. items'[m] \in Seq(Node) /\ Listed(items'[m]) = {}
      BY <1>6, <3>1
    <3> DEFINE s == items'[m]
    <3> HIDE DEF s
    <3>3. s \in Seq(Node) /\ Listed(s) = {}
      BY <3>2 DEF s
    <3>4. \A i \in 1 .. Len(s) : FALSE
      BY <3>3, ListedAt
    <3>5. Len(s) = 0
      BY <3>3, <3>4
    <3>6. s = <<>>
      BY <3>3, <3>5
    <3>7. QED BY <3>6 DEF s
  <2>3. \A x \in Listed(program.inside[m]) : IsNamespace(x) =>
           Contents(program, items, x) = Contents(program, program.inside, x)
    BY <1>3, <1>6 DEF HoldsAll
  <2>4. QED BY <1>1, <1>2, <1>6, <2>2, <2>3
<1>7. QED BY <1>5, <1>6, KeptAfter

\* A module's list grows: that changes what is found below no other node.
LEMMA ModuleContents ==
  ASSUME IInv, program' = program, Levels', NEW m \in Node, program.kind[m] = "Module",
         items' \in [Node -> Seq(Node)],
         \A n \in Node : n # m => items'[n] = items[n]
  PROVE  \A n \in Node : n # m => Contents(program, items', n) = Contents(program, items, n)
<1> DEFINE S == Node \ {m}
<1>1. /\ program \in Program /\ items \in [Node -> Seq(Node)]
      /\ Leveled(program, items) /\ Leveled(program, items')
      /\ \A n \in Node : Listed(items[n]) \subseteq Node
  BY LeveledFacts, LeveledAfter
<1>2. \A n \in S : /\ Listed(items'[n]) = Listed(items[n])
                   /\ \A x \in Listed(items[n]) : program.kind[x] = "Namespace" => x \in S
  BY <1>1
<1>3. S \in SUBSET Node
  OBVIOUS
<1> HIDE DEF S
<1>4. \A n \in S : Contents(program, items', n) = Contents(program, items, n)
  BY <1>1, <1>2, <1>3, ContentsSame
<1>5. QED BY <1>4 DEF S

LEMMA SpliceKept ==
  ASSUME IInv, HoldsAll, SpliceModule
  PROVE  HoldsAll'
<1> DEFINE imp == program.imports[Current][spliced + 1]
<1>1. /\ phase = "items" /\ Parsing /\ spliced < Len(program.imports[Current])
      /\ spliced' = spliced + 1 /\ UNCHANGED <<program, freed, done, phase, calls>>
  BY DEF SpliceModule
<1>2. TypeOK /\ program \in Programs /\ Splicing /\ Levels
  BY DEF IInv
<1>3. /\ imp \in Node /\ imp \in InUse /\ imp # Current /\ program.kind[imp] = "Module"
      /\ \E k \in 1 .. done : program.order[k] = imp
  BY <1>1, <1>2, ImportFacts
<1>4. SpliceEffect(imp)
  BY SpliceFacts
<1>5. Levels'
  BY SpliceKeepsLists DEF Lists
<1>6. Current \in Node /\ program.kind[Current] = "Module"
      /\ done \in Nat /\ Len(program.order) \in Nat /\ done + 1 \in 1 .. Len(program.order)
  BY <1>1, <1>2, CurrentFacts, ProgramFacts
<1>7. Taken(imp)
  <2>1. \A k \in 1 .. done : k \in 1 .. Len(program.order) /\ k <= done
    BY <1>6
  <2>2. QED BY <1>3, <2>1 DEF Taken
<1>8. ~ Taken(Current)
  <2>1. SUFFICES ASSUME NEW k \in 1 .. Len(program.order), program.order[k] = Current, k <= done
                 PROVE  FALSE
    BY <1>1 DEF Taken
  <2>2. k # done + 1 /\ program.order[done + 1] = Current
    BY <1>6, <2>1 DEF Current
  <2>3. QED BY <1>2, <1>6, <2>1, <2>2, ProgramFacts DEF ImportedOnce, NoRepeat
<1>9. \A m : Taken(m)' = Taken(m)
  BY <1>1 DEF Taken
<1>10. Current' = Current /\ Parsing'
  BY <1>1 DEF Current, Parsing
<1> HIDE DEF imp
<1>11. /\ items' \in [Node -> Seq(Node)] /\ InUse' = InUse \ {imp} /\ InUse \subseteq Node
       /\ \A n \in Node : n # Current => items'[n] = items[n]
       /\ Listed(items'[Current]) = Listed(items[Current]) \cup Listed(items[imp])
  <2>1. Listed(items'[Current]) = Listed(items[Current]) \cup Listed(items[imp])
    BY <1>4, SpliceLists
  <2>2. QED BY <1>4, <2>1 DEF SpliceEffect, InUse
<1>12. \A n \in Node : n # Current => Contents(program, items', n) = Contents(program, items, n)
  BY <1>1, <1>5, <1>6, <1>11, ModuleContents
<1>13. Contents(program, items', Current)
         = Contents(program, items, Current) \cup Contents(program, items, imp)
  <2> DEFINE A(x) == Entries(program, x, Contents(program, items, x))
             B(x) == Entries(program, x, Contents(program, items', x))
  <2>1. /\ program \in Program /\ items \in [Node -> Seq(Node)]
        /\ Leveled(program, items) /\ Leveled(program, items')
        /\ \A n \in Node : Listed(items[n]) \subseteq Node
    BY <1>1, <1>5, LeveledFacts, LeveledAfter
  <2>2. /\ Contents(program, items, Current) = UNION {A(x) : x \in Listed(items[Current])}
        /\ Contents(program, items, imp) = UNION {A(x) : x \in Listed(items[imp])}
        /\ Contents(program, items', Current) = UNION {B(x) : x \in Listed(items'[Current])}
    BY <1>3, <1>6, <1>11, <2>1, ContentsFacts
  <2>3. \A x \in Listed(items[Current]) \cup Listed(items[imp]) : B(x) = A(x)
    <3>1. \A x \in Listed(items[Current]) \cup Listed(items[imp]) : x \in Node /\ x # Current
      BY <1>2, <1>3, <1>6, <2>1 DEF Levels
    <3>2. QED BY <1>12, <3>1
  <2> HIDE DEF A, B
  <2>4. QED BY <1>11, <2>2, <2>3
<1>14. ASSUME NEW m \in InUse', program.kind[m] = "Module", Taken(m)'
       PROVE  Contents(program, items', m) = Written(program, m)
  <2>1. m \in InUse /\ m \in Node /\ Taken(m) /\ m # Current
    BY <1>8, <1>9, <1>11, <1>14
  <2>2. QED BY <1>12, <1>14, <2>1 DEF HoldsAll
<1>15. Contents(program, items', Current')
         = UNION {Written(program, program.imports[Current'][i]) : i \in 1 .. spliced'}
  <2>1. Contents(program, items, imp) = Written(program, imp)
    BY <1>3, <1>7 DEF HoldsAll
  <2>2. Contents(program, items, Current)
          = UNION {Written(program, program.imports[Current][i]) : i \in 1 .. spliced}
    BY <1>1 DEF HoldsAll
  <2>3. spliced \in Nat /\ \A i : i \in 1 .. spliced + 1 <=> i \in 1 .. spliced \/ i = spliced + 1
    BY <1>2 DEF TypeOK
  <2> DEFINE W(i) == Written(program, program.imports[Current][i])
  <2>4. UNION {W(i) : i \in 1 .. spliced + 1} = (UNION {W(i) : i \in 1 .. spliced}) \cup W(spliced + 1)
    <3> HIDE DEF W
    <3>1. QED BY <2>3
  <2>5. UNION {Written(program, program.imports[Current'][i]) : i \in 1 .. spliced'}
          = UNION {W(i) : i \in 1 .. spliced + 1}
    BY <1>1, <1>10
  <2>6. Contents(program, items, Current) = UNION {W(i) : i \in 1 .. spliced}
        /\ Contents(program, items, imp) = W(spliced + 1)
    BY <2>1, <2>2 DEF imp
  <2> HIDE DEF W
  <2>7. QED BY <1>10, <1>13, <2>4, <2>5, <2>6
<1>16. ASSUME NEW m \in Node, program.kind[m] = "Module", ~ Taken(m)'
       PROVE  /\ items'[m] = <<>> \/ (phase' = "items" /\ Parsing' /\ m = Current')
              /\ \A x \in Listed(program.inside[m]) : IsNamespace(x) =>
                    Contents(program, items', x) = Contents(program, program.inside, x)
  <2>1. ~ Taken(m)
    BY <1>9, <1>16
  <2>2. m # Current => items'[m] = <<>>
    BY <1>11, <1>16, <2>1 DEF HoldsAll
  <2>3. ASSUME NEW x \in Listed(program.inside[m]), IsNamespace(x)
        PROVE  Contents(program, items', x) = Contents(program, program.inside, x)
    <3>1. x \in Node /\ x # Current
      BY <1>6, <1>16, <2>3, LeveledFacts DEF IsNamespace
    <3>2. Contents(program, items, x) = Contents(program, program.inside, x)
      BY <1>16, <2>1, <2>3 DEF HoldsAll
    <3>3. QED BY <1>12, <3>1, <3>2
  <2>4. QED BY <1>1, <1>10, <2>2, <2>3
<1>17. QED BY <1>1, <1>14, <1>15, <1>16, KeptAfter

LEMMA OwnKept ==
  ASSUME IInv, HoldsAll, OwnItems
  PROVE  HoldsAll'
<1>1. /\ phase' = "merge" /\ UNCHANGED <<program, freed, done, spliced>>
      /\ phase = "items"
  BY DEF OwnItems
<1>2. TypeOK /\ program \in Programs /\ Splicing /\ Levels
  BY DEF IInv
<1>3. /\ Current \in InUse /\ Current \in Node /\ Parsing /\ spliced = Len(program.imports[Current])
      /\ ~ Taken(Current) /\ program.kind[Current] = "Module"
      /\ items' \in [Node -> Seq(Node)]
      /\ \A n \in Node : n # Current => items'[n] = items[n]
      /\ InUse' = InUse
      /\ Listed(items'[Current]) = Listed(items[Current]) \cup Listed(program.inside[Current])
  BY OwnFacts DEF OwnEffect
<1>4. Levels'
  BY OwnKeepsLists DEF Lists
<1>5. done \in Nat /\ done + 1 \in 1 .. Len(program.order) /\ program.order[done + 1] = Current
  BY <1>2, <1>3, CurrentFacts DEF Current
<1>6. \A m : Taken(m)' <=> Taken(m) \/ m = Current
  <2>1. ASSUME NEW m, Taken(m)' PROVE Taken(m) \/ m = Current
    <3>1. PICK k \in 1 .. Len(program.order) : program.order[k] = m /\ (k <= done \/ k = done + 1)
      BY <1>1, <2>1 DEF Taken
    <3>2. CASE k <= done
      BY <3>1, <3>2 DEF Taken
    <3>3. QED BY <1>5, <3>1, <3>2
  <2>2. ASSUME NEW m, Taken(m) PROVE Taken(m)'
    <3>1. PICK k \in 1 .. Len(program.order) : program.order[k] = m /\ k <= done
      BY <1>1, <2>2 DEF Taken
    <3>2. QED BY <1>1, <3>1 DEF Taken
  <2>3. ASSUME NEW m, m = Current PROVE Taken(m)'
    <3>1. program.order'[done' + 1] = m /\ phase' # "items" /\ done' + 1 \in 1 .. Len(program.order')
      BY <1>1, <1>5, <2>3
    <3>2. QED BY <3>1 DEF Taken
  <2>4. QED BY <2>1, <2>2, <2>3
<1>7. \A n \in Node : n # Current => Contents(program, items', n) = Contents(program, items, n)
  BY <1>1, <1>3, <1>4, ModuleContents
<1>8. Contents(program, items', Current)
         = Contents(program, items, Current) \cup Contents(program, program.inside, Current)
  <2> DEFINE A(x) == Entries(program, x, Contents(program, items, x))
             B(x) == Entries(program, x, Contents(program, items', x))
             C(x) == Entries(program, x, Contents(program, program.inside, x))
  <2>1. /\ program \in Program /\ items \in [Node -> Seq(Node)]
        /\ program.inside \in [Node -> Seq(Node)] /\ Leveled(program, program.inside)
        /\ Leveled(program, items) /\ Leveled(program, items')
        /\ \A n \in Node : Listed(items[n]) \subseteq Node
        /\ \A n \in Node : Listed(program.inside[n]) \subseteq Node
    BY <1>1, <1>4, LeveledFacts, LeveledAfter
  <2>2. /\ Contents(program, items, Current) = UNION {A(x) : x \in Listed(items[Current])}
        /\ Contents(program, program.inside, Current) = UNION {C(x) : x \in Listed(program.inside[Current])}
        /\ Contents(program, items', Current) = UNION {B(x) : x \in Listed(items'[Current])}
    BY <1>3, <2>1, ContentsFacts
  <2>3. \A x \in Listed(items[Current]) : B(x) = A(x)
    <3>1. \A x \in Listed(items[Current]) : x \in Node /\ x # Current
      BY <1>2, <1>3, <2>1 DEF Levels
    <3>2. QED BY <1>7, <3>1
  <2>4. ASSUME NEW x \in Listed(program.inside[Current]) PROVE B(x) = C(x)
    <3>1. x \in Node /\ program.kind[x] # "Module"
      BY <1>2, <1>3, <2>1, ProgramFacts DEF WrittenOnce
    <3>2. IsNamespace(x) => Contents(program, items, x) = Contents(program, program.inside, x)
      BY <1>3 DEF HoldsAll
    <3>3. program.kind[x] = "Namespace" =>
             Contents(program, items', x) = Contents(program, program.inside, x)
      BY <1>3, <1>7, <3>1, <3>2 DEF IsNamespace
    <3>4. QED BY <3>3, EntriesOfItem
  <2> HIDE DEF A, B, C
  <2>5. QED BY <1>3, <2>2, <2>3, <2>4
<1>9. Contents(program, items', Current) = Written(program, Current)
  <2>1. Contents(program, items, Current)
          = UNION {Written(program, program.imports[Current][i]) : i \in 1 .. spliced}
    BY <1>1, <1>3 DEF HoldsAll
  <2>2. UNION {Written(program, program.imports[Current][i]) : i \in 1 .. spliced}
          = UNION {Written(program, x) : x \in Listed(program.imports[Current])}
    BY <1>3 DEF Listed
  <2>3. Written(program, Current) = Contents(program, program.inside, Current)
           \cup UNION {Written(program, x) : x \in Listed(program.imports[Current])}
    BY <1>3, LeveledFacts, WrittenFacts
  <2>4. QED BY <1>8, <2>1, <2>2, <2>3
<1>10. InUse \subseteq Node
  BY DEF InUse
<1>11. ASSUME NEW m \in InUse', program.kind[m] = "Module", Taken(m)'
       PROVE  Contents(program, items', m) = Written(program, m)
  <2>1. CASE m = Current
    BY <1>9, <2>1
  <2>2. CASE m # Current
    BY <1>3, <1>6, <1>7, <1>10, <1>11, <2>2 DEF HoldsAll
  <2>3. QED BY <2>1, <2>2
<1>12. ASSUME NEW m \in Node, program.kind[m] = "Module", ~ Taken(m)'
       PROVE  /\ items'[m] = <<>> \/ (phase' = "items" /\ Parsing' /\ m = Current')
              /\ \A x \in Listed(program.inside[m]) : IsNamespace(x) =>
                    Contents(program, items', x) = Contents(program, program.inside, x)
  <2>1. ~ Taken(m) /\ m # Current
    BY <1>6, <1>12
  <2>2. items'[m] = <<>>
    BY <1>3, <1>12, <2>1 DEF HoldsAll
  <2>3. ASSUME NEW x \in Listed(program.inside[m]), IsNamespace(x)
        PROVE  Contents(program, items', x) = Contents(program, program.inside, x)
    <3>1. x \in Node /\ x # Current
      BY <1>3, <1>12, <2>3, LeveledFacts DEF IsNamespace
    <3>2. Contents(program, items, x) = Contents(program, program.inside, x)
      BY <1>12, <2>1, <2>3 DEF HoldsAll
    <3>3. QED BY <1>7, <3>1, <3>2
  <2>4. QED BY <2>2, <2>3
<1>13. QED BY <1>1, <1>11, <1>12, KeptAfter

LEMMA ReturnKept ==
  ASSUME IInv, HoldsAll, Return
  PROVE  HoldsAll'
<1> DEFINE n == Len(calls)
<1>1. phase \in {"merge", "reorder"} /\ UNCHANGED <<program, items, freed>>
  BY DEF Return
<1>2. calls # <<>>
  BY <1>1 DEF IInv, Calls
<1>3. n \in Nat /\ Parsing /\ phase # "items"
  BY <1>2, TopFacts
<1>4. TypeOK /\ program \in Programs /\ Levels /\ items \in [Node -> Seq(Node)]
  BY DEF IInv, TypeOK
<1>5. CASE UNCHANGED <<done, spliced>> /\ phase' # "items"
  <2>1. Lists' /\ InUse' = InUse
    BY <1>1, <1>3, <1>5, ListsKept
  <2>2. Levels' /\ items' \in [Node -> Seq(Node)]
        /\ \A m \in Node : Listed(items'[m]) = Listed(items[m])
    BY <1>1, <1>4, <2>1 DEF Lists
  <2>3. QED BY <1>1, <1>3, <1>5, <2>1, <2>2, SameKept
<1>6. CASE done' = done + 1 /\ spliced' = 0 /\ phase' = "items"
  <2>1. InUse' = InUse /\ InUse \subseteq Node
    BY <1>1, <1>3, <1>6, ReturnKeepsLists DEF InUse
  <2>2. done \in Nat /\ Len(program.order) \in Nat /\ done + 1 \in 1 .. Len(program.order)
        /\ program.order[done + 1] = Current
    BY <1>3, <1>4, CurrentFacts, ProgramFacts DEF Current
  <2>3. \A m : Taken(m)' = Taken(m)
    <3>1. \A k \in 1 .. Len(program.order) :
             k <= done \/ (k = done + 1 /\ phase # "items")
               <=> k <= done + 1 \/ (k = (done + 1) + 1 /\ phase' # "items")
      BY <1>3, <1>6, <2>2
    <3>2. QED BY <1>1, <1>6, <3>1 DEF Taken
  <2>4. ASSUME NEW m \in InUse', program.kind[m] = "Module", Taken(m)'
        PROVE  Contents(program, items', m) = Written(program, m)
    BY <1>1, <2>1, <2>3, <2>4 DEF HoldsAll
  <2>5. ASSUME NEW m \in Node, program.kind[m] = "Module", ~ Taken(m)'
        PROVE  /\ items'[m] = <<>> \/ (phase' = "items" /\ Parsing' /\ m = Current')
               /\ \A x \in Listed(program.inside[m]) : IsNamespace(x) =>
                     Contents(program, items', x) = Contents(program, program.inside, x)
    BY <1>1, <1>3, <2>3, <2>5 DEF HoldsAll
  <2>6. ASSUME Parsing'
        PROVE  Contents(program, items', Current')
                 = UNION {Written(program, program.imports[Current'][i]) : i \in 1 .. spliced'}
    <3> DEFINE k == done + 2
               m == program.order[k]
    <3>1. k \in 1 .. Len(program.order) /\ Current' = m
      <4>1. done + 1 < Len(program.order) /\ (done + 1) + 1 = done + 2
        BY <1>1, <1>6, <2>2, <2>6 DEF Parsing
      <4>2. Current' = program.order[(done + 1) + 1]
        BY <1>1, <1>6 DEF Current
      <4>3. QED BY <2>2, <4>1, <4>2
    <3>2. m \in Node /\ program.kind[m] = "Module"
      <4>1. program.order \in Seq(Node) /\ m \in Listed(program.order)
        BY <1>4, <3>1, ProgramFacts, ListedAt
      <4>2. m \in Node
        BY <3>1, <4>1
      <4>3. QED BY <1>4, <4>1, <4>2, ProgramFacts DEF ImportedOnce
    <3>3. ~ Taken(m)
      <4>1. SUFFICES ASSUME NEW l \in 1 .. Len(program.order), program.order[l] = m,
                            l <= done \/ l = done + 1
                     PROVE  FALSE
        BY DEF Taken
      <4>2. l # k
        BY <2>2, <4>1
      <4>3. QED BY <1>4, <3>1, <4>1, <4>2, ProgramFacts DEF ImportedOnce, NoRepeat
    <3> HIDE DEF m, k
    <3>4. items[m] = <<>>
      BY <1>3, <3>2, <3>3 DEF HoldsAll
    <3>5. Listed(items[m]) = {}
      BY <3>4 DEF Listed
    <3>6. Contents(program, items, m) = {}
      <4>1. Contents(program, items, m)
              = UNION {Entries(program, x, Contents(program, items, x)) : x \in Listed(items[m])}
        BY <3>2, LeveledFacts, ContentsFacts
      <4>2. QED BY <3>5, <4>1
    <3>7. \A i \in 1 .. 0 : FALSE
      OBVIOUS
    <3>8. UNION {Written(program, program.imports[m][i]) : i \in 1 .. 0} = {}
      BY <3>7
    <3>9. QED BY <1>1, <1>6, <3>1, <3>6, <3>8
  <2>7. QED BY <1>1, <2>4, <2>5, <2>6, KeptAfter
<1>7. QED BY <1>1, <1>3, <1>5, <1>6 DEF Return

LEMMA NextKept == IInv /\ HoldsAll /\ [Next]_vars => HoldsAll'
<1> SUFFICES ASSUME IInv, HoldsAll, [Next]_vars PROVE HoldsAll'
  OBVIOUS
<1>1. items \in [Node -> Seq(Node)] /\ Levels
  BY DEF IInv, TypeOK
<1>2. CASE SpliceModule
  BY <1>2, SpliceKept
<1>3. CASE OwnItems
  BY <1>3, OwnKept
<1>4. ASSUME NEW j \in 1 .. Cardinality(Node), Merge(j)
      PROVE  HoldsAll'
  <2>1. j \in Nat
    BY ProgramsAssumption, FS_CardinalityType
  <2>2. QED BY <1>4, <2>1, MergeKept
<1>5. CASE UNCHANGED <<program, items, freed, done, spliced, phase>> /\ phase # "items"
  <2>1. Lists' /\ InUse' = InUse
    BY <1>5, ListsKept
  <2>2. Levels' /\ items' \in [Node -> Seq(Node)] /\ phase' # "items"
        /\ \A m \in Node : Listed(items'[m]) = Listed(items[m])
    BY <1>1, <1>5, <2>1 DEF Lists
  <2>3. QED BY <1>5, <2>1, <2>2, SameKept
<1>6. CASE NoDuplicate
  BY <1>5, <1>6 DEF NoDuplicate
<1>7. CASE ScanEnds
  BY <1>5, <1>7 DEF ScanEnds
<1>8. CASE Reorder
  <2>1. calls # <<>>
    BY <1>8 DEF Reorder, IInv, Calls
  <2>2. ReorderEffect(Top.owner) /\ Levels'
    BY <1>8, <2>1, ReorderFacts, ReorderKeepsLists DEF Lists
  <2>3. /\ UNCHANGED <<program, done, spliced>> /\ phase # "items" /\ phase' # "items"
    BY <1>8 DEF Reorder
  <2>4. /\ InUse' = InUse /\ items' \in [Node -> Seq(Node)]
        /\ \A m \in Node : Listed(items'[m]) = Listed(items[m])
    BY <2>2 DEF ReorderEffect
  <2>5. QED BY <2>2, <2>3, <2>4, SameKept
<1>9. CASE Descend
  BY <1>5, <1>9 DEF Descend
<1>10. CASE Return
  BY <1>10, ReturnKept
<1>11. CASE UNCHANGED vars
  <2>1. UNCHANGED <<program, items, freed, done, spliced, phase, calls>>
    BY <1>11 DEF vars
  <2>2. InUse' = InUse /\ Current' = Current /\ Parsing' = Parsing
    BY <2>1 DEF InUse, Spliced, Parsing, Current
  <2>3. \A m : Taken(m)' = Taken(m)
    BY <2>1 DEF Taken
  <2>4. QED BY <2>1, <2>2, <2>3 DEF HoldsAll, IsNamespace
<1>12. QED BY <1>2, <1>3, <1>4, <1>6, <1>7, <1>8, <1>9, <1>10, <1>11 DEF Next

LEMMA InitKept == Init => HoldsAll
<1> SUFFICES ASSUME Init PROVE HoldsAll
  OBVIOUS
<1>1. /\ program \in Programs /\ done = 0 /\ spliced = 0 /\ phase = "items"
      /\ items = [n \in Node |-> IF program.kind[n] = "Module" THEN <<>> ELSE program.inside[n]]
  BY DEF Init
<1>2. IInv
  BY InitIInv
<1>3. /\ program \in Program /\ items \in [Node -> Seq(Node)] /\ Leveled(program, items)
      /\ program.inside \in [Node -> Seq(Node)] /\ Leveled(program, program.inside)
      /\ \A n \in Node : Listed(items[n]) \subseteq Node /\ Listed(program.inside[n]) \subseteq Node
  BY <1>2, LeveledFacts
<1>4. \A m : ~ Taken(m)
  <2>1. \A k \in 1 .. Len(program.order) : ~ (k <= 0)
    OBVIOUS
  <2>2. QED BY <1>1, <2>1 DEF Taken
<1>5. Parsing => Contents(program, items, Current)
         = UNION {Written(program, program.imports[Current][i]) : i \in 1 .. spliced}
  <2> SUFFICES ASSUME Parsing PROVE Contents(program, items, Current)
                 = UNION {Written(program, program.imports[Current][i]) : i \in 1 .. spliced}
    OBVIOUS
  <2>1. Current \in Node /\ program.kind[Current] = "Module"
    BY <1>1, <1>2, CurrentFacts DEF IInv
  <2>2. items[Current] = <<>>
    BY <1>1, <2>1
  <2>3. Listed(items[Current]) = {}
    BY <2>2 DEF Listed
  <2>4. Contents(program, items, Current)
          = UNION {Entries(program, x, Contents(program, items, x)) : x \in Listed(items[Current])}
    BY <1>3, <2>1, ContentsFacts
  <2>5. \A i \in 1 .. 0 : FALSE
    OBVIOUS
  <2>6. UNION {Written(program, program.imports[Current][i]) : i \in 1 .. 0} = {}
    BY <2>5
  <2>7. QED BY <1>1, <2>3, <2>4, <2>6
<1>6. ASSUME NEW m \in Node, program.kind[m] = "Module"
      PROVE  /\ items[m] = <<>>
             /\ \A x \in Listed(program.inside[m]) : IsNamespace(x) =>
                   Contents(program, items, x) = Contents(program, program.inside, x)
  <2> DEFINE S == {x \in Node : program.kind[x] # "Module"}
  <2>1. /\ \A x \in S : Listed(items[x]) = Listed(program.inside[x])
        /\ \A x \in S : \A y \in Listed(program.inside[x]) : program.kind[y] = "Namespace" => y \in S
    BY <1>1, <1>3
  <2>2. S \in SUBSET Node
    OBVIOUS
  <2> HIDE DEF S
  <2>3. \A x \in S : Contents(program, items, x) = Contents(program, program.inside, x)
    BY <1>3, <2>1, <2>2, ContentsSame
  <2>4. \A x \in Listed(program.inside[m]) : IsNamespace(x) => x \in S
    BY <1>3 DEF S, IsNamespace
  <2>5. QED BY <1>1, <1>6, <2>3, <2>4
<1>7. QED BY <1>4, <1>5, <1>6 DEF HoldsAll

LEMMA KeptInvariant == Spec => []HoldsAll
BY InitKept, NextKept, Invariant, PTL DEF Spec

\* At every moment of merge_namespaces and reorder_items each item is found
\* under the qualified name it was written under, and nowhere else: merging
\* loses nothing, invents nothing, and moves nothing to another namespace.
THEOREM NothingLost == Spec => []ContentsKept
<1>1. ASSUME IInv, HoldsAll PROVE ContentsKept
  <2>1. SUFFICES ASSUME phase # "items"
                 PROVE  Contents(program, items, Current) = Written(program, Current)
    BY DEF ContentsKept
  <2>2. TypeOK /\ program \in Programs /\ Splicing /\ Levels /\ Parsing
    BY <1>1, <2>1 DEF IInv, Splicing
  <2>3. Current \in InUse /\ program.kind[Current] = "Module"
        /\ done \in Nat /\ done + 1 \in 1 .. Len(program.order)
    BY <2>2, CurrentFacts, CurrentInUse
  <2>4. Taken(Current)
    BY <2>1, <2>3 DEF Taken, Current
  <2>5. QED BY <1>1, <2>3, <2>4 DEF HoldsAll
<1>2. QED BY <1>1, Invariant, KeptInvariant, PTL
-----------------------------------------------------------------------------
(***************************************************************************)
(* What lies below a node, by the lists: the order in which it comes.      *)
(***************************************************************************)


\* What lies below a node is the least set that holds what it lists and what its
\* members list.
LEMMA UnderFacts ==
  ASSUME NEW inside \in [Node -> Seq(Node)], NEW n \in Node
  PROVE  /\ Under(inside, n) \in SUBSET Node
         /\ Listed(inside[n]) \subseteq Under(inside, n)
         /\ \A z \in Under(inside, n) : Listed(inside[z]) \subseteq Under(inside, n)
         /\ \A S \in SUBSET Node :
              Listed(inside[n]) \subseteq S /\ (\A z \in S : Listed(inside[z]) \subseteq S)
                => Under(inside, n) \subseteq S
<1> DEFINE U == Under(inside, n)
<1>1. \A m \in Node : Listed(inside[m]) \subseteq Node
  <2>1. \A m \in Node : inside[m] \in Seq(Node)
    OBVIOUS
  <2>2. QED BY <2>1 DEF Listed
<1>2. U \in SUBSET Node /\ Listed(inside[n]) \subseteq U
  BY <1>1 DEF Under
<1>3. ASSUME NEW S \in SUBSET Node, Listed(inside[n]) \subseteq S,
             \A z \in S : Listed(inside[z]) \subseteq S
      PROVE  U \subseteq S
  BY <1>3 DEF Under, ClosedUnder
<1>4. ASSUME NEW z \in U, NEW y \in Listed(inside[z]) PROVE y \in U
  <2>1. z \in Node /\ y \in Node
    BY <1>1, <1>2
  <2>2. ASSUME NEW S \in SUBSET Node, Listed(inside[n]) \subseteq S, ClosedUnder(inside, S)
        PROVE  y \in S
    <3>1. z \in S
      BY <1>3, <2>2 DEF ClosedUnder
    <3>2. QED BY <2>2, <3>1 DEF ClosedUnder
  <2>3. QED BY <2>1, <2>2 DEF Under
<1>5. QED BY <1>2, <1>3, <1>4

\* It is what the node lists and what lies below that.
LEMMA UnderUnfolds ==
  ASSUME NEW inside \in [Node -> Seq(Node)], NEW n \in Node
  PROVE  /\ \A x \in Listed(inside[n]) : Under(inside, x) \subseteq Under(inside, n)
         /\ \A z \in Under(inside, n) :
              \E x \in Listed(inside[n]) : z \in {x} \cup Under(inside, x)
<1> DEFINE U == Under(inside, n)
           V == {z \in Node : \E x \in Listed(inside[n]) : z \in {x} \cup Under(inside, x)}
<1>1. \A m \in Node : Listed(inside[m]) \subseteq Node
  <2>1. \A m \in Node : inside[m] \in Seq(Node)
    OBVIOUS
  <2>2. QED BY <2>1 DEF Listed
<1>2. U \in SUBSET Node /\ Listed(inside[n]) \subseteq U /\ \A z \in U : Listed(inside[z]) \subseteq U
  BY UnderFacts
<1>3. ASSUME NEW x \in Listed(inside[n]) PROVE Under(inside, x) \subseteq U
  <2>1. x \in Node /\ x \in U
    BY <1>1, <1>2
  <2> HIDE DEF U
  <2>2. Listed(inside[x]) \subseteq U
    BY <1>2, <2>1
  <2>3. QED BY <1>2, <2>1, <2>2, UnderFacts
<1>4. Listed(inside[n]) \subseteq V
  BY <1>1
<1>5. ASSUME NEW z \in V PROVE Listed(inside[z]) \subseteq V
  <2>1. PICK x \in Listed(inside[n]) : z \in {x} \cup Under(inside, x)
    OBVIOUS
  <2>2. x \in Node /\ z \in Node
    BY <1>1
  <2>3. Listed(inside[z]) \subseteq Under(inside, x)
    BY <2>1, <2>2, UnderFacts
  <2>4. Listed(inside[z]) \subseteq Node
    BY <1>1, <2>2
  <2>5. QED BY <2>3, <2>4
<1>6. V \in SUBSET Node
  OBVIOUS
<1> HIDE DEF V
<1>7. U \subseteq V
  BY <1>4, <1>5, <1>6, UnderFacts
<1>8. QED BY <1>3, <1>7 DEF V

\* Nothing lies below an empty list.
LEMMA UnderNothing ==
  ASSUME NEW inside \in [Node -> Seq(Node)], NEW n \in Node, inside[n] = <<>>
  PROVE  Under(inside, n) = {}
<1>1. Listed(inside[n]) \subseteq {} /\ {} \in SUBSET Node
  BY DEF Listed
<1>2. \A z \in {} : Listed(inside[z]) \subseteq {}
  OBVIOUS
<1>3. QED BY <1>1, <1>2, UnderFacts
-----------------------------------------------------------------------------
(***************************************************************************)
(* As it was written: source order.                                        *)
(***************************************************************************)

\* Of two items of one level, all of the first comes before all of the second.
LEMMA WrittenApart ==
  ASSUME program \in Programs, NEW x \in Node, NEW y \in Node, x < y,
         program.kind[x] # "Module", program.kind[y] # "Module",
         program.level[x] = program.level[y]
  PROVE  Before({x} \cup Under(program.inside, x), {y} \cup Under(program.inside, y))
<1> DEFINE inside == program.inside
           lev == program.level
           T(n) == {z \in Node : /\ program.kind[z] # "Module" /\ n < z
                                 /\ \A w \in Node : n < w /\ w <= z /\ program.kind[w] # "Module"
                                                      => lev[w] > lev[n]}
<1>1. /\ inside \in [Node -> Seq(Node)] /\ Node \subseteq Nat
      /\ \A n \in Node : \A z \in Listed(inside[n]) :
            /\ z \in Node /\ program.kind[z] # "Module" /\ lev[z] = lev[n] + 1
            /\ program.kind[n] # "Module" =>
                 /\ n < z
                 /\ \A w \in Node : n < w /\ w < z /\ program.kind[w] # "Module" => lev[w] > lev[n]
  <2>1. program.inside \in [Node -> Seq(Node)] /\ WrittenOnce(program) /\ NumberedInOrder(program)
    BY ProgramFacts, ProgramsAssumption
  <2>2. \A n \in Node : program.inside[n] \in Seq(Node)
    BY <2>1
  <2>3. \A n \in Node : Listed(program.inside[n]) \subseteq Node
    BY <2>2 DEF Listed
  <2>4. QED BY <2>1, <2>3, ProgramsAssumption DEF WrittenOnce, NumberedInOrder
<1>2. \A n \in Node : lev[n] \in Nat
  <2>1. lev \in [Node -> 0 .. Cardinality(Node)] /\ Cardinality(Node) \in Nat
    BY ProgramFacts, ProgramsAssumption, FS_CardinalityType
  <2>2. QED BY <2>1
<1> HIDE DEF inside, lev
<1>3. ASSUME NEW n \in Node, program.kind[n] # "Module" PROVE Under(inside, n) \subseteq T(n)
  <2>1. Listed(inside[n]) \subseteq T(n)
    <3>1. ASSUME NEW z \in Listed(inside[n]) PROVE z \in T(n)
      <4>1. z \in Node /\ program.kind[z] # "Module" /\ n < z /\ lev[z] > lev[n]
        BY <1>1, <1>2, <1>3
      <4>2. ASSUME NEW w \in Node, n < w, w <= z, program.kind[w] # "Module"
            PROVE  lev[w] > lev[n]
        <5>a. w \in Nat /\ z \in Nat
          BY <1>1, <4>1, <4>2
        <5>1. w = z \/ w < z
          BY <4>2, <5>a
        <5>2. QED BY <1>1, <1>3, <4>1, <4>2, <5>1
      <4>3. QED BY <4>1, <4>2
    <3>2. QED BY <3>1
  <2>2. ASSUME NEW z \in T(n), NEW v \in Listed(inside[z]) PROVE v \in T(n)
    <3>1. /\ z \in Node /\ program.kind[z] # "Module" /\ n < z /\ lev[z] > lev[n]
          /\ v \in Node /\ program.kind[v] # "Module" /\ z < v /\ lev[v] = lev[z] + 1
      <4>1. z <= z
        BY <1>1
      <4>2. QED BY <1>1, <4>1
    <3>2. n \in Nat /\ z \in Nat /\ v \in Nat /\ lev[n] \in Nat /\ lev[z] \in Nat
      BY <1>1, <1>2, <3>1
    <3>3. ASSUME NEW w \in Node, n < w, w <= v, program.kind[w] # "Module"
          PROVE  lev[w] > lev[n]
      <4>1. w \in Nat /\ lev[w] \in Nat
        BY <1>1, <1>2
      <4>2. CASE w <= z
        BY <3>3, <4>2
      <4>3. CASE z < w /\ w < v
        <5>1. lev[w] > lev[z]
          BY <1>1, <3>1, <3>3, <4>3
        <5>2. QED BY <3>1, <3>2, <4>1, <5>1
      <4>4. CASE w = v
        BY <3>1, <3>2, <4>4
      <4>5. QED BY <3>2, <3>3, <4>1, <4>2, <4>3, <4>4
    <3>4. n < v
      BY <3>1, <3>2
    <3>5. QED BY <3>1, <3>3, <3>4
  <2>3. T(n) \in SUBSET Node
    OBVIOUS
  <2> HIDE DEF T
  <2>4. QED BY <1>1, <2>1, <2>2, <2>3, UnderFacts
<1>4. ASSUME NEW z \in {x} \cup Under(inside, x), NEW w \in {y} \cup Under(inside, y)
      PROVE  z < w
  <2>1. z \in Node /\ z < y
    <3>1. CASE z = x
      BY <3>1
    <3>2. CASE z \in T(x)
      <4>1. z \in Node /\ ~ (y <= z)
        BY <1>2, <3>2 DEF lev
      <4>2. z \in Nat /\ y \in Nat
        BY <1>1, <4>1
      <4>3. QED BY <4>1, <4>2
    <3>3. QED BY <1>3, <3>1, <3>2
  <2>2. w \in Node /\ (w = y \/ y < w)
    BY <1>3
  <2>3. z \in Nat /\ w \in Nat /\ y \in Nat
    BY <1>1, <2>1, <2>2
  <2>4. QED BY <2>1, <2>2, <2>3
<1>5. QED BY <1>4 DEF Before, inside

\* What lies below a node is no module.
LEMMA UnderItems ==
  ASSUME NEW inside \in [Node -> Seq(Node)], NEW n \in Node,
         \A m \in Node : \A x \in Listed(inside[m]) : program.kind[x] # "Module"
  PROVE  \A z \in Under(inside, n) : z \in Node /\ program.kind[z] # "Module"
<1> DEFINE S == {z \in Under(inside, n) : program.kind[z] # "Module"}
<1>1. /\ Under(inside, n) \in SUBSET Node /\ Listed(inside[n]) \subseteq Under(inside, n)
      /\ \A z \in Under(inside, n) : Listed(inside[z]) \subseteq Under(inside, n)
  BY UnderFacts
<1>2. Listed(inside[n]) \subseteq S
  BY <1>1
<1>3. ASSUME NEW z \in S PROVE Listed(inside[z]) \subseteq S
  BY <1>1
<1>4. S \in SUBSET Node
  BY <1>1
<1> HIDE DEF S
<1>5. Under(inside, n) \subseteq S
  BY <1>2, <1>3, <1>4, UnderFacts
<1>6. QED BY <1>1, <1>5 DEF S

\* The lists as they are written, by which everything below has its place.
LEMMA WrittenLists ==
  ASSUME program \in Programs
  PROVE  /\ program.inside \in [Node -> Seq(Node)]
         /\ \A m \in Node : \A x \in Listed(program.inside[m]) :
              x \in Node /\ program.kind[x] # "Module" /\ program.level[x] = program.level[m] + 1
         /\ \A m \in Node : program.inside[m] \in Seq(Node)
<1>1. program.inside \in [Node -> Seq(Node)] /\ WrittenOnce(program)
  BY ProgramFacts
<1>2. \A m \in Node : program.inside[m] \in Seq(Node)
  BY <1>1
<1>3. \A m \in Node : Listed(program.inside[m]) \subseteq Node
  BY <1>2 DEF Listed
<1>4. QED BY <1>1, <1>2, <1>3 DEF WrittenOnce

\* A list is in order: its items of a kind, and what is below its namespaces.
Orderly(lists, s) == Ascending(s) /\ TwinsApart(lists, s)

LEMMA WrittenOrderly ==
  ASSUME program \in Programs, NEW m \in Node
  PROVE  Orderly(program.inside, program.inside[m])
<1> DEFINE s == program.inside[m]
<1>1. /\ \A i, j \in 1 .. Len(s) : i < j => s[i] < s[j]
      /\ \A i \in 1 .. Len(s) : s[i] \in Node /\ program.kind[s[i]] # "Module"
                                 /\ program.level[s[i]] = program.level[m] + 1
  BY WrittenLists, ProgramsAssumption, ListedAt DEF NumberedInOrder
<1> HIDE DEF s
<1>2. ASSUME NEW i \in 1 .. Len(s), NEW j \in 1 .. Len(s), i < j
      PROVE  s[i] < s[j] /\ Before(Under(program.inside, s[i]), Under(program.inside, s[j]))
  <2>1. Before({s[i]} \cup Under(program.inside, s[i]), {s[j]} \cup Under(program.inside, s[j]))
    BY <1>1, <1>2, WrittenApart
  <2>2. QED BY <1>1, <1>2, <2>1 DEF Before
<1>3. QED BY <1>2 DEF Orderly, Ascending, TwinsApart, s

\* Of two modules, all of the one that is parsed first comes first.
LEMMA ModulesApart ==
  ASSUME program \in Programs, NEW a \in 1 .. Len(program.order),
         NEW b \in 1 .. Len(program.order), a < b
  PROVE  Before(Under(program.inside, program.order[a]), Under(program.inside, program.order[b]))
<1> DEFINE m == program.order[a]
           n == program.order[b]
           inside == program.inside
<1>1. /\ m \in Node /\ n \in Node /\ program.level[m] = 0 /\ program.level[n] = 0
      /\ \A x \in Listed(inside[m]), y \in Listed(inside[n]) : x < y
  <2>1. program.order \in Seq(Node) /\ ImportedOnce(program) /\ NumberedInOrder(program)
    BY ProgramFacts, ProgramsAssumption
  <2>2. m \in Listed(program.order) /\ n \in Listed(program.order)
    BY ListedAt
  <2>3. m \in Node /\ n \in Node
    BY <2>1
  <2>4. QED BY <2>1, <2>2, <2>3 DEF ImportedOnce, NumberedInOrder
<1>2. /\ inside \in [Node -> Seq(Node)]
      /\ \A k \in Node : \A x \in Listed(inside[k]) :
           x \in Node /\ program.kind[x] # "Module" /\ program.level[x] = program.level[k] + 1
  BY WrittenLists
<1> HIDE DEF m, n, inside
<1>3. ASSUME NEW z \in Under(inside, m), NEW w \in Under(inside, n) PROVE z < w
  <2>1. PICK x \in Listed(inside[m]) : z \in {x} \cup Under(inside, x)
    BY <1>1, <1>2, UnderUnfolds
  <2>2. PICK y \in Listed(inside[n]) : w \in {y} \cup Under(inside, y)
    BY <1>1, <1>2, UnderUnfolds
  <2>3. x < y /\ x \in Node /\ y \in Node /\ program.kind[x] # "Module"
        /\ program.kind[y] # "Module" /\ program.level[x] = program.level[y]
    BY <1>1, <1>2
  <2>4. Before({x} \cup Under(inside, x), {y} \cup Under(inside, y))
    BY <2>3, WrittenApart DEF inside
  <2>5. QED BY <2>1, <2>2, <2>4 DEF Before
<1>4. QED BY <1>3 DEF Before, m, n, inside
-----------------------------------------------------------------------------
(***************************************************************************)
(* Lists in order stay in order.                                           *)
(***************************************************************************)

\* When less is below them.
LEMMA OrderlyShrinks ==
  ASSUME NEW L, NEW M, NEW s, Orderly(L, s),
         \A i \in 1 .. Len(s) : IsNamespace(s[i]) => Under(M, s[i]) \subseteq Under(L, s[i])
  PROVE  Orderly(M, s)
BY DEF Orderly, TwinsApart, Before, SameNamespace

\* When members are left out, or kinds brought together.
LEMMA OrderlyPart ==
  ASSUME NEW L, NEW s, NEW t, Orderly(L, s),
         \A i, j \in 1 .. Len(t) : i < j /\ program.kind[t[i]] = program.kind[t[j]] =>
           \E p, q \in 1 .. Len(s) : p < q /\ s[p] = t[i] /\ s[q] = t[j]
  PROVE  Orderly(L, t)
<1>1. ASSUME NEW i \in 1 .. Len(t), NEW j \in 1 .. Len(t), i < j,
             program.kind[t[i]] = program.kind[t[j]]
      PROVE  t[i] < t[j] /\ (SameNamespace(t, i, j) => Before(Under(L, t[i]), Under(L, t[j])))
  <2>1. PICK p \in 1 .. Len(s), q \in 1 .. Len(s) : p < q /\ s[p] = t[i] /\ s[q] = t[j]
    BY <1>1
  <2>2. s[p] < s[q]
    BY <1>1, <2>1 DEF Orderly, Ascending
  <2>3. SameNamespace(t, i, j) => SameNamespace(s, p, q)
    BY <2>1 DEF SameNamespace
  <2>4. SameNamespace(t, i, j) => Before(Under(L, s[p]), Under(L, s[q]))
    BY <2>1, <2>3 DEF Orderly, TwinsApart
  <2>5. QED BY <2>1, <2>2, <2>4
<1>2. QED BY <1>1 DEF Orderly, Ascending, TwinsApart, SameNamespace, IsNamespace

\* When they are joined, and all of the first comes before all of the second.
LEMMA OrderlyJoin ==
  ASSUME NEW L, NEW s \in Seq(Node), NEW t \in Seq(Node), Orderly(L, s), Orderly(L, t),
         NEW S, NEW T, Before(S, T),
         \A x \in Listed(s) : x \in S /\ Under(L, x) \subseteq S,
         \A x \in Listed(t) : x \in T /\ Under(L, x) \subseteq T
  PROVE  Orderly(L, s \o t)
<1> DEFINE u == s \o t
           m == Len(s)
           n == Len(t)
<1>1. /\ m \in Nat /\ n \in Nat /\ Len(u) = m + n
      /\ \A i \in 1 .. m + n : u[i] = IF i <= m THEN s[i] ELSE t[i - m]
  OBVIOUS
<1> HIDE DEF u
<1>2. ASSUME NEW i \in 1 .. m + n, NEW j \in 1 .. m + n, i < j
      PROVE  \/ i \in 1 .. m /\ j \in 1 .. m /\ u[i] = s[i] /\ u[j] = s[j]
             \/ /\ i - m \in 1 .. n /\ j - m \in 1 .. n /\ i - m < j - m
                /\ u[i] = t[i - m] /\ u[j] = t[j - m]
             \/ i \in 1 .. m /\ j - m \in 1 .. n /\ u[i] = s[i] /\ u[j] = t[j - m]
  BY <1>1, <1>2
<1>3. ASSUME NEW i \in 1 .. m + n, NEW j \in 1 .. m + n, i < j,
             program.kind[u[i]] = program.kind[u[j]]
      PROVE  u[i] < u[j] /\ (SameNamespace(u, i, j) => Before(Under(L, u[i]), Under(L, u[j])))
  <2>1. CASE i \in 1 .. m /\ j \in 1 .. m /\ u[i] = s[i] /\ u[j] = s[j]
    BY <1>3, <2>1 DEF Orderly, Ascending, TwinsApart, SameNamespace
  <2>2. CASE /\ i - m \in 1 .. n /\ j - m \in 1 .. n /\ i - m < j - m
             /\ u[i] = t[i - m] /\ u[j] = t[j - m]
    <3> DEFINE p == i - m
               q == j - m
    <3>1. p \in 1 .. n /\ q \in 1 .. n /\ p < q /\ u[i] = t[p] /\ u[j] = t[q]
      BY <2>2
    <3> HIDE DEF p, q
    <3>2. QED BY <1>3, <3>1 DEF Orderly, Ascending, TwinsApart, SameNamespace
  <2>3. CASE i \in 1 .. m /\ j - m \in 1 .. n /\ u[i] = s[i] /\ u[j] = t[j - m]
    <3>1. u[i] \in Listed(s) /\ u[j] \in Listed(t)
      BY <2>3, ListedAt
    <3>2. QED BY <3>1 DEF Before
  <2>4. QED BY <1>2, <1>3, <2>1, <2>2, <2>3
<1>4. Orderly(L, u)
  BY <1>1, <1>3 DEF Orderly, Ascending, TwinsApart, SameNamespace, IsNamespace
<1>5. QED BY <1>4 DEF u

\* Grouping brings nothing of a kind out of its order.
LEMMA OrderlyGrouped ==
  ASSUME NEW L, NEW s \in Seq(Node), Orderly(L, s), program.kind \in [Node -> Kind]
  PROVE  Orderly(L, Grouped(s))
<1> DEFINE K(k)  == {n \in Node : program.kind[n] = k}
           Of(k) == Sublist(s, K(k))
           Good(u, T) == /\ u \in Seq(Node)
                         /\ \A i \in 1 .. Len(u) : program.kind[u[i]] \in T
                         /\ \A i, j \in 1 .. Len(u) : i < j /\ program.kind[u[i]] = program.kind[u[j]] =>
                              \E p, q \in 1 .. Len(s) : p < q /\ s[p] = u[i] /\ s[q] = u[j]
<1>1. ASSUME NEW k PROVE Good(Of(k), {k})
  <2> DEFINE V == K(k)
             u == Sublist(s, V)
  <2> HIDE DEF V
  <2>1. /\ u \in Seq(Node) /\ Listed(u) = Listed(s) \cap V
        /\ \A p, q \in 1 .. Len(u) : p < q =>
              \E i, j \in 1 .. Len(s) : i < j /\ s[i] = u[p] /\ s[j] = u[q]
    BY SublistFacts
  <2> HIDE DEF u
  <2>2. \A i \in 1 .. Len(u) : program.kind[u[i]] \in {k}
    BY <2>1, ListedAt DEF V
  <2>3. Good(u, {k})
    BY <2>1, <2>2
  <2>4. QED BY <2>3 DEF u, V
<1> HIDE DEF Of, K
<1>2. ASSUME NEW u, NEW v, NEW T, NEW V, Good(u, T), Good(v, V), T \cap V = {}
      PROVE  Good(u \o v, T \cup V)
  <2> DEFINE w == u \o v
             m == Len(u)
             n == Len(v)
  <2>1. /\ m \in Nat /\ n \in Nat /\ Len(w) = m + n /\ w \in Seq(Node)
        /\ \A i \in 1 .. m + n : w[i] = IF i <= m THEN u[i] ELSE v[i - m]
    BY <1>2
  <2> HIDE DEF w
  <2>2. ASSUME NEW i \in 1 .. m + n
        PROVE  \/ i \in 1 .. m /\ w[i] = u[i]
               \/ i - m \in 1 .. n /\ i > m /\ w[i] = v[i - m]
    BY <2>1
  <2>3. \A i \in 1 .. m + n : program.kind[w[i]] \in T \cup V
    BY <1>2, <2>2
  <2>4. ASSUME NEW i \in 1 .. m + n, NEW j \in 1 .. m + n, i < j,
               program.kind[w[i]] = program.kind[w[j]]
        PROVE  \E p, q \in 1 .. Len(s) : p < q /\ s[p] = w[i] /\ s[q] = w[j]
    <3>1. CASE i \in 1 .. m /\ w[i] = u[i] /\ j \in 1 .. m /\ w[j] = u[j]
      BY <1>2, <2>4, <3>1
    <3>2. CASE i - m \in 1 .. n /\ w[i] = v[i - m] /\ j - m \in 1 .. n /\ w[j] = v[j - m]
      <4>1. i - m < j - m
        BY <2>1, <2>4
      <4> DEFINE p == i - m
                 q == j - m
      <4>2. p \in 1 .. n /\ q \in 1 .. n /\ p < q /\ w[i] = v[p] /\ w[j] = v[q]
        BY <3>2, <4>1
      <4> HIDE DEF p, q
      <4>3. QED BY <1>2, <2>4, <4>2
    <3>3. CASE i \in 1 .. m /\ w[i] = u[i] /\ j - m \in 1 .. n /\ w[j] = v[j - m]
      <4>1. program.kind[w[i]] \in T /\ program.kind[w[j]] \in V
        BY <1>2, <3>3
      <4>2. QED BY <1>2, <2>4, <4>1
    <3>4. CASE i > m /\ j \in 1 .. m
      BY <2>1, <2>4, <3>4
    <3>5. QED BY <2>2, <3>1, <3>2, <3>3, <3>4
  <2>5. Good(w, T \cup V)
    BY <2>1, <2>3, <2>4
  <2>6. QED BY <2>5 DEF w
<1> HIDE DEF Good
<1>3. Good(Of("Let") \o Of("Namespace"), {"Let"} \cup {"Namespace"})
  BY <1>1, <1>2
<1>4. Good((Of("Let") \o Of("Namespace")) \o Of("Enum"), {"Let", "Namespace"} \cup {"Enum"})
  <2>1. {"Let"} \cup {"Namespace"} = {"Let", "Namespace"}
    OBVIOUS
  <2>2. QED BY <1>1, <1>2, <1>3, <2>1
<1>5. Good(((Of("Let") \o Of("Namespace")) \o Of("Enum")) \o Of("Class"),
           {"Let", "Namespace", "Enum"} \cup {"Class"})
  <2>1. {"Let", "Namespace"} \cup {"Enum"} = {"Let", "Namespace", "Enum"}
    OBVIOUS
  <2>2. QED BY <1>1, <1>2, <1>4, <2>1
<1>6. Good((((Of("Let") \o Of("Namespace")) \o Of("Enum")) \o Of("Class")) \o Of("Function"),
           {"Let", "Namespace", "Enum", "Class"} \cup {"Function"})
  <2>1. {"Let", "Namespace", "Enum"} \cup {"Class"} = {"Let", "Namespace", "Enum", "Class"}
    OBVIOUS
  <2>2. QED BY <1>1, <1>2, <1>5, <2>1
<1>7. Grouped(s) = (((Of("Let") \o Of("Namespace")) \o Of("Enum")) \o Of("Class")) \o Of("Function")
  BY DEF Grouped, Of, K
<1>8. QED BY <1>6, <1>7, OrderlyPart DEF Good
-----------------------------------------------------------------------------
(***************************************************************************)
(* What lies below a node after a step.                                    *)
(***************************************************************************)

\* The lists in use hold what is in use.
LEMMA ItemsInUse ==
  ASSUME IInv
  PROVE  /\ items \in [Node -> Seq(Node)] /\ program \in Programs
         /\ \A n \in InUse : n \in Node
         /\ \A n \in Node : Listed(items[n]) \subseteq Node
         /\ \A n \in Node : \A x \in Listed(items[n]) : program.kind[x] # "Module"
         /\ \A n \in InUse : \A x \in Listed(items[n]) : x \in InUse
<1>1. items \in [Node -> Seq(Node)] /\ TypeOK /\ program \in Programs /\ Splicing /\ Levels
  BY DEF IInv, TypeOK
<1>2. \A n \in Node : Listed(items[n]) \subseteq Node
  BY LeveledFacts
<1>3. \A n \in Node : \A x \in Listed(items[n]) : program.kind[x] # "Module"
  BY <1>1 DEF Levels
<1>4. \A n \in InUse : n \in Node /\ Listed(items[n]) \cap freed = {}
  BY DEF InUse, IInv, ListsDisjoint
<1>5. \A x \in Spliced : program.kind[x] = "Module"
  BY <1>1, SplicedFacts
<1>6. \A n \in InUse : \A x \in Listed(items[n]) : x \in InUse
  BY <1>2, <1>3, <1>4, <1>5 DEF InUse
<1>7. QED BY <1>1, <1>2, <1>3, <1>4, <1>6

LEMMA UnderInUse ==
  ASSUME IInv, NEW n \in InUse
  PROVE  \A z \in Under(items, n) : z \in InUse /\ z \in Node
<1>1. InUse \in SUBSET Node /\ n \in Node /\ items \in [Node -> Seq(Node)]
      /\ \A m \in InUse : Listed(items[m]) \subseteq InUse
  BY ItemsInUse
<1>2. Under(items, n) \subseteq InUse
  BY <1>1, UnderFacts
<1>3. QED BY <1>1, <1>2

\* Whatever is below a node is below the node that lists it.
LEMMA UnderOwner ==
  ASSUME IInv, NEW n \in InUse, NEW o \in InUse, NEW x \in Listed(items[o]),
         x \in Under(items, n)
  PROVE  o = n \/ o \in Under(items, n)
<1> SUFFICES ASSUME o # n, o \notin Under(items, n) PROVE FALSE
  OBVIOUS
<1> DEFINE S == Under(items, n) \ {x}
<1>1. n \in Node /\ items \in [Node -> Seq(Node)]
  BY ItemsInUse
<1>2. /\ Under(items, n) \in SUBSET Node /\ Listed(items[n]) \subseteq Under(items, n)
      /\ \A z \in Under(items, n) : Listed(items[z]) \subseteq Under(items, n)
  BY <1>1, UnderFacts
<1>3. \A m \in InUse : m # o => x \notin Listed(items[m])
  BY DEF IInv, ListsDisjoint
<1>4. Listed(items[n]) \subseteq S
  BY <1>2, <1>3
<1>5. ASSUME NEW z \in S PROVE Listed(items[z]) \subseteq S
  <2>1. z \in InUse /\ z # o
    BY UnderInUse
  <2>2. QED BY <1>2, <1>3, <2>1
<1>6. S \in SUBSET Node
  BY <1>2
<1> HIDE DEF S
<1>7. Under(items, n) \subseteq S
  BY <1>1, <1>4, <1>5, <1>6, UnderFacts
<1>8. QED BY <1>7 DEF S

\* A merge adds to the namespace that is merged into what was below the
\* duplicate, and adds to no other node.
LEMMA MergeUnder ==
  ASSUME IInv, calls # <<>>, NEW j \in Nat, NEW o, NEW orig, NEW dup,
         MergeEffect(o, orig, dup, j)
  PROVE  /\ \A n \in InUse : n # orig => Under(items', n) \subseteq Under(items, n)
         /\ Under(items', orig) \subseteq Under(items, orig) \cup Under(items, dup)
<1>1. /\ orig \in Listed(items[o]) /\ dup \in Listed(items[o])
      /\ Listed(items'[o]) \subseteq Listed(items[o])
      /\ Listed(items'[orig]) = Listed(items[orig]) \cup Listed(items[dup])
  BY MergeLists
<1>2. /\ o \in InUse /\ orig \in InUse /\ dup \in InUse /\ orig # dup
      /\ items' \in [Node -> Seq(Node)]
      /\ \A m \in Node : m # o /\ m # orig => items'[m] = items[m]
  BY DEF MergeEffect
<1>3. items \in [Node -> Seq(Node)] /\ \A n \in InUse : n \in Node
  BY ItemsInUse
<1>4. ASSUME NEW n \in InUse, n # orig PROVE Under(items', n) \subseteq Under(items, n)
  <2> DEFINE S == Under(items, n)
  <2>1. /\ S \in SUBSET Node /\ Listed(items[n]) \subseteq S
        /\ \A z \in S : Listed(items[z]) \subseteq S
    BY <1>3, UnderFacts
  <2>2. orig \in S => o = n \/ o \in S
    BY <1>1, <1>2, UnderOwner
  <2> HIDE DEF S
  <2>3. orig \in S => Listed(items'[orig]) \subseteq S
    BY <1>1, <2>1, <2>2
  <2>4. \A z \in S : Listed(items'[z]) \subseteq S
    BY <1>1, <1>2, <2>1, <2>3
  <2>5. Listed(items'[n]) \subseteq S
    BY <1>1, <1>2, <1>3, <1>4, <2>1
  <2>6. Under(items', n) \subseteq S
    BY <1>2, <1>3, <2>1, <2>4, <2>5, UnderFacts
  <2>7. QED BY <2>6 DEF S
<1>5. Under(items', orig) \subseteq Under(items, orig) \cup Under(items, dup)
  <2> DEFINE S == Under(items, orig)
             T == Under(items, dup)
  <2>1. /\ S \in SUBSET Node /\ Listed(items[orig]) \subseteq S
        /\ \A z \in S : Listed(items[z]) \subseteq S
    BY <1>2, <1>3, UnderFacts
  <2>2. /\ T \in SUBSET Node /\ Listed(items[dup]) \subseteq T
        /\ \A z \in T : Listed(items[z]) \subseteq T
    BY <1>2, <1>3, UnderFacts
  <2> HIDE DEF S, T
  <2>3. Listed(items'[orig]) \subseteq S \cup T
    BY <1>1, <2>1, <2>2
  <2>4. \A z \in S \cup T : Listed(items'[z]) \subseteq S \cup T
    BY <1>1, <1>2, <2>1, <2>2, <2>3
  <2>5. S \cup T \in SUBSET Node
    BY <2>1, <2>2
  <2> DEFINE U == S \cup T
  <2>6. U \in SUBSET Node /\ Listed(items'[orig]) \subseteq U /\ orig \in Node
        /\ \A z \in U : Listed(items'[z]) \subseteq U
    BY <1>2, <1>3, <2>3, <2>4, <2>5
  <2> HIDE DEF U
  <2>7. Under(items', orig) \subseteq U
    BY <1>2, <2>6, UnderFacts
  <2>8. QED BY <2>7 DEF S, T, U
<1>6. QED BY <1>4, <1>5

\* A module's list that grows by what is in S adds to no other node.
LEMMA ModuleUnder ==
  ASSUME IInv, NEW m \in Node, program.kind[m] = "Module",
         items' \in [Node -> Seq(Node)],
         \A n \in Node : n # m => items'[n] = items[n],
         NEW S \in SUBSET Node, Listed(items'[m]) \subseteq Listed(items[m]) \cup S,
         \A z \in S : z # m /\ Listed(items[z]) \subseteq S
  PROVE  /\ \A n \in Node : n # m => Under(items', n) \subseteq Under(items, n)
         /\ Under(items', m) \subseteq Under(items, m) \cup S
<1>1. /\ items \in [Node -> Seq(Node)]
      /\ \A n \in Node : \A x \in Listed(items[n]) : program.kind[x] # "Module"
  BY ItemsInUse
<1>2. ASSUME NEW n \in Node
      PROVE  /\ Under(items, n) \in SUBSET Node /\ Listed(items[n]) \subseteq Under(items, n)
             /\ \A z \in Under(items, n) :
                  z # m /\ Listed(items[z]) \subseteq Under(items, n) /\ items'[z] = items[z]
  <2>1. \A z \in Under(items, n) : z \in Node /\ program.kind[z] # "Module"
    BY <1>1, UnderItems
  <2>2. QED BY <1>1, <2>1, UnderFacts
<1>3. ASSUME NEW n \in Node, n # m PROVE Under(items', n) \subseteq Under(items, n)
  <2> DEFINE U == Under(items, n)
  <2>1. /\ U \in SUBSET Node /\ Listed(items'[n]) \subseteq U
        /\ \A z \in U : Listed(items'[z]) \subseteq U
    BY <1>2, <1>3
  <2> HIDE DEF U
  <2>2. Under(items', n) \subseteq U
    BY <2>1, UnderFacts
  <2>3. QED BY <2>2 DEF U
<1>4. Under(items', m) \subseteq Under(items, m) \cup S
  <2> DEFINE U == Under(items, m) \cup S
  <2>1. U \in SUBSET Node /\ Listed(items'[m]) \subseteq U
    BY <1>2
  <2>2. \A z \in U : Listed(items'[z]) \subseteq U
    <3>1. \A z \in S : items'[z] = items[z]
      OBVIOUS
    <3>2. QED BY <1>2, <3>1
  <2> HIDE DEF U
  <2>3. Under(items', m) \subseteq U
    BY <2>1, <2>2, UnderFacts
  <2>4. QED BY <2>3 DEF U
<1>5. QED BY <1>3, <1>4

\* Lists that hold no more than before have no more below them.
LEMMA UnderShrinks ==
  ASSUME NEW L \in [Node -> Seq(Node)], NEW M \in [Node -> Seq(Node)], NEW n \in Node,
         Listed(M[n]) \subseteq Listed(L[n]),
         \A z \in Under(L, n) : Listed(M[z]) \subseteq Listed(L[z])
  PROVE  Under(M, n) \subseteq Under(L, n)
<1> DEFINE U == Under(L, n)
<1>1. /\ U \in SUBSET Node /\ Listed(M[n]) \subseteq U
      /\ \A z \in U : Listed(M[z]) \subseteq U
  BY UnderFacts
<1> HIDE DEF U
<1>2. Under(M, n) \subseteq U
  BY <1>1, UnderFacts
<1>3. QED BY <1>2 DEF U
-----------------------------------------------------------------------------
(***************************************************************************)
(* The steps of the parser.                                                *)
(***************************************************************************)

\* What the invariant says, of the state after a step.
LEMMA OrderAfter ==
  ASSUME program' = program,
         \A n \in InUse' : Orderly(items', items'[n]),
         \A m \in Node : program.kind[m] = "Module" /\ ~ Taken(m)' => AsWritten(items', m),
         ModulesInOrder'
  PROVE  InOrder'
BY DEF InOrder, Orderly, Ascending, TwinsApart, SameNamespace, IsNamespace, AsWritten

LEMMA OrderNow ==
  ASSUME InOrder
  PROVE  /\ \A n \in InUse : Orderly(items, items[n])
         /\ \A m \in Node : program.kind[m] = "Module" /\ ~ Taken(m) => AsWritten(items, m)
         /\ ModulesInOrder
BY DEF InOrder, Orderly

LEMMA ModulesAfter ==
  ASSUME program' = program,
         \A a, b \in Finished' : a < b =>
           Before(Under(items', program.order[a]), Under(items', program.order[b])),
         \A a \in Finished' : Under(items', program.order[a]) \subseteq WrittenIn(a),
         Parsing' =>
           /\ Under(items', Current') \subseteq WrittenIn(IF phase' = "items" THEN done' ELSE done' + 1)
           /\ \A a \in Finished' :
                IF program.order[a] \in Listed(program.imports[Current'])
                THEN Before(Under(items', Current'), Under(items', program.order[a]))
                ELSE Before(Under(items', program.order[a]), Under(items', Current'))
  PROVE  ModulesInOrder'
BY DEF ModulesInOrder, WrittenIn

\* While a module is merged and regrouped, nothing is added to a module.
LEMMA ModulesKept ==
  ASSUME IInv, InOrder, program' = program, done' = done, phase # "items", phase' # "items",
         \A m \in InUse' : m \in InUse,
         \A m \in InUse : program.kind[m] = "Module" =>
           Under(items', m) \subseteq Under(items, m)
  PROVE  ModulesInOrder'
<1>1. TypeOK /\ program \in Programs /\ Splicing /\ Levels /\ done \in Nat
  BY DEF IInv, TypeOK
<1>2. \A a \in 1 .. done : program.kind[program.order[a]] = "Module"
  <2>1. Len(program.order) \in Nat /\ done <= Len(program.order) /\ ImportedOnce(program)
    BY <1>1, ProgramFacts DEF TypeOK
  <2>2. \A a \in 1 .. done : a \in 1 .. Len(program.order)
    BY <1>1, <2>1
  <2>3. QED BY <2>1, <2>2, ListedAt DEF ImportedOnce
<1>3. \A a \in Finished' :
        /\ a \in Finished /\ Under(items', program.order[a]) \subseteq Under(items, program.order[a])
  BY <1>2 DEF Finished
<1>4. Parsing /\ Parsing' /\ Current' = Current
  BY DEF IInv, Splicing, Parsing, Current
<1>5. Under(items', Current) \subseteq Under(items, Current)
  BY <1>1, <1>4, CurrentFacts, CurrentInUse
<1>6. ModulesInOrder
  BY DEF InOrder
<1>7. \A a, b \in Finished' : a < b =>
        Before(Under(items', program.order[a]), Under(items', program.order[b]))
  BY <1>3, <1>6 DEF ModulesInOrder, Before
<1>8. \A a \in Finished' : Under(items', program.order[a]) \subseteq WrittenIn(a)
  BY <1>3, <1>6 DEF ModulesInOrder
<1>9. Under(items', Current') \subseteq WrittenIn(IF phase' = "items" THEN done' ELSE done' + 1)
  BY <1>4, <1>5, <1>6 DEF ModulesInOrder
<1>10. \A a \in Finished' :
         IF program.order[a] \in Listed(program.imports[Current'])
         THEN Before(Under(items', Current'), Under(items', program.order[a]))
         ELSE Before(Under(items', program.order[a]), Under(items', Current'))
  BY <1>3, <1>4, <1>5, <1>6 DEF ModulesInOrder, Before
<1>11. QED BY <1>7, <1>8, <1>9, <1>10, ModulesAfter

\* The list that loses the duplicate: the namespaces behind it with its name
\* come after what has been merged.
LEMMA MergeLeaves ==
  ASSUME IInv, InOrder, calls # <<>>, NEW j \in Nat, Merge(j),
         NEW o, NEW orig, NEW dup, MergeEffect(o, orig, dup, j)
  PROVE  Orderly(items', items'[o])
<1> DEFINE s == items[o]
           i0 == Top.i
           t == Without(s, j)
           U(x) == Under(items, x)
           V(x) == Under(items', x)
<1>1. /\ s = List /\ s \in Seq(Node) /\ Len(s) \in Nat /\ NoRepeat(s)
      /\ i0 \in 1 .. Len(s) /\ j \in 1 .. Len(s) /\ i0 < j /\ i0 \in Nat
      /\ orig = s[i0] /\ dup = s[j] /\ SameNamespace(s, i0, j) /\ o \in InUse
      /\ items'[o] = t
  BY TopFacts DEF MergeEffect
<1>2. \A k \in Duplicates(i0) : j <= k
  BY DEF Merge
<1>3. \A k \in i0 + 1 .. Len(s) : SameNamespace(s, i0, k) => j <= k
  BY <1>1, <1>2 DEF Duplicates, SameNamespace
<1>4. Orderly(items, s)
  BY <1>1, OrderNow
<1>5. /\ \A p \in 1 .. Len(s) : s[p] # orig => V(s[p]) \subseteq U(s[p])
      /\ V(orig) \subseteq U(orig) \cup U(dup)
  <2>1. \A p \in 1 .. Len(s) : s[p] \in InUse
    BY <1>1, ItemsInUse, ListedAt
  <2>2. QED BY <2>1, MergeUnder
<1>6. /\ t \in Seq(Node) /\ Len(t) = Len(s) - 1
      /\ \A p \in 1 .. Len(s) - 1 : t[p] = IF p < j THEN s[p] ELSE s[p + 1]
  BY <1>1, WithoutFacts
<1> HIDE DEF s, t, i0, U, V
<1>7. ASSUME NEW p \in 1 .. Len(t), NEW q \in 1 .. Len(t), p < q
      PROVE  \E k, l \in 1 .. Len(s) : k < l /\ k # j /\ l # j /\ s[k] = t[p] /\ s[l] = t[q]
  <2> DEFINE k == IF p < j THEN p ELSE p + 1
             l == IF q < j THEN q ELSE q + 1
  <2>1. k \in 1 .. Len(s) /\ l \in 1 .. Len(s) /\ k < l /\ k # j /\ l # j
    BY <1>1, <1>6, <1>7
  <2>2. s[k] = t[p] /\ s[l] = t[q]
    BY <1>6
  <2>3. QED BY <2>1, <2>2
<1>8. ASSUME NEW k \in 1 .. Len(s), NEW l \in 1 .. Len(s), k < l, k # j, l # j,
             SameNamespace(s, k, l)
      PROVE  Before(V(s[k]), V(s[l]))
  <2>1. \A a, b \in 1 .. Len(s) : a < b /\ SameNamespace(s, a, b) => Before(U(s[a]), U(s[b]))
    BY <1>4 DEF Orderly, TwinsApart, U
  <2>2. \A a \in 1 .. Len(s) : a # i0 => s[a] # orig
    BY <1>1 DEF NoRepeat
  <2>3. CASE k = i0
    <3>1. l # i0 /\ l \in i0 + 1 .. Len(s)
      BY <1>1, <1>8, <2>3
    <3>2. j < l /\ SameNamespace(s, j, l)
      BY <1>1, <1>3, <1>8, <2>3, <3>1 DEF SameNamespace
    <3>3. Before(U(orig), U(s[l])) /\ Before(U(dup), U(s[l]))
      BY <1>1, <1>8, <2>1, <2>3, <3>2
    <3>4. V(s[l]) \subseteq U(s[l]) /\ V(s[k]) \subseteq U(orig) \cup U(dup)
      BY <1>1, <1>5, <2>2, <2>3, <3>1
    <3>5. QED BY <3>3, <3>4 DEF Before
  <2>4. CASE l = i0
    <3>1. k # i0 /\ k < j /\ SameNamespace(s, k, j)
      BY <1>1, <1>8, <2>4 DEF SameNamespace
    <3>2. Before(U(s[k]), U(orig)) /\ Before(U(s[k]), U(dup))
      BY <1>1, <1>8, <2>1, <2>4, <3>1
    <3>3. V(s[k]) \subseteq U(s[k]) /\ V(s[l]) \subseteq U(orig) \cup U(dup)
      BY <1>1, <1>5, <2>2, <2>4, <3>1
    <3>4. QED BY <3>2, <3>3 DEF Before
  <2>5. CASE k # i0 /\ l # i0
    <3>1. V(s[k]) \subseteq U(s[k]) /\ V(s[l]) \subseteq U(s[l])
      BY <1>5, <2>2, <2>5
    <3>2. Before(U(s[k]), U(s[l]))
      BY <1>8, <2>1
    <3>3. QED BY <3>1, <3>2 DEF Before
  <2>6. QED BY <2>3, <2>4, <2>5
<1>9. ASSUME NEW p \in 1 .. Len(t), NEW q \in 1 .. Len(t), p < q
      PROVE  /\ program.kind[t[p]] = program.kind[t[q]] => t[p] < t[q]
             /\ SameNamespace(t, p, q) => Before(V(t[p]), V(t[q]))
  <2>1. PICK k \in 1 .. Len(s), l \in 1 .. Len(s) :
               k < l /\ k # j /\ l # j /\ s[k] = t[p] /\ s[l] = t[q]
    BY <1>7, <1>9
  <2>2. SameNamespace(t, p, q) => SameNamespace(s, k, l)
    BY <2>1 DEF SameNamespace
  <2>3. program.kind[s[k]] = program.kind[s[l]] => s[k] < s[l]
    BY <1>4, <2>1 DEF Orderly, Ascending
  <2>4. QED BY <1>8, <2>1, <2>2, <2>3
<1>10. Orderly(items', t)
  BY <1>9 DEF Orderly, Ascending, TwinsApart, V
<1>11. QED BY <1>1, <1>10

\* The list that takes the items of the duplicate.
LEMMA MergeTakes ==
  ASSUME IInv, InOrder, calls # <<>>, NEW j \in Nat,
         NEW o, NEW orig, NEW dup, MergeEffect(o, orig, dup, j)
  PROVE  Orderly(items', items'[orig])
<1> DEFINE s == items[orig]
           t == items[dup]
           S == Under(items, orig)
           T == Under(items, dup)
<1>1. /\ o \in InUse /\ orig \in InUse /\ dup \in InUse /\ orig # o /\ items'[orig] = s \o t
      /\ orig \in Listed(items[o]) /\ dup # o
  BY MergeLists DEF MergeEffect
<1>2. /\ items \in [Node -> Seq(Node)] /\ orig \in Node /\ dup \in Node
      /\ s \in Seq(Node) /\ t \in Seq(Node)
      /\ \A n \in InUse : \A x \in Listed(items[n]) : x \in InUse
  BY <1>1, ItemsInUse
<1>3. Before(S, T)
  <2>1. SameNamespace(items[o], Top.i, j) /\ Top.i \in 1 .. Len(items[o])
        /\ j \in 1 .. Len(items[o]) /\ Top.i < j
        /\ orig = items[o][Top.i] /\ dup = items[o][j]
    BY TopFacts DEF MergeEffect
  <2>2. Orderly(items, items[o])
    BY <1>1, OrderNow
  <2>3. QED BY <2>1, <2>2 DEF Orderly, TwinsApart
<1>4. ASSUME NEW n \in {orig, dup}, NEW x \in Listed(items[n])
      PROVE  x \in Under(items, n) /\ Under(items, x) \subseteq Under(items, n)
             /\ Under(items', x) \subseteq Under(items, x)
  <2>1. x \in Under(items, n) /\ Under(items, x) \subseteq Under(items, n)
    BY <1>2, UnderFacts, UnderUnfolds
  <2>2. x \in InUse /\ x # orig
    <3>1. n \in InUse /\ n # o
      BY <1>1
    <3>2. \A k, l \in InUse : k # l => Listed(items[k]) \cap Listed(items[l]) = {}
      BY DEF IInv, ListsDisjoint
    <3>3. QED BY <1>1, <1>2, <3>1, <3>2
  <2>3. QED BY <2>1, <2>2, MergeUnder
<1>5. Orderly(items', s) /\ Orderly(items', t)
  <2>1. Orderly(items, s) /\ Orderly(items, t)
    BY <1>1, OrderNow
  <2>2. /\ \A i \in 1 .. Len(s) : Under(items', s[i]) \subseteq Under(items, s[i])
        /\ \A i \in 1 .. Len(t) : Under(items', t[i]) \subseteq Under(items, t[i])
    BY <1>4, ListedAt
  <2> HIDE DEF s, t
  <2>3. QED BY <2>1, <2>2, OrderlyShrinks
<1>6. /\ \A x \in Listed(s) : x \in S /\ Under(items', x) \subseteq S
      /\ \A x \in Listed(t) : x \in T /\ Under(items', x) \subseteq T
  BY <1>4
<1> HIDE DEF s, t, S, T
<1>7. Orderly(items', s \o t)
  BY <1>2, <1>3, <1>5, <1>6, OrderlyJoin
<1>8. QED BY <1>1, <1>7

LEMMA MergeOrder ==
  ASSUME IInv, InOrder, NEW j \in Nat, Merge(j)
  PROVE  InOrder'
<1>1. phase = "merge" /\ UNCHANGED <<program, done, spliced, phase>>
  BY DEF Merge
<1>2. calls # <<>>
  BY <1>1 DEF IInv, Calls
<1>3. PICK o, orig, dup : MergeEffect(o, orig, dup, j)
  BY <1>2, MergeFacts
<1>4. /\ o \in InUse /\ orig \in InUse /\ dup \in InUse /\ InUse' = InUse \ {dup}
      /\ \A m \in Node : m # o /\ m # orig => items'[m] = items[m]
      /\ IsNamespace(orig) /\ orig \in Listed(items[o])
  <2>1. orig \in Listed(items[o])
    BY <1>2, <1>3, MergeLists
  <2>2. QED BY <1>3, <2>1 DEF MergeEffect, SameNamespace
<1>5. /\ \A n \in InUse : n # orig => Under(items', n) \subseteq Under(items, n)
  BY <1>2, <1>3, MergeUnder
<1>6. ASSUME NEW n \in InUse' PROVE Orderly(items', items'[n])
  <2>1. CASE n = o
    BY <1>2, <1>3, <2>1, MergeLeaves
  <2>2. CASE n = orig
    BY <1>2, <1>3, <2>2, MergeTakes
  <2>3. CASE n # o /\ n # orig
    <3>1. n \in InUse /\ n \in Node /\ items'[n] = items[n]
      BY <1>4, <2>3, ItemsInUse
    <3>2. Orderly(items, items[n])
      BY <3>1, OrderNow
    <3>3. \A x \in Listed(items[n]) : x \in InUse /\ x # orig
      BY <1>4, <2>3, <3>1, ItemsInUse DEF IInv, ListsDisjoint
    <3>4. \A i \in 1 .. Len(items[n]) : Under(items', items[n][i]) \subseteq Under(items, items[n][i])
      BY <1>5, <3>3, ListedAt
    <3>5. QED BY <3>1, <3>2, <3>4, OrderlyShrinks
  <2>4. QED BY <2>1, <2>2, <2>3
<1>7. ASSUME NEW m \in Node, program.kind[m] = "Module", ~ Taken(m)'
      PROVE  AsWritten(items', m)
  <2>1. ~ Taken(m)
    BY <1>1, <1>7 DEF Taken
  <2>2. /\ Listed(program.inside[m]) \cap freed = {}
        /\ \A n \in InUse : Listed(program.inside[m]) \cap Listed(items[n]) = {}
    BY <1>7, <2>1 DEF IInv, OwnItemsWaiting
  <2>3. ASSUME NEW x \in Listed(program.inside[m])
        PROVE  Under(items', x) \subseteq Under(program.inside, x)
    <3>1. x \in Node /\ program.kind[x] # "Module"
      BY <1>7, ItemsInUse, WrittenLists
    <3>2. x \in InUse
      BY <2>2, <3>1, SplicedFacts DEF InUse, IInv
    <3>3. x # orig
      BY <1>4, <2>2
    <3>4. Under(items, x) \subseteq Under(program.inside, x)
      BY <1>7, <2>1, OrderNow DEF AsWritten
    <3>5. QED BY <1>5, <3>2, <3>3, <3>4
  <2>4. QED BY <2>3 DEF AsWritten
<1>8. \A m \in InUse : program.kind[m] = "Module" => Under(items', m) \subseteq Under(items, m)
  BY <1>4, <1>5 DEF IsNamespace
<1>9. ModulesInOrder'
  BY <1>1, <1>4, <1>8, ModulesKept
<1>10. QED BY <1>1, <1>6, <1>7, <1>9, OrderAfter

\* A step that only changes the calls, or regroups a list.
LEMMA SameOrder ==
  ASSUME IInv, InOrder, program' = program, InUse' = InUse, done' = done,
         items' \in [Node -> Seq(Node)],
         \A n \in Node : Listed(items'[n]) = Listed(items[n]),
         \A n \in InUse : items'[n] = items[n] \/ items'[n] = Grouped(items[n]),
         phase # "items", phase' # "items"
  PROVE  InOrder'
<1>1. /\ items \in [Node -> Seq(Node)]
      /\ program \in Programs
      /\ \A n \in InUse : n \in Node
      /\ \A n \in Node : Listed(items[n]) \subseteq Node
  BY ItemsInUse
<1>2. ASSUME NEW n \in Node PROVE Under(items', n) \subseteq Under(items, n)
  <2>1. \A z \in Under(items, n) : z \in Node
    BY <1>1, UnderFacts
  <2>2. QED BY <1>1, <2>1, UnderShrinks
<1>3. ASSUME NEW n \in InUse' PROVE Orderly(items', items'[n])
  <2>1. n \in Node /\ n \in InUse /\ items[n] \in Seq(Node) /\ items'[n] \in Seq(Node)
    BY <1>1
  <2>2. Orderly(items, items[n])
    BY <2>1, OrderNow
  <2>3. Orderly(items, items'[n])
    <3>1. program.kind \in [Node -> Kind]
      BY <1>1, ProgramFacts
    <3>2. QED BY <2>1, <2>2, <3>1, OrderlyGrouped
  <2>4. \A i \in 1 .. Len(items'[n]) : items'[n][i] \in Node
    BY <2>1
  <2>5. QED BY <1>2, <2>3, <2>4, OrderlyShrinks
<1>4. ASSUME NEW m \in Node, program.kind[m] = "Module", ~ Taken(m)'
      PROVE  AsWritten(items', m)
  <2>1. ~ Taken(m)
    BY <1>4 DEF Taken
  <2>2. AsWritten(items, m)
    BY <1>4, <2>1, OrderNow
  <2>3. \A x \in Listed(program.inside[m]) : x \in Node
    BY <1>1, WrittenLists
  <2>4. QED BY <1>2, <2>2, <2>3 DEF AsWritten
<1>5. ModulesInOrder'
  BY <1>1, <1>2, ModulesKept
<1>6. QED BY <1>3, <1>4, <1>5, OrderAfter
-----------------------------------------------------------------------------
\* A module that has been parsed and is in use still.
LEMMA FinishedFacts ==
  ASSUME IInv, NEW a \in Finished
  PROVE  /\ a \in Nat /\ a <= done /\ a \in 1 .. Len(program.order) /\ done \in Nat
         /\ program.order[a] \in Node /\ program.order[a] \in InUse
         /\ program.kind[program.order[a]] = "Module"
         /\ Parsing => program.order[a] # Current
<1>1. TypeOK /\ program \in Programs
  BY DEF IInv
<1>2. done \in Nat /\ done <= Len(program.order) /\ Len(program.order) \in Nat
      /\ ImportedOnce(program) /\ program.order \in Seq(Node)
  BY <1>1, ProgramFacts DEF TypeOK
<1>3. a \in 1 .. done /\ program.order[a] \in InUse
  BY DEF Finished
<1>4. a \in Nat /\ a <= done /\ a \in 1 .. Len(program.order)
  BY <1>2, <1>3
<1>5. program.kind[program.order[a]] = "Module"
  BY <1>2, <1>4, ListedAt DEF ImportedOnce
<1>6. ASSUME Parsing PROVE program.order[a] # Current
  <2>1. done + 1 \in 1 .. Len(program.order) /\ a # done + 1
    BY <1>1, <1>2, <1>4, <1>6, CurrentFacts
  <2>2. QED BY <1>2, <1>4, <2>1 DEF ImportedOnce, NoRepeat, Current
<1>7. QED BY <1>2, <1>3, <1>4, <1>5, <1>6

\* No module but the one being parsed holds what an import of it holds; when all
\* of them are spliced none is in use.
LEMMA ImportsGone ==
  ASSUME IInv, Parsing, NEW a \in Finished
  PROVE  /\ \A i \in 1 .. spliced : program.order[a] # program.imports[Current][i]
         /\ spliced = Len(program.imports[Current])
              => program.order[a] \notin Listed(program.imports[Current])
         /\ \A l \in 1 .. done : program.order[a] \notin Listed(program.imports[program.order[l]])
<1>1. program.order[a] \notin Spliced
  BY DEF Finished, InUse
<1>2. TypeOK /\ program \in Programs /\ Splicing
  BY DEF IInv
<1>3. QED BY <1>1, <1>2, SplicedFacts, AtListed

\* The imports that are still to be spliced were parsed after the next one, and
\* what else there is before it.
LEMMA ImportOrder ==
  ASSUME IInv, Parsing, spliced < Len(program.imports[Current]),
         NEW p \in Finished, program.order[p] = program.imports[Current][spliced + 1],
         NEW a \in Finished, a # p
  PROVE  IF program.order[a] \in Listed(program.imports[Current]) THEN p < a ELSE a < p
<1> DEFINE imported == program.imports[Current]
           k == done + 1
<1>1. TypeOK /\ program \in Programs /\ Splicing
  BY DEF IInv
<1>2. /\ k \in 1 .. Len(program.order) /\ program.order[k] = Current
      /\ Len(imported) \in Nat /\ done \in Nat /\ spliced \in Nat
      /\ NoRepeat(program.order) /\ ParsedInOrder(program)
  BY <1>1, CurrentFacts, ProgramFacts, ProgramsAssumption DEF Current, TypeOK, ImportedOnce
<1>3. a \in Nat /\ p \in Nat /\ a \in 1 .. k /\ p \in 1 .. k /\ a \in 1 .. k - 1 /\ p \in 1 .. k - 1
      /\ a \in 1 .. Len(program.order) /\ p \in 1 .. Len(program.order)
  <2>1. /\ a \in Nat /\ p \in Nat /\ a <= done /\ p <= done
        /\ a \in 1 .. Len(program.order) /\ p \in 1 .. Len(program.order)
    BY FinishedFacts
  <2>2. a >= 1 /\ p >= 1
    BY <2>1
  <2>3. QED BY <1>2, <2>1, <2>2
<1>4. /\ \A i, j \in 1 .. Len(imported) : \A b, c \in 1 .. k :
           i < j /\ program.order[b] = imported[i] /\ program.order[c] = imported[j] => b < c
      /\ \A b, c \in 1 .. k - 1 : b < c /\ program.order[b] \in Listed(imported) =>
           \E l \in 1 .. k : program.order[c] \in Listed(program.imports[program.order[l]])
  BY <1>2 DEF ParsedInOrder
<1>5. spliced + 1 \in 1 .. Len(imported) /\ program.order[p] = imported[spliced + 1]
      /\ program.order[p] \in Listed(imported)
  <2>1. spliced + 1 \in 1 .. Len(imported)
    BY <1>2
  <2>2. QED BY <2>1, ListedAt
<1>6. ASSUME program.order[a] \in Listed(imported) PROVE p < a
  <2>1. PICK i \in 1 .. Len(imported) : imported[i] = program.order[a]
    BY <1>6, AtListed
  <2>2. i \notin 1 .. spliced
    BY <2>1, ImportsGone
  <2>3. program.order[a] # program.order[p]
    BY <1>2, <1>3 DEF NoRepeat
  <2>4. i # spliced + 1
    BY <1>5, <2>1, <2>3
  <2>5. spliced + 1 < i
    BY <1>2, <2>1, <2>2, <2>4
  <2> HIDE DEF imported, k
  <2>6. QED BY <1>3, <1>4, <1>5, <2>1, <2>5
<1>7. ASSUME program.order[a] \notin Listed(imported), p < a PROVE FALSE
  <2>1. PICK l \in 1 .. k : program.order[a] \in Listed(program.imports[program.order[l]])
    BY <1>3, <1>4, <1>5, <1>7
  <2>2. l \in 1 .. done \/ l = k
    BY <1>2
  <2>3. QED BY <1>2, <1>7, <2>1, <2>2, ImportsGone
<1>8. QED BY <1>3, <1>6, <1>7

LEMMA SpliceOrder ==
  ASSUME IInv, InOrder, SpliceModule
  PROVE  InOrder'
<1> DEFINE imp == program.imports[Current][spliced + 1]
           S == Under(items, Current)
           T == Under(items, imp)
<1>1. /\ phase = "items" /\ Parsing /\ spliced < Len(program.imports[Current])
      /\ spliced' = spliced + 1 /\ UNCHANGED <<program, freed, done, phase, calls>>
  BY DEF SpliceModule
<1>2. TypeOK /\ program \in Programs /\ Splicing /\ Levels
  BY DEF IInv
<1>3. /\ imp \in Node /\ imp \in InUse /\ imp # Current /\ program.kind[imp] = "Module"
      /\ \E k \in 1 .. done : program.order[k] = imp
      /\ imp \in Listed(program.imports[Current])
  <2>1. spliced + 1 \in 1 .. Len(program.imports[Current])
    BY <1>1, <1>2, CurrentFacts DEF TypeOK
  <2>2. imp \in Listed(program.imports[Current])
    BY <2>1, ListedAt
  <2>3. QED BY <1>1, <1>2, <2>2, ImportFacts
<1>4. SpliceEffect(imp)
  BY SpliceFacts
<1>5. Current \in Node /\ program.kind[Current] = "Module" /\ Current \in InUse
  BY <1>1, <1>2, CurrentFacts, CurrentInUse
<1>6. PICK p \in Finished : program.order[p] = imp
  BY <1>3 DEF Finished
<1>7. \A a \in Finished : a # p =>
        IF program.order[a] \in Listed(program.imports[Current]) THEN p < a ELSE a < p
  BY <1>1, <1>6, ImportOrder
<1>8. Current' = Current /\ Parsing' = Parsing /\ \A m : Taken(m)' = Taken(m)
  BY <1>1 DEF Current, Parsing, Taken
<1> HIDE DEF imp
<1>9. /\ items' \in [Node -> Seq(Node)] /\ InUse' = InUse \ {imp}
      /\ items'[Current] = items[Current] \o items[imp]
      /\ \A n \in Node : n # Current => items'[n] = items[n]
      /\ Listed(items'[Current]) = Listed(items[Current]) \cup Listed(items[imp])
  BY <1>4, SpliceLists DEF SpliceEffect
<1>10. /\ items \in [Node -> Seq(Node)] /\ \A n \in InUse : n \in Node
       /\ \A n \in Node : \A x \in Listed(items[n]) : x \in Node /\ program.kind[x] # "Module"
  BY ItemsInUse
<1>11. /\ S \in SUBSET Node /\ T \in SUBSET Node /\ Listed(items[imp]) \subseteq T
       /\ \A z \in T : z # Current /\ Listed(items[z]) \subseteq T
  <2>1. \A z \in T : program.kind[z] # "Module"
    BY <1>3, <1>10, UnderItems
  <2>2. QED BY <1>3, <1>5, <1>10, <2>1, UnderFacts
<1>12. /\ \A n \in Node : n # Current => Under(items', n) \subseteq Under(items, n)
       /\ Under(items', Current) \subseteq S \cup T
  <2> HIDE DEF T
  <2>1. Listed(items'[Current]) \subseteq Listed(items[Current]) \cup T
    BY <1>9, <1>11
  <2>2. QED BY <1>5, <1>9, <1>11, <2>1, ModuleUnder
<1>13. /\ \A x \in Listed(items[Current]) : x # Current /\ x \in S /\ Under(items', x) \subseteq S
       /\ \A x \in Listed(items[imp]) : x # Current /\ x \in T /\ Under(items', x) \subseteq T
  <2>1. ASSUME NEW n \in {Current, imp}, NEW x \in Listed(items[n])
        PROVE  x # Current /\ x \in Under(items, n) /\ Under(items', x) \subseteq Under(items, n)
    <3>1. n \in Node /\ x \in Node /\ x # Current
      BY <1>3, <1>5, <1>10
    <3>2. x \in Under(items, n) /\ Under(items, x) \subseteq Under(items, n)
      BY <1>10, <3>1, UnderFacts, UnderUnfolds
    <3>3. QED BY <1>12, <3>1, <3>2
  <2>2. QED BY <2>1
<1>14. Before(S, T)
  BY <1>1, <1>3, <1>6, OrderNow DEF ModulesInOrder
<1>15. ASSUME NEW n \in InUse' PROVE Orderly(items', items'[n])
  <2>1. ASSUME NEW m \in InUse PROVE Orderly(items', items[m])
    <3>1. Orderly(items, items[m])
      BY OrderNow
    <3>2. \A i \in 1 .. Len(items[m]) : items[m][i] \in Listed(items[m])
      BY ListedAt
    <3>3. \A i \in 1 .. Len(items[m]) : Under(items', items[m][i]) \subseteq Under(items, items[m][i])
      BY <1>5, <1>10, <1>12, <3>2
    <3>4. QED BY <3>1, <3>3, OrderlyShrinks
  <2>2. CASE n = Current
    <3>1. items[Current] \in Seq(Node) /\ items[imp] \in Seq(Node)
      BY <1>3, <1>5, <1>10
    <3>2. Orderly(items', items[Current]) /\ Orderly(items', items[imp])
      BY <1>3, <1>5, <2>1
    <3> HIDE DEF S, T
    <3>3. Orderly(items', items[Current] \o items[imp])
      BY <1>13, <1>14, <3>1, <3>2, OrderlyJoin
    <3>4. QED BY <1>9, <2>2, <3>3
  <2>3. CASE n # Current
    BY <1>9, <1>10, <2>1, <2>3
  <2>4. QED BY <2>2, <2>3
<1>16. ASSUME NEW m \in Node, program.kind[m] = "Module", ~ Taken(m)'
       PROVE  AsWritten(items', m)
  <2>1. AsWritten(items, m)
    BY <1>8, <1>16, OrderNow
  <2>2. \A x \in Listed(program.inside[m]) : x \in Node /\ x # Current
    BY <1>2, <1>5, <1>16, WrittenLists
  <2>3. QED BY <1>12, <2>1, <2>2 DEF AsWritten
<1>17. \A a \in Finished' :
         /\ a \in Finished /\ a # p
         /\ Under(items', program.order[a]) \subseteq Under(items, program.order[a])
  <2>1. ASSUME NEW a \in Finished' PROVE a \in Finished /\ a # p
    BY <1>1, <1>6, <1>9, <2>1 DEF Finished
  <2>2. \A a \in Finished : program.order[a] \in Node /\ program.order[a] # Current
    BY <1>1, FinishedFacts
  <2>3. QED BY <1>12, <2>1, <2>2
<1>18. ModulesInOrder
  BY OrderNow
<1>19. \A a, b \in Finished' : a < b =>
         Before(Under(items', program.order[a]), Under(items', program.order[b]))
  BY <1>17, <1>18 DEF ModulesInOrder, Before
<1>20. \A a \in Finished' : Under(items', program.order[a]) \subseteq WrittenIn(a)
  BY <1>17, <1>18 DEF ModulesInOrder
<1>21. Under(items', Current') \subseteq WrittenIn(IF phase' = "items" THEN done' ELSE done' + 1)
  <2>1. S \subseteq WrittenIn(done) /\ T \subseteq WrittenIn(p)
    BY <1>1, <1>6, <1>18 DEF ModulesInOrder
  <2>2. \A c \in 1 .. p : c \in 1 .. done
    <3>1. p \in Nat /\ p <= done /\ done \in Nat
      BY FinishedFacts
    <3>2. QED BY <3>1
  <2>3. WrittenIn(p) \subseteq WrittenIn(done)
    BY <2>2 DEF WrittenIn
  <2>4. QED BY <1>1, <1>8, <1>12, <2>1, <2>3
<1>22. ASSUME NEW a \in Finished'
       PROVE  IF program.order[a] \in Listed(program.imports[Current'])
              THEN Before(Under(items', Current'), Under(items', program.order[a]))
              ELSE Before(Under(items', program.order[a]), Under(items', Current'))
  <2> DEFINE U == Under(items, program.order[a])
             V == Under(items', program.order[a])
             W == Under(items', Current)
  <2>1. a \in Finished /\ a # p /\ V \subseteq U /\ W \subseteq S \cup T
    BY <1>12, <1>17
  <2>2. CASE program.order[a] \in Listed(program.imports[Current])
    <3>1. Before(S, U) /\ Before(T, U)
      BY <1>1, <1>6, <1>7, <1>18, <2>1, <2>2 DEF ModulesInOrder
    <3> HIDE DEF S, T, U, V, W
    <3>2. Before(W, V)
      BY <2>1, <3>1 DEF Before
    <3>3. QED BY <1>8, <2>2, <3>2 DEF V, W
  <2>3. CASE program.order[a] \notin Listed(program.imports[Current])
    <3>1. Before(U, S) /\ Before(U, T)
      BY <1>1, <1>6, <1>7, <1>18, <2>1, <2>3 DEF ModulesInOrder
    <3> HIDE DEF S, T, U, V, W
    <3>2. Before(V, W)
      BY <2>1, <3>1 DEF Before
    <3>3. QED BY <1>8, <2>3, <3>2 DEF V, W
  <2>4. QED BY <2>2, <2>3
<1>23. ModulesInOrder'
  BY <1>1, <1>19, <1>20, <1>21, <1>22, ModulesAfter
<1>24. QED BY <1>1, <1>15, <1>16, <1>23, OrderAfter

LEMMA OwnOrder ==
  ASSUME IInv, InOrder, OwnItems
  PROVE  InOrder'
<1> DEFINE own == program.inside[Current]
           R == Under(items, Current)
           T == Under(program.inside, Current)
           S == Listed(own) \cup UNION {Under(items, x) : x \in Listed(own)}
<1>1. /\ phase' = "merge" /\ UNCHANGED <<program, freed, done, spliced>>
      /\ phase = "items"
  BY DEF OwnItems
<1>2. TypeOK /\ program \in Programs /\ Splicing /\ Levels
  BY DEF IInv
<1>3. /\ Current \in InUse /\ Current \in Node /\ Parsing /\ spliced = Len(program.imports[Current])
      /\ ~ Taken(Current) /\ program.kind[Current] = "Module"
      /\ items' \in [Node -> Seq(Node)]
      /\ items'[Current] = items[Current] \o own
      /\ \A n \in Node : n # Current => items'[n] = items[n]
      /\ InUse' = InUse
      /\ Listed(items'[Current]) = Listed(items[Current]) \cup Listed(own)
  BY OwnFacts DEF OwnEffect
<1>4. /\ done \in Nat /\ done + 1 \in 1 .. Len(program.order)
      /\ program.order[done + 1] = Current /\ own \in Seq(Node) /\ Len(program.order) \in Nat
  BY <1>2, <1>3, CurrentFacts, ProgramFacts DEF Current
<1>5. Current' = Current /\ Parsing' = Parsing
  BY <1>1 DEF Current, Parsing
<1>6. \A m : Taken(m) => Taken(m)'
  <2>1. ASSUME NEW m, Taken(m) PROVE Taken(m)'
    <3>1. PICK k \in 1 .. Len(program.order) : program.order[k] = m /\ k <= done
      BY <1>1, <2>1 DEF Taken
    <3>2. QED BY <1>1, <3>1 DEF Taken
  <2>2. QED BY <2>1
<1>7. /\ items \in [Node -> Seq(Node)] /\ \A n \in InUse : n \in Node
      /\ \A n \in Node : \A x \in Listed(items[n]) : x \in Node /\ program.kind[x] # "Module"
      /\ program.inside \in [Node -> Seq(Node)]
      /\ \A m \in Node : \A x \in Listed(program.inside[m]) :
           x \in Node /\ program.kind[x] # "Module"
  BY <1>2, ItemsInUse, WrittenLists
<1>8. \A x \in Listed(own) :
        /\ x \in T /\ Under(items, x) \subseteq T
        /\ x \in Node /\ x # Current
  <2>1. AsWritten(items, Current)
    BY <1>3, OrderNow
  <2>2. \A x \in Listed(own) : Under(items, x) \subseteq Under(program.inside, x)
    BY <2>1 DEF AsWritten
  <2>3. \A x \in Listed(own) : x \in T /\ Under(program.inside, x) \subseteq T
    BY <1>3, <1>7, UnderFacts, UnderUnfolds
  <2>4. QED BY <1>3, <1>7, <2>2, <2>3
<1>9. S \subseteq T
  BY <1>8
<1>10. /\ R \in SUBSET Node /\ T \in SUBSET Node /\ S \in SUBSET Node
  BY <1>3, <1>7, <1>9, UnderFacts
<1>11. ASSUME NEW z \in S PROVE z # Current /\ Listed(items[z]) \subseteq S
  <2>1. CASE z \in Listed(own)
    <3>1. z \in Node /\ z # Current
      BY <1>8, <2>1
    <3>2. Listed(items[z]) \subseteq Under(items, z)
      BY <1>7, <3>1, UnderFacts
    <3>3. QED BY <2>1, <3>1, <3>2
  <2>2. ASSUME NEW x \in Listed(own), z \in Under(items, x)
        PROVE  z # Current /\ Listed(items[z]) \subseteq S
    <3>1. x \in Node
      BY <1>8
    <3>2. Listed(items[z]) \subseteq Under(items, x)
      BY <1>7, <2>2, <3>1, UnderFacts
    <3>3. program.kind[z] # "Module"
      BY <1>7, <2>2, <3>1, UnderItems
    <3>4. QED BY <1>3, <3>2, <3>3
  <2>3. QED BY <2>1, <2>2
<1>12. /\ \A n \in Node : n # Current => Under(items', n) \subseteq Under(items, n)
       /\ Under(items', Current) \subseteq R \cup S
  <2>1. Listed(items'[Current]) \subseteq Listed(items[Current]) \cup S
    BY <1>3
  <2> HIDE DEF S
  <2>2. QED BY <1>3, <1>10, <1>11, <2>1, ModuleUnder
<1>13. ModulesInOrder
  BY OrderNow
<1>14. R \subseteq WrittenIn(done)
  BY <1>1, <1>3, <1>13 DEF ModulesInOrder
<1>15. ASSUME NEW n \in 1 .. done PROVE Before(WrittenIn(n), T)
  <2>1. ASSUME NEW c \in 1 .. n PROVE Before(Under(program.inside, program.order[c]), T)
    <3>1. c \in 1 .. Len(program.order) /\ c < done + 1
      BY <1>4, <1>15
    <3>2. QED BY <1>2, <1>4, <3>1, ModulesApart
  <2>2. QED BY <2>1 DEF WrittenIn, Before
<1>16. Before(R, T)
  <2>1. CASE done = 0
    <3>1. \A c \in 1 .. 0 : FALSE
      OBVIOUS
    <3>2. WrittenIn(0) = {}
      BY <3>1 DEF WrittenIn
    <3>3. QED BY <1>14, <2>1, <3>2 DEF Before
  <2>2. CASE done # 0
    <3>1. done \in 1 .. done
      BY <1>4, <2>2
    <3>2. Before(WrittenIn(done), T)
      BY <1>15, <3>1
    <3>3. QED BY <1>14, <3>2 DEF Before
  <2>3. QED BY <2>1, <2>2
<1>17. \A x \in Listed(items[Current]) : x \in R /\ Under(items', x) \subseteq R
  <2>1. ASSUME NEW x \in Listed(items[Current]) PROVE x \in R /\ Under(items', x) \subseteq R
    <3>1. x \in Node /\ x # Current
      BY <1>3, <1>7
    <3>2. x \in R /\ Under(items, x) \subseteq R
      BY <1>3, <1>7, UnderFacts, UnderUnfolds
    <3>3. QED BY <1>12, <3>1, <3>2
  <2>2. QED BY <2>1
<1>18. ASSUME NEW L, NEW s, Orderly(L, s), \A x \in Listed(s) : x \in Node /\ x # Current
                                             /\ Under(items, x) \subseteq Under(L, x)
       PROVE  Orderly(items', s)
  <2>1. \A i \in 1 .. Len(s) : s[i] \in Listed(s)
    BY ListedAt
  <2>2. \A i \in 1 .. Len(s) : Under(items', s[i]) \subseteq Under(L, s[i])
    BY <1>12, <1>18, <2>1
  <2>3. QED BY <1>18, <2>2, OrderlyShrinks
<1>19. ASSUME NEW n \in InUse PROVE Orderly(items', items[n])
  <2>1. Orderly(items, items[n])
    BY OrderNow
  <2>2. \A x \in Listed(items[n]) : x \in Node /\ x # Current
    BY <1>3, <1>7
  <2>3. QED BY <1>18, <2>1, <2>2
<1>20. ASSUME NEW n \in InUse' PROVE Orderly(items', items'[n])
  <2>1. CASE n = Current
    <3>1. Orderly(program.inside, own)
      BY <1>2, <1>3, WrittenOrderly
    <3>2. \A x \in Listed(own) : Under(items, x) \subseteq Under(program.inside, x)
      BY <1>3, OrderNow DEF AsWritten
    <3>3. Orderly(items', own)
      BY <1>8, <1>18, <3>1, <3>2
    <3>4. Orderly(items', items[Current]) /\ items[Current] \in Seq(Node)
      BY <1>3, <1>7, <1>19
    <3>5. \A x \in Listed(own) : x \in T /\ Under(items', x) \subseteq T
      BY <1>8, <1>12
    <3> HIDE DEF R, T, own
    <3>6. Orderly(items', items[Current] \o own)
      BY <1>4, <1>16, <1>17, <3>3, <3>4, <3>5, OrderlyJoin
    <3>7. QED BY <1>3, <2>1, <3>6
  <2>2. CASE n # Current
    BY <1>3, <1>7, <1>19, <2>2
  <2>3. QED BY <2>1, <2>2
<1>21. ASSUME NEW m \in Node, program.kind[m] = "Module", ~ Taken(m)'
       PROVE  AsWritten(items', m)
  <2>1. AsWritten(items, m)
    BY <1>6, <1>21, OrderNow
  <2>2. \A x \in Listed(program.inside[m]) : x \in Node /\ x # Current
    BY <1>3, <1>7, <1>21
  <2>3. QED BY <1>12, <2>1, <2>2 DEF AsWritten
<1>22. \A a \in Finished' :
         /\ a \in Finished /\ a \in 1 .. done
         /\ Under(items', program.order[a]) \subseteq Under(items, program.order[a])
         /\ program.order[a] \notin Listed(program.imports[Current])
  <2>1. Finished' = Finished
    BY <1>1, <1>3 DEF Finished
  <2>2. \A a \in Finished : a \in 1 .. done /\ program.order[a] \in Node /\ program.order[a] # Current
    BY <1>3, FinishedFacts DEF Finished
  <2>3. \A a \in Finished : program.order[a] \notin Listed(program.imports[Current])
    BY <1>3, ImportsGone
  <2>4. QED BY <1>12, <2>1, <2>2, <2>3
<1>23. \A a, b \in Finished' : a < b =>
         Before(Under(items', program.order[a]), Under(items', program.order[b]))
  BY <1>13, <1>22 DEF ModulesInOrder, Before
<1>24. \A a \in Finished' : Under(items', program.order[a]) \subseteq WrittenIn(a)
  BY <1>13, <1>22 DEF ModulesInOrder
<1>25. Under(items', Current') \subseteq WrittenIn(IF phase' = "items" THEN done' ELSE done' + 1)
  <2>1. \A c \in 1 .. done : c \in 1 .. done + 1
    BY <1>4
  <2>2. done + 1 \in 1 .. done + 1
    BY <1>4
  <2>3. WrittenIn(done) \subseteq WrittenIn(done + 1) /\ T \subseteq WrittenIn(done + 1)
    BY <1>4, <2>1, <2>2 DEF WrittenIn
  <2>4. QED BY <1>1, <1>5, <1>9, <1>12, <1>14, <2>3
<1>26. ASSUME NEW a \in Finished'
       PROVE  IF program.order[a] \in Listed(program.imports[Current'])
              THEN Before(Under(items', Current'), Under(items', program.order[a]))
              ELSE Before(Under(items', program.order[a]), Under(items', Current'))
  <2> DEFINE U == Under(items, program.order[a])
             V == Under(items', program.order[a])
             W == Under(items', Current)
  <2>1. a \in Finished /\ a \in 1 .. done /\ V \subseteq U /\ W \subseteq R \cup T
        /\ program.order[a] \notin Listed(program.imports[Current])
    BY <1>9, <1>12, <1>22
  <2>2. Before(U, R) /\ U \subseteq WrittenIn(a) /\ Before(WrittenIn(a), T)
    BY <1>3, <1>13, <1>15, <2>1 DEF ModulesInOrder
  <2>3. Before(V, W)
    <3> HIDE DEF R, T, U, V, W
    <3>1. QED BY <2>1, <2>2 DEF Before
  <2>4. QED BY <1>5, <2>1, <2>3
<1>27. ModulesInOrder'
  BY <1>1, <1>23, <1>24, <1>25, <1>26, ModulesAfter
<1>28. QED BY <1>1, <1>20, <1>21, <1>27, OrderAfter

\* The module to be parsed next holds nothing yet.
LEMMA NextIsEmpty ==
  ASSUME IInv, HoldsAll, phase # "items", done + 1 < Len(program.order)
  PROVE  LET m == program.order[(done + 1) + 1] IN m \in Node /\ items[m] = <<>>
<1> DEFINE k == (done + 1) + 1
           m == program.order[k]
<1>1. TypeOK /\ program \in Programs /\ Parsing
  BY DEF IInv, Splicing
<1>2. done \in Nat /\ Len(program.order) \in Nat /\ done + 1 \in 1 .. Len(program.order)
  BY <1>1, CurrentFacts, ProgramFacts
<1>3. k \in 1 .. Len(program.order) /\ k = done + 2
  BY <1>2
<1> HIDE DEF k
<1>4. m \in Node /\ program.kind[m] = "Module"
  <2>1. program.order \in Seq(Node) /\ m \in Listed(program.order) /\ ImportedOnce(program)
    BY <1>1, <1>3, ProgramFacts, ListedAt
  <2>2. m \in Node
    BY <1>3, <2>1
  <2>3. QED BY <2>1, <2>2 DEF ImportedOnce
<1>5. ~ Taken(m)
  <2>1. SUFFICES ASSUME NEW l \in 1 .. Len(program.order), program.order[l] = m,
                        l <= done \/ l = done + 1
                 PROVE  FALSE
    BY DEF Taken
  <2>2. l # k
    BY <1>2, <1>3, <2>1
  <2>3. QED BY <1>1, <1>3, <2>1, <2>2, ProgramFacts DEF ImportedOnce, NoRepeat
<1>6. items[m] = <<>>
  BY <1>4, <1>5 DEF HoldsAll
<1>7. QED BY <1>4, <1>6 DEF k

LEMMA ReturnOrder ==
  ASSUME IInv, HoldsAll, InOrder, Return
  PROVE  InOrder'
<1>1. phase \in {"merge", "reorder"} /\ UNCHANGED <<program, items, freed>>
  BY DEF Return
<1>2. calls # <<>>
  BY <1>1 DEF IInv, Calls
<1>3. Parsing /\ phase # "items"
  BY <1>2, TopFacts
<1>4. TypeOK /\ program \in Programs /\ Splicing /\ items \in [Node -> Seq(Node)]
  BY DEF IInv, TypeOK
<1>5. CASE UNCHANGED <<done, spliced>> /\ phase' # "items"
  <2>1. InUse' = InUse
    BY <1>1, <1>3, <1>5, ListsKept
  <2>2. items' \in [Node -> Seq(Node)] /\ \A m \in Node : Listed(items'[m]) = Listed(items[m])
    BY <1>1, <1>4
  <2>3. QED BY <1>1, <1>3, <1>5, <2>1, <2>2, SameOrder
<1>6. CASE done' = done + 1 /\ spliced' = 0 /\ phase' = "items"
  <2>1. InUse' = InUse
    BY <1>1, <1>3, <1>6, ReturnKeepsLists
  <2>2. done \in Nat /\ Len(program.order) \in Nat /\ done + 1 \in 1 .. Len(program.order)
        /\ program.order[done + 1] = Current
    BY <1>3, <1>4, CurrentFacts, ProgramFacts DEF Current
  <2>3. \A m : Taken(m)' = Taken(m)
    <3>1. \A k \in 1 .. Len(program.order) :
             k <= done \/ (k = done + 1 /\ phase # "items")
               <=> k <= done + 1 \/ (k = (done + 1) + 1 /\ phase' # "items")
      BY <1>3, <1>6, <2>2
    <3>2. QED BY <1>1, <1>6, <3>1 DEF Taken
  <2>4. \A n \in InUse' : Orderly(items', items'[n])
    <3>1. \A n \in InUse : Orderly(items, items[n])
      BY OrderNow
    <3>2. QED BY <1>1, <2>1, <3>1
  <2>5. \A m \in Node : program.kind[m] = "Module" /\ ~ Taken(m)' => AsWritten(items', m)
    BY <1>1, <2>3, OrderNow
  <2>6. ModulesInOrder
    BY OrderNow
  <2>7. \A a \in Finished' : a \in Finished \/ a = done + 1
    BY <1>1, <1>6, <2>1, <2>2 DEF Finished
  <2>8. \A a \in Finished : a \in Nat /\ a <= done /\ Before(Under(items, program.order[a]), Under(items, Current))
    <3>1. spliced = Len(program.imports[Current])
      BY <1>3, <1>4 DEF Splicing
    <3>2. \A a \in Finished : program.order[a] \notin Listed(program.imports[Current])
      BY <1>3, <3>1, ImportsGone
    <3>3. QED BY <1>3, <2>6, <3>2, FinishedFacts DEF ModulesInOrder
  <2>9. \A a, b \in Finished' : a < b =>
          Before(Under(items', program.order[a]), Under(items', program.order[b]))
    <3>1. SUFFICES ASSUME NEW a \in Finished', NEW b \in Finished', a < b
                   PROVE  Before(Under(items, program.order[a]), Under(items, program.order[b]))
      BY <1>1
    <3>2. a \in Finished
      BY <2>2, <2>7, <2>8, <3>1
    <3>3. QED BY <2>2, <2>6, <2>7, <2>8, <3>1, <3>2 DEF ModulesInOrder
  <2>10. \A a \in Finished' : Under(items', program.order[a]) \subseteq WrittenIn(a)
    <3>1. Under(items, Current) \subseteq WrittenIn(done + 1)
      BY <1>3, <2>6 DEF ModulesInOrder
    <3>2. QED BY <1>1, <2>2, <2>6, <2>7, <3>1 DEF ModulesInOrder
  <2>11. Parsing' => Under(items', Current') = {}
    <3>1. SUFFICES ASSUME Parsing' PROVE Under(items', Current') = {}
      OBVIOUS
    <3>2. done + 1 < Len(program.order) /\ Current' = program.order[(done + 1) + 1]
      BY <1>1, <1>6, <3>1 DEF Parsing, Current
    <3>3. Current' \in Node /\ items[Current'] = <<>>
      BY <1>3, <3>2, NextIsEmpty
    <3>4. QED BY <1>1, <1>4, <3>3, UnderNothing
  <2>12. ModulesInOrder'
    BY <1>1, <2>9, <2>10, <2>11, ModulesAfter DEF Before
  <2>13. QED BY <1>1, <2>4, <2>5, <2>12, OrderAfter
<1>7. QED BY <1>1, <1>3, <1>5, <1>6 DEF Return

LEMMA NextOrder == IInv /\ HoldsAll /\ InOrder /\ [Next]_vars => InOrder'
<1> SUFFICES ASSUME IInv, HoldsAll, InOrder, [Next]_vars PROVE InOrder'
  OBVIOUS
<1>1. items \in [Node -> Seq(Node)]
  BY DEF IInv, TypeOK
<1>2. CASE SpliceModule
  BY <1>2, SpliceOrder
<1>3. CASE OwnItems
  BY <1>3, OwnOrder
<1>4. ASSUME NEW j \in 1 .. Cardinality(Node), Merge(j)
      PROVE  InOrder'
  <2>1. j \in Nat
    BY ProgramsAssumption, FS_CardinalityType
  <2>2. QED BY <1>4, <2>1, MergeOrder
<1>5. CASE UNCHANGED <<program, items, freed, done, spliced, phase>> /\ phase # "items"
  <2>1. InUse' = InUse
    BY <1>5, ListsKept
  <2>2. QED BY <1>1, <1>5, <2>1, SameOrder
<1>6. CASE NoDuplicate
  BY <1>5, <1>6 DEF NoDuplicate
<1>7. CASE ScanEnds
  BY <1>5, <1>7 DEF ScanEnds
<1>8. CASE Reorder
  <2>1. calls # <<>>
    BY <1>8 DEF Reorder, IInv, Calls
  <2>2. ReorderEffect(Top.owner)
    BY <1>8, <2>1, ReorderFacts
  <2>3. /\ UNCHANGED <<program, done, spliced>> /\ phase # "items" /\ phase' # "items"
    BY <1>8 DEF Reorder
  <2>4. /\ InUse' = InUse /\ items' \in [Node -> Seq(Node)]
        /\ \A m \in Node : Listed(items'[m]) = Listed(items[m])
        /\ \A m \in Node : items'[m] = items[m] \/ items'[m] = Grouped(items[m])
    BY <2>2 DEF ReorderEffect
  <2>5. \A m \in InUse : m \in Node
    BY ItemsInUse
  <2>6. QED BY <2>3, <2>4, <2>5, SameOrder
<1>9. CASE Descend
  BY <1>5, <1>9 DEF Descend
<1>10. CASE Return
  BY <1>10, ReturnOrder
<1>11. CASE UNCHANGED vars
  <2>1. UNCHANGED <<program, items, freed, done, spliced, phase, calls>>
    BY <1>11 DEF vars
  <2>2. InUse' = InUse /\ Current' = Current /\ Parsing' = Parsing
    BY <2>1 DEF InUse, Spliced, Parsing, Current
  <2>3. Finished' = Finished /\ \A m : Taken(m)' = Taken(m)
    BY <2>1, <2>2 DEF Finished, Taken
  <2>4. ModulesInOrder'
    <3>1. ModulesInOrder
      BY OrderNow
    <3>2. QED BY <2>1, <2>2, <2>3, <3>1 DEF ModulesInOrder, WrittenIn
  <2>5. QED BY <2>1, <2>2, <2>3, <2>4, OrderNow, OrderAfter
<1>12. QED BY <1>2, <1>3, <1>4, <1>6, <1>7, <1>8, <1>9, <1>10, <1>11 DEF Next

LEMMA InitOrder == Init => InOrder
<1> SUFFICES ASSUME Init PROVE InOrder
  OBVIOUS
<1>1. /\ program \in Programs /\ done = 0
      /\ items = [n \in Node |-> IF program.kind[n] = "Module" THEN <<>> ELSE program.inside[n]]
  BY DEF Init
<1>2. IInv
  BY InitIInv
<1>3. /\ items \in [Node -> Seq(Node)] /\ program.inside \in [Node -> Seq(Node)]
      /\ \A n \in InUse : n \in Node
      /\ \A m \in Node : \A x \in Listed(program.inside[m]) : x \in Node
  BY <1>2, ItemsInUse, WrittenLists
<1>4. \A n \in Node : Under(items, n) \subseteq Under(program.inside, n)
  <2>1. \A n \in Node : Listed(items[n]) \subseteq Listed(program.inside[n])
    BY <1>1 DEF Listed
  <2>2. \A n \in Node : \A z \in Under(program.inside, n) : z \in Node
    BY <1>3, UnderFacts
  <2>3. QED BY <1>3, <2>1, <2>2, UnderShrinks
<1>5. \A n \in InUse : Orderly(items, items[n])
  <2>1. ASSUME NEW n \in InUse, program.kind[n] # "Module" PROVE Orderly(items, items[n])
    <3>1. n \in Node /\ items[n] = program.inside[n] /\ Orderly(program.inside, items[n])
      BY <1>1, <1>3, <2>1, WrittenOrderly
    <3>2. \A i \in 1 .. Len(items[n]) : items[n][i] \in Node
      BY <1>3, <3>1, ListedAt
    <3>3. QED BY <1>4, <3>1, <3>2, OrderlyShrinks
  <2>2. ASSUME NEW n \in InUse, program.kind[n] = "Module" PROVE Orderly(items, items[n])
    <3>1. items[n] = <<>>
      BY <1>1, <1>3, <2>2
    <3>2. QED BY <3>1 DEF Orderly, Ascending, TwinsApart
  <2>3. QED BY <2>1, <2>2
<1>6. \A m \in Node : AsWritten(items, m)
  BY <1>3, <1>4 DEF AsWritten
<1>7. ModulesInOrder
  <2>1. Finished = {}
    <3>1. \A a \in 1 .. 0 : FALSE
      OBVIOUS
    <3>2. QED BY <1>1, <3>1 DEF Finished
  <2>2. Parsing => Under(items, Current) = {}
    <3>1. SUFFICES ASSUME Parsing PROVE Under(items, Current) = {}
      OBVIOUS
    <3>2. Current \in Node /\ program.kind[Current] = "Module"
      <4>1. TypeOK /\ program \in Programs
        BY <1>2 DEF IInv
      <4>2. QED BY <3>1, <4>1, CurrentFacts
    <3>3. items[Current] = <<>>
      BY <1>1, <3>2
    <3>4. QED BY <1>3, <3>2, <3>3, UnderNothing
  <2>3. QED BY <2>1, <2>2 DEF ModulesInOrder
<1>8. QED BY <1>5, <1>6, <1>7 DEF InOrder, Orderly

LEMMA OrderInvariant == Spec => []InOrder
BY InitOrder, NextOrder, Invariant, KeptInvariant, PTL DEF Spec

\* In a module that Parser::parse returns the items of a kind come in source
\* order, on every level: what merge_namespaces puts behind each other was
\* written so, from however many modules it comes, and reorder_items brings
\* together only what is of one kind.
THEOREM InSourceOrder == Spec => []SourceOrderKept
<1>1. ASSUME IInv, Merged, InOrder PROVE SourceOrderKept
  <2>1. SUFFICES ASSUME NEW s \in Returned PROVE Ascending(s)
    BY DEF SourceOrderKept, Ascending
  <2> DEFINE m == program.order[done]
  <2>2. /\ done > 0 /\ phase = "items" /\ spliced = 0
        /\ \E n \in {m} \cup {x \in Below(m) : IsNamespace(x)} : s = items[n]
    BY <2>1 DEF Returned
  <2>3. m \in TidyNodes
    BY <1>1, <2>2, MergedBehind
  <2>4. PICK n \in {m} \cup {x \in Below(m) : IsNamespace(x)} : s = items[n]
    BY <2>2
  <2>5. n \in TidyNodes
    BY <1>1, <2>3, BelowTidy
  <2>6. n \in InUse
    BY <2>5, TidyFacts DEF Tidy
  <2>7. QED BY <1>1, <2>4, <2>6 DEF InOrder
<1>2. QED BY <1>1, Invariant, MergedInvariant, OrderInvariant, PTL
=============================================================================
