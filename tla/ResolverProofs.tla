--------------------------- MODULE ResolverProofs ---------------------------
(***************************************************************************)
(* The scope tree and name resolution are correct in every program: the    *)
(* inductive invariant of module Resolver is one, and from it follow the   *)
(* safety properties and the refinement of lexical scoping.                *)
(***************************************************************************)
EXTENDS ResolverInvariant, ListProofs, FiniteSetTheorems

(***************************************************************************)
(* Syntax trees.                                                           *)
(***************************************************************************)

\* The nodes have a greatest number.
LEMMA NodesBounded == \E N \in Nat : \A n \in Node : n \in Nat /\ 0 < n /\ n <= N
<1>1. Node \subseteq Nat \ {0} /\ IsFiniteSet(Node)
  BY TreesAssumption
<1>2. PICK s \in Seq(Node) : \A n \in Node : \E i \in 1 .. Len(s) : s[i] = n
  BY <1>1 DEF IsFiniteSet
<1> DEFINE T == {k \in Nat : k <= Len(s) => \E N \in Nat : \A i \in 1 .. k : s[i] <= N}
<1>3. 0 \in T
  OBVIOUS
<1>4. ASSUME NEW k \in Nat, k \in T PROVE k + 1 \in T
  <2>1. SUFFICES ASSUME k + 1 <= Len(s) PROVE \E N \in Nat : \A i \in 1 .. k + 1 : s[i] <= N
    OBVIOUS
  <2>2. PICK N \in Nat : \A i \in 1 .. k : s[i] <= N
    BY <1>4, <2>1
  <2>3. \A i \in 1 .. k + 1 : i \in 1 .. Len(s) /\ (i = k + 1 \/ i \in 1 .. k)
    <3>1. Len(s) \in Nat
      OBVIOUS
    <3>2. QED BY <2>1, <3>1
  <2>4. (\A i \in 1 .. k + 1 : s[i] \in Nat) /\ k + 1 \in 1 .. k + 1 /\ s[k + 1] \in Nat
    <3>1. \A i \in 1 .. Len(s) : s[i] \in Node
      OBVIOUS
    <3>2. k + 1 \in 1 .. k + 1
      OBVIOUS
    <3>3. \A i \in 1 .. k + 1 : s[i] \in Nat
      BY <1>1, <2>3, <3>1
    <3>4. QED BY <3>2, <3>3
  <2>5. ASSUME NEW i \in 1 .. k + 1 PROVE s[i] <= N + s[k + 1]
    <3>1. s[i] \in Nat /\ s[k + 1] \in Nat /\ (i = k + 1 \/ s[i] <= N)
      BY <2>2, <2>3, <2>4
    <3>2. QED BY <3>1
  <2>6. N + s[k + 1] \in Nat
    BY <2>4
  <2>7. QED BY <2>5, <2>6
<1>5. Nat \subseteq T
  <2> HIDE DEF T
  <2>1. QED BY <1>3, <1>4, Induction
<1>6. Len(s) \in Nat /\ Len(s) <= Len(s)
  OBVIOUS
<1>7. Len(s) \in T
  BY <1>5, <1>6
<1>8. PICK N \in Nat : \A i \in 1 .. Len(s) : s[i] <= N
  BY <1>6, <1>7
<1>9. ASSUME NEW n \in Node PROVE n \in Nat /\ 0 < n /\ n <= N
  <2>1. PICK i \in 1 .. Len(s) : s[i] = n
    BY <1>2
  <2>2. n \in Nat \ {0} /\ n <= N
    BY <1>1, <1>8, <2>1
  <2>3. QED BY <2>2
<1>10. QED BY <1>9

\* What is true of a node if it is true of those before it is true of all nodes.
LEMMA Upwards ==
  ASSUME NEW T, \A n \in Node : (\A m \in Node : m < n => m \in T) => n \in T
  PROVE  Node \subseteq T
<1> DEFINE Others == Node \ T
<1>1. SUFFICES ASSUME Others # {} PROVE FALSE
  OBVIOUS
<1>2. Others \subseteq Nat /\ Node \subseteq Nat
  BY TreesAssumption
<1>3. PICK n \in Others : \A m \in Others : n <= m
  <2> HIDE DEF Others
  <2>1. QED BY <1>1, <1>2, LeastNumber
<1>4. ASSUME NEW m \in Node, m < n PROVE m \in T
  <2>1. m \in Nat /\ n \in Nat /\ ~ (n <= m)
    BY <1>2, <1>4
  <2>2. QED BY <1>3, <2>1
<1>5. QED BY <1>3, <1>4

\* The same of the nodes behind it.
LEMMA Downwards ==
  ASSUME NEW T, \A n \in Node : (\A m \in Node : n < m => m \in T) => n \in T
  PROVE  Node \subseteq T
<1>1. SUFFICES ASSUME Node \ T # {} PROVE FALSE
  OBVIOUS
<1>2. PICK N \in Nat : \A n \in Node : n \in Nat /\ 0 < n /\ n <= N
  BY NodesBounded
<1> DEFINE D == {N - n : n \in Node \ T}
<1>3. D \subseteq Nat /\ D # {}
  BY <1>1, <1>2
<1>4. PICK d \in D : \A e \in D : d <= e
  <2> HIDE DEF D
  <2>1. QED BY <1>3, LeastNumber
<1>5. PICK n \in Node \ T : d = N - n
  BY <1>4
<1>6. ASSUME NEW m \in Node, n < m PROVE m \in T
  <2>1. SUFFICES ASSUME m \notin T PROVE FALSE
    OBVIOUS
  <2>2. N - m \in D
    BY <2>1
  <2>3. d <= N - m
    BY <1>4, <2>2
  <2>4. m \in Nat /\ n \in Nat
    BY <1>2
  <2>5. QED BY <1>5, <1>6, <2>3, <2>4
<1>7. QED BY <1>5, <1>6

\* What holds of the program and its nodes.
LEMMA TreeFacts ==
  ASSUME program \in Programs
  PROVE  /\ program \in Program /\ program.kind[1] = "Module" /\ 1 \in Node
         /\ \A n \in Node : n \in Nat /\ n > 0 /\ program.kind[n] \in Kind
         /\ \A n \in Node : program.parts[n] \in Seq(Node)
         /\ \A n \in Node : \A m \in Listed(program.parts[n]) :
              m \in Node /\ n < m /\ program.kind[m] \in PartKinds(program.kind[n])
         /\ \A k, m \in Node : \A x : x \in Listed(program.parts[k]) /\ x \in Listed(program.parts[m]) => k = m
<1>1. program \in Program /\ TreeShaped(program) /\ 1 \in Node /\ Node \subseteq Nat \ {0}
  BY TreesAssumption
<1>2. program.parts \in [Node -> Seq(Node)] /\ program.kind \in [Node -> Kind]
  BY <1>1 DEF Program
<1>3. ASSUME NEW n \in Node, NEW m \in Listed(program.parts[n]) PROVE m \in Node
  BY <1>2 DEF Listed
<1>4. \A n \in Node : \A m \in Listed(program.parts[n]) :
         n < m /\ program.kind[m] \in PartKinds(program.kind[n])
  BY <1>1 DEF TreeShaped
<1>5. \A k, m \in Node : k # m => Listed(program.parts[k]) \cap Listed(program.parts[m]) = {}
  BY <1>1 DEF TreeShaped
<1>6. program.kind[1] = "Module"
  BY <1>1 DEF TreeShaped
<1>7. \A n \in Node : n \in Nat /\ n > 0
  BY <1>1
<1>8. QED BY <1>1, <1>2, <1>3, <1>4, <1>5, <1>6, <1>7

\* The parts of a node of some kinds.
LEMMA PartsFacts ==
  ASSUME program \in Programs, NEW n \in Node, NEW K
  PROVE  /\ PartSet(n, K) = {m \in Listed(program.parts[n]) : program.kind[m] \in K}
         /\ Parts(n, K) \in Seq(Node) /\ Listed(Parts(n, K)) = PartSet(n, K)
         /\ PartSet(n, K) \subseteq Node
<1>1. program.parts[n] \in Seq(Node) /\ \A m \in Listed(program.parts[n]) : m \in Node
  BY TreeFacts
<1>2. PartSet(n, K) = {m \in Listed(program.parts[n]) : program.kind[m] \in K}
  BY <1>1 DEF PartSet, Is
<1>3. Parts(n, K) \in Seq(Node) /\ Listed(Parts(n, K)) = PartSet(n, K)
  BY <1>1, SublistFacts DEF Parts, PartSet
<1>4. QED BY <1>1, <1>2, <1>3
-----------------------------------------------------------------------------
(***************************************************************************)
(* The nodes below a node.                                                 *)
(***************************************************************************)

\* A set that with a node contains the parts of it, and the least one that
\* contains those of n.
Closed(S)  == \A m \in S : Listed(program.parts[m]) \subseteq S
Reached(n) == {x \in Node : \A S \in SUBSET Node :
                 Closed(S) /\ Listed(program.parts[n]) \subseteq S => x \in S}

LEMMA ReachedFacts ==
  ASSUME program \in Programs, NEW n \in Node
  PROVE  /\ Reached(n) \in SUBSET Node /\ Closed(Reached(n))
         /\ Listed(program.parts[n]) \subseteq Reached(n)
         /\ \A S \in SUBSET Node :
              Closed(S) /\ Listed(program.parts[n]) \subseteq S => Reached(n) \subseteq S
<1>1. \A m \in Node : Listed(program.parts[m]) \subseteq Node
  BY TreeFacts
<1>2. ASSUME NEW m \in Reached(n), NEW x \in Listed(program.parts[m]) PROVE x \in Reached(n)
  <2>1. m \in Node /\ x \in Node
    BY <1>1 DEF Reached
  <2>2. ASSUME NEW S \in SUBSET Node, Closed(S), Listed(program.parts[n]) \subseteq S PROVE x \in S
    BY <2>2 DEF Reached, Closed
  <2>3. QED BY <2>1, <2>2 DEF Reached
<1>3. Listed(program.parts[n]) \subseteq Reached(n)
  BY <1>1 DEF Reached
<1>4. Closed(Reached(n))
  BY <1>2 DEF Closed
<1>5. QED BY <1>3, <1>4 DEF Reached

LEMMA ReachedSteps ==
  ASSUME program \in Programs, NEW n \in Node
  PROVE  Reached(n) = UNION {{x} \cup Reached(x) : x \in Listed(program.parts[n])}
<1> DEFINE U == UNION {{x} \cup Reached(x) : x \in Listed(program.parts[n])}
<1>1. \A m \in Node : Listed(program.parts[m]) \subseteq Node
  BY TreeFacts
<1>2. ASSUME NEW x \in Listed(program.parts[n]) PROVE x \in Reached(n) /\ Reached(x) \subseteq Reached(n)
  <2>1. x \in Node /\ x \in Reached(n) /\ Closed(Reached(n)) /\ Reached(n) \in SUBSET Node
    BY <1>1, ReachedFacts
  <2>2. Listed(program.parts[x]) \subseteq Reached(n)
    BY <2>1 DEF Closed
  <2>3. QED BY <2>1, <2>2, ReachedFacts
<1>3. U \subseteq Reached(n)
  BY <1>2
<1>4. U \in SUBSET Node
  BY <1>3, ReachedFacts
<1>5. ASSUME NEW y \in U PROVE Listed(program.parts[y]) \subseteq U
  <2>1. PICK x \in Listed(program.parts[n]) : y \in {x} \cup Reached(x)
    OBVIOUS
  <2>2. x \in Node
    BY <1>1
  <2>3. Listed(program.parts[y]) \subseteq Reached(x)
    BY <2>1, <2>2, ReachedFacts DEF Closed
  <2>4. QED BY <2>3
<1>6. Listed(program.parts[n]) \subseteq U
  OBVIOUS
<1> HIDE DEF U
<1>7. Closed(U)
  BY <1>5 DEF Closed
<1>8. Reached(n) \subseteq U
  BY <1>4, <1>6, <1>7, ReachedFacts
<1>9. Reached(n) = U
  BY <1>3, <1>8
<1>10. QED BY <1>9 DEF U

\* Below is what its definition says: what is below n are the parts of n and
\* what is below them.
LEMMA BelowSteps ==
  ASSUME program \in Programs
  PROVE  \A n \in Node : Below(n) = UNION {{x} \cup Below(x) : x \in Listed(program.parts[n])}
<1> DEFINE IsB(B) == B = [m \in Node |-> UNION {{x} \cup B[x] : x \in Listed(program.parts[m])}]
           R == [m \in Node |-> Reached(m)]
<1>1. \A m \in Node : Listed(program.parts[m]) \subseteq Node
  BY TreeFacts
<1>2. IsB(R)
  <2>1. ASSUME NEW m \in Node
        PROVE  R[m] = UNION {{x} \cup R[x] : x \in Listed(program.parts[m])}
    <3>1. \A x \in Listed(program.parts[m]) : R[x] = Reached(x)
      BY <1>1
    <3>2. {{x} \cup R[x] : x \in Listed(program.parts[m])} = {{x} \cup Reached(x) : x \in Listed(program.parts[m])}
      BY <3>1
    <3>3. QED BY <3>2, ReachedSteps
  <2>2. R = [m \in Node |-> R[m]]
    OBVIOUS
  <2> HIDE DEF R
  <2>3. [m \in Node |-> R[m]]
          = [m \in Node |-> UNION {{x} \cup R[x] : x \in Listed(program.parts[m])}]
    BY <2>1
  <2>4. QED BY <2>2, <2>3
<1> DEFINE g == CHOOSE B : IsB(B)
<1> HIDE DEF R
<1>3. IsB(g)
  BY <1>2
<1>4. \A n \in Node : Below(n) = g[n]
  BY DEF Below
<1> HIDE DEF g
<1>5. \A n \in Node : g[n] = UNION {{x} \cup g[x] : x \in Listed(program.parts[n])}
  BY <1>3
<1>6. ASSUME NEW n \in Node
      PROVE  Below(n) = UNION {{x} \cup Below(x) : x \in Listed(program.parts[n])}
  <2>1. \A x \in Listed(program.parts[n]) : g[x] = Below(x)
    BY <1>1, <1>4
  <2>2. {{x} \cup g[x] : x \in Listed(program.parts[n])} = {{x} \cup Below(x) : x \in Listed(program.parts[n])}
    BY <2>1
  <2>3. QED BY <1>4, <1>5, <2>2
<1>7. QED BY <1>6

\* What is below a node comes behind it and is part of the node or of one below
\* it; the relation is transitive.
LEMMA BelowFacts ==
  ASSUME program \in Programs, NEW n \in Node
  PROVE  /\ Listed(program.parts[n]) \subseteq Below(n)
         /\ \A x \in Below(n) :
              /\ x \in Node /\ n < x
              /\ \E m \in Node : x \in Listed(program.parts[m]) /\ (m = n \/ m \in Below(n))
         /\ \A m \in Below(n) : Below(m) \subseteq Below(n)
<1> DEFINE Good(k) == /\ \A x \in Below(k) :
                           /\ x \in Node /\ k < x
                           /\ \E m \in Node : x \in Listed(program.parts[m]) /\ (m = k \/ m \in Below(k))
                      /\ \A m \in Below(k) : Below(m) \subseteq Below(k)
           T == {k \in Node : Good(k)}
<1>1. ASSUME NEW k \in Node, \A m \in Node : k < m => m \in T PROVE Good(k)
  <2>1. \A y \in Listed(program.parts[k]) :
          /\ y \in Node /\ k < y /\ Good(y)
          /\ y \in Below(k) /\ Below(y) \subseteq Below(k)
    <3>1. ASSUME NEW y \in Listed(program.parts[k])
          PROVE  y \in Node /\ k < y /\ y \in Below(k) /\ Below(y) \subseteq Below(k)
      BY TreeFacts, BelowSteps
    <3>2. \A y \in Listed(program.parts[k]) : Good(y)
      <4> HIDE DEF Good
      <4>1. QED BY <1>1, <3>1
    <3> HIDE DEF Good
    <3>3. QED BY <3>1, <3>2
  <2>2. ASSUME NEW x \in Below(k)
        PROVE  /\ x \in Node /\ k < x
               /\ \E m \in Node : x \in Listed(program.parts[m]) /\ (m = k \/ m \in Below(k))
               /\ Below(x) \subseteq Below(k)
    <3>1. PICK y \in Listed(program.parts[k]) : x = y \/ x \in Below(y)
      BY BelowSteps
    <3>2. CASE x = y
      BY <2>1, <3>2
    <3>3. CASE x \in Below(y)
      <4>1. /\ x \in Node /\ y < x /\ Below(x) \subseteq Below(y)
            /\ \E m \in Node : x \in Listed(program.parts[m]) /\ (m = y \/ m \in Below(y))
        BY <2>1, <3>3
      <4>2. k \in Nat /\ y \in Nat /\ x \in Nat
        BY <2>1, <4>1, TreeFacts
      <4>3. k < x
        BY <2>1, <4>1, <4>2
      <4>4. QED BY <2>1, <4>1, <4>3
    <3>4. QED BY <3>1, <3>2, <3>3
  <2>3. QED BY <2>2
<1>2. Node \subseteq T
  <2>1. \A k \in Node : (\A m \in Node : k < m => m \in T) => k \in T
    BY <1>1
  <2> HIDE DEF T
  <2>2. QED BY <2>1, Downwards
<1>3. Good(n)
  BY <1>2
<1>4. Listed(program.parts[n]) \subseteq Below(n)
  BY BelowSteps
<1>5. QED BY <1>3, <1>4

\* What is true of a part of t is that the node is below n iff t is n or below n,
\* and so on: how the operators of NameMeaning go from a node to its parts.
LEMMA BelowOfPart ==
  ASSUME program \in Programs, NEW t \in Node, NEW x \in Listed(program.parts[t]), NEW n \in Node
  PROVE  x \in Below(n) <=> t = n \/ t \in Below(n)
<1>1. ASSUME x \in Below(n) PROVE t = n \/ t \in Below(n)
  <2>1. PICK m \in Node : x \in Listed(program.parts[m]) /\ (m = n \/ m \in Below(n))
    BY <1>1, BelowFacts
  <2>2. m = t
    BY <2>1, TreeFacts
  <2>3. QED BY <2>1, <2>2
<1>2. Listed(program.parts[t]) \subseteq Below(t)
  BY BelowFacts
<1>3. ASSUME t \in Below(n) PROVE x \in Below(n)
  BY <1>2, <1>3, BelowFacts
<1>4. QED BY <1>1, <1>2, <1>3

LEMMA WithBelowOfPart ==
  ASSUME program \in Programs, NEW t \in Node, NEW x \in Listed(program.parts[t]),
         NEW S \in SUBSET Node
  PROVE  x \in WithBelow(S) <=> x \in S \/ t \in WithBelow(S)
<1>1. \A n \in S : x \in Below(n) <=> t = n \/ t \in Below(n)
  BY BelowOfPart
<1>2. \A y : y \in WithBelow(S) <=> y \in S \/ \E n \in S : y \in Below(n)
  BY DEF WithBelow
<1>3. QED BY <1>1, <1>2

LEMMA RegionOfPart ==
  ASSUME program \in Programs, NEW t \in Node, NEW x \in Listed(program.parts[t]), NEW c \in Node
  PROVE  x \in Region(c) <=> \/ c = t /\ (Is(t, {"If"}) => Is(x, {"Scope"}))
                             \/ t \in Region(c)
<1>1. CASE Is(c, {"If"})
  <2>1. Region(c) = WithBelow(PartSet(c, {"Scope"})) /\ PartSet(c, {"Scope"}) \subseteq Node
    BY <1>1, PartsFacts DEF Region
  <2>2. x \in PartSet(c, {"Scope"}) <=> c = t /\ Is(x, {"Scope"})
    <3>1. PartSet(c, {"Scope"}) = {m \in Listed(program.parts[c]) : program.kind[m] \in {"Scope"}}
      BY PartsFacts
    <3>2. x \in Listed(program.parts[c]) => c = t
      BY TreeFacts
    <3>3. QED BY <3>1, <3>2 DEF Is
  <2>3. QED BY <1>1, <2>1, <2>2, WithBelowOfPart
<1>2. CASE ~Is(c, {"If"})
  <2>1. Region(c) = Below(c)
    BY <1>2 DEF Region
  <2>2. QED BY <1>2, <2>1, BelowOfPart
<1>3. QED BY <1>1, <1>2

LEMMA RegionFacts ==
  ASSUME program \in Programs, NEW c \in Node
  PROVE  Region(c) \subseteq Below(c)
<1>1. CASE Is(c, {"If"})
  <2>1. Region(c) = WithBelow(PartSet(c, {"Scope"}))
    BY <1>1 DEF Region
  <2>2. ASSUME NEW m \in PartSet(c, {"Scope"}) PROVE m \in Below(c) /\ Below(m) \subseteq Below(c)
    <3>1. m \in Below(c)
      BY PartsFacts, BelowFacts
    <3>2. QED BY <3>1, BelowFacts
  <2>3. QED BY <2>1, <2>2 DEF WithBelow
<1>2. CASE ~Is(c, {"If"})
  BY <1>2 DEF Region
<1>3. QED BY <1>1, <1>2

\* The ifs that are themselves an else.
ElseIfs == UNION {PartSet(n, {"If"}) : n \in {m \in Node : Is(m, {"If"})}}

LEMMA BlindFacts ==
  ASSUME program \in Programs
  PROVE  /\ Blind \subseteq Node /\ ElseIfs \subseteq Node /\ 1 \notin Blind /\ 1 \notin ElseIfs
         /\ \A t \in Node : \A x \in Listed(program.parts[t]) :
              /\ x \in ElseIfs <=> Is(t, {"If"}) /\ Is(x, {"If"})
              /\ x \in Blind <=> Is(x, {"Scope"}) /\ (Is(t, {"While", "Try", "Catch"}) \/ t \in ElseIfs)
<1> DEFINE All(K) == {n \in Node : Is(n, K)}
           Owners == All({"While", "Try", "Catch"}) \cup ElseIfs
<1>1. Blind = UNION {PartSet(n, {"Scope"}) : n \in Owners}
  BY DEF Blind, ElseIfs
<1>2. \A n \in Node : \A K : PartSet(n, K) = {x \in Listed(program.parts[n]) : program.kind[x] \in K}
  BY PartsFacts
<1>3. ElseIfs \subseteq Node
  BY PartsFacts DEF ElseIfs
<1>4. Owners \subseteq Node
  BY <1>3
<1> HIDE DEF Owners
<1>5. Blind \subseteq Node
  BY <1>1, <1>4, PartsFacts
<1>6. \A n \in Node : 1 \notin Listed(program.parts[n])
  <2>1. ASSUME NEW n \in Node, 1 \in Listed(program.parts[n]) PROVE FALSE
    <3>1. n \in Nat /\ n > 0 /\ n < 1
      BY <2>1, TreeFacts
    <3>2. QED BY <3>1
  <2>2. QED BY <2>1
<1>7. 1 \notin Blind
  BY <1>1, <1>2, <1>4, <1>6
<1>8. 1 \notin ElseIfs
  BY <1>2, <1>6 DEF ElseIfs
<1>9. ASSUME NEW t \in Node, NEW x \in Listed(program.parts[t])
      PROVE  /\ x \in ElseIfs <=> Is(t, {"If"}) /\ Is(x, {"If"})
             /\ x \in Blind <=> Is(x, {"Scope"}) /\ t \in Owners
  <2>1. \A n \in Node : \A K : x \in PartSet(n, K) <=> n = t /\ Is(x, K)
    <3>1. \A n \in Node : x \in Listed(program.parts[n]) => n = t
      BY TreeFacts
    <3>2. QED BY <1>2, <3>1 DEF Is
  <2>2. x \in ElseIfs <=> \E n \in Node : Is(n, {"If"}) /\ x \in PartSet(n, {"If"})
    BY DEF ElseIfs
  <2>3. x \in Blind <=> \E n \in Owners : x \in PartSet(n, {"Scope"})
    BY <1>1
  <2>4. QED BY <1>4, <2>1, <2>2, <2>3
<1>10. \A t \in Node : t \in Owners <=> Is(t, {"While", "Try", "Catch"}) \/ t \in ElseIfs
  BY <1>4 DEF Owners
<1>11. QED BY <1>3, <1>5, <1>7, <1>8, <1>9, <1>10

LEMMA BlindOfPart ==
  ASSUME program \in Programs, NEW t \in Node, NEW x \in Listed(program.parts[t])
  PROVE  InBlind(x) <=> InBlind(t) \/ x \in Blind
BY WithBelowOfPart, BlindFacts DEF InBlind

LEMMA NotBelow == ASSUME program \in Programs, NEW S \in SUBSET Node, 1 \notin S PROVE 1 \notin WithBelow(S)
<1>1. ASSUME NEW n \in S PROVE 1 \notin Below(n)
  <2>1. n \in Nat /\ n > 0 /\ (1 \in Below(n) => n < 1)
    BY TreeFacts, BelowFacts
  <2>2. QED BY <2>1
<1>2. QED BY <1>1 DEF WithBelow

LEMMA AnalysedFacts ==
  ASSUME program \in Programs
  PROVE  /\ Analysed \subseteq Node /\ 1 \in Analysed
         /\ \A t \in Node : \A x \in Listed(program.parts[t]) :
              x \in Analysed <=> t \in Analysed /\ ~Is(x, {"New"})
         /\ \A x \in Analysed : x = 1 \/ \E t \in Analysed : x \in Listed(program.parts[t])
<1> DEFINE News == {n \in Node : Is(n, {"New"})}
<1>1. Analysed = WithBelow({1}) \ WithBelow(News) /\ News \subseteq Node /\ {1} \subseteq Node /\ 1 \notin News
  BY TreeFacts DEF Analysed, Is
<1> HIDE DEF News
<1>2. \A n \in Node : Below(n) \subseteq Node
  BY BelowFacts
<1>3. Analysed \subseteq Node /\ 1 \in Analysed
  BY <1>1, <1>2, NotBelow DEF WithBelow
<1>4. ASSUME NEW t \in Node, NEW x \in Listed(program.parts[t])
      PROVE  x \in Analysed <=> t \in Analysed /\ ~Is(x, {"New"})
  <2>1. x \in Node /\ x # 1
    <3>1. t \in Nat /\ t > 0 /\ t < x /\ x \in Node
      BY TreeFacts
    <3>2. QED BY <3>1
  <2>2. x \in WithBelow({1}) <=> t \in WithBelow({1})
    BY <1>1, <2>1, WithBelowOfPart
  <2>3. x \in WithBelow(News) <=> x \in News \/ t \in WithBelow(News)
    BY <1>1, WithBelowOfPart
  <2>4. x \in News <=> Is(x, {"New"})
    BY <2>1 DEF News
  <2>5. QED BY <1>1, <2>2, <2>3, <2>4
<1>5. ASSUME NEW x \in Analysed, x # 1
      PROVE  \E t \in Analysed : x \in Listed(program.parts[t])
  <2>1. x \in Below(1) /\ 1 \in Node
    BY <1>1, <1>5 DEF WithBelow
  <2>2. PICK t \in Node : x \in Listed(program.parts[t])
    BY <2>1, BelowFacts
  <2>3. QED BY <1>4, <2>2
<1>6. QED BY <1>3, <1>4, <1>5

LEMMA LoopOfPart ==
  ASSUME program \in Programs, NEW t \in Node, NEW x \in Listed(program.parts[t])
  PROVE  InLoop(x) <=> InLoop(t) \/ Is(t, {"For", "While"})
<1>1. \A l \in Node : x \in Below(l) <=> t = l \/ t \in Below(l)
  BY BelowOfPart
<1>2. QED BY <1>1 DEF InLoop
-----------------------------------------------------------------------------
(***************************************************************************)
(* Which nodes get a scope, and what the scopes around a node are.         *)
(***************************************************************************)

\* A part of a kind that may get a scope gets it, but for the blocks of a loop, a
\* try or a catch and an if after an else.
LEMMA KindFacts ==
  ASSUME NEW k \in Kind, NEW j \in PartKinds(k), k # "New"
  PROVE  /\ j \in ScopeKinds => \/ j \in KindsBelow(k) /\ k \in ScopeKinds
                                \/ k \in {"While", "Try", "Catch"} /\ j = "Scope"
                                \/ k = "If" /\ j = "If"
         /\ j \in KindsBelow(k) => /\ j \in ScopeKinds /\ k \in ScopeKinds /\ j # "New"
                                   /\ k \notin {"While", "Try", "Catch"}
                                   /\ ~(k = "If" /\ j = "If")
                                   /\ k = "If" => j = "Scope"
BY DEF Kind, PartKinds, ScopeKinds, KindsBelow, Items, Operations

LEMMA ScopePartFacts ==
  ASSUME program \in Programs, NEW b \in Node, NEW x \in ScopeParts(b), ~Is(b, {"New"})
  PROVE  /\ x \in Listed(program.parts[b]) /\ x \in Node /\ b < x /\ x # 1
         /\ Is(b, ScopeKinds) /\ Is(x, ScopeKinds) /\ ~Is(x, {"New"})
         /\ x \notin ElseIfs
         /\ x \in Blind => b \in ElseIfs
         /\ Is(b, {"If"}) => Is(x, {"Scope"})
<1>1. x \in Listed(program.parts[b]) /\ program.kind[x] \in KindsBelow(program.kind[b])
  BY PartsFacts DEF ScopeParts
<1>2. /\ x \in Node /\ b < x /\ b \in Nat /\ x \in Nat /\ b > 0
      /\ program.kind[b] \in Kind /\ program.kind[x] \in PartKinds(program.kind[b])
  BY <1>1, TreeFacts
<1> DEFINE k == program.kind[b]
           j == program.kind[x]
<1>3. k \in Kind /\ j \in PartKinds(k) /\ k # "New" /\ j \in KindsBelow(k)
  BY <1>1, <1>2 DEF Is
<1> HIDE DEF k, j
<1>4. /\ j \in ScopeKinds /\ k \in ScopeKinds /\ j # "New"
      /\ k \notin {"While", "Try", "Catch"} /\ ~(k = "If" /\ j = "If")
      /\ k = "If" => j = "Scope"
  BY <1>3, KindFacts
<1>5. /\ x \in ElseIfs <=> Is(b, {"If"}) /\ Is(x, {"If"})
      /\ x \in Blind => Is(b, {"While", "Try", "Catch"}) \/ b \in ElseIfs
  BY <1>1, BlindFacts
<1>6. \A K : (Is(b, K) <=> k \in K) /\ (Is(x, K) <=> j \in K)
  BY DEF Is, k, j
<1>7. QED BY <1>1, <1>2, <1>4, <1>5, <1>6

LEMMA EnclosingOfPart ==
  ASSUME program \in Programs, NEW t \in Node, NEW x \in Listed(program.parts[t])
  PROVE  Enclosing(x) = IF Is(t, ScopeKinds) /\ (Is(t, {"If"}) => Is(x, {"Scope"}))
                        THEN {t} \cup Enclosing(t) ELSE Enclosing(t)
<1>1. \A c \in Node : x \in Region(c) <=> \/ c = t /\ (Is(t, {"If"}) => Is(x, {"Scope"}))
                                          \/ t \in Region(c)
  BY RegionOfPart
<1>2. QED BY <1>1 DEF Enclosing

LEMMA EnclosingFacts ==
  ASSUME program \in Programs, NEW n \in Node
  PROVE  /\ \A c \in Enclosing(n) : c \in Node /\ n \in Below(c) /\ c < n
         /\ Enclosing(1) = {}
<1>1. \A m \in Node : \A c \in Enclosing(m) : c \in Node /\ m \in Below(c)
  BY RegionFacts DEF Enclosing
<1>2. \A m \in Node : \A c \in Enclosing(m) : c < m
  BY <1>1, BelowFacts
<1>3. ASSUME NEW c \in Enclosing(1) PROVE FALSE
  <2>1. 1 \in Node
    BY TreeFacts
  <2>2. c \in Nat /\ c > 0 /\ c < 1
    BY <1>1, <1>2, <2>1, TreeFacts
  <2>3. QED BY <2>2
<1>4. QED BY <1>1, <1>2, <1>3

\* A scope's parent.
LEMMA ParentFacts ==
  ASSUME program \in Programs, TypeOK, ScopeTree, NEW n \in Node, Made(n)
  PROVE  \/ parent[n] = 0 /\ n = 1 /\ Enclosing(n) = {}
         \/ /\ parent[n] \in Node /\ parent[n] > 0 /\ parent[n] < n /\ Made(parent[n])
            /\ n \in Listed(program.parts[parent[n]])
            /\ n \in ScopeParts(parent[n]) /\ ~Is(parent[n], {"New"})
            /\ Enclosing(n) = {parent[n]} \cup Enclosing(parent[n])
<1>1. parent[n] \in Node \cup {0} /\ Is(n, ScopeKinds)
  BY DEF TypeOK, ScopeTree, Made
<1>2. CASE parent[n] = 0
  <2>1. n = 1
    BY <1>2 DEF ScopeTree
  <2>2. QED BY <1>2, <2>1, EnclosingFacts
<1>3. CASE parent[n] \in Node /\ parent[n] # 0
  <2> DEFINE b == parent[n]
  <2>1. b \in Node /\ Made(b) /\ n \in ScopeParts(b) /\ Is(b, ScopeKinds)
    BY <1>3 DEF ScopeTree
  <2> HIDE DEF b
  <2>2. ~Is(b, {"New"})
    BY <2>1 DEF Is, ScopeKinds
  <2>3. n \in Listed(program.parts[b]) /\ b < n /\ (Is(b, {"If"}) => Is(n, {"Scope"}))
    BY <2>1, <2>2, ScopePartFacts
  <2>4. Enclosing(n) = {b} \cup Enclosing(b)
    BY <2>1, <2>3, EnclosingOfPart
  <2>5. b > 0
    BY <2>1, TreeFacts
  <2>6. QED BY <2>1, <2>2, <2>3, <2>4, <2>5 DEF b
<1>4. QED BY <1>1, <1>2, <1>3

\* A node with a scope is analysed, and its declarations are known there.
LEMMA MadeFacts ==
  ASSUME program \in Programs, TypeOK, ScopeTree
  PROVE  \A n \in Node : Made(n) => n \in Analysed /\ ~InBlind(n) /\ n \notin ElseIfs
<1> DEFINE Good(n) == Made(n) => n \in Analysed /\ ~InBlind(n) /\ n \notin ElseIfs
           T == {n \in Node : Good(n)}
<1>1. ASSUME NEW n \in Node, \A m \in Node : m < n => m \in T PROVE Good(n)
  <2>1. SUFFICES ASSUME Made(n) PROVE n \in Analysed /\ ~InBlind(n) /\ n \notin ElseIfs
    OBVIOUS
  <2>2. CASE n = 1
    <3>1. 1 \notin WithBelow(Blind)
      BY BlindFacts, NotBelow
    <3>2. QED BY <2>2, <3>1, BlindFacts, AnalysedFacts DEF InBlind
  <2>3. CASE n # 1
    <3> DEFINE b == parent[n]
    <3>1. b \in Node /\ b < n /\ Made(b) /\ n \in ScopeParts(b) /\ ~Is(b, {"New"})
      BY <2>1, <2>3, ParentFacts
    <3>2. b \in Analysed /\ ~InBlind(b) /\ b \notin ElseIfs
      BY <1>1, <3>1
    <3> HIDE DEF b
    <3>3. n \in Listed(program.parts[b]) /\ ~Is(n, {"New"}) /\ n \notin ElseIfs /\ n \notin Blind
      BY <3>1, <3>2, ScopePartFacts
    <3>4. QED BY <3>1, <3>2, <3>3, AnalysedFacts, BlindOfPart
  <2>4. QED BY <2>2, <2>3
<1>2. Node \subseteq T
  <2>1. \A n \in Node : (\A m \in Node : m < n => m \in T) => n \in T
    BY <1>1
  <2> HIDE DEF T
  <2>2. QED BY <2>1, Upwards
<1>3. QED BY <1>2

\* Once the scopes are made, the analysed nodes without one are those.
LEMMA AllMade ==
  ASSUME program \in Programs, TypeOK, ScopeTree, ScopesComplete, phase # "scopes"
  PROVE  \A n \in Analysed : Is(n, ScopeKinds) /\ ~InBlind(n) /\ n \notin ElseIfs => Made(n)
<1> DEFINE Good(n) == n \in Analysed /\ Is(n, ScopeKinds) /\ ~InBlind(n) /\ n \notin ElseIfs => Made(n)
           T == {n \in Node : Good(n)}
<1>1. \A n \in Node : n = 1 \/ (\E m \in Node : Made(m) /\ n \in ScopeParts(m)) => Made(n)
  BY DEF ScopesComplete
<1>2. ASSUME NEW n \in Node, \A m \in Node : m < n => m \in T PROVE Good(n)
  <2>1. SUFFICES ASSUME n \in Analysed, Is(n, ScopeKinds), ~InBlind(n), n \notin ElseIfs, n # 1
                 PROVE  Made(n)
    BY <1>1
  <2>2. PICK t \in Analysed : n \in Listed(program.parts[t])
    BY <2>1, AnalysedFacts
  <2>3. t \in Node /\ t < n /\ ~Is(t, {"New"})
    <3>1. t \in Node
      BY AnalysedFacts
    <3>2. 1 \in Node /\ ~Is(1, {"New"})
      BY TreeFacts DEF Is
    <3>3. t = 1 \/ \E m \in Analysed : t \in Listed(program.parts[m])
      BY AnalysedFacts
    <3>4. ~Is(t, {"New"})
      BY <3>2, <3>3, AnalysedFacts
    <3>5. QED BY <2>2, <3>1, <3>4, TreeFacts
  <2>4. ~InBlind(t) /\ n \notin Blind
    BY <2>1, <2>2, <2>3, BlindOfPart
  <2> DEFINE k == program.kind[t]
             j == program.kind[n]
  <2>5. k \in Kind /\ j \in PartKinds(k) /\ j \in ScopeKinds /\ k # "New"
    BY <2>1, <2>2, <2>3, TreeFacts DEF Is
  <2> HIDE DEF k, j
  <2>6. \A K : (Is(t, K) <=> k \in K) /\ (Is(n, K) <=> j \in K)
    BY DEF Is, k, j
  <2>7. ~(Is(n, {"Scope"}) /\ (Is(t, {"While", "Try", "Catch"}) \/ t \in ElseIfs))
        /\ ~(Is(t, {"If"}) /\ Is(n, {"If"}))
    BY <2>1, <2>2, <2>3, <2>4, BlindFacts
  <2>8. j \in KindsBelow(k) /\ k \in ScopeKinds /\ (k = "If" => j = "Scope")
    BY <2>5, <2>6, <2>7, KindFacts
  <2>9. t \notin ElseIfs
    <3>1. t \in ElseIfs => Is(t, {"If"})
      BY <2>3, PartsFacts DEF ElseIfs, Is
    <3>2. QED BY <2>6, <2>7, <2>8, <3>1
  <2>10. Made(t)
    BY <1>2, <2>3, <2>4, <2>6, <2>8, <2>9
  <2>11. n \in ScopeParts(t)
    BY <2>2, <2>3, <2>8, PartsFacts DEF ScopeParts, k, j
  <2>12. QED BY <1>1, <2>3, <2>10, <2>11
<1>3. Node \subseteq T
  <2>1. \A n \in Node : (\A m \in Node : m < n => m \in T) => n \in T
    BY <1>2
  <2> HIDE DEF T
  <2>2. QED BY <2>1, Upwards
<1>4. QED BY <1>3, AnalysedFacts

\* The scope that a node's parts are visited in.
ScopeOfParts(t, s) == IF Is(t, Openers) THEN ScopePtr(t) ELSE s

LEMMA PartCall ==
  ASSUME program \in Programs, TypeOK, ScopeTree, ScopesComplete, phase # "scopes",
         NEW t \in Analysed, NEW s, ~Is(t, Openers) => RightScope(t, s),
         NEW x \in Listed(program.parts[t]), ~Is(x, Openers)
  PROVE  RightScope(x, ScopeOfParts(t, s))
<1>1. t \in Node /\ x \in Node
  BY AnalysedFacts, TreeFacts
<1>2. ~Is(x, {"Scope"}) /\ \A K : Is(t, K) <=> program.kind[t] \in K
  BY DEF Is, Openers, ScopeKinds
<1>3. InBlind(x) <=> InBlind(t)
  BY <1>1, <1>2, BlindOfPart, BlindFacts
<1>4. Enclosing(x) = IF Is(t, Openers) THEN {t} \cup Enclosing(t) ELSE Enclosing(t)
  <2>1. Is(t, Openers) <=> Is(t, ScopeKinds) /\ ~Is(t, {"If"})
    BY DEF Is, Openers, ScopeKinds
  <2>2. QED BY <1>1, <1>2, <2>1, EnclosingOfPart
<1>5. CASE Is(t, Openers)
  <2>1. Is(t, ScopeKinds) /\ ~Is(t, {"If"})
    BY <1>5 DEF Is, Openers, ScopeKinds
  <2>2. t \notin ElseIfs
    BY <1>1, <2>1, PartsFacts DEF ElseIfs, Is
  <2>3. Made(t) <=> ~InBlind(t)
    BY <1>1, <2>1, <2>2, AllMade, MadeFacts
  <2>4. ScopeOfParts(t, s) = IF InBlind(t) THEN 0 ELSE t
    BY <1>5, <2>3 DEF ScopeOfParts, ScopePtr, Made
  <2>5. t # 0
    BY <1>1, TreeFacts
  <2>6. QED BY <1>3, <1>4, <1>5, <2>3, <2>4, <2>5 DEF RightScope
<1>6. CASE ~Is(t, Openers)
  BY <1>3, <1>4, <1>6 DEF RightScope, ScopeOfParts
<1>7. QED BY <1>5, <1>6
-----------------------------------------------------------------------------
(***************************************************************************)
(* Looking for a name.                                                     *)
(***************************************************************************)

\* The declarations of x in c.
OfName(x, c) == {d \in Declares(c) : program.name[d] = x}

LEMMA DeclaresFacts ==
  ASSUME program \in Programs, NEW c \in Node
  PROVE  /\ Declares(c) \subseteq Node
         /\ ~Is(c, ScopeKinds) => Declares(c) = {}
<1>1. \A K : PartSet(c, K) \subseteq Node
  BY PartsFacts
<1>2. \A K : Is(c, K) <=> program.kind[c] \in K
  BY DEF Is
<1>3. Declares(c) \subseteq Node
  BY <1>1 DEF Declares
<1>4. ~Is(c, ScopeKinds) => Declares(c) = {}
  BY <1>2 DEF Declares, ScopeKinds
<1>5. QED BY <1>3, <1>4

LEMMA InnermostFacts ==
  ASSUME NEW x, NEW S
  PROVE  \A d : d \in Innermost(x, S) <=>
           \E c \in S : d \in OfName(x, c) /\ \A o \in S : OfName(x, o) # {} => o \notin Below(c)
<1> DEFINE owners == {c \in S : OfName(x, c) # {}}
<1>1. Innermost(x, S) = UNION {OfName(x, c) : c \in {o \in owners : owners \cap Below(o) = {}}}
  BY DEF Innermost, OfName
<1>2. \A d : d \in Innermost(x, S) <=> \E c \in owners : d \in OfName(x, c) /\ owners \cap Below(c) = {}
  BY <1>1
<1>3. QED BY <1>2

\* The constructs that declare nothing called x may be left out.
LEMMA InnermostSame ==
  ASSUME NEW x, NEW S, NEW R,
         \A c \in S \cup R : OfName(x, c) # {} => c \in S /\ c \in R
  PROVE  Innermost(x, S) = Innermost(x, R)
<1>1. ASSUME NEW d PROVE d \in Innermost(x, S) <=> d \in Innermost(x, R)
  <2>1. d \in Innermost(x, S) <=>
           \E c \in S : d \in OfName(x, c) /\ \A o \in S : OfName(x, o) # {} => o \notin Below(c)
    BY InnermostFacts
  <2>2. d \in Innermost(x, R) <=>
           \E c \in R : d \in OfName(x, c) /\ \A o \in R : OfName(x, o) # {} => o \notin Below(c)
    BY InnermostFacts
  <2>3. QED BY <2>1, <2>2
<1>2. QED BY <1>1

\* What a scope declares hides what the scopes around it declare.
LEMMA InnermostSteps ==
  ASSUME program \in Programs, NEW x, NEW n \in Node
  PROVE  Innermost(x, {n} \cup Enclosing(n))
           = IF OfName(x, n) # {} THEN OfName(x, n) ELSE Innermost(x, Enclosing(n))
<1> DEFINE S == {n} \cup Enclosing(n)
<1>1. ASSUME NEW o \in S PROVE o \notin Below(n)
  <2>1. n \in Nat /\ o \in Nat /\ (o = n \/ o < n)
    BY TreeFacts, EnclosingFacts
  <2>2. o \in Below(n) => n < o
    BY BelowFacts
  <2>3. QED BY <2>1, <2>2
<1>2. \A c \in Enclosing(n) : n \in Below(c)
  BY EnclosingFacts
<1>3. CASE OfName(x, n) # {}
  <2>1. ASSUME NEW d PROVE d \in Innermost(x, S) <=> d \in OfName(x, n)
    <3>1. d \in Innermost(x, S) <=>
             \E c \in S : d \in OfName(x, c) /\ \A o \in S : OfName(x, o) # {} => o \notin Below(c)
      BY InnermostFacts
    <3>2. n \in S
      OBVIOUS
    <3>3. \A c \in S : c = n \/ n \in Below(c)
      BY <1>2
    <3> HIDE DEF S
    <3>4. QED BY <1>1, <1>3, <3>1, <3>2, <3>3
  <2>2. QED BY <2>1, <1>3
<1>4. CASE OfName(x, n) = {}
  BY <1>4, InnermostSame
<1>5. QED BY <1>3, <1>4

\* What stands in the symbol tables.
LEMMA NamedFacts ==
  ASSUME Tables, NEW c \in Node, NEW x
  PROVE  Named(x, c) = IF Made(c) THEN OfName(x, c) ELSE {}
BY DEF Tables, Named, OfName

\* What is found from scope c on.
Found(x, c) == IF c \in Node /\ Made(c) THEN Innermost(x, {c} \cup Enclosing(c)) ELSE {}

LEMMA FoundSteps ==
  ASSUME program \in Programs, TypeOK, ScopeTree, Tables, NEW x, NEW c \in Node
  PROVE  Found(x, c) = IF Named(x, c) # {} THEN Named(x, c) ELSE Found(x, parent[c])
<1>1. CASE Made(c)
  <2>1. Named(x, c) = OfName(x, c)
    BY <1>1, NamedFacts
  <2>2. Found(x, c) = IF OfName(x, c) # {} THEN OfName(x, c) ELSE Innermost(x, Enclosing(c))
    BY <1>1, InnermostSteps DEF Found
  <2>3. Innermost(x, Enclosing(c)) = Found(x, parent[c])
    <3>1. CASE parent[c] = 0 /\ Enclosing(c) = {}
      <4>1. Innermost(x, {}) = {}
        BY InnermostFacts
      <4>2. 0 \notin Node
        BY TreesAssumption
      <4>3. QED BY <3>1, <4>1, <4>2 DEF Found
    <3>2. CASE parent[c] \in Node /\ Made(parent[c]) /\ Enclosing(c) = {parent[c]} \cup Enclosing(parent[c])
      BY <3>2 DEF Found
    <3>3. QED BY <1>1, <3>1, <3>2, ParentFacts
  <2>4. QED BY <2>1, <2>2, <2>3
<1>2. CASE ~Made(c)
  <2>1. Named(x, c) = {} /\ Found(x, c) = {} /\ parent[c] = -1 /\ -1 \notin Node
    BY <1>2, NamedFacts, TreesAssumption DEF Found, Made
  <2>2. QED BY <2>1 DEF Found
<1>3. QED BY <1>1, <1>2

\* find_symbol's way up finds that.
LEMMA HitsFacts ==
  ASSUME program \in Programs, TypeOK, ScopeTree, Tables, NEW x, NEW s \in Node \cup {0, -1}
  PROVE  Hits(x, s) = Found(x, s)
<1> DEFINE Dom == Node \cup {0, -1}
           IsH(H) == H = [c \in Dom |-> IF c <= 0 THEN {}
                                        ELSE IF Named(x, c) # {} THEN Named(x, c)
                                        ELSE H[parent[c]]]
           F == [c \in Dom |-> Found(x, c)]
<1>1. /\ \A c \in Node : c \in Nat /\ c > 0 /\ ~(c <= 0) /\ parent[c] \in Dom
      /\ 0 \notin Node /\ -1 \notin Node /\ 0 <= 0 /\ -1 <= 0
  <2>1. 0 \notin Node /\ -1 \notin Node /\ \A c \in Node : c \in Nat /\ c > 0
    BY TreesAssumption
  <2>2. \A c \in Node : parent[c] \in Dom
    BY DEF TypeOK
  <2>3. QED BY <2>1, <2>2
<1>2. IsH(F)
  <2>1. ASSUME NEW c \in Dom
        PROVE  F[c] = IF c <= 0 THEN {} ELSE IF Named(x, c) # {} THEN Named(x, c) ELSE F[parent[c]]
    <3>1. CASE c \in Node
      <4>1. F[c] = Found(x, c) /\ F[parent[c]] = Found(x, parent[c])
        BY <1>1, <3>1
      <4>2. QED BY <1>1, <3>1, <4>1, FoundSteps
    <3>2. CASE c \notin Node
      <4>1. F[c] = {} /\ c <= 0
        BY <1>1, <3>2 DEF Found
      <4>2. QED BY <4>1
    <3>3. QED BY <3>1, <3>2
  <2>2. F = [c \in Dom |-> F[c]]
    OBVIOUS
  <2> HIDE DEF F, Dom
  <2>3. QED BY <2>1, <2>2
<1> DEFINE g == CHOOSE H : IsH(H)
<1> HIDE DEF F
<1>3. IsH(g)
  BY <1>2
<1>4. Hits(x, s) = g[s]
  BY DEF Hits
<1> HIDE DEF g
<1>5. \A c \in Dom : g[c] = IF c <= 0 THEN {} ELSE IF Named(x, c) # {} THEN Named(x, c) ELSE g[parent[c]]
  <2> HIDE DEF Dom
  <2>1. QED BY <1>3
<1>6. g[0] = {} /\ g[-1] = {} /\ Found(x, 0) = {} /\ Found(x, -1) = {}
  BY <1>1, <1>5 DEF Found
<1> DEFINE T == {c \in Node : g[c] = Found(x, c)}
<1>7. ASSUME NEW c \in Node, \A m \in Node : m < c => m \in T PROVE g[c] = Found(x, c)
  <2>1. parent[c] = 0 \/ parent[c] = -1 \/ (parent[c] \in Node /\ parent[c] < c)
    BY ParentFacts DEF Made
  <2>2. g[parent[c]] = Found(x, parent[c])
    BY <1>6, <1>7, <2>1
  <2>3. g[c] = IF Named(x, c) # {} THEN Named(x, c) ELSE g[parent[c]]
    BY <1>1, <1>5
  <2>4. QED BY <2>2, <2>3, FoundSteps
<1>8. Node \subseteq T
  <2>1. \A n \in Node : (\A m \in Node : m < n => m \in T) => n \in T
    BY <1>7
  <2> HIDE DEF T
  <2>2. QED BY <2>1, Upwards
<1>9. QED BY <1>4, <1>6, <1>8

\* What is found is what one scope holds.
LEMMA FoundInOne ==
  ASSUME program \in Programs, TypeOK, ScopeTree, Tables, NEW x
  PROVE  \A s \in Node : Found(x, s) # {} => \E c \in Node : Made(c) /\ Found(x, s) = OfName(x, c)
<1> DEFINE Good(s) == Found(x, s) # {} => \E c \in Node : Made(c) /\ Found(x, s) = OfName(x, c)
           T == {s \in Node : Good(s)}
<1>1. ASSUME NEW s \in Node, \A m \in Node : m < s => m \in T PROVE Good(s)
  <2>1. CASE Named(x, s) # {}
    BY <2>1, FoundSteps, NamedFacts
  <2>2. CASE Named(x, s) = {}
    <3>1. Found(x, s) = Found(x, parent[s])
      BY <2>2, FoundSteps
    <3>2. CASE parent[s] \in Node /\ parent[s] < s
      BY <1>1, <3>1, <3>2
    <3>3. CASE parent[s] = 0 \/ parent[s] = -1
      BY <3>1, <3>3, TreesAssumption DEF Found
    <3>4. QED BY <3>2, <3>3, ParentFacts DEF Made
  <2>3. QED BY <2>1, <2>2
<1>2. Node \subseteq T
  <2>1. \A n \in Node : (\A m \in Node : m < n => m \in T) => n \in T
    BY <1>1
  <2> HIDE DEF T
  <2>2. QED BY <2>1, Upwards
<1>3. QED BY <1>2

\* The constructs around a node outside the blind blocks.
LEMMA AroundFacts ==
  ASSUME program \in Programs, NEW n \in Node, ~InBlind(n), NEW x
  PROVE  /\ Innermost(x, Around(n)) = Innermost(x, Enclosing(n))
         /\ Innermost(x, {n} \cup Around(n)) = Innermost(x, {n} \cup Enclosing(n))
<1>1. Around(n) = {c \in Node : n \in Region(c)}
  BY DEF Around, InBlind
<1>2. \A c \in Node : OfName(x, c) # {} => Is(c, ScopeKinds)
  BY DeclaresFacts DEF OfName
<1>3. \A c \in Around(n) \cup Enclosing(n) : OfName(x, c) # {} => c \in Around(n) /\ c \in Enclosing(n)
  BY <1>1, <1>2 DEF Enclosing
<1>4. QED BY <1>3, InnermostSame

LEMMA HitsAround ==
  ASSUME program \in Programs, TypeOK, ScopeTree, Tables, NEW n \in Node,
         NEW s \in Node \cup {0}, RightScope(n, s), NEW x
  PROVE  Hits(x, s) = Innermost(x, Around(n))
<1>1. Hits(x, s) = Found(x, s)
  BY HitsFacts
<1>2. CASE InBlind(n)
  <2>1. s = 0 /\ 0 \notin Node /\ Around(n) = {}
    BY <1>2, TreesAssumption DEF RightScope, Around, InBlind
  <2>2. Innermost(x, {}) = {}
    BY InnermostFacts
  <2>3. QED BY <1>1, <2>1, <2>2 DEF Found
<1>3. CASE ~InBlind(n)
  <2>1. s \in Node /\ Made(s) /\ Enclosing(n) = {s} \cup Enclosing(s)
    BY <1>3 DEF RightScope
  <2>2. QED BY <1>1, <1>3, <2>1, AroundFacts DEF Found
<1>4. QED BY <1>2, <1>3

LEMMA HitsInside ==
  ASSUME program \in Programs, TypeOK, ScopeTree, Tables, NEW d \in Node, Made(d), NEW x
  PROVE  Hits(x, d) = Innermost(x, {d} \cup Around(d))
<1>1. Hits(x, d) = Innermost(x, {d} \cup Enclosing(d))
  BY HitsFacts DEF Found
<1>2. ~InBlind(d)
  BY MadeFacts
<1>3. QED BY <1>1, <1>2, AroundFacts

\* Of the declarations that one scope holds, namespaces, classes and enums have
\* scopes too.
LEMMA OwnersMade ==
  ASSUME program \in Programs, ScopeTree, ScopesComplete, phase # "scopes",
         NEW c \in Node, Made(c), NEW d \in Declares(c), Is(d, {"Namespace", "Class", "Enum"})
  PROVE  d \in Node /\ Made(d)
<1>1. \A K : (Is(d, K) <=> program.kind[d] \in K) /\ (Is(c, K) <=> program.kind[c] \in K)
  BY DEF Is
<1>2. \A K : d \in PartSet(c, K) => Is(d, K)
  BY PartsFacts DEF Is
<1>3. Is(c, {"Module", "Namespace"}) /\ d \in PartSet(c, Items \cup {"Let"})
  BY <1>1, <1>2 DEF Declares
<1>4. d \in PartSet(c, Items)
  BY <1>1, <1>3, PartsFacts DEF Items
<1>5. KindsBelow(program.kind[c]) = Items
  BY <1>1, <1>3 DEF KindsBelow
<1>6. d \in ScopeParts(c) /\ d \in Node
  BY <1>4, <1>5, PartsFacts DEF ScopeParts
<1>7. QED BY <1>6 DEF ScopesComplete
-----------------------------------------------------------------------------
(***************************************************************************)
(* find_symbol gives a name what it means.                                 *)
(***************************************************************************)

\* What a search may give: nothing, a built-in name or the declarations that one
\* scope holds; and these have scopes if the search goes on there.
OneSource(hits) ==
  \/ hits = {}
  \/ \E x \in Builtin : hits = {BuiltinCode(x)}
  \/ \E c \in Node : Made(c) /\ \E x : hits = OfName(x, c)
Result(r) ==
  /\ r = [hits |-> r.hits, error |-> r.error, over |-> r.over]
  /\ r.error \in Errors \cup {NIL} /\ r.over \in BOOLEAN
  /\ OneSource(r.hits)
  /\ ~r.over => r.hits # {} /\ \A d \in r.hits : d \in Node /\ Made(d)

\* The same as a meaning.
AsMeaning(r) == [ds |-> r.hits, error |-> r.error, over |-> r.over]

LEMMA ResultIs ==
  ASSUME NEW h, NEW e \in Errors \cup {NIL}, NEW o \in BOOLEAN, OneSource(h),
         ~o => h # {} /\ \A d \in h : d \in Node /\ Made(d)
  PROVE  Result([hits |-> h, error |-> e, over |-> o])
BY DEF Result

LEMMA FindPartResult ==
  ASSUME program \in Programs, TypeOK, ScopeTree, ScopesComplete, Tables, phase # "scopes",
         NEW x, NEW last \in BOOLEAN, NEW s \in Node \cup {0}
  PROVE  Result(FindPart(x, last, s))
<1> DEFINE hits == Hits(x, s)
           r == FindPart(x, last, s)
           R(h, e, o) == [hits |-> h, error |-> e, over |-> o]
<1>1. hits = {} \/ \E c \in Node : Made(c) /\ hits = OfName(x, c)
  <2>1. hits = Found(x, s)
    BY HitsFacts
  <2>2. s \notin Node => hits = {}
    BY <2>1 DEF Found
  <2>3. QED BY <2>1, <2>2, FoundInOne
<1>2. NIL \notin Errors
  BY TreesAssumption
<1>3. r = IF hits = {} THEN R(IF x \in Builtin THEN {BuiltinCode(x)} ELSE {}, NIL, TRUE)
          ELSE IF last THEN R(hits, NIL, TRUE)
          ELSE IF Qualifier(hits) # NIL THEN R({}, Qualifier(hits), TRUE)
          ELSE R(hits, NIL, FALSE)
  BY DEF FindPart
<1>4. Qualifier(hits) \in Errors \cup {NIL}
  BY DEF Qualifier, Errors
<1>5. \A h : \A e \in Errors \cup {NIL} : OneSource(h) => Result(R(h, e, TRUE))
  BY ResultIs
<1> HIDE DEF hits, r, R
<1>6. OneSource({}) /\ OneSource(hits) /\ (x \in Builtin => OneSource({BuiltinCode(x)}))
  BY <1>1 DEF OneSource
<1> SUFFICES Result(r)
  BY DEF r
<1>7. CASE hits = {} /\ x \in Builtin
  <2>1. r = R({BuiltinCode(x)}, NIL, TRUE)
    BY <1>3, <1>7
  <2>2. QED BY <1>5, <1>6, <1>7, <2>1
<1>8. CASE (hits = {} /\ x \notin Builtin) \/ (hits # {} /\ last)
  <2>1. r = R(hits, NIL, TRUE)
    BY <1>3, <1>8
  <2>2. QED BY <1>5, <1>6, <2>1
<1>9. CASE hits # {} /\ ~last /\ Qualifier(hits) # NIL
  <2>1. r = R({}, Qualifier(hits), TRUE)
    BY <1>3, <1>9
  <2>2. QED BY <1>4, <1>5, <1>6, <2>1
<1>10. CASE hits # {} /\ ~last /\ Qualifier(hits) = NIL
  <2>1. r = R(hits, NIL, FALSE)
    BY <1>3, <1>10
  <2>2. \A d \in hits : Is(d, {"Namespace", "Class", "Enum"})
    BY <1>2, <1>10 DEF Qualifier, Errors
  <2>3. PICK c \in Node : Made(c) /\ hits = OfName(x, c)
    BY <1>1, <1>10
  <2>4. \A d \in hits : d \in Node /\ Made(d)
    BY <2>2, <2>3, OwnersMade DEF OfName
  <2>5. QED BY <1>6, <1>10, <2>1, <2>4, ResultIs DEF R
<1>11. QED BY <1>7, <1>8, <1>9, <1>10

LEMMA FindPartMeans ==
  ASSUME NEW x, NEW last \in BOOLEAN, NEW s, NEW S, Hits(x, s) = Innermost(x, S)
  PROVE  MeaningOfPart(x, last, S) = AsMeaning(FindPart(x, last, s))
<1> DEFINE hits == Hits(x, s)
           R(h, e, o) == [hits |-> h, error |-> e, over |-> o]
           M(h, e, o) == [ds |-> h, error |-> e, over |-> o]
<1>1. NIL \notin Errors
  BY TreesAssumption
<1>2. FindPart(x, last, s)
        = IF hits = {} THEN R(IF x \in Builtin THEN {BuiltinCode(x)} ELSE {}, NIL, TRUE)
          ELSE IF last THEN R(hits, NIL, TRUE)
          ELSE IF Qualifier(hits) # NIL THEN R({}, Qualifier(hits), TRUE)
          ELSE R(hits, NIL, FALSE)
  BY DEF FindPart
<1> DEFINE scopes == \A d \in hits : Is(d, {"Namespace", "Class", "Enum"})
           why == IF \A d \in hits : Is(d, {"Function"}) THEN "invalid_scope_resolution" ELSE "segfault"
<1>3. MeaningOfPart(x, last, S)
        = IF hits = {} THEN M({BuiltinCode(y) : y \in Builtin \cap {x}}, NIL, TRUE)
          ELSE IF last THEN M(hits, NIL, TRUE)
          ELSE IF Cardinality(hits) > 1 THEN M({}, "ambiguous_symbol_name", TRUE)
          ELSE IF scopes THEN M(hits, NIL, FALSE)
          ELSE M({}, why, TRUE)
  BY DEF MeaningOfPart
<1>4. {BuiltinCode(y) : y \in Builtin \cap {x}} = IF x \in Builtin THEN {BuiltinCode(x)} ELSE {}
  OBVIOUS
<1>5. Qualifier(hits) = IF Cardinality(hits) > 1 THEN "ambiguous_symbol_name"
                        ELSE IF scopes THEN NIL ELSE why
  BY DEF Qualifier
<1>6. why \in Errors /\ "ambiguous_symbol_name" \in Errors
  BY DEF Errors
<1> HIDE DEF hits, scopes, why
<1>7. \A h, e, o : AsMeaning(R(h, e, o)) = M(h, e, o)
  BY DEF AsMeaning
<1> HIDE DEF R, M
<1>8. CASE hits = {}
  BY <1>2, <1>3, <1>4, <1>7, <1>8
<1>9. CASE hits # {} /\ last
  BY <1>2, <1>3, <1>7, <1>9
<1>10. CASE hits # {} /\ ~last /\ Cardinality(hits) > 1
  BY <1>1, <1>2, <1>3, <1>5, <1>6, <1>7, <1>10
<1>11. CASE hits # {} /\ ~last /\ ~(Cardinality(hits) > 1) /\ scopes
  BY <1>2, <1>3, <1>5, <1>7, <1>11
<1>12. CASE hits # {} /\ ~last /\ ~(Cardinality(hits) > 1) /\ ~scopes
  BY <1>1, <1>2, <1>3, <1>5, <1>6, <1>7, <1>12
<1>13. QED BY <1>8, <1>9, <1>10, <1>11, <1>12

\* The search for a name n from the right scope s.
SearchContext(n, s) ==
  /\ program \in Programs /\ TypeOK /\ ScopeTree /\ ScopesComplete /\ Tables /\ phase # "scopes"
  /\ n \in Node /\ s \in Node \cup {0} /\ RightScope(n, s)

\* Its parts, one after the other.
PathOf(n)  == <<program.name[n]>> \o program.rest[n]
Last(n, i) == i = Len(PathOf(n))
Found1(n, s)   == FindPart(PathOf(n)[1], Last(n, 1), s)
FoundIn(n, i, r) == IF r.over THEN r
                    ELSE FindPart(PathOf(n)[i], Last(n, i), CHOOSE d \in r.hits : TRUE)
MeansIn(n, i, m) == IF m.over THEN m
                    ELSE LET d == CHOOSE x \in m.ds : TRUE IN
                         MeaningOfPart(PathOf(n)[i], Last(n, i), {d} \cup Around(d))

LEMMA PathFacts ==
  ASSUME program \in Programs, NEW n \in Node
  PROVE  Len(PathOf(n)) \in Nat /\ Len(PathOf(n)) >= 1
<1>1. program.rest[n] \in Seq(Ident)
  BY TreeFacts DEF Program
<1>2. QED BY <1>1 DEF PathOf

\* One step of the search.
LEMMA FoundInFacts ==
  ASSUME NEW n, NEW s, SearchContext(n, s), NEW i, NEW r, Result(r)
  PROVE  /\ Result(FoundIn(n, i, r))
         /\ MeansIn(n, i, AsMeaning(r)) = AsMeaning(FoundIn(n, i, r))
<1>1. /\ AsMeaning(r).over = r.over /\ AsMeaning(r).ds = r.hits /\ r.over \in BOOLEAN
      /\ Last(n, i) \in BOOLEAN
  BY DEF AsMeaning, Result, Last
<1>2. CASE r.over
  BY <1>1, <1>2 DEF FoundIn, MeansIn
<1>3. CASE ~r.over
  <2> DEFINE d == CHOOSE x \in r.hits : TRUE
             x == PathOf(n)[i]
  <2>1. d \in Node /\ Made(d)
    BY <1>3 DEF Result
  <2>2. FoundIn(n, i, r) = FindPart(x, Last(n, i), d)
    BY <1>3 DEF FoundIn
  <2>3. MeansIn(n, i, AsMeaning(r)) = MeaningOfPart(x, Last(n, i), {d} \cup Around(d))
    BY <1>1, <1>3 DEF MeansIn
  <2> HIDE DEF d, x
  <2>4. Result(FindPart(x, Last(n, i), d))
    BY <1>1, <2>1, FindPartResult DEF SearchContext
  <2>5. Hits(x, d) = Innermost(x, {d} \cup Around(d))
    BY <2>1, HitsInside DEF SearchContext
  <2>6. MeaningOfPart(x, Last(n, i), {d} \cup Around(d)) = AsMeaning(FindPart(x, Last(n, i), d))
    BY <1>1, <2>5, FindPartMeans
  <2>7. QED BY <2>2, <2>3, <2>4, <2>6
<1>4. QED BY <1>1, <1>2, <1>3

LEMMA Found1Facts ==
  ASSUME NEW n, NEW s, SearchContext(n, s)
  PROVE  /\ Result(Found1(n, s))
         /\ MeaningOfPart(PathOf(n)[1], Last(n, 1), Around(n)) = AsMeaning(Found1(n, s))
<1> DEFINE x == PathOf(n)[1]
<1>1. Last(n, 1) \in BOOLEAN
  BY DEF Last
<1> HIDE DEF x
<1>2. Result(FindPart(x, Last(n, 1), s))
  BY <1>1, FindPartResult DEF SearchContext
<1>3. Hits(x, s) = Innermost(x, Around(n))
  BY HitsAround DEF SearchContext
<1>4. MeaningOfPart(x, Last(n, 1), Around(n)) = AsMeaning(FindPart(x, Last(n, 1), s))
  BY <1>1, <1>3, FindPartMeans
<1>5. QED BY <1>2, <1>4 DEF Found1, x

\* The search step by step.
Results == {r \in [hits : SUBSET (Node \cup {BuiltinCode(x) : x \in Builtin}),
                   error : Errors \cup {NIL}, over : BOOLEAN] : Result(r)}

LEMMA ResultsFacts == ASSUME program \in Programs PROVE \A r : r \in Results <=> Result(r)
<1>1. ASSUME NEW h, OneSource(h) PROVE h \subseteq Node \cup {BuiltinCode(x) : x \in Builtin}
  <2>1. CASE \E x \in Builtin : h = {BuiltinCode(x)}
    BY <2>1
  <2>2. CASE \E c \in Node : \E x : h = OfName(x, c)
    <3>1. PICK c \in Node : \E x : h = OfName(x, c)
      BY <2>2
    <3>2. Declares(c) \subseteq Node
      BY DeclaresFacts
    <3>3. QED BY <3>1, <3>2 DEF OfName
  <2>3. QED BY <1>1, <2>1, <2>2 DEF OneSource
<1>2. ASSUME NEW r, Result(r) PROVE r \in Results
  <2>1. r.hits \subseteq Node \cup {BuiltinCode(x) : x \in Builtin}
    BY <1>1, <1>2 DEF Result
  <2>2. r.error \in Errors \cup {NIL} /\ r.over \in BOOLEAN
        /\ r = [hits |-> r.hits, error |-> r.error, over |-> r.over]
    BY <1>2 DEF Result
  <2>3. QED BY <1>2, <2>1, <2>2 DEF Results
<1>3. QED BY <1>2 DEF Results

LEMMA SearchSteps ==
  ASSUME NEW n, NEW s, SearchContext(n, s)
  PROVE  \E f : /\ \A i \in 0 .. Len(PathOf(n)) - 1 : Result(f[i])
                /\ f[0] = Found1(n, s)
                /\ \A i \in 1 .. Len(PathOf(n)) - 1 : f[i] = FoundIn(n, i + 1, f[i - 1])
<1> DEFINE m    == Len(PathOf(n)) - 1
           step == [i \in Nat |-> [r \in Results |-> FoundIn(n, i + 1, r)]]
<1>1. m \in Nat
  BY PathFacts DEF SearchContext
<1>2. \A r : r \in Results <=> Result(r)
  BY ResultsFacts DEF SearchContext
<1>3. \A i \in Nat : \A r \in Results : FoundIn(n, i + 1, r) \in Results
  BY <1>2, FoundInFacts
<1>4. step \in [Nat -> [Results -> Results]]
  BY <1>3
<1>5. Found1(n, s) \in Results
  BY <1>2, Found1Facts
<1> HIDE DEF m
<1>6. PICK f \in [0 .. m -> Results] : Recurs(f, Found1(n, s), step, m)
  <2> HIDE DEF step
  <2>1. QED BY <1>1, <1>4, <1>5, Recursion
<1>7. ASSUME NEW i \in 1 .. m PROVE f[i] = FoundIn(n, i + 1, f[i - 1])
  <2>1. i \in Nat /\ i - 1 \in 0 .. m
    BY <1>1
  <2>2. f[i] = step[i][f[i - 1]] /\ f[i - 1] \in Results
    BY <1>6, <2>1 DEF Recurs
  <2>3. QED BY <2>1, <2>2
<1>8. \A i \in 0 .. m : Result(f[i])
  BY <1>2
<1>9. f[0] = Found1(n, s)
  BY <1>6 DEF Recurs
<1>10. QED BY <1>7, <1>8, <1>9 DEF m

\* find_symbol gives a name what it means.
LEMMA FindSymbolMeans ==
  ASSUME NEW n, NEW s, SearchContext(n, s)
  PROVE  Result(FindSymbol(n, s)) /\ Meaning(n) = AsMeaning(FindSymbol(n, s))
<1> DEFINE path   == PathOf(n)
           len    == Len(path)
           FS(F, i) == IF i = 1 THEN FindPart(path[i], i = Len(path), s)
                       ELSE IF F[i - 1].over THEN F[i - 1]
                       ELSE FindPart(path[i], i = Len(path), CHOOSE d \in F[i - 1].hits : TRUE)
           MS(M, i) == IF i = 1 THEN MeaningOfPart(path[i], i = Len(path), Around(n))
                       ELSE IF M[i - 1].over THEN M[i - 1]
                       ELSE LET d == CHOOSE x \in M[i - 1].ds : TRUE IN
                            MeaningOfPart(path[i], i = Len(path), {d} \cup Around(d))
           IsF(F) == F = [i \in 1 .. len |-> FS(F, i)]
           IsM(M) == M = [i \in 1 .. len |-> MS(M, i)]
           gF == CHOOSE F : IsF(F)
           gM == CHOOSE M : IsM(M)
<1>1. len \in Nat /\ len >= 1
  BY PathFacts DEF SearchContext
<1>2. FindSymbol(n, s) = gF[len] /\ Meaning(n) = gM[len]
  BY DEF FindSymbol, Meaning, PathOf
<1>3. ASSUME NEW F, NEW i
      PROVE  FS(F, i) = IF i = 1 THEN Found1(n, s) ELSE FoundIn(n, i, F[i - 1])
  <2>1. i = 1 => FS(F, i) = Found1(n, s)
    <3>1. FS(F, 1) = Found1(n, s)
      BY DEF Found1, Last
    <3>2. QED BY <3>1
  <2>2. i # 1 => FS(F, i) = FoundIn(n, i, F[i - 1])
    BY DEF FoundIn, Last
  <2>3. QED BY <2>1, <2>2
<1>4. ASSUME NEW M, NEW i
      PROVE  MS(M, i) = IF i = 1 THEN MeaningOfPart(PathOf(n)[1], Last(n, 1), Around(n))
                        ELSE MeansIn(n, i, M[i - 1])
  <2>1. i = 1 => MS(M, i) = MeaningOfPart(PathOf(n)[1], Last(n, 1), Around(n))
    <3>1. MS(M, 1) = MeaningOfPart(PathOf(n)[1], Last(n, 1), Around(n))
      BY DEF Last
    <3>2. QED BY <3>1
  <2>2. i # 1 => MS(M, i) = MeansIn(n, i, M[i - 1])
    BY DEF MeansIn, Last
  <2>3. QED BY <2>1, <2>2
<1> HIDE DEF path, FS, MS
<1>5. PICK f : /\ \A i \in 0 .. len - 1 : Result(f[i])
               /\ f[0] = Found1(n, s)
               /\ \A i \in 1 .. len - 1 : f[i] = FoundIn(n, i + 1, f[i - 1])
  BY SearchSteps DEF path
<1> HIDE DEF len
<1> DEFINE eF == [i \in 1 .. len |-> f[i - 1]]
           eM == [i \in 1 .. len |-> AsMeaning(f[i - 1])]
<1>6. ASSUME NEW i \in 1 .. len, i # 1
      PROVE  /\ i - 1 \in 1 .. len /\ i - 1 \in 1 .. len - 1 /\ (i - 1) - 1 \in 0 .. len - 1
             /\ (i - 1) + 1 = i
  BY <1>1, <1>6
<1>7. IsF(eF)
  <2>1. ASSUME NEW i \in 1 .. len PROVE eF[i] = FS(eF, i)
    <3>1. CASE i = 1
      BY <1>3, <1>5, <3>1
    <3>2. CASE i # 1
      <4>1. f[i - 1] = FoundIn(n, i, f[(i - 1) - 1])
        BY <1>5, <1>6, <3>2
      <4>2. eF[i - 1] = f[(i - 1) - 1] /\ eF[i] = f[i - 1]
        BY <1>6, <3>2
      <4> HIDE DEF eF
      <4>3. QED BY <1>3, <3>2, <4>1, <4>2
    <3>3. QED BY <3>1, <3>2
  <2>2. eF = [i \in 1 .. len |-> eF[i]]
    OBVIOUS
  <2> HIDE DEF eF
  <2>3. QED BY <2>1, <2>2
<1>8. IsM(eM)
  <2>1. ASSUME NEW i \in 1 .. len PROVE eM[i] = MS(eM, i)
    <3>1. CASE i = 1
      <4>1. eM[1] = AsMeaning(f[0])
        BY <3>1
      <4> HIDE DEF eM
      <4>2. QED BY <1>4, <1>5, <3>1, <4>1, Found1Facts
    <3>2. CASE i # 1
      <4>1. f[i - 1] = FoundIn(n, i, f[(i - 1) - 1]) /\ Result(f[(i - 1) - 1])
        BY <1>5, <1>6, <3>2
      <4>2. eM[i - 1] = AsMeaning(f[(i - 1) - 1]) /\ eM[i] = AsMeaning(f[i - 1])
        BY <1>6, <3>2
      <4> HIDE DEF eM
      <4>3. MeansIn(n, i, AsMeaning(f[(i - 1) - 1])) = AsMeaning(FoundIn(n, i, f[(i - 1) - 1]))
        BY <4>1, FoundInFacts
      <4>4. QED BY <1>4, <3>2, <4>1, <4>2, <4>3
    <3>3. QED BY <3>1, <3>2
  <2>2. eM = [i \in 1 .. len |-> eM[i]]
    OBVIOUS
  <2> HIDE DEF eM
  <2>3. QED BY <2>1, <2>2
<1> HIDE DEF eF, eM
<1>9. IsF(gF) /\ IsM(gM)
  <2> HIDE DEF IsF, IsM
  <2>1. QED BY <1>7, <1>8
<1> HIDE DEF gF, gM
<1>10. \A i \in 1 .. len : gF[i] = FS(gF, i) /\ gM[i] = MS(gM, i)
  BY <1>9
<1> DEFINE Same == {i \in Nat : i \in 1 .. len => gF[i] = f[i - 1] /\ gM[i] = AsMeaning(f[i - 1])}
<1>11. 0 \in Same
  OBVIOUS
<1>12. ASSUME NEW j \in Nat, j \in Same PROVE j + 1 \in Same
  <2>1. SUFFICES ASSUME j + 1 \in 1 .. len
                 PROVE  gF[j + 1] = f[j] /\ gM[j + 1] = AsMeaning(f[j])
    OBVIOUS
  <2>2. gF[j + 1] = FS(gF, j + 1) /\ gM[j + 1] = MS(gM, j + 1)
    BY <1>10, <2>1
  <2>3. CASE j = 0
    BY <1>3, <1>4, <1>5, <2>2, <2>3, Found1Facts
  <2>4. CASE j # 0
    <3>1. j \in 1 .. len /\ j \in 1 .. len - 1 /\ j - 1 \in 0 .. len - 1 /\ (j + 1) - 1 = j /\ j + 1 # 1
      BY <1>1, <2>1, <2>4
    <3>2. gF[j] = f[j - 1] /\ gM[j] = AsMeaning(f[j - 1])
      BY <1>12, <3>1
    <3>3. gF[j + 1] = FoundIn(n, j + 1, f[j - 1]) /\ gM[j + 1] = MeansIn(n, j + 1, AsMeaning(f[j - 1]))
      BY <1>3, <1>4, <2>2, <3>1, <3>2
    <3>4. f[j] = FoundIn(n, j + 1, f[j - 1]) /\ Result(f[j - 1])
      BY <1>5, <3>1
    <3>5. MeansIn(n, j + 1, AsMeaning(f[j - 1])) = AsMeaning(FoundIn(n, j + 1, f[j - 1]))
      BY <3>4, FoundInFacts
    <3>6. QED BY <3>3, <3>4, <3>5
  <2>5. QED BY <2>3, <2>4
<1>13. Nat \subseteq Same
  <2> HIDE DEF Same
  <2>1. QED BY <1>11, <1>12, Induction
<1>14. gF[len] = f[len - 1] /\ gM[len] = AsMeaning(f[len - 1]) /\ Result(f[len - 1])
  <2>1. len \in 1 .. len /\ len \in Same /\ len - 1 \in 0 .. len - 1
    BY <1>1, <1>13
  <2>2. QED BY <1>5, <2>1
<1>15. QED BY <1>2, <1>14
-----------------------------------------------------------------------------
(***************************************************************************)
(* Steps.                                                                  *)
(***************************************************************************)

\* What is said of the program alone stays as it is.
LEMMA SameProgram ==
  ASSUME program' = program
  PROVE  /\ \A n, K : PartSet(n, K)' = PartSet(n, K) /\ Is(n, K)' = Is(n, K)
         /\ \A n : Declares(n)' = Declares(n) /\ ScopeParts(n)' = ScopeParts(n)
         /\ \A n : Enclosing(n)' = Enclosing(n) /\ (InBlind(n)' <=> InBlind(n))
         /\ \A n, D : FirstOf(n, D)' = FirstOf(n, D)
         /\ Analysed' = Analysed
         /\ \A n : (InLoop(n)' <=> InLoop(n)) /\ (IsName(n)' <=> IsName(n))
         /\ \A S : WithBelow(S)' = WithBelow(S)
<1>1. \A n, K : PartSet(n, K)' = PartSet(n, K) /\ Is(n, K)' = Is(n, K)
  BY DEF PartSet, Is
<1>2. \A n, D : FirstOf(n, D)' = FirstOf(n, D)
  BY DEF FirstOf
<1>3. \A n : Declares(n)' = Declares(n)
  BY <1>1, <1>2 DEF Declares
<1>4. \A n : ScopeParts(n)' = ScopeParts(n)
  BY <1>1 DEF ScopeParts
<1>5. ASSUME NEW n PROVE Below(n)' = Below(n)
  BY DEF Below
<1>6. \A S : WithBelow(S)' = WithBelow(S)
  BY <1>5 DEF WithBelow
<1>7. \A n : Region(n)' = Region(n)
  BY <1>1, <1>5, <1>6 DEF Region
<1>8. Blind' = Blind
  BY <1>1 DEF Blind
<1>9. \A n : Enclosing(n)' = Enclosing(n) /\ (InBlind(n)' <=> InBlind(n))
  BY <1>1, <1>6, <1>7, <1>8 DEF Enclosing, InBlind
<1>10. Analysed' = Analysed
  BY <1>1, <1>6 DEF Analysed
<1>11. \A n : (InLoop(n)' <=> InLoop(n)) /\ (IsName(n)' <=> IsName(n))
  BY <1>1, <1>5 DEF InLoop, IsName
<1>12. QED BY <1>1, <1>2, <1>3, <1>4, <1>6, <1>9, <1>10, <1>11

LEMMA SameMeaning ==
  ASSUME program' = program
  PROVE  \A n : Meaning(n)' = Meaning(n) /\ Offence(n)' = Offence(n)
<1>1. ASSUME NEW n PROVE Meaning(n)' = Meaning(n)
  BY DEF Meaning, MeaningOfPart, Innermost, Around, Declares, Region, Blind, WithBelow, Below, Is,
         PartSet, FirstOf
<1>2. QED BY <1>1, SameProgram DEF Offence

\* The calls still to be made.
Call == [node : Node, scope : Node \cup {0}, loop : Nat]

LEMMA TodoFacts ==
  ASSUME TypeOK, todo # <<>>
  PROVE  /\ Head(todo) \in Call /\ Tail(todo) \in Seq(Call)
         /\ Listed(todo) = {Head(todo)} \cup Listed(Tail(todo))
         /\ This \in Node /\ Head(todo).scope \in Node \cup {0} /\ Head(todo).loop \in Nat
<1>1. todo \in Seq(Call)
  BY DEF TypeOK, Call
<1>2. Head(todo) \in Call /\ Tail(todo) \in Seq(Call) /\ todo = <<Head(todo)>> \o Tail(todo)
  BY <1>1
<1>3. <<Head(todo)>> \in Seq(Call) /\ Listed(<<Head(todo)>>) = {Head(todo)}
  BY <1>2 DEF Listed
<1>4. Listed(todo) = {Head(todo)} \cup Listed(Tail(todo))
  <2>1. Listed(<<Head(todo)>> \o Tail(todo)) = Listed(<<Head(todo)>>) \cup Listed(Tail(todo))
    <3>1. PICK one \in Seq(Call) : one = <<Head(todo)>>
      BY <1>3
    <3>2. PICK rest \in Seq(Call) : rest = Tail(todo)
      BY <1>2
    <3>3. Listed(one \o rest) = Listed(one) \cup Listed(rest)
      BY JoinFacts
    <3>4. QED BY <3>1, <3>2, <3>3
  <2> DEFINE l == <<Head(todo)>> \o Tail(todo)
  <2>2. todo = l /\ Listed(l) = {Head(todo)} \cup Listed(Tail(todo))
    BY <1>2, <1>3, <2>1
  <2> HIDE DEF l
  <2>3. Listed(todo) = Listed(l)
    BY <2>2
  <2>4. QED BY <2>2, <2>3
<1>5. QED BY <1>2, <1>4 DEF Call, This

LEMMA CallsFacts ==
  ASSUME TypeOK, todo # <<>>, NEW q \in Seq(Node), NEW s \in Node \cup {0}, NEW l \in Nat,
         Calls(q, s, l)
  PROVE  /\ todo' \in Seq(Call)
         /\ Listed(todo') = {[node |-> x, scope |-> s, loop |-> l] : x \in Listed(q)}
                              \cup Listed(Tail(todo))
<1> DEFINE C(x) == [node |-> x, scope |-> s, loop |-> l]
           new  == [i \in 1 .. Len(q) |-> C(q[i])]
<1>1. \A x \in Node : C(x) \in Call
  BY DEF Call
<1> HIDE DEF C
<1>2. new \in Seq(Call) /\ Len(new) = Len(q) /\ \A i \in 1 .. Len(q) : new[i] = C(q[i])
  BY <1>1
<1> HIDE DEF new
<1>3. Listed(new) = {C(x) : x \in Listed(q)}
  BY <1>2 DEF Listed
<1>4. todo' = new \o Tail(todo)
  BY DEF Calls, new, C
<1>5. Tail(todo) \in Seq(Call)
  BY TodoFacts
<1>6. todo' \in Seq(Call) /\ Listed(todo') = Listed(new) \cup Listed(Tail(todo))
  <2>1. PICK rest \in Seq(Call) : rest = Tail(todo)
    BY <1>5
  <2>2. new \o rest \in Seq(Call) /\ Listed(new \o rest) = Listed(new) \cup Listed(rest)
    BY <1>2, JoinFacts
  <2>3. QED BY <1>4, <2>1, <2>2
<1>7. QED BY <1>3, <1>6 DEF C

\* Of the declarations of one name there is a first one.
LEMMA FirstOfFacts ==
  ASSUME NEW D, D \subseteq Node, NEW n \in D
  PROVE  /\ FirstOf(n, D) \in D /\ program.name[FirstOf(n, D)] = program.name[n]
         /\ \A m \in D : program.name[m] = program.name[n] => FirstOf(m, D) = FirstOf(n, D)
<1> DEFINE Same == {m \in D : program.name[m] = program.name[n]}
           IsFirst(m) == m \in D /\ program.name[m] = program.name[n]
                         /\ \A k \in D : program.name[k] = program.name[n] => m <= k
<1>1. Same \subseteq Nat /\ Same # {}
  BY TreesAssumption
<1>2. \E m \in Same : \A k \in Same : m <= k
  <2> HIDE DEF Same
  <2>1. QED BY <1>1, LeastNumber
<1>3. \E m : IsFirst(m)
  BY <1>2
<1>4. FirstOf(n, D) = CHOOSE m : IsFirst(m)
  BY DEF FirstOf
<1>5. IsFirst(FirstOf(n, D))
  BY <1>3, <1>4
<1>6. ASSUME NEW m \in D, program.name[m] = program.name[n] PROVE FirstOf(m, D) = FirstOf(n, D)
  BY <1>6 DEF FirstOf
<1>7. QED BY <1>5, <1>6

\* What every constructor of a scope does.
MakeEffect(syms, q) ==
  /\ phase = "scopes" /\ todo # <<>> /\ Is(This, ScopeKinds)
  /\ UNCHANGED <<program, symbolPtr, phase, thrown>>
  /\ parent' = [parent EXCEPT ![This] = Head(todo).scope]
  /\ syms \in Seq(Node) /\ Listed(syms) = Declares(This)
  /\ symtable' = [symtable EXCEPT ![This] = syms]
  /\ q \in Seq(Node) /\ Listed(q) = ScopeParts(This) /\ Calls(q, This, 0)
  /\ letSymbol' \in [Node -> Node \cup {0}]
  /\ \A n \in Node :
        letSymbol'[n] = IF n \in PartSet(This, {"Let"}) /\ Is(This, {"Module", "Namespace"}) THEN n
                        ELSE IF n \in PartSet(This, {"Let"}) /\ Is(This, {"Scope"})
                        THEN FirstOf(n, PartSet(This, {"Let"}))
                        ELSE letSymbol[n]

\* Those that make a scope of symbols K for the parts Q and leave letSymbol alone.
LEMMA MakePlain ==
  ASSUME program \in Programs, TypeOK, NEW k \in {"Class", "Enum", "Function", "For", "If"}, At({k}),
         NEW syms \in Seq(Node), Listed(syms) = Declares(This),
         NEW q \in Seq(Node), Listed(q) = ScopeParts(This),
         Make(syms, q), UNCHANGED <<letSymbol, symbolPtr, phase, thrown>>, phase = "scopes"
  PROVE  MakeEffect(syms, q)
<1>1. todo # <<>> /\ program.kind[This] = k
  BY DEF At, Is
<1>2. Is(This, ScopeKinds) /\ ~Is(This, {"Module", "Namespace"}) /\ ~Is(This, {"Scope"})
  BY <1>1 DEF Is, ScopeKinds
<1>3. letSymbol \in [Node -> Node \cup {0}]
  BY DEF TypeOK
<1>4. QED BY <1>1, <1>2, <1>3 DEF MakeEffect, Make

LEMMA MakeScopesEffect ==
  ASSUME program \in Programs, TypeOK, MakeScopes
  PROVE  \E syms, q : MakeEffect(syms, q)
<1>1. phase = "scopes" /\ todo # <<>> /\ UNCHANGED <<symbolPtr, phase, thrown>> /\ This \in Node
  <2>1. todo # <<>>
    BY DEF MakeScopes, ScopesNext, MakeItems, MakeClass, MakeEnum, MakeFunction, MakeFor, MakeIf,
           MakeScope, At
  <2>2. QED BY <2>1, TodoFacts DEF MakeScopes
<1>2. \A K : /\ Parts(This, K) \in Seq(Node) /\ Listed(Parts(This, K)) = PartSet(This, K)
             /\ PartSet(This, K) \subseteq Node
  BY <1>1, PartsFacts
<1> DEFINE k == program.kind[This]
<1>3. /\ \A K : Is(This, K) <=> k \in K
      /\ \A K : At(K) => k \in K
  BY DEF Is, At
<1> DEFINE lets == PartSet(This, {"Let"})
<1>4. ASSUME MakeItems PROVE \E syms, q : MakeEffect(syms, q)
  <2> DEFINE syms == Parts(This, Items \cup {"Let"})
             q    == Parts(This, Items)
  <2>1. k \in {"Module", "Namespace"}
    BY <1>3, <1>4 DEF MakeItems
  <2>2. Listed(syms) = Declares(This) /\ Listed(q) = ScopeParts(This) /\ Is(This, ScopeKinds)
    BY <1>2, <1>3, <2>1 DEF Declares, ScopeParts, KindsBelow, ScopeKinds
  <2>3. letSymbol' = [n \in Node |-> IF n \in lets THEN n ELSE letSymbol[n]] /\ Make(syms, q)
    BY <1>4 DEF MakeItems
  <2>4. letSymbol' \in [Node -> Node \cup {0}]
    BY <2>3 DEF TypeOK
  <2>5. Is(This, {"Module", "Namespace"})
    BY <1>3, <2>1
  <2> HIDE DEF k
  <2>6. MakeEffect(syms, q)
    BY <1>1, <1>2, <2>2, <2>3, <2>4, <2>5 DEF MakeEffect, Make
  <2>7. QED BY <2>6
<1>5. ASSUME MakeScope PROVE \E syms, q : MakeEffect(syms, q)
  <2> DEFINE firsts == {n \in lets : FirstOf(n, lets) = n}
             syms == Sublist(Parts(This, {"Let"}), firsts)
             q    == Parts(This, {"Scope", "For", "If"})
  <2>1. k = "Scope"
    BY <1>3, <1>5 DEF MakeScope
  <2>2. syms \in Seq(Node) /\ Listed(syms) = Listed(Parts(This, {"Let"})) \cap firsts
    BY <1>2, SublistFacts
  <2>3. Declares(This) = firsts
    BY <1>3, <2>1 DEF Declares
  <2>4. Listed(syms) = Declares(This) /\ Listed(q) = ScopeParts(This) /\ Is(This, ScopeKinds)
    BY <1>2, <1>3, <2>1, <2>2, <2>3 DEF ScopeParts, KindsBelow, ScopeKinds
  <2>5. /\ letSymbol' = [n \in Node |-> IF n \in lets THEN FirstOf(n, lets) ELSE letSymbol[n]]
        /\ Make(syms, q)
    BY <1>5 DEF MakeScope
  <2>6. \A n \in lets : FirstOf(n, lets) \in Node
    <3>1. lets \subseteq Node
      BY <1>2
    <3> HIDE DEF lets
    <3>2. QED BY <3>1, FirstOfFacts
  <2>7. letSymbol' \in [Node -> Node \cup {0}]
    BY <2>5, <2>6 DEF TypeOK
  <2>8. Is(This, {"Scope"}) /\ ~Is(This, {"Module", "Namespace"})
    BY <1>3, <2>1
  <2> HIDE DEF k, syms, q
  <2>9. MakeEffect(syms, q)
    BY <1>1, <1>2, <2>2, <2>4, <2>5, <2>7, <2>8 DEF MakeEffect, Make, q
  <2>10. QED BY <2>9
<1>6. ASSUME MakeClass PROVE \E syms, q : MakeEffect(syms, q)
  <2>1. At({"Class"}) /\ k = "Class" /\ Make(Parts(This, {"Function"}), Parts(This, {"Function"}))
        /\ UNCHANGED letSymbol
    BY <1>3, <1>6 DEF MakeClass
  <2>2. Declares(This) = PartSet(This, {"Function"}) /\ ScopeParts(This) = PartSet(This, {"Function"})
    BY <1>3, <2>1 DEF Declares, ScopeParts, KindsBelow
  <2>3. QED BY <1>1, <1>2, <2>1, <2>2, MakePlain
<1>7. ASSUME MakeEnum PROVE \E syms, q : MakeEffect(syms, q)
  <2>1. At({"Enum"}) /\ k = "Enum" /\ Make(Parts(This, {"Enumerator"}), <<>>) /\ UNCHANGED letSymbol
    BY <1>3, <1>7 DEF MakeEnum
  <2>2. Declares(This) = PartSet(This, {"Enumerator"})
    BY <1>3, <2>1 DEF Declares
  <2>3. ScopeParts(This) = {}
    BY <2>1, <1>1, PartsFacts DEF ScopeParts, KindsBelow
  <2> DEFINE e == <<>>
  <2>4. e \in Seq(Node) /\ Listed(e) = {}
    BY DEF Listed
  <2>5. Make(Parts(This, {"Enumerator"}), e)
    BY <2>1
  <2> HIDE DEF e
  <2>6. QED BY <1>1, <1>2, <2>1, <2>2, <2>3, <2>4, <2>5, MakePlain
<1>8. ASSUME MakeFunction PROVE \E syms, q : MakeEffect(syms, q)
  <2>1. At({"Function"}) /\ k = "Function" /\ Make(Parts(This, {"Arg"}), Parts(This, {"Scope"}))
        /\ UNCHANGED letSymbol
    BY <1>3, <1>8 DEF MakeFunction
  <2>2. Declares(This) = PartSet(This, {"Arg"}) /\ ScopeParts(This) = PartSet(This, {"Scope"})
    BY <1>3, <2>1 DEF Declares, ScopeParts, KindsBelow
  <2>3. QED BY <1>1, <1>2, <2>1, <2>2, MakePlain
<1>9. ASSUME MakeFor PROVE \E syms, q : MakeEffect(syms, q)
  <2>1. At({"For"}) /\ k = "For" /\ Make(<<This>>, Parts(This, {"Scope"})) /\ UNCHANGED letSymbol
    BY <1>3, <1>9 DEF MakeFor
  <2>2. Declares(This) = {This} /\ ScopeParts(This) = PartSet(This, {"Scope"})
    BY <1>3, <2>1 DEF Declares, ScopeParts, KindsBelow
  <2>3. <<This>> \in Seq(Node) /\ Listed(<<This>>) = {This}
    BY <1>1 DEF Listed
  <2>4. QED BY <1>1, <1>2, <2>1, <2>2, <2>3, MakePlain
<1>10. ASSUME MakeIf PROVE \E syms, q : MakeEffect(syms, q)
  <2>1. At({"If"}) /\ k = "If" /\ Make(Parts(This, {"Let"}), Parts(This, {"Scope"}))
        /\ UNCHANGED letSymbol
    BY <1>3, <1>10 DEF MakeIf
  <2>2. Declares(This) = PartSet(This, {"Let"}) /\ ScopeParts(This) = PartSet(This, {"Scope"})
    BY <1>3, <2>1 DEF Declares, ScopeParts, KindsBelow
  <2>3. QED BY <1>1, <1>2, <2>1, <2>2, MakePlain
<1>11. QED BY <1>4, <1>5, <1>6, <1>7, <1>8, <1>9, <1>10 DEF MakeScopes, ScopesNext

LEMMA MakeTypes ==
  ASSUME TypeOK, NEW syms, NEW q, MakeEffect(syms, q)
  PROVE  /\ TypeOK' /\ This \in Node /\ Head(todo).scope \in Node \cup {0}
         /\ parent'[This] = Head(todo).scope /\ symtable'[This] = syms
         /\ \A n \in Node : n # This => parent'[n] = parent[n] /\ symtable'[n] = symtable[n]
         /\ \A n \in Node : Made(n)' <=> Made(n) \/ n = This
         /\ Listed(todo) = {Head(todo)} \cup Listed(Tail(todo))
         /\ \A c : c \in Listed(todo') <=>
              \/ \E x \in ScopeParts(This) : c = [node |-> x, scope |-> This, loop |-> 0]
              \/ c \in Listed(Tail(todo))
<1>1. /\ This \in Node /\ Head(todo).scope \in Node \cup {0}
      /\ Listed(todo) = {Head(todo)} \cup Listed(Tail(todo))
  BY TodoFacts DEF MakeEffect
<1>2. /\ todo' \in Seq(Call)
      /\ Listed(todo') = {[node |-> x, scope |-> This, loop |-> 0] : x \in Listed(q)}
                           \cup Listed(Tail(todo))
  BY <1>1, CallsFacts DEF MakeEffect
<1>3. /\ parent \in [Node -> Node \cup {0, -1}] /\ symtable \in [Node -> Seq(Node)]
      /\ parent' = [parent EXCEPT ![This] = Head(todo).scope]
      /\ symtable' = [symtable EXCEPT ![This] = syms] /\ syms \in Seq(Node)
  BY DEF TypeOK, MakeEffect
<1>4. parent' \in [Node -> Node \cup {0, -1}] /\ symtable' \in [Node -> Seq(Node)]
  BY <1>1, <1>3
<1>5. TypeOK'
  BY <1>2, <1>4 DEF TypeOK, MakeEffect, Call
<1>6. /\ parent'[This] = Head(todo).scope /\ symtable'[This] = syms
      /\ \A n \in Node : n # This => parent'[n] = parent[n] /\ symtable'[n] = symtable[n]
  BY <1>1, <1>3
<1>7. \A n \in Node : Made(n)' <=> Made(n) \/ n = This
  <2>1. Head(todo).scope # -1
    BY <1>1, TreesAssumption
  <2>2. QED BY <1>6, <2>1 DEF Made
<1>8. Listed(q) = ScopeParts(This)
  BY DEF MakeEffect
<1>9. QED BY <1>1, <1>2, <1>5, <1>6, <1>7, <1>8

LEMMA MakeTree ==
  ASSUME IInv, NEW syms, NEW q, MakeEffect(syms, q)
  PROVE  ScopeTree' /\ ScopeCalls' /\ ScopesComplete'
<1>1. /\ program \in Programs /\ TypeOK /\ ScopeTree /\ ScopeCalls /\ ScopesComplete
      /\ program' = program /\ phase = "scopes" /\ phase' = phase /\ Is(This, ScopeKinds)
  BY DEF IInv, MakeEffect
<1>2. /\ This \in Node /\ Head(todo).scope \in Node \cup {0}
      /\ parent'[This] = Head(todo).scope
      /\ \A n \in Node : n # This => parent'[n] = parent[n]
      /\ \A n \in Node : Made(n)' <=> Made(n) \/ n = This
      /\ Listed(todo) = {Head(todo)} \cup Listed(Tail(todo))
      /\ \A c : c \in Listed(todo') <=>
              \/ \E x \in ScopeParts(This) : c = [node |-> x, scope |-> This, loop |-> 0]
              \/ c \in Listed(Tail(todo))
  BY <1>1, MakeTypes
<1>3. /\ \A n : ScopeParts(n)' = ScopeParts(n)
      /\ \A n, K : Is(n, K)' = Is(n, K)
  BY <1>1, SameProgram
<1>4. 0 \notin Node
  BY TreesAssumption
<1>5. \/ This = 1 /\ Head(todo).scope = 0
      \/ /\ Head(todo).scope \in Node /\ Made(Head(todo).scope)
         /\ This \in ScopeParts(Head(todo).scope)
  BY <1>1, <1>2 DEF ScopeCalls, This
<1>6. ASSUME NEW n \in Node, Made(n)', NEW b, b = parent'[n]
      PROVE  /\ Is(n, ScopeKinds)
             /\ b = 0 => n = 1
             /\ b # 0 => Made(b)' /\ n \in ScopeParts(b)
  <2>1. CASE n = This
    BY <1>1, <1>2, <1>4, <1>5, <1>6, <2>1
  <2>2. CASE n # This
    <3>1. Made(n) /\ b = parent[n]
      BY <1>2, <1>6, <2>2
    <3>2. /\ Is(n, ScopeKinds) /\ (b = 0 => n = 1)
          /\ b # 0 => Made(b) /\ n \in ScopeParts(b)
      BY <1>1, <3>1 DEF ScopeTree
    <3>3. b # 0 => b \in Node
      BY <1>1, <3>1 DEF TypeOK, Made
    <3>4. QED BY <1>2, <3>2, <3>3
  <2>3. QED BY <2>1, <2>2
<1>7. ScopeTree'
  BY <1>3, <1>6 DEF ScopeTree
<1>8. ScopeCalls'
  <2>1. ASSUME NEW c \in Listed(todo')
        PROVE  \/ c.node = 1 /\ c.scope = 0
               \/ c.scope # 0 /\ Made(c.scope)' /\ c.node \in ScopeParts(c.scope)
    <3>1. CASE \E x \in ScopeParts(This) : c = [node |-> x, scope |-> This, loop |-> 0]
      BY <1>2, <1>4, <3>1
    <3>2. CASE c \in Listed(Tail(todo))
      <4>1. \/ c.node = 1 /\ c.scope = 0
            \/ c.scope # 0 /\ Made(c.scope) /\ c.node \in ScopeParts(c.scope)
        BY <1>1, <1>2, <3>2 DEF ScopeCalls
      <4>2. c.scope \in Node \cup {0}
        <5>1. todo # <<>> /\ Tail(todo) \in Seq(Call)
          BY <1>1, TodoFacts DEF MakeEffect
        <5>2. c \in Call
          BY <3>2, <5>1 DEF Listed
        <5>3. QED BY <5>2 DEF Call
      <4>3. QED BY <1>2, <4>1, <4>2
    <3>3. QED BY <1>2, <3>1, <3>2
  <2>2. QED BY <1>3, <2>1 DEF ScopeCalls
<1>9. ScopesComplete'
  <2>1. ASSUME NEW n \in Node, n = 1 \/ \E m \in Node : Made(m)' /\ n \in ScopeParts(m)
        PROVE  Made(n)' \/ Awaited(n)'
    <3>1. CASE n \in ScopeParts(This)
      <4>1. [node |-> n, scope |-> This, loop |-> 0] \in Listed(todo')
        BY <1>2, <3>1
      <4>2. QED BY <4>1 DEF Awaited
    <3>2. CASE n \notin ScopeParts(This)
      <4>1. Made(n) \/ Awaited(n)
        BY <1>1, <1>2, <2>1, <3>2 DEF ScopesComplete
      <4>2. CASE Awaited(n)
        <5>1. PICK c \in Listed(todo) : c.node = n
          BY <4>2 DEF Awaited
        <5>2. CASE c = Head(todo)
          BY <1>2, <5>1, <5>2 DEF This
        <5>3. CASE c \in Listed(Tail(todo))
          <6>1. c \in Listed(todo')
            BY <1>2, <5>3
          <6>2. QED BY <5>1, <6>1 DEF Awaited
        <5>4. QED BY <1>2, <5>1, <5>2, <5>3
      <4>3. QED BY <1>2, <4>1, <4>2
    <3>3. QED BY <3>1, <3>2
  <2>2. QED BY <1>1, <1>3, <2>1 DEF ScopesComplete
<1>10. QED BY <1>7, <1>8, <1>9

LEMMA MakeInv ==
  ASSUME IInv, NEW syms, NEW q, MakeEffect(syms, q)
  PROVE  IInv'
<1>1. /\ program \in Programs /\ TypeOK /\ Tables /\ Progress
      /\ program' = program /\ phase = "scopes" /\ phase' = phase /\ symbolPtr' = symbolPtr
      /\ thrown' = thrown
  BY DEF IInv, MakeEffect
<1>2. /\ TypeOK' /\ This \in Node /\ symtable'[This] = syms
      /\ \A n \in Node : n # This => symtable'[n] = symtable[n]
      /\ \A n \in Node : Made(n)' <=> Made(n) \/ n = This
  BY <1>1, MakeTypes
<1>3. /\ \A n : Declares(n)' = Declares(n)
      /\ \A n, K : PartSet(n, K)' = PartSet(n, K) /\ Is(n, K)' = Is(n, K)
      /\ \A n, D : FirstOf(n, D)' = FirstOf(n, D)
  BY <1>1, SameProgram
<1>4. /\ Listed(syms) = Declares(This)
      /\ \A n \in Node :
           letSymbol'[n] = IF n \in PartSet(This, {"Let"}) /\ Is(This, {"Module", "Namespace"}) THEN n
                           ELSE IF n \in PartSet(This, {"Let"}) /\ Is(This, {"Scope"})
                           THEN FirstOf(n, PartSet(This, {"Let"}))
                           ELSE letSymbol[n]
  BY DEF MakeEffect
<1>5. \A n \in Node : Listed(symtable'[n]) = IF Made(n)' THEN Declares(n) ELSE {}
  <2>1. \A n \in Node : n # This => Listed(symtable'[n]) = IF Made(n)' THEN Declares(n) ELSE {}
    BY <1>1, <1>2 DEF Tables
  <2>2. Listed(symtable'[This]) = Declares(This)
    BY <1>2, <1>4
  <2>3. QED BY <1>2, <2>1, <2>2
<1>6. ASSUME NEW n \in Node, NEW d \in PartSet(n, {"Let"}), Made(n)'
      PROVE  /\ Is(n, {"Module", "Namespace"}) => letSymbol'[d] = d
             /\ Is(n, {"Scope"}) => letSymbol'[d] = FirstOf(d, PartSet(n, {"Let"}))
  <2>1. d \in Node /\ d \in Listed(program.parts[n])
    BY <1>1, PartsFacts
  <2>2. CASE n = This
    <3>1. ~(Is(n, {"Module", "Namespace"}) /\ Is(n, {"Scope"}))
      BY DEF Is
    <3>2. QED BY <1>4, <2>1, <2>2, <3>1
  <2>3. CASE n # This
    <3>1. d \notin PartSet(This, {"Let"})
      <4>1. d \notin Listed(program.parts[This])
        BY <1>1, <1>2, <2>1, <2>3, TreeFacts
      <4>2. QED BY <1>1, <1>2, <4>1, PartsFacts
    <3>2. letSymbol'[d] = letSymbol[d] /\ Made(n)
      BY <1>2, <1>4, <1>6, <2>1, <2>3, <3>1
    <3>3. QED BY <1>1, <3>2 DEF Tables
  <2>4. QED BY <2>2, <2>3
<1>7. Tables'
  BY <1>3, <1>5, <1>6 DEF Tables
<1>8. \A n \in Node : symbolPtr[n] = 0 /\ thrown = NIL
  BY <1>1 DEF Progress
<1>9. Progress' /\ SymbolsUnique' /\ ResolverCalls'
  BY <1>1, <1>8 DEF Progress, SymbolsUnique, ResolverCalls
<1>10. QED BY <1>1, <1>2, <1>7, <1>9, MakeTree DEF IInv
-----------------------------------------------------------------------------
(***************************************************************************)
(* The resolver's calls.                                                   *)
(***************************************************************************)

\* Only a class has a constructor, and nothing is below a break.
LEMMA OtherParts ==
  ASSUME program \in Programs, NEW t \in Node, NEW x \in Listed(program.parts[t])
  PROVE  /\ ~Is(t, {"Break"})
         /\ ~Is(t, {"Class"}) => ~Is(x, {"New"})
         /\ Is(t, {"Class"}) => Is(x, {"Let", "Function", "New"})
<1>1. program.kind[t] \in Kind /\ program.kind[x] \in PartKinds(program.kind[t])
  BY TreeFacts
<1>2. ASSUME NEW k \in Kind, NEW j \in PartKinds(k)
      PROVE  /\ k # "Break"
             /\ k # "Class" => j # "New"
             /\ k = "Class" => j \in {"Let", "Function", "New"}
  BY <1>2 DEF PartKinds, Kind, Items, Operations
<1>3. QED BY <1>1, <1>2 DEF Is

\* A call of the resolver for This.
LEMMA VisitFacts ==
  ASSUME IInv, phase = "names", todo # <<>>
  PROVE  /\ This \in Analysed /\ This \in Node /\ Scope \in Node \cup {0} /\ Loop \in Nat
         /\ ~Is(This, Openers) => RightScope(This, Scope)
         /\ Loop > 0 <=> InLoop(This)
         /\ Listed(todo) = {Head(todo)} \cup Listed(Tail(todo))
<1>1. TypeOK /\ ResolverCalls
  BY DEF IInv
<1>2. /\ This \in Node /\ Scope \in Node \cup {0} /\ Loop \in Nat
      /\ Listed(todo) = {Head(todo)} \cup Listed(Tail(todo))
  BY <1>1, TodoFacts DEF Scope, Loop
<1>3. QED BY <1>1, <1>2 DEF ResolverCalls, This, Scope, Loop

\* What stays as it is after the scopes have been made.
ScopesSame ==
  /\ phase = "names" /\ thrown = NIL
  /\ UNCHANGED <<program, parent, symtable, letSymbol>>

LEMMA ScopesKept ==
  ASSUME IInv, ScopesSame, phase' # "scopes"
  PROVE  (program \in Programs)' /\ ScopeTree' /\ ScopeCalls' /\ ScopesComplete' /\ Tables'
<1>1. /\ program \in Programs /\ ScopeTree /\ ScopesComplete /\ Tables
      /\ program' = program /\ parent' = parent /\ symtable' = symtable /\ letSymbol' = letSymbol
      /\ phase = "names"
  BY DEF IInv, ScopesSame
<1>2. /\ \A n : Declares(n)' = Declares(n) /\ ScopeParts(n)' = ScopeParts(n)
      /\ \A n, K : PartSet(n, K)' = PartSet(n, K) /\ Is(n, K)' = Is(n, K)
      /\ \A n, D : FirstOf(n, D)' = FirstOf(n, D)
  BY <1>1, SameProgram
<1>3. \A n : Made(n)' <=> Made(n)
  BY <1>1 DEF Made
<1>4. ScopeTree'
  BY <1>1, <1>2, <1>3 DEF ScopeTree
<1>5. ScopesComplete'
  BY <1>1, <1>2, <1>3 DEF ScopesComplete
<1>6. Tables'
  BY <1>1, <1>2, <1>3 DEF Tables
<1>7. QED BY <1>1, <1>4, <1>5, <1>6 DEF ScopeCalls

LEMMA SameNames ==
  ASSUME IInv, ScopesSame
  PROVE  /\ \A n, s : RightScope(n, s)' <=> RightScope(n, s)
         /\ \A n : symbolPtr'[n] = symbolPtr[n] => (Settled(n)' <=> Settled(n))
<1>1. program' = program /\ parent' = parent
  BY DEF ScopesSame
<1>2. \A n : Enclosing(n)' = Enclosing(n) /\ (InBlind(n)' <=> InBlind(n)) /\ (Made(n)' <=> Made(n))
  BY <1>1, SameProgram DEF Made
<1>3. \A n, s : RightScope(n, s)' <=> RightScope(n, s)
  BY <1>2 DEF RightScope
<1>4. \A n : symbolPtr'[n] = symbolPtr[n] => (Settled(n)' <=> Settled(n))
  BY <1>1, SameProgram, SameMeaning DEF Settled
<1>5. QED BY <1>3, <1>4

\* The symbol of a node is what it means, and stands in one table.
RightSymbol(n) ==
  symbolPtr[n] # 0 =>
    /\ IsName(n)
    /\ Cardinality(Meaning(n).ds) = 1
    /\ symbolPtr[n] = CHOOSE d \in Meaning(n).ds : TRUE
UniqueSymbol(n) ==
  symbolPtr[n] > 0 =>
    \E b \in Node :
      /\ Made(b) /\ symbolPtr[n] \in Declares(b)
      /\ \A d \in Declares(b) : program.name[d] = program.name[symbolPtr[n]] => d = symbolPtr[n]

LEMMA SymbolsKept ==
  ASSUME ScopesSame, NEW n, symbolPtr'[n] = symbolPtr[n]
  PROVE  (RightSymbol(n)' <=> RightSymbol(n)) /\ (UniqueSymbol(n)' <=> UniqueSymbol(n))
<1>1. program' = program /\ parent' = parent
  BY DEF ScopesSame
<1>2. \A m : Declares(m)' = Declares(m) /\ (Made(m)' <=> Made(m)) /\ (IsName(m)' <=> IsName(m))
  BY <1>1, SameProgram DEF Made
<1>3. Meaning(n)' = Meaning(n)
  BY <1>1, SameMeaning
<1>4. RightSymbol(n)' <=> RightSymbol(n)
  BY <1>2, <1>3 DEF RightSymbol
<1>5. UniqueSymbol(n)' <=> UniqueSymbol(n)
  BY <1>1, <1>2 DEF UniqueSymbol
<1>6. QED BY <1>4, <1>5

\* The resolver goes on to the parts of a node, and the node is settled.
LEMMA WalkInv ==
  ASSUME IInv, ScopesSame, UNCHANGED <<phase, thrown>>, todo # <<>>,
         NEW q \in Seq(Node), NEW l \in Nat, Calls(q, ScopeOfParts(This, Scope), l),
         \A x \in Listed(q) : x \in Listed(program.parts[This]) /\ ~Is(x, {"New"}),
         \A x \in Listed(program.parts[This]) : x \in Listed(q) \/ Is(x, {"New"}),
         l > 0 <=> Loop > 0 \/ Is(This, {"For", "While"}),
         symbolPtr' \in [Node -> Node \cup {0} \cup {BuiltinCode(x) : x \in Builtin}],
         \A n \in Node : n # This => symbolPtr'[n] = symbolPtr[n],
         NEW t, t = This, Settled(t)', RightSymbol(t)', UniqueSymbol(t)'
  PROVE  IInv'
<1>1. /\ program \in Programs /\ TypeOK /\ ScopeTree /\ ScopesComplete /\ ResolverCalls /\ Progress
      /\ SymbolsUnique
      /\ program' = program /\ phase = "names" /\ phase' = "names" /\ thrown = NIL /\ thrown' = NIL
  BY DEF IInv, ScopesSame
<1>2. /\ This \in Analysed /\ This \in Node /\ Scope \in Node \cup {0} /\ Loop \in Nat
      /\ ~Is(This, Openers) => RightScope(This, Scope)
      /\ Loop > 0 <=> InLoop(This)
      /\ Listed(todo) = {Head(todo)} \cup Listed(Tail(todo))
  BY <1>1, VisitFacts
<1> DEFINE s == ScopeOfParts(This, Scope)
<1>3. s \in Node \cup {0}
  BY <1>2 DEF ScopeOfParts, ScopePtr
<1>4. /\ todo' \in Seq(Call)
      /\ Listed(todo') = {[node |-> x, scope |-> s, loop |-> l] : x \in Listed(q)}
                           \cup Listed(Tail(todo))
  BY <1>1, <1>3, CallsFacts
<1>5. TypeOK'
  BY <1>1, <1>4 DEF TypeOK, Call, ScopesSame
<1>6. /\ Analysed' = Analysed
      /\ \A n, K : Is(n, K)' <=> Is(n, K)
      /\ \A n : InLoop(n)' <=> InLoop(n)
      /\ \A S : WithBelow(S)' = WithBelow(S)
      /\ \A n, r : RightScope(n, r)' <=> RightScope(n, r)
  BY <1>1, SameProgram, SameNames
<1>7. ASSUME NEW x \in Listed(q)
      PROVE  x \in Analysed /\ (~Is(x, Openers) => RightScope(x, s)) /\ (l > 0 <=> InLoop(x))
  <2>1. x \in Listed(program.parts[This]) /\ ~Is(x, {"New"})
    BY <1>7
  <2>2. x \in Analysed
    BY <1>1, <1>2, <2>1, AnalysedFacts
  <2>3. InLoop(x) <=> InLoop(This) \/ Is(This, {"For", "While"})
    BY <1>1, <1>2, <2>1, LoopOfPart
  <2>4. ~Is(x, Openers) => RightScope(x, s)
    BY <1>1, <1>2, <2>1, PartCall
  <2>5. QED BY <1>2, <2>2, <2>3, <2>4
<1> HIDE DEF s
<1>8. ResolverCalls'
  <2>1. ASSUME NEW c \in Listed(todo')
        PROVE  c.node \in Analysed /\ (~Is(c.node, Openers) => RightScope(c.node, c.scope))
               /\ (c.loop > 0 <=> InLoop(c.node))
    <3>1. CASE \E x \in Listed(q) : c = [node |-> x, scope |-> s, loop |-> l]
      BY <1>7, <3>1
    <3>2. CASE c \in Listed(Tail(todo))
      BY <1>1, <1>2, <3>2 DEF ResolverCalls
    <3>3. QED BY <1>4, <3>1, <3>2
  <2>2. QED BY <1>6, <2>1 DEF ResolverCalls
<1>9. \A n \in Node : RightSymbol(n)' /\ UniqueSymbol(n)'
  <2>1. \A n \in Node : RightSymbol(n) /\ UniqueSymbol(n)
    BY <1>1 DEF Progress, SymbolsUnique, RightSymbol, UniqueSymbol
  <2>2. ASSUME NEW n \in Node PROVE RightSymbol(n)' /\ UniqueSymbol(n)'
    <3>1. CASE n = t
      BY <3>1
    <3>2. CASE n # t
      BY <2>1, <3>2, SymbolsKept
    <3>3. QED BY <3>1, <3>2
  <2>3. QED BY <2>2
<1>10. \A n \in ToCome \cap Analysed : n = This \/ n \in ToCome'
  <2> DEFINE S  == {c.node : c \in Listed(todo)}
             S2 == {c.node : c \in Listed(todo')}
  <2>1. ToCome = WithBelow(S) /\ ToCome' = WithBelow(S2)
    <3>1. \A n : Below(n)' = Below(n)
      BY <1>1 DEF Below
    <3>2. ToCome' = S2 \cup UNION {Below(n)' : n \in S2}
      BY DEF ToCome, WithBelow
    <3>3. ToCome' = S2 \cup UNION {Below(n) : n \in S2}
      BY <3>1, <3>2
    <3>4. QED BY <3>3 DEF ToCome, WithBelow
  <2>2. S = {This} \cup {c.node : c \in Listed(Tail(todo))}
    BY <1>2 DEF This
  <2>3. S2 = Listed(q) \cup {c.node : c \in Listed(Tail(todo))}
    <3> DEFINE R == {[node |-> x, scope |-> s, loop |-> l] : x \in Listed(q)}
    <3>1. {c.node : c \in R} = Listed(q)
      <4>1. ASSUME NEW x \in Listed(q) PROVE x \in {c.node : c \in R}
        <5>1. [node |-> x, scope |-> s, loop |-> l] \in R /\ [node |-> x, scope |-> s, loop |-> l].node = x
          OBVIOUS
        <5> HIDE DEF R
        <5>2. QED BY <5>1
      <4>2. ASSUME NEW c \in R PROVE c.node \in Listed(q)
        OBVIOUS
      <4> HIDE DEF R
      <4>3. QED BY <4>1, <4>2
    <3>2. Listed(todo') = R \cup Listed(Tail(todo))
      BY <1>4
    <3> HIDE DEF R
    <3>3. S2 = {c.node : c \in R} \cup {c.node : c \in Listed(Tail(todo))}
      BY <3>2
    <3>4. QED BY <3>1, <3>3
  <2> HIDE DEF S, S2
  <2>4. ASSUME NEW n \in Analysed, n \in Below(This) PROVE n \in WithBelow(S2)
    <3>1. PICK x \in Listed(program.parts[This]) : n = x \/ n \in Below(x)
      BY <1>1, <1>2, <2>4, BelowSteps
    <3>2. x \in Node
      BY <1>1, <1>2, TreeFacts
    <3>3. ~Is(x, {"New"})
      BY <2>4, <3>1, <3>2 DEF Analysed, WithBelow
    <3>4. x \in S2
      BY <2>3, <3>1, <3>3
    <3>5. QED BY <3>1, <3>4 DEF WithBelow
  <2>5. QED BY <2>1, <2>2, <2>3, <2>4 DEF WithBelow
<1>11. ASSUME NEW n \in Analysed PROVE n \in ToCome' \/ Settled(n)'
  <2>1. n \in ToCome \/ Settled(n)
    BY <1>1 DEF Progress
  <2>2. n \in Node
    BY <1>1, AnalysedFacts
  <2>3. n # This /\ Settled(n) => Settled(n)'
    BY <1>1, <2>2, SameNames
  <2>4. CASE n = t
    BY <2>4
  <2>5. CASE n # t
    BY <1>10, <2>1, <2>3, <2>5
  <2>6. QED BY <2>4, <2>5
<1>12. Progress' /\ SymbolsUnique'
  BY <1>1, <1>6, <1>9, <1>11 DEF Progress, SymbolsUnique, RightSymbol, UniqueSymbol
<1>13. QED BY <1>1, <1>5, <1>8, <1>12, ScopesKept DEF IInv

\* The resolver goes on from a node that is neither a name nor a break.
LEMMA WalkOn ==
  ASSUME IInv, phase = "names", thrown = NIL, todo # <<>>,
         NEW q \in Seq(Node), NEW r, NEW l \in Nat, Walk(q, r, l), r = ScopeOfParts(This, Scope),
         ~Is(This, {"Symbol", "TypeName", "Break"}),
         \A x \in Listed(q) : x \in Listed(program.parts[This]) /\ ~Is(x, {"New"}),
         \A x \in Listed(program.parts[This]) : x \in Listed(q) \/ Is(x, {"New"}),
         l > 0 <=> Loop > 0 \/ Is(This, {"For", "While"})
  PROVE  IInv'
<1>1. /\ ScopesSame /\ UNCHANGED <<phase, thrown>> /\ symbolPtr' = symbolPtr
      /\ Calls(q, ScopeOfParts(This, Scope), l)
  BY DEF Walk, ScopesSame
<1>2. PICK t : t = This
  OBVIOUS
<1>3. /\ t \in Node /\ TypeOK /\ Progress /\ SymbolsUnique /\ program' = program
  BY <1>1, <1>2, VisitFacts DEF IInv, ScopesSame
<1>4. ~IsName(t) /\ ~Is(t, {"Break"})
  BY <1>2 DEF IsName, Is
<1>5. Settled(t)'
  <2>1. Settled(t)
    BY <1>4 DEF Settled, Offence
  <2>2. QED BY <1>1, <2>1, SameNames
<1>6. RightSymbol(t)' /\ UniqueSymbol(t)'
  <2>1. RightSymbol(t) /\ UniqueSymbol(t)
    BY <1>3 DEF Progress, SymbolsUnique, RightSymbol, UniqueSymbol
  <2>2. QED BY <1>1, <2>1, SymbolsKept
<1>7. symbolPtr' \in [Node -> Node \cup {0} \cup {BuiltinCode(x) : x \in Builtin}]
  BY <1>1, <1>3 DEF TypeOK
<1>8. QED BY <1>1, <1>2, <1>5, <1>6, <1>7, WalkInv

\* It goes on to all parts of such a node.
LEMMA WalkParts ==
  ASSUME IInv, NEW K, Visit(K), NEW r, NEW l \in Nat, Walk(program.parts[This], r, l),
         r = ScopeOfParts(This, Scope),
         ~Is(This, {"Symbol", "TypeName", "Break", "Class"}),
         l > 0 <=> Loop > 0 \/ Is(This, {"For", "While"})
  PROVE  IInv'
<1>1. phase = "names" /\ thrown = NIL /\ todo # <<>> /\ program \in Programs
  BY DEF Visit, At, IInv
<1>2. This \in Node
  BY <1>1, VisitFacts
<1>3. program.parts[This] \in Seq(Node)
  BY <1>1, <1>2, TreeFacts
<1>4. ~Is(This, {"Symbol", "TypeName", "Break"}) /\ ~Is(This, {"Class"})
  BY DEF Is
<1>5. \A x \in Listed(program.parts[This]) : ~Is(x, {"New"})
  BY <1>1, <1>2, <1>4, OtherParts
<1>6. QED BY <1>1, <1>3, <1>4, <1>5, WalkOn

\* The analysis is given up.
LEMMA StopInv ==
  ASSUME IInv, ScopesSame, UNCHANGED <<todo, symbolPtr, phase>>, thrown' \in Errors
  PROVE  IInv'
<1>1. /\ program \in Programs /\ TypeOK /\ ResolverCalls /\ Progress /\ SymbolsUnique
      /\ program' = program /\ parent' = parent /\ phase = "names" /\ phase' = "names"
      /\ todo' = todo /\ symbolPtr' = symbolPtr
  BY DEF IInv, ScopesSame
<1>2. TypeOK'
  BY <1>1 DEF TypeOK, ScopesSame
<1>3. thrown' # NIL
  BY TreesAssumption
<1>4. \A n \in Node : RightSymbol(n)' /\ UniqueSymbol(n)'
  <2>1. \A n \in Node : RightSymbol(n) /\ UniqueSymbol(n)
    BY <1>1 DEF Progress, SymbolsUnique, RightSymbol, UniqueSymbol
  <2>2. QED BY <1>1, <2>1, SymbolsKept
<1>5. Progress' /\ SymbolsUnique'
  BY <1>1, <1>3, <1>4 DEF Progress, SymbolsUnique, RightSymbol, UniqueSymbol
<1>6. ResolverCalls'
  <2>1. /\ Analysed' = Analysed
        /\ \A n : (InLoop(n)' <=> InLoop(n)) /\ \A K : Is(n, K)' <=> Is(n, K)
        /\ \A n, s : RightScope(n, s)' <=> RightScope(n, s)
    BY <1>1, SameProgram, SameNames
  <2>2. QED BY <1>1, <2>1 DEF ResolverCalls
<1>7. QED BY <1>1, <1>2, <1>5, <1>6, ScopesKept DEF IInv

LEMMA BuiltinFacts == \A x \in Builtin : BuiltinCode(x) \in Int /\ BuiltinCode(x) < 0
<1>1. ASSUME NEW x \in Builtin PROVE BuiltinCode(x) \in Int /\ BuiltinCode(x) < 0
  <2>1. PICK i \in 1 .. Len(BuiltinNames) : BuiltinNames[i] = x
    BY DEF Builtin
  <2> DEFINE j == CHOOSE j \in 1 .. Len(BuiltinNames) : BuiltinNames[j] = x
  <2>2. j \in Int /\ j >= 1
    BY <2>1
  <2>3. BuiltinCode(x) = -j
    BY DEF BuiltinCode
  <2> HIDE DEF j
  <2>4. QED BY <2>2, <2>3
<1>2. QED BY <1>1

\* One hit is the only one.
LEMMA OneHit ==
  ASSUME program \in Programs, NEW h, OneSource(h), Cardinality(h) = 1
  PROVE  \E d : /\ h = {d} /\ d # 0
                /\ \/ \E x \in Builtin : d = BuiltinCode(x)
                   \/ d \in Node /\ \E c \in Node : Made(c) /\ \E x : h = OfName(x, c)
                /\ d > 0 => d \in Node
<1>1. IsFiniteSet(h)
  <2>1. CASE h = {} \/ \E x \in Builtin : h = {BuiltinCode(x)}
    BY <2>1, FS_EmptySet, FS_Singleton
  <2>2. ASSUME NEW c \in Node, NEW x, h = OfName(x, c) PROVE IsFiniteSet(h)
    <3>1. h \in SUBSET Node
      BY <2>2, DeclaresFacts DEF OfName
    <3>2. IsFiniteSet(Node)
      BY TreesAssumption
    <3>3. QED BY <3>1, <3>2, FS_Subset
  <2>3. QED BY <2>1, <2>2 DEF OneSource
<1>2. PICK d : h = {d}
  BY <1>1, FS_Singleton
<1>3. CASE \E x \in Builtin : d = BuiltinCode(x)
  <2>1. d \in Int /\ d < 0
    BY <1>3, BuiltinFacts
  <2>2. QED BY <1>2, <1>3, <2>1
<1>4. CASE \E c \in Node : Made(c) /\ \E x : h = OfName(x, c)
  <2>1. d \in Node
    BY <1>2, <1>4, DeclaresFacts DEF OfName
  <2>2. d # 0
    BY <2>1, TreesAssumption
  <2>3. QED BY <1>2, <1>4, <2>1, <2>2
<1>5. QED BY <1>2, <1>3, <1>4 DEF OneSource

LEMMA OnSymbolInv == ASSUME IInv, OnSymbol PROVE IInv'
<1> DEFINE found == FindSymbol(This, Scope)
           hits == found.hits
<1>1. /\ phase = "names" /\ phase' = phase /\ thrown = NIL /\ todo # <<>> /\ Is(This, {"Symbol", "TypeName"})
      /\ ScopesSame
      /\ program \in Programs /\ TypeOK /\ Progress /\ SymbolsUnique /\ program' = program /\ parent' = parent
  BY DEF OnSymbol, Visit, At, ScopesSame, IInv
<1>2. PICK t : t = This
  OBVIOUS
<1>3. ~Is(t, Openers) /\ ~Is(t, {"For", "While", "Break", "Class"}) /\ IsName(t)
  BY <1>1, <1>2 DEF Is, IsName, Openers, ScopeKinds
<1>4. t \in Node /\ Scope \in Node \cup {0} /\ Loop \in Nat /\ RightScope(t, Scope)
  BY <1>1, <1>2, <1>3, VisitFacts
<1>5. /\ Result(found) /\ Meaning(t) = AsMeaning(found)
  BY <1>1, <1>2, <1>4, FindSymbolMeans DEF SearchContext, IInv
<1>6. CASE found.error # NIL
  <2>1. thrown' = found.error /\ UNCHANGED <<todo, symbolPtr>>
    BY <1>6 DEF OnSymbol
  <2>2. thrown' \in Errors
    BY <1>5, <1>6, <2>1 DEF Result
  <2>3. QED BY <1>1, <2>1, <2>2, StopInv
<1>7. CASE found.error = NIL
  <2>1. /\ symbolPtr' = [symbolPtr EXCEPT ![t] =
             IF Cardinality(hits) = 1 THEN CHOOSE d \in hits : TRUE ELSE @]
        /\ Calls(program.parts[This], Scope, Loop) /\ UNCHANGED thrown
    BY <1>2, <1>7 DEF OnSymbol
  <2>2. OneSource(hits) /\ Meaning(t).ds = hits /\ Offence(t) = NIL
    BY <1>3, <1>5, <1>7 DEF AsMeaning, Result, Offence
  <2>3. /\ program.parts[This] \in Seq(Node) /\ ScopeOfParts(This, Scope) = Scope
        /\ \A x \in Listed(program.parts[This]) : ~Is(x, {"New"})
        /\ Loop > 0 <=> Loop > 0 \/ Is(This, {"For", "While"})
    <3>1. ~Is(t, {"For", "While"}) /\ ~Is(t, {"Class"})
      BY <1>3 DEF Is
    <3>2. QED BY <1>1, <1>2, <1>3, <1>4, <3>1, TreeFacts, OtherParts DEF ScopeOfParts
  <2>4. RightSymbol(t) /\ UniqueSymbol(t)
    BY <1>1, <1>4 DEF Progress, SymbolsUnique, RightSymbol, UniqueSymbol
  <2>5. /\ \A m : Declares(m)' = Declares(m) /\ (Made(m)' <=> Made(m))
        /\ IsName(t)' /\ Meaning(t)' = Meaning(t) /\ Offence(t)' = Offence(t)
    BY <1>1, <1>3, SameProgram, SameMeaning DEF Made
  <2>6. symbolPtr \in [Node -> Node \cup {0} \cup {BuiltinCode(x) : x \in Builtin}]
    BY <1>1 DEF TypeOK
  <2> HIDE DEF found, hits
  <2>7. CASE Cardinality(hits) = 1
    <3>1. PICK d : /\ hits = {d} /\ d # 0
                   /\ \/ \E x \in Builtin : d = BuiltinCode(x)
                      \/ d \in Node /\ \E c \in Node : Made(c) /\ \E x : hits = OfName(x, c)
                   /\ d > 0 => d \in Node
      BY <1>1, <2>2, <2>7, OneHit
    <3>2. symbolPtr' = [symbolPtr EXCEPT ![t] = d]
      BY <2>1, <2>7, <3>1
    <3>3. symbolPtr' \in [Node -> Node \cup {0} \cup {BuiltinCode(x) : x \in Builtin}]
          /\ symbolPtr'[t] = d /\ \A n \in Node : n # t => symbolPtr'[n] = symbolPtr[n]
      BY <1>4, <2>6, <3>1, <3>2
    <3>4. Settled(t)'
      BY <2>2, <2>5, <3>1, <3>3 DEF Settled
    <3>5. RightSymbol(t)'
      <4>1. (CHOOSE x \in hits : TRUE) = d
        BY <3>1
      <4>2. QED BY <2>2, <2>5, <2>7, <3>3, <4>1 DEF RightSymbol
    <3>6. UniqueSymbol(t)'
      <4>1. SUFFICES ASSUME d > 0
                     PROVE \E b \in Node :
                              /\ Made(b) /\ d \in Declares(b)
                              /\ \A e \in Declares(b) : program.name[e] = program.name[d] => e = d
        BY <1>1, <2>5, <3>3 DEF UniqueSymbol
      <4>2. ~\E x \in Builtin : d = BuiltinCode(x)
        BY <4>1, BuiltinFacts
      <4>3. PICK c \in Node : Made(c) /\ \E x : hits = OfName(x, c)
        BY <3>1, <4>2
      <4>4. PICK x : hits = OfName(x, c)
        BY <4>3
      <4>5. QED BY <3>1, <4>3, <4>4 DEF OfName
    <3>7. QED BY <1>1, <1>2, <1>4, <2>1, <2>3, <3>3, <3>4, <3>5, <3>6, WalkInv
  <2>8. CASE Cardinality(hits) # 1
    <3>1. symbolPtr' = symbolPtr
      BY <1>4, <2>1, <2>6, <2>8
    <3>2. symbolPtr[t] = 0
      BY <2>2, <2>4, <2>8 DEF RightSymbol
    <3>3. Settled(t)'
      BY <2>2, <2>5, <2>8, <3>1 DEF Settled
    <3>4. RightSymbol(t)' /\ UniqueSymbol(t)'
      BY <1>1, <2>4, <3>1, SymbolsKept
    <3>5. /\ symbolPtr' \in [Node -> Node \cup {0} \cup {BuiltinCode(x) : x \in Builtin}]
          /\ \A n \in Node : n # t => symbolPtr'[n] = symbolPtr[n]
      BY <2>6, <3>1
    <3>6. QED BY <1>1, <1>2, <1>4, <2>1, <2>3, <3>3, <3>4, <3>5, WalkInv
  <2>9. QED BY <2>7, <2>8
<1>8. QED BY <1>6, <1>7

LEMMA OnBreakInv == ASSUME IInv, OnBreak PROVE IInv'
<1>1. /\ phase = "names" /\ phase' = phase /\ thrown = NIL /\ todo # <<>> /\ Is(This, {"Break"})
      /\ ScopesSame /\ symbolPtr' = symbolPtr
      /\ program \in Programs /\ TypeOK /\ Progress /\ SymbolsUnique /\ program' = program /\ parent' = parent
  BY DEF OnBreak, Visit, At, ScopesSame, IInv
<1>2. PICK t : t = This
  OBVIOUS
<1>3. t \in Node /\ Loop \in Nat /\ (Loop > 0 <=> InLoop(t))
  BY <1>1, <1>2, VisitFacts
<1>4. CASE Loop = 0
  <2>1. thrown' = "cannot_use_break_here" /\ todo' = todo
    BY <1>4 DEF OnBreak
  <2>2. QED BY <1>1, <2>1, StopInv DEF Errors
<1>5. CASE Loop # 0
  <2>1. Calls(<<>>, Scope, Loop) /\ thrown' = thrown
    BY <1>5 DEF OnBreak
  <2>2. /\ <<>> \in Seq(Node) /\ Listed(<<>>) = {}
    BY DEF Listed
  <2>3. ~Is(t, Openers) /\ ~Is(t, {"For", "While"}) /\ ~IsName(t)
    BY <1>1, <1>2 DEF Is, Openers, ScopeKinds, IsName
  <2>4. Listed(program.parts[This]) = {}
    BY <1>1, <1>2, <1>3, OtherParts
  <2>5. Settled(t)'
    <3>1. Settled(t)
      BY <1>3, <1>5, <2>3 DEF Settled, Offence
    <3>2. QED BY <1>1, <3>1, SameNames
  <2>6. RightSymbol(t)' /\ UniqueSymbol(t)'
    <3>1. RightSymbol(t) /\ UniqueSymbol(t)
      BY <1>1, <1>3 DEF Progress, SymbolsUnique, RightSymbol, UniqueSymbol
    <3>2. QED BY <1>1, <3>1, SymbolsKept
  <2>7. Calls(<<>>, ScopeOfParts(This, Scope), Loop)
    BY <1>2, <2>1, <2>3 DEF ScopeOfParts
  <2>8. symbolPtr' \in [Node -> Node \cup {0} \cup {BuiltinCode(x) : x \in Builtin}]
    BY <1>1 DEF TypeOK
  <2> DEFINE e == <<>>
  <2>9. e \in Seq(Node) /\ Listed(e) = {} /\ Calls(e, ScopeOfParts(This, Scope), Loop)
    BY <2>2, <2>7
  <2> HIDE DEF e
  <2>10. QED BY <1>1, <1>2, <1>3, <2>1, <2>3, <2>4, <2>5, <2>6, <2>8, <2>9, WalkInv
<1>6. QED BY <1>4, <1>5

LEMMA OnClassInv == ASSUME IInv, OnClass PROVE IInv'
<1>1. /\ phase = "names" /\ thrown = NIL /\ todo # <<>> /\ Is(This, {"Class"}) /\ program \in Programs
      /\ Walk(Parts(This, {"Let"}) \o Parts(This, {"Function"}), ScopePtr(This), Loop)
  BY DEF OnClass, Visit, At, IInv
<1>2. This \in Node /\ Loop \in Nat
  BY <1>1, VisitFacts
<1> DEFINE q == Parts(This, {"Let"}) \o Parts(This, {"Function"})
<1>3. q \in Seq(Node) /\ Listed(q) = PartSet(This, {"Let"}) \cup PartSet(This, {"Function"})
  BY <1>1, <1>2, PartsFacts, JoinFacts
<1>4. \A x \in Listed(q) : x \in Listed(program.parts[This]) /\ ~Is(x, {"New"})
  BY <1>1, <1>2, <1>3, PartsFacts DEF Is
<1>5. ASSUME NEW x \in Listed(program.parts[This]) PROVE x \in Listed(q) \/ Is(x, {"New"})
  <2>1. Is(x, {"Let", "Function", "New"})
    BY <1>1, <1>2, OtherParts
  <2>2. QED BY <1>1, <1>2, <1>3, <2>1, PartsFacts DEF Is
<1>6. ScopePtr(This) = ScopeOfParts(This, Scope) /\ ~Is(This, {"Symbol", "TypeName", "Break"})
      /\ ~Is(This, {"For", "While"})
  BY <1>1 DEF ScopeOfParts, Is, Openers, ScopeKinds
<1> HIDE DEF q
<1>7. Walk(q, ScopePtr(This), Loop)
  BY <1>1 DEF q
<1>8. QED BY <1>1, <1>2, <1>3, <1>4, <1>5, <1>6, <1>7, WalkOn

LEMMA OtherVisits ==
  ASSUME IInv, OnScope \/ OnFor \/ OnWhile \/ OnExpr \/ OnPlain
  PROVE  IInv'
<1>1. ASSUME NEW K, Visit(K) PROVE Loop \in Nat /\ Loop + 1 \in Nat /\ Loop + 1 > 0
  BY <1>1, VisitFacts DEF Visit, At
<1>2. CASE OnScope
  <2> DEFINE K == {"Module", "Namespace", "Enum", "Function", "Scope"}
  <2>1. Visit(K) /\ Walk(program.parts[This], ScopePtr(This), Loop)
    BY <1>2 DEF OnScope
  <2>2. /\ ScopePtr(This) = ScopeOfParts(This, Scope)
        /\ ~Is(This, {"Symbol", "TypeName", "Break", "Class"}) /\ ~Is(This, {"For", "While"})
    BY <2>1 DEF Visit, At, ScopeOfParts, Is, Openers, ScopeKinds
  <2> HIDE DEF K
  <2>3. QED BY <1>1, <2>1, <2>2, WalkParts
<1>3. CASE OnFor
  <2>1. Visit({"For"}) /\ Walk(program.parts[This], ScopePtr(This), Loop + 1)
    BY <1>3 DEF OnFor
  <2>2. /\ ScopePtr(This) = ScopeOfParts(This, Scope)
        /\ ~Is(This, {"Symbol", "TypeName", "Break", "Class"}) /\ Is(This, {"For", "While"})
    BY <2>1 DEF Visit, At, ScopeOfParts, Is, Openers, ScopeKinds
  <2>3. QED BY <1>1, <2>1, <2>2, WalkParts
<1>4. CASE OnWhile
  <2>1. Visit({"While"}) /\ Walk(program.parts[This], Scope, Loop + 1)
    BY <1>4 DEF OnWhile
  <2>2. /\ Scope = ScopeOfParts(This, Scope)
        /\ ~Is(This, {"Symbol", "TypeName", "Break", "Class"}) /\ Is(This, {"For", "While"})
    BY <2>1 DEF Visit, At, ScopeOfParts, Is, Openers, ScopeKinds
  <2>3. QED BY <1>1, <2>1, <2>2, WalkParts
<1>5. CASE OnExpr
  <2>1. Visit(Operations) /\ Walk(program.parts[This], Scope, Loop)
    BY <1>5 DEF OnExpr
  <2>2. /\ Scope = ScopeOfParts(This, Scope)
        /\ ~Is(This, {"Symbol", "TypeName", "Break", "Class"}) /\ ~Is(This, {"For", "While"})
    BY <2>1 DEF Visit, At, ScopeOfParts, Is, Openers, ScopeKinds, Operations
  <2>3. QED BY <1>1, <2>1, <2>2, WalkParts
<1>6. CASE OnPlain
  <2> DEFINE K == {"Let", "Arg", "Enumerator", "If", "Try", "Catch"}
  <2>1. Visit(K) /\ Walk(program.parts[This], Scope, Loop)
    BY <1>6 DEF OnPlain
  <2>2. /\ Scope = ScopeOfParts(This, Scope)
        /\ ~Is(This, {"Symbol", "TypeName", "Break", "Class"}) /\ ~Is(This, {"For", "While"})
    BY <2>1 DEF Visit, At, ScopeOfParts, Is, Openers, ScopeKinds
  <2> HIDE DEF K
  <2>3. QED BY <1>1, <2>1, <2>2, WalkParts
<1>7. QED BY <1>2, <1>3, <1>4, <1>5, <1>6

\* The resolver starts when all scopes have been made.
LEMMA ScopesMadeInv == ASSUME IInv, ScopesMade PROVE IInv'
<1> DEFINE c1 == [node |-> 1, scope |-> 0, loop |-> 0]
<1>1. /\ program \in Programs /\ TypeOK /\ ScopeTree /\ ScopesComplete /\ Tables /\ Progress
      /\ program' = program /\ parent' = parent /\ symtable' = symtable /\ letSymbol' = letSymbol
      /\ symbolPtr' = symbolPtr /\ thrown' = thrown
      /\ phase = "scopes" /\ phase' = "names" /\ todo = <<>> /\ todo' = <<c1>>
  BY DEF IInv, ScopesMade
<1>2. 1 \in Node /\ c1 \in Call /\ <<c1>> \in Seq(Call) /\ Listed(<<c1>>) = {c1} /\ Listed(<<>>) = {}
  BY <1>1, TreeFacts DEF Call, Listed
<1>3. TypeOK'
  BY <1>1, <1>2 DEF TypeOK, Call
<1>4. /\ \A n : Declares(n)' = Declares(n) /\ ScopeParts(n)' = ScopeParts(n) /\ (Made(n)' <=> Made(n))
      /\ \A n, K : PartSet(n, K)' = PartSet(n, K) /\ (Is(n, K)' <=> Is(n, K))
      /\ \A n, D : FirstOf(n, D)' = FirstOf(n, D)
      /\ Analysed' = Analysed /\ \A n : InLoop(n)' <=> InLoop(n)
  BY <1>1, SameProgram DEF Made
<1>5. ScopeTree' /\ ScopeCalls'
  BY <1>1, <1>4 DEF ScopeTree, ScopeCalls
<1>6. ScopesComplete'
  <2>1. \A n : ~Awaited(n)
    BY <1>1, <1>2 DEF Awaited
  <2>2. QED BY <1>1, <1>4, <2>1 DEF ScopesComplete
<1>7. Tables'
  BY <1>1, <1>4 DEF Tables
<1>8. ResolverCalls'
  <2>1. 1 \in Analysed
    BY <1>1, AnalysedFacts
  <2>2. Is(1, Openers)
    BY <1>1, TreeFacts DEF Is, Openers, ScopeKinds
  <2>3. ~InLoop(1)
    <3>1. ASSUME NEW l \in Node, 1 \in Below(l) PROVE FALSE
      <4>1. l < 1 /\ l \in Nat /\ l > 0
        BY <1>1, <3>1, BelowFacts, TreeFacts
      <4>2. QED BY <4>1
    <3>2. QED BY <3>1 DEF InLoop
  <2>4. \A c \in Listed(todo') : c.node = 1 /\ c.loop = 0
    BY <1>1, <1>2
  <2>5. QED BY <1>4, <2>1, <2>2, <2>3, <2>4 DEF ResolverCalls
<1>9. \A n \in Node : symbolPtr[n] = 0 /\ thrown = NIL
  BY <1>1 DEF Progress
<1>10. Analysed \subseteq ToCome'
  <2> DEFINE S2 == {c.node : c \in Listed(todo')}
  <2>1. S2 = {1}
    BY <1>1, <1>2
  <2>2. \A n : Below(n)' = Below(n)
    BY <1>1 DEF Below
  <2>3. ToCome' = S2 \cup UNION {Below(n)' : n \in S2}
    BY DEF ToCome, WithBelow
  <2> HIDE DEF S2
  <2>4. ToCome' = WithBelow({1})
    BY <2>1, <2>2, <2>3 DEF WithBelow
  <2>5. QED BY <2>4 DEF Analysed
<1>11. Progress' /\ SymbolsUnique'
  BY <1>1, <1>4, <1>9, <1>10 DEF Progress, SymbolsUnique
<1>12. QED BY <1>1, <1>3, <1>5, <1>6, <1>7, <1>8, <1>11 DEF IInv

LEMMA InitIInv == Init => IInv
<1> SUFFICES ASSUME Init PROVE IInv
  OBVIOUS
<1> DEFINE c1 == [node |-> 1, scope |-> 0, loop |-> 0]
<1>1. /\ program \in Programs /\ parent = [n \in Node |-> -1] /\ symtable = [n \in Node |-> <<>>]
      /\ letSymbol = [n \in Node |-> 0] /\ todo = <<c1>> /\ symbolPtr = [n \in Node |-> 0]
      /\ phase = "scopes" /\ thrown = NIL
  BY DEF Init, ScopesInit
<1>2. program \in Program /\ 1 \in Node
  BY <1>1, TreeFacts
<1>3. c1 \in Call /\ todo \in Seq(Call) /\ Listed(todo) = {c1}
  BY <1>1, <1>2 DEF Call, Listed
<1>4. symtable \in [Node -> Seq(Node)] /\ \A n \in Node : Listed(symtable[n]) = {}
  <2> DEFINE e == <<>>
  <2>1. e \in Seq(Node) /\ Listed(e) = {} /\ symtable = [n \in Node |-> e]
    BY <1>1 DEF Listed
  <2> HIDE DEF e
  <2>2. QED BY <2>1
<1>5. TypeOK
  BY <1>1, <1>2, <1>3, <1>4 DEF TypeOK, Call
<1>6. \A n \in Node : ~Made(n)
  BY <1>1 DEF Made
<1>7. ScopeTree /\ Tables /\ SymbolsUnique
  BY <1>1, <1>4, <1>6 DEF ScopeTree, Tables, SymbolsUnique
<1>8. ScopeCalls /\ ScopesComplete
  <2>1. c1 \in Listed(todo) /\ \A c \in Listed(todo) : c.node = 1 /\ c.scope = 0
    BY <1>3
  <2>2. Awaited(1)
    BY <2>1 DEF Awaited
  <2>3. QED BY <1>1, <1>6, <2>1, <2>2 DEF ScopeCalls, ScopesComplete
<1>9. ResolverCalls /\ Progress
  BY <1>1 DEF ResolverCalls, Progress
<1>10. QED BY <1>1, <1>5, <1>7, <1>8, <1>9 DEF IInv

LEMMA NextIInv == IInv /\ [Next]_vars => IInv'
<1> SUFFICES ASSUME IInv, [Next]_vars PROVE IInv'
  OBVIOUS
<1>1. CASE MakeScopes
  BY <1>1, MakeScopesEffect, MakeInv DEF IInv
<1>2. CASE ScopesMade
  BY <1>2, ScopesMadeInv
<1>3. CASE OnSymbol
  BY <1>3, OnSymbolInv
<1>4. CASE OnBreak
  BY <1>4, OnBreakInv
<1>5. CASE OnClass
  BY <1>5, OnClassInv
<1>6. CASE OnScope \/ OnFor \/ OnWhile \/ OnExpr \/ OnPlain
  BY <1>6, OtherVisits
<1>7. CASE Resolved \/ UNCHANGED vars
  <2>1. /\ program \in Programs /\ TypeOK /\ ScopeTree /\ ScopesComplete /\ Tables /\ ResolverCalls
        /\ Progress /\ SymbolsUnique /\ ScopeCalls
    BY DEF IInv
  <2>2. /\ program' = program /\ parent' = parent /\ symtable' = symtable /\ letSymbol' = letSymbol
        /\ todo' = todo /\ symbolPtr' = symbolPtr /\ thrown' = thrown
        /\ \/ phase # "scopes" /\ phase' = "done"
           \/ phase' = phase
    BY <1>7 DEF Resolved, vars
  <2>3. /\ \A n : Declares(n)' = Declares(n) /\ ScopeParts(n)' = ScopeParts(n) /\ (Made(n)' <=> Made(n))
        /\ \A n, K : PartSet(n, K)' = PartSet(n, K) /\ (Is(n, K)' <=> Is(n, K))
        /\ \A n, D : FirstOf(n, D)' = FirstOf(n, D)
        /\ Analysed' = Analysed /\ \A n : (InLoop(n)' <=> InLoop(n)) /\ (IsName(n)' <=> IsName(n))
        /\ \A n : Meaning(n)' = Meaning(n) /\ Offence(n)' = Offence(n)
        /\ \A n : Enclosing(n)' = Enclosing(n) /\ (InBlind(n)' <=> InBlind(n))
    BY <2>2, SameProgram, SameMeaning DEF Made
  <2>4. \A n : Awaited(n)' <=> Awaited(n)
    BY <2>2 DEF Awaited
  <2>5. ToCome' = ToCome
    BY <2>2 DEF ToCome, WithBelow, Below
  <2>6. TypeOK' /\ ScopeTree' /\ ScopeCalls' /\ Tables' /\ SymbolsUnique'
    BY <2>1, <2>2, <2>3 DEF TypeOK, ScopeTree, ScopeCalls, Tables, SymbolsUnique
  <2>7. ScopesComplete'
    BY <2>1, <2>2, <2>3, <2>4 DEF ScopesComplete
  <2>8. \A n, s : RightScope(n, s)' <=> RightScope(n, s)
    BY <2>3 DEF RightScope
  <2>9. ResolverCalls'
    BY <2>1, <2>2, <2>3, <2>8 DEF ResolverCalls
  <2>10. \A n : Settled(n)' <=> Settled(n)
    BY <2>2, <2>3 DEF Settled
  <2>11. Progress'
    BY <2>1, <2>2, <2>3, <2>5, <2>10 DEF Progress
  <2>12. QED BY <2>1, <2>2, <2>6, <2>7, <2>9, <2>11 DEF IInv
<1>8. QED BY <1>1, <1>2, <1>3, <1>4, <1>5, <1>6, <1>7 DEF Next

\* The invariant holds of every tree and in every state of its analysis.
THEOREM Invariant == Spec => []IInv
<1>1. QED BY InitIInv, NextIInv, PTL DEF Spec

\* The types of the variables: what the scope tree, the symbol tables and the
\* calls still to be made may hold.
THEOREM TypeCorrect == Spec => []TypeOK
<1>1. IInv => TypeOK
  BY DEF IInv
<1>2. QED BY <1>1, Invariant, PTL

\* However the declarations are nested, a scope hangs below that of the nearest
\* construct around its own that has one (SCScope and the other constructors).
THEOREM ScopesFollow == Spec => []ScopesFollowSyntax
<1>1. ASSUME IInv, NEW n \in Node, NEW b, b = parent[n], b > 0
      PROVE  /\ n \in Below(b)
             /\ \A m \in Node : parent[m] # -1 /\ n \in Below(m) => m = b \/ b \in Below(m)
  <2>1. program \in Programs /\ TypeOK /\ ScopeTree
    BY <1>1 DEF IInv
  <2>2. b \in Node /\ Made(n)
    BY <1>1, <2>1 DEF TypeOK, Made
  <2>3. b # 0
    BY <2>2, TreesAssumption
  <2>4. n \in Listed(program.parts[b])
    BY <1>1, <2>1, <2>2, <2>3, PartsFacts DEF ScopeTree, ScopeParts
  <2>5. QED BY <2>1, <2>2, <2>4, BelowOfPart
<1>2. IInv => ScopesFollowSyntax
  BY <1>1 DEF ScopesFollowSyntax
<1>3. QED BY <1>2, Invariant, PTL

\* Of a block or a module that declares one name several times, the symbol that
\* a name has got and those of all declarations are one (SCScope,
\* NameResolver::on_expr).
THEOREM SharedSymbols == Spec => []NamesShareSymbols
<1>1. ASSUME IInv, NEW n \in Node, NEW s, s = symbolPtr[n], s > 0, Is(s, {"Let"}),
             NEW b \in Node, s \in PartSet(b, {"Let"}), ~Is(b, {"If"}),
             NEW d \in PartSet(b, {"Let"}), program.name[d] = program.name[s]
      PROVE  letSymbol[d] = s
  <2>1. program \in Programs /\ Tables /\ SymbolsUnique
    BY <1>1 DEF IInv
  <2>2. PICK o \in Node : /\ Made(o) /\ s \in Declares(o)
                          /\ \A e \in Declares(o) : program.name[e] = program.name[s] => e = s
    BY <1>1, <2>1 DEF SymbolsUnique
  <2>3. /\ s \in Listed(program.parts[b])
        /\ \A K : s \in PartSet(o, K) => s \in Listed(program.parts[o])
        /\ PartSet(b, {"Let"}) \subseteq Node
    BY <1>1, <2>1, PartsFacts
  <2>4. /\ \A K : s \in PartSet(o, K) => Is(s, K)
        /\ s = o => Is(o, {"Let"})
    BY <1>1 DEF PartSet
  <2>5. /\ s \in Listed(program.parts[o])
        /\ Is(o, {"Module", "Namespace"}) \/ Is(o, {"If"}) \/ Is(o, {"Scope"})
    BY <1>1, <2>2, <2>3, <2>4 DEF Declares, Is, Items
  <2>6. o = b
    BY <2>1, <2>3, <2>5, TreeFacts
  <2>7. CASE Is(b, {"Module", "Namespace"})
    <3>1. letSymbol[d] = d
      BY <2>1, <2>2, <2>6, <2>7 DEF Tables
    <3>2. d \in Declares(b)
      BY <2>7 DEF Declares, PartSet, Is
    <3>3. QED BY <1>1, <2>2, <2>6, <3>1, <3>2
  <2>8. CASE Is(b, {"Scope"})
    <3> DEFINE D == PartSet(b, {"Let"})
    <3>1. letSymbol[d] = FirstOf(d, D)
      BY <2>1, <2>2, <2>6, <2>8 DEF Tables
    <3>2. FirstOf(s, D) = s
      BY <2>2, <2>6, <2>8 DEF Declares, Is
    <3>3. D \subseteq Node /\ s \in D /\ d \in D
      BY <1>1, <2>3
    <3> HIDE DEF D
    <3>4. FirstOf(d, D) = FirstOf(s, D)
      BY <1>1, <3>3, FirstOfFacts
    <3>5. QED BY <3>1, <3>2, <3>4
  <2>9. QED BY <1>1, <2>5, <2>6, <2>7, <2>8
<1>2. IInv => NamesShareSymbols
  BY <1>1 DEF NamesShareSymbols
<1>3. QED BY <1>2, Invariant, PTL
-----------------------------------------------------------------------------
(***************************************************************************)
(* Resolver implements LexicalScoping.                                     *)
(***************************************************************************)

\* What both say of the tree is the same.
LEMMA SameLexical ==
  /\ \A n, K : Lexical!Is(n, K) <=> Is(n, K)
  /\ \A n : Lexical!IsName(n) <=> IsName(n)
  /\ \A n : Lexical!Meaning(n) = Meaning(n)
  /\ \A n : Lexical!Offence(n) = Offence(n)
  /\ Lexical!Analysed = Analysed
  /\ Lexical!Program = Program
  /\ \A S : Lexical!Cardinality(S) = Cardinality(S)
<1> DEFINE SameSize == \A S : Lexical!Cardinality(S) = Cardinality(S)
<1>0. SameSize
  <2>1. ASSUME NEW S PROVE Lexical!Cardinality(S) = Cardinality(S)
    BY DEF Lexical!Cardinality, Cardinality
  <2>2. QED BY <2>1
<1>1. \A n, K : (Lexical!Is(n, K) <=> Is(n, K)) /\ Lexical!PartSet(n, K) = PartSet(n, K)
  BY DEF Lexical!Is, Is, Lexical!PartSet, PartSet, Lexical!Listed, Listed
<1>2. \A n, D : Lexical!FirstOf(n, D) = FirstOf(n, D)
  BY DEF Lexical!FirstOf, FirstOf
<1>3. \A n : Lexical!Declares(n) = Declares(n)
  BY <1>1, <1>2 DEF Lexical!Declares, Declares, Lexical!Items, Items
<1>4. ASSUME NEW n PROVE Lexical!Below(n) = Below(n)
  <2>1. \A p : Lexical!Listed(p) = Listed(p)
    BY DEF Lexical!Listed, Listed
  <2>2. QED BY <2>1 DEF Lexical!Below, Below
<1>5. \A S : Lexical!WithBelow(S) = WithBelow(S)
  BY <1>4 DEF Lexical!WithBelow, WithBelow
<1>6. \A n : Lexical!Region(n) = Region(n)
  BY <1>1, <1>4, <1>5 DEF Lexical!Region, Region
<1>7. Lexical!Blind = Blind
  BY <1>1 DEF Lexical!Blind, Blind
<1>8. \A n : Lexical!Around(n) = Around(n)
  BY <1>5, <1>6, <1>7 DEF Lexical!Around, Around
<1>9. \A x, S : Lexical!Innermost(x, S) = Innermost(x, S)
  BY <1>3, <1>4 DEF Lexical!Innermost, Innermost
<1>10. \A x : Lexical!BuiltinCode(x) = BuiltinCode(x) /\ Lexical!Builtin = Builtin
  BY DEF Lexical!BuiltinCode, BuiltinCode, Lexical!Builtin, Builtin, Lexical!BuiltinNames, BuiltinNames,
         Lexical!BuiltinTypes, BuiltinTypes, Lexical!BuiltinFuncs, BuiltinFuncs
<1>11. ASSUME NEW x, NEW last \in BOOLEAN, NEW S
       PROVE  Lexical!MeaningOfPart(x, last, S) = MeaningOfPart(x, last, S)
  <2> DEFINE ds == Innermost(x, S)
             M(h, e, o) == [ds |-> h, error |-> e, over |-> o]
             Why(q) == IF q THEN "invalid_scope_resolution" ELSE "segfault"
             codes  == {BuiltinCode(y) : y \in Builtin \cap {x}}
             scopes == \A d \in ds : Is(d, {"Namespace", "Class", "Enum"})
             why    == Why(\A d \in ds : Is(d, {"Function"}))
             lexDs     == Lexical!Innermost(x, S)
             lexCodes  == {Lexical!BuiltinCode(y) : y \in Lexical!Builtin \cap {x}}
             lexScopes == \A d \in lexDs : Lexical!Is(d, {"Namespace", "Class", "Enum"})
             lexWhy    == Why(\A d \in lexDs : Lexical!Is(d, {"Function"}))
  <2>1. MeaningOfPart(x, last, S)
          = IF ds = {} THEN M(codes, NIL, TRUE)
            ELSE IF last THEN M(ds, NIL, TRUE)
            ELSE IF Cardinality(ds) > 1 THEN M({}, "ambiguous_symbol_name", TRUE)
            ELSE IF scopes THEN M(ds, NIL, FALSE)
            ELSE M({}, why, TRUE)
    BY DEF MeaningOfPart
  <2>2. Lexical!MeaningOfPart(x, last, S)
          = IF lexDs = {} THEN M(lexCodes, NIL, TRUE)
            ELSE IF last THEN M(lexDs, NIL, TRUE)
            ELSE IF Cardinality(lexDs) > 1 THEN M({}, "ambiguous_symbol_name", TRUE)
            ELSE IF lexScopes THEN M(lexDs, NIL, FALSE)
            ELSE M({}, lexWhy, TRUE)
    BY <1>0 DEF Lexical!MeaningOfPart
  <2>3. lexCodes = codes
    BY <1>10
  <2>4. lexDs = ds
    BY <1>9
  <2> HIDE DEF ds, lexDs
  <2>5. (lexScopes <=> scopes) /\ lexWhy = why
    BY <1>1, <2>4
  <2> HIDE DEF codes, scopes, why, lexCodes, lexScopes, lexWhy
  <2>6. QED BY <2>1, <2>2, <2>3, <2>4, <2>5
<1>12. ASSUME NEW n PROVE Lexical!Meaning(n) = Meaning(n)
  <2> DEFINE path == PathOf(n)
             Body(M, i) == IF i = 1 THEN MeaningOfPart(path[i], Last(n, i), Around(n))
                           ELSE IF M[i - 1].over THEN M[i - 1]
                           ELSE LET d == CHOOSE x \in M[i - 1].ds : TRUE IN
                                MeaningOfPart(path[i], Last(n, i), {d} \cup Around(d))
             LexBody(M, i) == IF i = 1 THEN Lexical!MeaningOfPart(path[i], Last(n, i), Lexical!Around(n))
                              ELSE IF M[i - 1].over THEN M[i - 1]
                              ELSE LET d == CHOOSE x \in M[i - 1].ds : TRUE IN
                                   Lexical!MeaningOfPart(path[i], Last(n, i), {d} \cup Lexical!Around(d))
             m == CHOOSE M : M = [i \in 1 .. Len(path) |-> Body(M, i)]
             l == CHOOSE M : M = [i \in 1 .. Len(path) |-> LexBody(M, i)]
  <2>1. Meaning(n) = m[Len(path)]
    BY DEF Meaning, PathOf, Last
  <2>2. Lexical!Meaning(n) = l[Len(path)]
    BY DEF Lexical!Meaning, PathOf, Last
  <2>3. ASSUME NEW M, NEW i PROVE LexBody(M, i) = Body(M, i)
    <3>1. Last(n, i) \in BOOLEAN
      BY DEF Last
    <3>2. \A x, S : Lexical!MeaningOfPart(x, Last(n, i), S) = MeaningOfPart(x, Last(n, i), S)
      BY <1>11, <3>1
    <3>3. QED BY <1>8, <3>2
  <2> HIDE DEF Body, LexBody
  <2>4. l = m
    BY <2>3
  <2>5. QED BY <2>1, <2>2, <2>4
<1>13. \A n : Lexical!IsName(n) <=> IsName(n)
  BY <1>1 DEF Lexical!IsName, IsName
<1>14. \A n : Lexical!InLoop(n) <=> InLoop(n)
  BY <1>1, <1>4 DEF Lexical!InLoop, InLoop
<1>15. \A n : Lexical!Offence(n) = Offence(n)
  BY <1>1, <1>12, <1>13, <1>14 DEF Lexical!Offence, Offence
<1>16. Lexical!Analysed = Analysed
  BY <1>1, <1>5 DEF Lexical!Analysed, Analysed
<1>17. Lexical!Program = Program
  BY DEF Lexical!Program, Program, Lexical!Kind, Kind, Lexical!Operations, Operations
<1>18. QED BY <1>0, <1>1, <1>12, <1>13, <1>15, <1>16, <1>17

LEMMA LexicalInit == Init => Lexical!Init
<1> SUFFICES ASSUME Init PROVE Lexical!Init
  OBVIOUS
<1>1. program \in Programs /\ symbolPtr = [n \in Node |-> 0] /\ phase = "scopes" /\ thrown = NIL
  BY DEF Init, ScopesInit
<1>2. program \in Program
  BY <1>1, TreeFacts
<1>3. QED BY <1>1, <1>2, SameLexical DEF Lexical!Init

\* A visit of a name that is not given up resolves it or finds that it has been
\* resolved, or that it has not one meaning.
LEMMA LexicalOnSymbol ==
  ASSUME IInv, OnSymbol
  PROVE  \/ \E n \in Node : Lexical!Resolve(n) \/ Lexical!GiveUp(n)
         \/ UNCHANGED Lexical!lexicalVars
<1> DEFINE found == FindSymbol(This, Scope)
           hits == found.hits
<1>1. /\ phase = "names" /\ phase' = phase /\ thrown = NIL /\ todo # <<>> /\ Is(This, {"Symbol", "TypeName"})
      /\ program \in Programs /\ TypeOK /\ Progress /\ program' = program
  BY DEF OnSymbol, Visit, At, IInv
<1>2. PICK t : t = This
  OBVIOUS
<1>3. ~Is(t, Openers) /\ IsName(t) /\ Is(t, {"Symbol", "TypeName", "Break"})
  BY <1>1, <1>2 DEF Is, IsName, Openers, ScopeKinds
<1>4. t \in Node /\ t \in Analysed /\ Scope \in Node \cup {0} /\ RightScope(t, Scope)
  BY <1>1, <1>2, <1>3, VisitFacts
<1>5. Meaning(t) = AsMeaning(found)
  BY <1>1, <1>2, <1>4, FindSymbolMeans DEF SearchContext, IInv
<1>6. Meaning(t).error = found.error /\ Meaning(t).ds = hits
  BY <1>5 DEF AsMeaning
<1>7. CASE found.error # NIL
  <2>1. thrown' = found.error /\ symbolPtr' = symbolPtr
    BY <1>7 DEF OnSymbol
  <2>2. Offence(t) = found.error
    BY <1>3, <1>6 DEF Offence
  <2> HIDE DEF found, hits
  <2>3. Lexical!GiveUp(t)
    BY <1>1, <1>3, <1>4, <1>7, <2>1, <2>2, SameLexical DEF Lexical!GiveUp
  <2>4. QED BY <1>4, <2>3
<1>8. CASE found.error = NIL
  <2>1. /\ symbolPtr' = [symbolPtr EXCEPT ![t] =
             IF Cardinality(hits) = 1 THEN CHOOSE d \in hits : TRUE ELSE @]
        /\ thrown' = thrown
    BY <1>2, <1>8 DEF OnSymbol
  <2>2. symbolPtr \in [Node -> Node \cup {0} \cup {BuiltinCode(x) : x \in Builtin}]
    BY <1>1 DEF TypeOK
  <2>3. symbolPtr[t] # 0 => Cardinality(hits) = 1 /\ symbolPtr[t] = CHOOSE d \in hits : TRUE
    BY <1>1, <1>4, <1>6 DEF Progress
  <2> HIDE DEF found, hits
  <2>4. CASE symbolPtr[t] = 0 /\ Cardinality(hits) = 1
    <3>1. symbolPtr' = [symbolPtr EXCEPT ![t] = CHOOSE d \in hits : TRUE]
      BY <2>1, <2>4
    <3>2. Lexical!Resolve(t)
      BY <1>1, <1>3, <1>4, <1>6, <2>1, <2>4, <3>1, SameLexical DEF Lexical!Resolve
    <3>3. QED BY <1>4, <3>2
  <2>5. CASE ~(symbolPtr[t] = 0 /\ Cardinality(hits) = 1)
    <3>1. symbolPtr' = [symbolPtr EXCEPT ![t] = symbolPtr[t]]
      BY <2>1, <2>3, <2>5
    <3>2. symbolPtr' = symbolPtr
      BY <1>4, <2>2, <3>1
    <3>3. QED BY <1>1, <2>1, <3>2 DEF Lexical!lexicalVars
  <2>6. QED BY <2>4, <2>5
<1>9. QED BY <1>7, <1>8

LEMMA LexicalOnBreak ==
  ASSUME IInv, OnBreak
  PROVE  (\E n \in Node : Lexical!GiveUp(n)) \/ UNCHANGED Lexical!lexicalVars
<1>1. /\ phase = "names" /\ phase' = phase /\ thrown = NIL /\ todo # <<>> /\ Is(This, {"Break"})
      /\ symbolPtr' = symbolPtr /\ program' = program
  BY DEF OnBreak, Visit, At
<1>2. PICK t : t = This
  OBVIOUS
<1>3. t \in Node /\ t \in Analysed /\ Loop \in Nat /\ (Loop > 0 <=> InLoop(t))
  BY <1>1, <1>2, VisitFacts
<1>4. ~IsName(t) /\ Is(t, {"Break"}) /\ Is(t, {"Symbol", "TypeName", "Break"})
  BY <1>1, <1>2 DEF Is, IsName
<1>5. CASE Loop = 0
  <2>1. thrown' = "cannot_use_break_here"
    BY <1>5 DEF OnBreak
  <2>2. Offence(t) = "cannot_use_break_here"
    BY <1>3, <1>4, <1>5 DEF Offence
  <2>3. NIL # "cannot_use_break_here"
    BY TreesAssumption DEF Errors
  <2>4. Lexical!GiveUp(t)
    BY <1>1, <1>3, <1>4, <2>1, <2>2, <2>3, SameLexical DEF Lexical!GiveUp
  <2>5. QED BY <1>3, <2>4
<1>6. CASE Loop # 0
  <2>1. thrown' = thrown
    BY <1>6 DEF OnBreak
  <2>2. QED BY <1>1, <2>1 DEF Lexical!lexicalVars
<1>7. QED BY <1>5, <1>6

LEMMA LexicalFinish == ASSUME IInv, Resolved PROVE Lexical!Finish
<1>1. /\ phase = "names" /\ phase' = "done" /\ thrown = NIL /\ todo = <<>> /\ Progress
      /\ program' = program /\ symbolPtr' = symbolPtr /\ thrown' = thrown
  BY DEF Resolved, IInv
<1>2. ToCome = {}
  <2>1. Listed(todo) = {}
    BY <1>1 DEF Listed
  <2>2. QED BY <2>1 DEF ToCome, WithBelow
<1>3. \A n \in Analysed : Settled(n)
  BY <1>1, <1>2 DEF Progress
<1>4. QED BY <1>1, <1>3, SameLexical DEF Lexical!Finish, Settled

LEMMA LexicalNext == IInv /\ [Next]_vars => [Lexical!Next]_Lexical!lexicalVars
<1> SUFFICES ASSUME IInv, [Next]_vars PROVE [Lexical!Next]_Lexical!lexicalVars
  OBVIOUS
<1>1. CASE OnSymbol
  BY <1>1, LexicalOnSymbol DEF Lexical!Next
<1>2. CASE OnBreak
  BY <1>2, LexicalOnBreak DEF Lexical!Next
<1>3. CASE Resolved
  BY <1>3, LexicalFinish DEF Lexical!Next
<1>4. CASE MakeScopes \/ UNCHANGED vars
  <2>1. MakeScopes => program' = program
    BY DEF MakeScopes, ScopesNext, MakeItems, MakeClass, MakeEnum, MakeFunction, MakeFor, MakeIf,
           MakeScope, Make
  <2>2. QED BY <1>4, <2>1 DEF MakeScopes, vars, Lexical!lexicalVars
<1>5. CASE ScopesMade
  BY <1>5 DEF ScopesMade, Lexical!lexicalVars
<1>6. CASE OnScope \/ OnClass \/ OnFor \/ OnWhile \/ OnExpr \/ OnPlain
  BY <1>6 DEF OnScope, OnClass, OnFor, OnWhile, OnExpr, OnPlain, Walk, Lexical!lexicalVars
<1>7. QED BY <1>1, <1>2, <1>3, <1>4, <1>5, <1>6 DEF Next

\* For every tree, the scopes, find_symbol's way up through them and the context
\* that the resolver hands down give each name what lexical scoping says it
\* means, and the analysis succeeds or is given up for the reasons given there.
THEOREM NamesResolved == Spec => ImplementsLexicalScoping
<1>1. QED
  BY LexicalInit, LexicalNext, Invariant, PTL DEF Spec, ImplementsLexicalScoping, Lexical!Spec
=============================================================================
