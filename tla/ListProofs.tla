------------------------------ MODULE ListProofs ------------------------------
(***************************************************************************)
(* Lemmas about lists and numbers that the proofs of several components    *)
(* rest on.  Induction over numbers is done here once, by the least        *)
(* counterexample.                                                         *)
(***************************************************************************)
EXTENDS Lists, Integers, WellFoundedInduction, TLAPS

\* A set of numbers has a least one.
LEMMA LeastNumber ==
  ASSUME NEW T, T \subseteq Nat, T # {}
  PROVE  \E m \in T : \A n \in T : m <= n
<1> DEFINE R == {ss \in Nat \X Nat : ss[1] < ss[2]}
<1>1. IsWellFoundedOn(R, Nat)
  BY NatLessThanWellFounded DEF OpToRel
<1>2. \A x, y \in Nat : y < x => <<y, x>> \in R
  OBVIOUS
<1> HIDE DEF R
<1>3. PICK x \in T : \A y \in T : ~ (<<y, x>> \in R)
  BY <1>1, WFMin
<1>4. ASSUME NEW y \in T PROVE x <= y
  <2>1. x \in Nat /\ y \in Nat /\ <<y, x>> \notin R
    BY <1>3
  <2>2. ~ (y < x)
    BY <2>1, <1>2
  <2>3. QED BY <2>1, <2>2
<1>5. QED BY <1>4

\* A set of numbers that holds 0 and the successors of its members holds all.
LEMMA Induction ==
  ASSUME NEW T, 0 \in T, \A m \in Nat : m \in T => m + 1 \in T
  PROVE  Nat \subseteq T
<1>1. SUFFICES ASSUME Nat \ T # {} PROVE FALSE
  OBVIOUS
<1>2. PICK m \in Nat \ T : \A n \in Nat \ T : m <= n
  BY <1>1, LeastNumber
<1>3. m # 0 /\ m - 1 \in Nat
  BY <1>2
<1>4. m - 1 \in T
  BY <1>2, <1>3
<1>5. QED BY <1>2, <1>3, <1>4

\* A function may be defined by recursion over the numbers up to n.
Recurs(f, first, step, n) ==
  f[0] = first /\ \A i \in 1 .. n : f[i] = step[i][f[i - 1]]

LEMMA Recursion ==
  ASSUME NEW S, NEW first \in S, NEW step \in [Nat -> [S -> S]], NEW n \in Nat
  PROVE  \E f \in [0 .. n -> S] : Recurs(f, first, step, n)
<1> DEFINE Good(m) == \E f \in [0 .. m -> S] :
                        \A i \in 0 .. m : f[i] = IF i = 0 THEN first ELSE step[i][f[i - 1]]
<1>1. Good(0)
  <2> DEFINE f == [i \in 0 .. 0 |-> first]
  <2>1. f \in [0 .. 0 -> S] /\ \A i \in 0 .. 0 : i = 0 /\ f[i] = first
    OBVIOUS
  <2> HIDE DEF f
  <2>2. QED BY <2>1
<1>2. ASSUME NEW m \in Nat, Good(m) PROVE Good(m + 1)
  <2>1. PICK f \in [0 .. m -> S] :
           \A i \in 0 .. m : f[i] = IF i = 0 THEN first ELSE step[i][f[i - 1]]
    BY <1>2
  <2> DEFINE g == [i \in 0 .. m + 1 |-> IF i = m + 1 THEN step[m + 1][f[m]] ELSE f[i]]
  <2>2. m + 1 \in Nat /\ m \in 0 .. m /\ f[m] \in S /\ step[m + 1] \in [S -> S]
    OBVIOUS
  <2>3. step[m + 1][f[m]] \in S
    BY <2>2
  <2>4. \A i \in 0 .. m + 1 : i = m + 1 \/ i \in 0 .. m
    OBVIOUS
  <2>5. g \in [0 .. m + 1 -> S]
    BY <2>3, <2>4
  <2>6. ASSUME NEW i \in 0 .. m + 1
        PROVE  g[i] = IF i = 0 THEN first ELSE step[i][g[i - 1]]
    <3>1. CASE i = m + 1
      <4>1. g[i] = step[m + 1][f[m]]
        BY <3>1
      <4>2. i # 0 /\ i - 1 = m /\ m \in 0 .. m + 1 /\ m # m + 1
        BY <3>1
      <4>3. g[m] = f[m]
        BY <4>2
      <4>4. QED BY <4>1, <4>2, <4>3, <3>1
    <3>2. CASE i \in 0 .. m
      <4>1. g[i] = f[i]
        BY <3>2
      <4>2. i # 0 => i - 1 \in 0 .. m + 1 /\ i - 1 # m + 1
        BY <3>2
      <4>3. i # 0 => g[i - 1] = f[i - 1]
        BY <4>2
      <4>4. QED BY <4>1, <4>3, <3>2, <2>1
    <3>3. QED BY <3>1, <3>2, <2>4
  <2>7. QED BY <2>5, <2>6
<1> DEFINE T == {m \in Nat : Good(m)}
<1> HIDE DEF Good
<1>3. 0 \in T /\ \A m \in Nat : m \in T => m + 1 \in T
  BY <1>1, <1>2
<1>4. Nat \subseteq T
  <2> HIDE DEF T
  <2>1. QED BY <1>3, Induction
<1>5. Good(n)
  BY <1>4
<1>6. PICK f \in [0 .. n -> S] :
        \A i \in 0 .. n : f[i] = IF i = 0 THEN first ELSE step[i][f[i - 1]]
  BY <1>5 DEF Good
<1>7. 0 \in 0 .. n /\ \A i \in 1 .. n : i \in 0 .. n /\ i # 0
  OBVIOUS
<1>8. Recurs(f, first, step, n)
  BY <1>6, <1>7 DEF Recurs
<1>9. QED BY <1>8

\* What is true of a number between a and b if it is true of those above it is
\* true of all of them.
LEMMA FromAbove ==
  ASSUME NEW a \in Int, NEW b \in Int, NEW T,
         \A q \in a .. b : (\A r \in q + 1 .. b : r \in T) => q \in T
  PROVE  a .. b \subseteq T
<1> DEFINE Rest == {b - q : q \in (a .. b) \ T}
<1>1. SUFFICES ASSUME NEW q \in a .. b, q \notin T PROVE FALSE
  OBVIOUS
<1>2. Rest \subseteq Nat
  OBVIOUS
<1>3. Rest # {}
  <2>1. q \in (a .. b) \ T
    BY <1>1
  <2>2. b - q \in Rest
    BY <2>1
  <2>3. QED BY <2>2
<1>4. PICK m \in Rest : \A n \in Rest : m <= n
  <2> HIDE DEF Rest
  <2>1. QED BY <1>2, <1>3, LeastNumber
<1>5. PICK p \in (a .. b) \ T : m = b - p
  BY <1>4
<1>6. p \in a .. b /\ p \notin T
  BY <1>5
<1>7. ASSUME NEW r \in p + 1 .. b PROVE r \in T
  <2>1. r \in a .. b /\ b - r < m
    BY <1>5, <1>6
  <2>2. SUFFICES ASSUME r \notin T PROVE FALSE
    OBVIOUS
  <2>3. r \in (a .. b) \ T
    BY <2>1, <2>2
  <2>4. b - r \in Rest
    BY <2>3
  <2>5. m <= b - r
    BY <1>4, <2>4
  <2>6. QED BY <1>5, <1>6, <2>1, <2>5
<1>8. QED BY <1>6, <1>7

\* A function may be defined from above: by what it is for larger numbers.
FromLarger(h, a, b, V) ==
  /\ h \in [a .. b -> [[a .. b -> V] -> V]]
  /\ \A q \in a .. b : \A F, G \in [a .. b -> V] :
       (\A r \in q + 1 .. b : F[r] = G[r]) => h[q][F] = h[q][G]

IsFixed(f, h, a, b) == \A q \in a .. b : f[q] = h[q][f]

LEMMA Descending ==
  ASSUME NEW a \in Int, NEW b \in Int, NEW V, NEW v \in V, NEW h, FromLarger(h, a, b, V)
  PROVE  \E f \in [a .. b -> V] : IsFixed(f, h, a, b)
<1> DEFINE Dom == a .. b
           Good(k) == \E f \in [Dom -> V] : \A q \in Dom : q > b - k => f[q] = h[q][f]
           T == {k \in Nat : Good(k)}
<1>1. 0 \in T
  <2> DEFINE f == [q \in Dom |-> v]
  <2>1. f \in [Dom -> V] /\ \A q \in Dom : ~(q > b - 0)
    OBVIOUS
  <2>2. QED BY <2>1
<1>2. ASSUME NEW k \in Nat, k \in T PROVE k + 1 \in T
  <2>1. PICK f \in [Dom -> V] : \A q \in Dom : q > b - k => f[q] = h[q][f]
    BY <1>2
  <2> DEFINE s == b - k
  <2>2. \A q \in Dom : q > b - (k + 1) <=> q > s \/ q = s
    OBVIOUS
  <2>3. CASE s \notin Dom
    <3>1. \A q \in Dom : q > b - (k + 1) => f[q] = h[q][f]
      BY <2>1, <2>2, <2>3
    <3>2. QED BY <3>1
  <2>4. CASE s \in Dom
    <3> DEFINE g == [f EXCEPT ![s] = h[s][f]]
    <3>0. h[s][f] \in V
      BY <2>4 DEF FromLarger
    <3>1. g \in [Dom -> V] /\ g[s] = h[s][f] /\ \A q \in Dom : q # s => g[q] = f[q]
      BY <2>4, <3>0
    <3> HIDE DEF g
    <3>2. ASSUME NEW q \in Dom, q >= s PROVE h[q][g] = h[q][f]
      <4>1. \A r \in q + 1 .. b : r \in Dom /\ r # s
        BY <3>2
      <4>2. \A r \in q + 1 .. b : g[r] = f[r]
        BY <3>1, <4>1
      <4>3. QED BY <3>1, <4>2 DEF FromLarger
    <3>3. ASSUME NEW q \in Dom, q > b - (k + 1) PROVE g[q] = h[q][g]
      <4>1. q >= s /\ (q = s \/ q > s)
        BY <3>3
      <4>2. CASE q = s
        BY <3>1, <3>2, <4>1, <4>2
      <4>3. CASE q > s
        <5>1. q # s
          BY <4>3
        <5>2. QED BY <2>1, <3>1, <3>2, <4>1, <4>3, <5>1
      <4>4. QED BY <4>1, <4>2, <4>3
    <3>4. QED BY <3>1, <3>3
  <2>5. QED BY <2>3, <2>4
<1>3. Nat \subseteq T
  <2> HIDE DEF T
  <2>1. QED BY <1>1, <1>2, Induction
<1>4. PICK k \in Nat : \A q \in Dom : q > b - k
  <2>1. CASE a > b
    BY <2>1
  <2>2. CASE a <= b
    <3>1. b - a + 1 \in Nat /\ \A q \in Dom : q > b - (b - a + 1)
      BY <2>2
    <3>2. QED BY <3>1
  <2>3. QED BY <2>1, <2>2
<1>5. QED BY <1>3, <1>4 DEF IsFixed
-----------------------------------------------------------------------------
(***************************************************************************)
(* What the operators of module Lists give.                                *)
(***************************************************************************)

\* The steps by which Sublist is defined.
LEMMA SublistSteps ==
  ASSUME NEW S, NEW s \in Seq(S), NEW T
  PROVE  \E f \in [0 .. Len(s) -> Seq(S)] :
           /\ Sublist(s, T) = f[Len(s)]
           /\ f[0] = <<>>
           /\ \A i \in 1 .. Len(s) :
                f[i] = IF s[i] \in T THEN Append(f[i - 1], s[i]) ELSE f[i - 1]
<1> DEFINE step == [i \in Nat |-> [v \in Seq(S) |->
                      IF i \in 1 .. Len(s) /\ s[i] \in T THEN Append(v, s[i]) ELSE v]]
           IsF(f) == f = [i \in 0 .. Len(s) |-> IF i = 0 THEN <<>>
                                              ELSE IF s[i] \in T THEN Append(f[i - 1], s[i])
                                              ELSE f[i - 1]]
<1>1. step \in [Nat -> [Seq(S) -> Seq(S)]]
  OBVIOUS
<1>2. Len(s) \in Nat /\ <<>> \in Seq(S)
  OBVIOUS
<1>5. PICK f \in [0 .. Len(s) -> Seq(S)] : Recurs(f, <<>>, step, Len(s))
  <2> HIDE DEF step
  <2>1. QED BY <1>1, <1>2, Recursion
<1>3. ASSUME NEW i \in 1 .. Len(s)
      PROVE  step[i][f[i - 1]] = IF s[i] \in T THEN Append(f[i - 1], s[i]) ELSE f[i - 1]
  <2>1. i \in Nat /\ i - 1 \in 0 .. Len(s)
    OBVIOUS
  <2>2. f[i - 1] \in Seq(S)
    BY <2>1
  <2>3. QED BY <2>1, <2>2
<1>4. /\ 0 \in 0 .. Len(s)
      /\ \A i \in 0 .. Len(s) : i = 0 \/ i \in 1 .. Len(s)
      /\ \A i \in 1 .. Len(s) : i \in 0 .. Len(s) /\ i # 0
  BY <1>2
<1> HIDE DEF step
<1>6. \A i \in 0 .. Len(s) : f[i] = IF i = 0 THEN <<>>
                                   ELSE IF s[i] \in T THEN Append(f[i - 1], s[i])
                                   ELSE f[i - 1]
  BY <1>3, <1>4, <1>5 DEF Recurs
<1>7. IsF(f)
  BY <1>6
<1> DEFINE g == CHOOSE h : IsF(h)
<1>8. IsF(g) /\ Sublist(s, T) = g[Len(s)]
  BY <1>7 DEF Sublist
<1>9. \A i \in 0 .. Len(s) : g[i] = IF i = 0 THEN <<>>
                                   ELSE IF s[i] \in T THEN Append(g[i - 1], s[i])
                                   ELSE g[i - 1]
  BY <1>8
<1> DEFINE Same == {i \in Nat : i <= Len(s) => g[i] = f[i]}
<1> HIDE DEF g
<1>10. 0 \in Same
  BY <1>4, <1>6, <1>9
<1>11. ASSUME NEW i \in Nat, i \in Same PROVE i + 1 \in Same
  <2>1. CASE i + 1 <= Len(s)
    <3>1. i + 1 \in 0 .. Len(s) /\ i + 1 # 0 /\ (i + 1) - 1 = i /\ g[i] = f[i]
      BY <2>1, <1>11
    <3>2. /\ f[i + 1] = IF s[i + 1] \in T THEN Append(f[i], s[i + 1]) ELSE f[i]
          /\ g[i + 1] = IF s[i + 1] \in T THEN Append(g[i], s[i + 1]) ELSE g[i]
      BY <3>1, <1>6, <1>9
    <3>3. QED BY <3>1, <3>2
  <2>2. QED BY <2>1
<1>12. Nat \subseteq Same
  <2> HIDE DEF Same
  <2>1. QED BY <1>10, <1>11, Induction
<1>13. \A i \in 0 .. Len(s) : g[i] = f[i]
  BY <1>12
<1>14. Sublist(s, T) = f[Len(s)] /\ f[0] = <<>>
  BY <1>2, <1>4, <1>6, <1>8, <1>13
<1>15. \A i \in 1 .. Len(s) :
         f[i] = IF s[i] \in T THEN Append(f[i - 1], s[i]) ELSE f[i - 1]
  BY <1>4, <1>6
<1>16. QED BY <1>14, <1>15

\* Sublist keeps exactly the members of s that are in T, and their order.
LEMMA SublistFacts ==
  ASSUME NEW S, NEW s \in Seq(S), NEW T
  PROVE  /\ Sublist(s, T) \in Seq(S)
         /\ Listed(Sublist(s, T)) = Listed(s) \cap T
         /\ \A p, q \in 1 .. Len(Sublist(s, T)) : p < q =>
              \E i, j \in 1 .. Len(s) :
                i < j /\ s[i] = Sublist(s, T)[p] /\ s[j] = Sublist(s, T)[q]
<1>1. PICK f \in [0 .. Len(s) -> Seq(S)] :
        /\ Sublist(s, T) = f[Len(s)]
        /\ f[0] = <<>>
        /\ \A i \in 1 .. Len(s) :
             f[i] = IF s[i] \in T THEN Append(f[i - 1], s[i]) ELSE f[i - 1]
  BY SublistSteps
<1> DEFINE Holds(n)   == /\ f[n] \in Seq(S)
                         /\ \A k \in 1 .. Len(f[n]) : f[n][k] \in T /\ \E i \in 1 .. n : s[i] = f[n][k]
                         /\ \A i \in 1 .. n : s[i] \in T => \E k \in 1 .. Len(f[n]) : f[n][k] = s[i]
           Ordered(n) == \A p, q \in 1 .. Len(f[n]) : p < q =>
                           \E i, j \in 1 .. n : i < j /\ s[i] = f[n][p] /\ s[j] = f[n][q]
           Good == {n \in Nat : n <= Len(s) => Holds(n) /\ Ordered(n)}
<1>2. 0 \in Good
  <2>1. 0 \in 0 .. Len(s) /\ Len(f[0]) = 0
    BY <1>1
  <2>2. QED BY <2>1, <1>1
<1>3. ASSUME NEW n \in Nat, n \in Good PROVE n + 1 \in Good
  <2>1. SUFFICES ASSUME n + 1 <= Len(s) PROVE Holds(n + 1) /\ Ordered(n + 1)
    OBVIOUS
  <2>2. Holds(n) /\ Ordered(n)
    BY <1>3, <2>1
  <2>3. n + 1 \in 1 .. Len(s) /\ (n + 1) - 1 = n /\ n + 1 \in 1 .. n + 1
        /\ (\A i \in 1 .. n : i \in 1 .. n + 1 /\ i < n + 1)
        /\ (\A i \in 1 .. n + 1 : i = n + 1 \/ i \in 1 .. n)
    BY <2>1
  <2> HIDE DEF Good
  <2>4. CASE s[n + 1] \in T
    <3>1. f[n + 1] = Append(f[n], s[n + 1])
      BY <1>1, <2>3, <2>4
    <3>2. f[n] \in Seq(S) /\ s[n + 1] \in S
      BY <2>2, <2>3
    <3> DEFINE m == Len(f[n])
    <3>3. /\ f[n + 1] \in Seq(S) /\ m \in Nat /\ Len(f[n + 1]) = m + 1
          /\ f[n + 1][m + 1] = s[n + 1]
          /\ \A k \in 1 .. m : f[n + 1][k] = f[n][k]
      BY <3>1, <3>2
    <3>4. \A k \in 1 .. m + 1 : k = m + 1 \/ k \in 1 .. m
      BY <3>3
    <3>5. m + 1 \in 1 .. m + 1 /\ \A k \in 1 .. m : k \in 1 .. m + 1
      BY <3>3
    <3> HIDE DEF m
    <3>6. Holds(n)!2 /\ Holds(n)!3
      BY <2>2
    <3>7. Len(f[n]) = m
      BY DEF m
    <3>8. ASSUME NEW k \in 1 .. m + 1
          PROVE  f[n + 1][k] \in T /\ \E i \in 1 .. n + 1 : s[i] = f[n + 1][k]
      BY <2>3, <2>4, <3>3, <3>4, <3>6, <3>7
    <3>9. ASSUME NEW i \in 1 .. n + 1, s[i] \in T
          PROVE  \E k \in 1 .. m + 1 : f[n + 1][k] = s[i]
      BY <2>3, <3>3, <3>5, <3>6, <3>7, <3>9
    <3>10. ASSUME NEW p \in 1 .. m + 1, NEW q \in 1 .. m + 1, p < q
           PROVE  \E i, j \in 1 .. n + 1 : i < j /\ s[i] = f[n + 1][p] /\ s[j] = f[n + 1][q]
      <4>1. p \in 1 .. m
        BY <3>3, <3>10
      <4>2. CASE q = m + 1
        <5>1. PICK i \in 1 .. n : s[i] = f[n][p]
          BY <4>1, <3>6, <3>7
        <5>2. i \in 1 .. n + 1 /\ n + 1 \in 1 .. n + 1 /\ i < n + 1
          BY <2>3
        <5>3. s[i] = f[n + 1][p] /\ s[n + 1] = f[n + 1][q]
          BY <5>1, <4>1, <4>2, <3>3
        <5>4. QED BY <5>2, <5>3
      <4>3. CASE q \in 1 .. m
        <5>1. PICK i \in 1 .. n, j \in 1 .. n : i < j /\ s[i] = f[n][p] /\ s[j] = f[n][q]
          BY <4>1, <4>3, <3>7, <2>2, <3>10
        <5>2. i \in 1 .. n + 1 /\ j \in 1 .. n + 1
          BY <2>3
        <5>3. s[i] = f[n + 1][p] /\ s[j] = f[n + 1][q]
          BY <5>1, <4>1, <4>3, <3>3
        <5>4. QED BY <5>1, <5>2, <5>3
      <4>4. QED BY <4>2, <4>3, <3>4
    <3>11. QED BY <3>3, <3>8, <3>9, <3>10
  <2>5. CASE s[n + 1] \notin T
    <3>1. f[n + 1] = f[n]
      BY <1>1, <2>3, <2>5
    <3>2. QED BY <2>2, <2>3, <2>5, <3>1
  <2>6. QED BY <2>4, <2>5
<1>4. Nat \subseteq Good
  <2> HIDE DEF Good
  <2>1. QED BY <1>2, <1>3, Induction
<1>5. Holds(Len(s)) /\ Ordered(Len(s))
  <2>1. Len(s) \in Nat /\ Len(s) <= Len(s)
    OBVIOUS
  <2>2. Len(s) \in Good
    BY <1>4, <2>1
  <2> HIDE DEF Holds, Ordered
  <2>3. QED BY <2>1, <2>2
<1> DEFINE u == f[Len(s)]
<1>6. Sublist(s, T) = u
  BY <1>1
<1>7. u \in Seq(S)
  BY <1>5
<1>8. Listed(u) \subseteq Listed(s) \cap T
  <2>1. ASSUME NEW k \in 1 .. Len(u) PROVE u[k] \in T /\ \E i \in 1 .. Len(s) : s[i] = u[k]
    BY <1>5
  <2> HIDE DEF u
  <2>2. QED BY <2>1 DEF Listed
<1>9. Listed(s) \cap T \subseteq Listed(u)
  <2>1. ASSUME NEW i \in 1 .. Len(s), s[i] \in T PROVE \E k \in 1 .. Len(u) : u[k] = s[i]
    BY <1>5, <2>1
  <2> HIDE DEF u
  <2>2. QED BY <2>1 DEF Listed
<1>10. QED BY <1>5, <1>6, <1>7, <1>8, <1>9

\* So it repeats nothing that s does not repeat.
LEMMA SublistNoRepeat ==
  ASSUME NEW S, NEW s \in Seq(S), NEW T, NoRepeat(s)
  PROVE  NoRepeat(Sublist(s, T))
<1> DEFINE u == Sublist(s, T)
<1>1. /\ Len(s) \in Nat /\ Len(u) \in Nat
      /\ \A p, q \in 1 .. Len(u) : p < q =>
           \E i, j \in 1 .. Len(s) : i < j /\ s[i] = u[p] /\ s[j] = u[q]
  BY SublistFacts
<1> HIDE DEF u
<1>2. ASSUME NEW p \in 1 .. Len(u), NEW q \in 1 .. Len(u), p < q PROVE u[p] # u[q]
  <2>1. PICK i \in 1 .. Len(s), j \in 1 .. Len(s) : i < j /\ s[i] = u[p] /\ s[j] = u[q]
    BY <1>1, <1>2
  <2>2. i # j
    BY <2>1
  <2>3. QED BY <2>1, <2>2 DEF NoRepeat
<1>3. \A p, q \in 1 .. Len(u) : p = q \/ p < q \/ q < p
  BY <1>1
<1>4. NoRepeat(u)
  BY <1>2, <1>3 DEF NoRepeat
<1>5. QED BY <1>4 DEF u

\* The members of a list are what is at its positions.
LEMMA ListedAt == ASSUME NEW s, NEW i \in 1 .. Len(s) PROVE s[i] \in Listed(s)
BY DEF Listed
LEMMA AtListed == ASSUME NEW s, NEW x \in Listed(s) PROVE \E i \in 1 .. Len(s) : s[i] = x
BY DEF Listed

\* What joining two lists gives.
LEMMA JoinFacts ==
  ASSUME NEW S, NEW s \in Seq(S), NEW t \in Seq(S)
  PROVE  /\ s \o t \in Seq(S) /\ Len(s \o t) = Len(s) + Len(t)
         /\ Listed(s \o t) = Listed(s) \cup Listed(t)
         /\ NoRepeat(s) /\ NoRepeat(t) /\ Listed(s) \cap Listed(t) = {}
              => NoRepeat(s \o t)
<1>1. /\ s \o t \in Seq(S) /\ Len(s \o t) = Len(s) + Len(t) /\ Len(s) \in Nat /\ Len(t) \in Nat
      /\ \A i \in 1 .. Len(s) + Len(t) :
        (s \o t)[i] = IF i <= Len(s) THEN s[i] ELSE t[i - Len(s)]
  OBVIOUS
<1> DEFINE u == s \o t
           m == Len(s)
           n == Len(t)
<1>2. /\ m \in Nat /\ n \in Nat /\ Len(u) = m + n
      /\ \A i \in 1 .. m : i \in 1 .. m + n /\ u[i] = s[i]
      /\ \A i \in 1 .. n : m + i \in 1 .. m + n /\ u[m + i] = t[i]
      /\ \A i \in 1 .. m + n : i \in 1 .. m \/ (i - m \in 1 .. n /\ i = m + (i - m))
  BY <1>1
<1> HIDE DEF u
<1>3. Listed(u) = Listed(s) \cup Listed(t)
  <2>1. Listed(u) \subseteq Listed(s) \cup Listed(t)
    <3>1. ASSUME NEW i \in 1 .. m + n PROVE u[i] \in Listed(s) \cup Listed(t)
      <4>1. CASE i \in 1 .. m
        BY <1>2, <4>1, ListedAt
      <4>2. CASE i - m \in 1 .. n
        <5>1. i = m + (i - m) /\ u[m + (i - m)] = t[i - m]
          BY <1>2, <4>2
        <5>2. t[i - m] \in Listed(t)
          BY <4>2, ListedAt
        <5>3. QED BY <5>1, <5>2
      <4>3. QED BY <1>2, <4>1, <4>2
    <3>2. QED BY <1>2, <3>1, AtListed
  <2>2. Listed(s) \subseteq Listed(u)
    BY <1>2 DEF Listed
  <2>3. Listed(t) \subseteq Listed(u)
    BY <1>2 DEF Listed
  <2>4. QED BY <2>1, <2>2, <2>3
<1>4. ASSUME NoRepeat(s), NoRepeat(t), Listed(s) \cap Listed(t) = {} PROVE NoRepeat(u)
  <2>1. SUFFICES ASSUME NEW i \in 1 .. m + n, NEW j \in 1 .. m + n, u[i] = u[j] PROVE i = j
    BY <1>2 DEF NoRepeat
  <2>2. CASE i \in 1 .. m /\ j \in 1 .. m
    BY <1>2, <1>4, <2>1, <2>2 DEF NoRepeat
  <2>3. CASE i - m \in 1 .. n /\ j - m \in 1 .. n
    <3>1. t[i - m] = t[j - m]
      BY <1>2, <2>1, <2>3
    <3>2. i - m = j - m
      BY <1>4, <2>3, <3>1 DEF NoRepeat
    <3>3. QED BY <3>2, <1>2
  <2>4. CASE i \in 1 .. m /\ j - m \in 1 .. n
    <3>1. u[i] = s[i] /\ u[j] = t[j - m]
      BY <1>2, <2>4
    <3>2. s[i] \in Listed(s) /\ t[j - m] \in Listed(t)
      BY <2>4, ListedAt
    <3>3. QED BY <3>1, <3>2, <2>1, <1>4
  <2>5. CASE i - m \in 1 .. n /\ j \in 1 .. m
    <3>1. u[i] = t[i - m] /\ u[j] = s[j]
      BY <1>2, <2>5
    <3>2. t[i - m] \in Listed(t) /\ s[j] \in Listed(s)
      BY <2>5, ListedAt
    <3>3. QED BY <3>1, <3>2, <2>1, <1>4
  <2>6. QED BY <1>2, <2>2, <2>3, <2>4, <2>5
<1>5. QED BY <1>1, <1>3, <1>4 DEF u

\* What leaving out one member gives.
LEMMA WithoutFacts ==
  ASSUME NEW S, NEW s \in Seq(S), NEW j \in 1 .. Len(s)
  PROVE  /\ Without(s, j) \in Seq(S) /\ Len(Without(s, j)) = Len(s) - 1
         /\ \A i \in 1 .. Len(s) - 1 : Without(s, j)[i] = IF i < j THEN s[i] ELSE s[i + 1]
         /\ NoRepeat(s) => /\ Listed(Without(s, j)) = Listed(s) \ {s[j]}
                           /\ NoRepeat(Without(s, j))
<1> DEFINE u == Without(s, j)
           n == Len(s)
<1>1. /\ n \in Nat /\ u \in Seq(S) /\ Len(u) = n - 1
      /\ \A i \in 1 .. n - 1 : u[i] = IF i < j THEN s[i] ELSE s[i + 1]
  <2> DEFINE a == SubSeq(s, 1, j - 1)
             b == SubSeq(s, j + 1, n)
  <2>1. n \in Nat /\ j \in 1 .. n
    OBVIOUS
  <2>2. a \in Seq(S) /\ Len(a) = j - 1 /\ \A i \in 1 .. j - 1 : a[i] = s[i]
    BY <2>1
  <2>3. b \in Seq(S) /\ Len(b) = n - j /\ \A i \in 1 .. n - j : b[i] = s[j + i]
    BY <2>1
  <2> HIDE DEF a, b
  <2>4. u = a \o b
    BY DEF Without, a, b
  <2>a. a \in Seq(S) /\ b \in Seq(S)
    BY <2>2, <2>3
  <2>b. a \o b \in Seq(S) /\ Len(a \o b) = Len(a) + Len(b)
    BY <2>a
  <2> HIDE DEF u, n
  <2>5. u \in Seq(S) /\ Len(u) = Len(a) + Len(b)
    BY <2>b, <2>4
  <2>6. ASSUME NEW i \in 1 .. n - 1 PROVE u[i] = IF i < j THEN s[i] ELSE s[i + 1]
    <3>1. u[i] = IF i <= j - 1 THEN a[i] ELSE b[i - (j - 1)]
      BY <2>1, <2>2, <2>3, <2>4
    <3>2. CASE i < j
      <4>1. i <= j - 1 /\ i \in 1 .. j - 1
        BY <2>1, <3>2
      <4>2. QED BY <4>1, <3>1, <3>2, <2>2
    <3>3. CASE ~ (i < j)
      <4>1. ~ (i <= j - 1) /\ i - (j - 1) \in 1 .. n - j /\ j + (i - (j - 1)) = i + 1
        BY <2>1, <3>3
      <4>2. QED BY <4>1, <3>1, <3>3, <2>3
    <3>4. QED BY <3>2, <3>3
  <2>7. Len(u) = n - 1
    BY <2>1, <2>2, <2>3, <2>5
  <2>8. QED BY <2>1, <2>5, <2>6, <2>7
<1> HIDE DEF u
<1>2. ASSUME NoRepeat(s) PROVE Listed(u) = Listed(s) \ {s[j]} /\ NoRepeat(u)
  <2>1. ASSUME NEW i \in 1 .. n - 1
        PROVE  \E k \in 1 .. n : u[i] = s[k] /\ k # j
    BY <1>1
  <2>2. ASSUME NEW k \in 1 .. n, k # j
        PROVE  \E i \in 1 .. n - 1 : u[i] = s[k]
    <3>1. CASE k < j
      <4>1. k \in 1 .. n - 1
        BY <3>1, <1>1
      <4>2. QED BY <4>1, <1>1, <3>1
    <3>2. CASE j < k
      <4>1. k - 1 \in 1 .. n - 1 /\ ~ (k - 1 < j) /\ (k - 1) + 1 = k
        BY <3>2, <1>1
      <4>2. QED BY <4>1, <1>1
    <3>3. QED BY <2>2, <3>1, <3>2, <1>1
  <2>3. Listed(u) \subseteq Listed(s) \ {s[j]}
    BY <1>1, <1>2, <2>1 DEF Listed, NoRepeat
  <2>4. Listed(s) \ {s[j]} \subseteq Listed(u)
    <3>1. SUFFICES ASSUME NEW k \in 1 .. n, s[k] # s[j] PROVE s[k] \in Listed(u)
      BY AtListed
    <3>2. PICK i \in 1 .. n - 1 : u[i] = s[k]
      BY <2>2, <3>1
    <3>3. QED BY <3>2, <1>1, ListedAt
  <2>5. NoRepeat(u)
    <3>1. SUFFICES ASSUME NEW p \in 1 .. n - 1, NEW q \in 1 .. n - 1, u[p] = u[q] PROVE p = q
      BY <1>1 DEF NoRepeat
    <3>2. /\ p \in 1 .. n /\ p + 1 \in 1 .. n /\ q \in 1 .. n /\ q + 1 \in 1 .. n
      BY <1>1
    <3>3. QED BY <1>1, <1>2, <3>1, <3>2 DEF NoRepeat
  <2>6. QED BY <2>3, <2>4, <2>5
<1>3. QED BY <1>1, <1>2 DEF u
=============================================================================
