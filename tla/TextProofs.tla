------------------------------ MODULE TextProofs ------------------------------
(***************************************************************************)
(* Proofs about module Text: the tokens follow the text, both passes of a  *)
(* conversion take the same way, and a literal is shown as it was written. *)
(***************************************************************************)
EXTENDS TextInvariant, ListProofs, FiniteSetTheorems

Chars == DOMAIN ByteOf

-----------------------------------------------------------------------------
(***************************************************************************)
(* What the lexer's helpers give.                                          *)
(***************************************************************************)

\* Least is the least number of a set.
LEMMA LeastIs ==
  ASSUME NEW S, S \subseteq Nat, S # {}
  PROVE  Least(S) \in S /\ \A n \in S : Least(S) <= n
BY LeastNumber DEF Least

\* Pass ends at the first character that is not of C.
LEMMA PassFacts ==
  ASSUME src \in Seq(Chars), NEW p \in 1 .. Len(src) + 1, NEW C
  PROVE  /\ Pass(p, C) \in p .. Len(src) + 1
         /\ \A n \in p .. Pass(p, C) - 1 : src[n] \in C
         /\ AtEnd(Pass(p, C)) \/ src[Pass(p, C)] \notin C
<1> DEFINE S == {q \in p .. Len(src) + 1 : AtEnd(q) \/ src[q] \notin C}
           m == Least(S)
<1>1. Len(src) \in Nat /\ Len(src) + 1 \in S
  BY DEF AtEnd
<1>2. S \subseteq Nat
  OBVIOUS
<1>3. m \in S /\ \A n \in S : m <= n
  <2> HIDE DEF S
  <2>1. QED BY <1>1, <1>2, LeastIs
<1>4. m \in p .. Len(src) + 1 /\ (AtEnd(m) \/ src[m] \notin C)
  BY <1>3
<1>5. ASSUME NEW n \in p .. m - 1 PROVE src[n] \in C
  <2>1. n \in p .. Len(src) + 1 /\ ~(m <= n)
    BY <1>4
  <2>2. n \notin S
    BY <1>3, <2>1
  <2>3. QED BY <2>1, <2>2
<1>6. Pass(p, C) = m
  BY DEF Pass
<1>7. QED BY <1>4, <1>5, <1>6

\* A line comment is passed up to its end.
LEMMA PassLineFacts ==
  ASSUME src \in Seq(Chars), NEW p \in 1 .. Len(src) + 1
  PROVE  /\ PassLine(p) \in p .. Len(src) + 1
         /\ ~Matches(<<"/", "/">>, p) => PassLine(p) = p
         /\ Matches(<<"/", "/">>, p) =>
              /\ PassLine(p) >= p + 2
              /\ \A n \in p + 2 .. PassLine(p) - 1 : src[n] # "\n"
              /\ PassLine(p) = Len(src) + 1 \/ src[PassLine(p)] = "\n"
<1>1. CASE ~Matches(<<"/", "/">>, p)
  BY <1>1 DEF PassLine
<1>2. CASE Matches(<<"/", "/">>, p)
  <2> DEFINE S == {q \in p + 2 .. Len(src) + 1 : AtEnd(q) \/ src[q] = "\n"}
             m == Least(S)
  <2>1. Len(src) \in Nat /\ p + 2 - 1 <= Len(src)
    BY <1>2 DEF Matches
  <2>2. Len(src) + 1 \in S
    BY <2>1 DEF AtEnd
  <2>3. S \subseteq Nat
    OBVIOUS
  <2>4. m \in S /\ \A n \in S : m <= n
    <3> HIDE DEF S
    <3>1. QED BY <2>2, <2>3, LeastIs
  <2>5. m \in p + 2 .. Len(src) + 1 /\ (AtEnd(m) \/ src[m] = "\n")
    BY <2>4
  <2>6. ASSUME NEW n \in p + 2 .. m - 1 PROVE src[n] # "\n"
    <3>1. n \in p + 2 .. Len(src) + 1 /\ ~(m <= n)
      BY <2>5
    <3>2. n \notin S
      BY <2>4, <3>1
    <3>3. QED BY <3>1, <3>2
  <2>7. PassLine(p) = m
    BY <1>2 DEF PassLine
  <2>8. m = Len(src) + 1 \/ src[m] = "\n"
    BY <2>1, <2>5 DEF AtEnd
  <2>9. QED BY <1>2, <2>5, <2>6, <2>7, <2>8
<1>3. QED BY <1>1, <1>2

\* Where a block comment that begins at q ends.
BlockEnd(q) ==
  Least({r + 2 : r \in {m \in q + 2 .. Len(src) : Matches(<<"*", "/">>, m)}} \cup {Len(src) + 1})

LEMMA BlockEndFacts ==
  ASSUME src \in Seq(Chars), NEW q \in 1 .. Len(src) + 1, Matches(<<"/", "*">>, q)
  PROVE  /\ BlockEnd(q) \in q + 2 .. Len(src) + 1
         /\ \/ BlockEnd(q) = Len(src) + 1
            \/ BlockEnd(q) >= q + 4 /\ Matches(<<"*", "/">>, BlockEnd(q) - 2)
<1> DEFINE S == {r + 2 : r \in {m \in q + 2 .. Len(src) : Matches(<<"*", "/">>, m)}} \cup {Len(src) + 1}
           e == Least(S)
<1>1. Len(src) \in Nat /\ q + 2 - 1 <= Len(src)
  BY DEF Matches
<1>2. Len(src) + 1 \in S /\ S \subseteq Nat
  BY <1>1
<1>3. e \in S
  <2> HIDE DEF S
  <2>1. QED BY <1>2, LeastIs
<1>4. CASE e = Len(src) + 1
  BY <1>1, <1>4 DEF BlockEnd
<1>5. CASE e # Len(src) + 1
  <2>1. PICK r \in q + 2 .. Len(src) : e = r + 2 /\ Matches(<<"*", "/">>, r)
    BY <1>3, <1>5
  <2>2. r + 2 - 1 <= Len(src)
    BY <2>1 DEF Matches
  <2>3. e - 2 = r /\ e \in q + 4 .. Len(src) + 1
    BY <1>1, <2>1, <2>2
  <2>4. BlockEnd(q) = e
    BY DEF BlockEnd
  <2>5. QED BY <1>1, <2>1, <2>3, <2>4
<1>6. QED BY <1>4, <1>5

\* Block comments are passed one after the other.
LEMMA PassBlocksStep ==
  ASSUME src \in Seq(Chars), NEW p \in 1 .. Len(src) + 1
  PROVE  PassBlocks(p) = IF Matches(<<"/", "*">>, p) THEN PassBlocks(BlockEnd(p)) ELSE p
<1> DEFINE b == Len(src) + 1
           V == 1 .. b
           Is(f, c) == f = [q \in c .. b |-> IF ~Matches(<<"/", "*">>, q) THEN q
                                              ELSE f[BlockEnd(q)]]
           B(c) == CHOOSE f : Is(f, c)
<1>1. b \in Int /\ \A c \in V : c \in Int
  OBVIOUS
<1>2. \A q \in V : Matches(<<"/", "*">>, q) => BlockEnd(q) \in q + 1 .. b
  BY BlockEndFacts
<1>3. ASSUME NEW c \in V PROVE Is(B(c), c) /\ PassBlocks(c) = B(c)[c]
  <2> DEFINE h == [q \in c .. b |-> [F \in [c .. b -> V] |->
                     IF ~Matches(<<"/", "*">>, q) THEN q ELSE F[BlockEnd(q)]]]
  <2>1. \A q \in c .. b : q \in V /\ (Matches(<<"/", "*">>, q) => BlockEnd(q) \in q + 1 .. b)
    BY <1>2
  <2>2. \A q \in c .. b : \A n \in q + 1 .. b : n \in c .. b
    OBVIOUS
  <2> HIDE DEF V, b
  <2>3. h \in [c .. b -> [[c .. b -> V] -> V]]
    BY <2>1, <2>2
  <2>4. ASSUME NEW q \in c .. b, NEW F \in [c .. b -> V], NEW G \in [c .. b -> V],
               \A r \in q + 1 .. b : F[r] = G[r]
        PROVE  h[q][F] = h[q][G]
    BY <2>1, <2>4
  <2>5. \A q \in c .. b : \A F \in [c .. b -> V] :
          h[q][F] = IF ~Matches(<<"/", "*">>, q) THEN q ELSE F[BlockEnd(q)]
    OBVIOUS
  <2> HIDE DEF h
  <2>6. PICK f \in [c .. b -> V] : IsFixed(f, h, c, b)
    <3>1. \A q \in c .. b : \A F, G \in [c .. b -> V] :
            (\A r \in q + 1 .. b : F[r] = G[r]) => h[q][F] = h[q][G]
      BY <2>4
    <3>2. c \in Int /\ b \in Int /\ c \in V
      BY <1>1
    <3>3. FromLarger(h, c, b, V)
      BY <2>3, <3>1 DEF FromLarger
    <3>4. QED BY <3>2, <3>3, Descending
  <2>7. Is(f, c)
    BY <2>5, <2>6 DEF IsFixed
  <2>8. Is(B(c), c)
    <3> HIDE DEF Is
    <3>1. QED BY <2>7
  <2>9. PassBlocks(c) = B(c)[c]
    BY DEF PassBlocks, BlockEnd, b
  <2>10. QED BY <2>8, <2>9
<1>4. ASSUME NEW c \in V, NEW d \in V, c <= d
      PROVE  \A q \in d .. b : B(c)[q] = B(d)[q]
  <2> DEFINE f == B(c)
             g == B(d)
             T == {q \in d .. b : f[q] = g[q]}
  <2>1. /\ \A q \in d .. b : f[q] = IF ~Matches(<<"/", "*">>, q) THEN q ELSE f[BlockEnd(q)]
        /\ \A q \in d .. b : g[q] = IF ~Matches(<<"/", "*">>, q) THEN q ELSE g[BlockEnd(q)]
    <3>1. Is(f, c) /\ Is(g, d)
      BY <1>3
    <3> HIDE DEF f, g
    <3>2. \A q \in d .. b : q \in c .. b
      BY <1>4
    <3>3. QED BY <3>1, <3>2
  <2> HIDE DEF f, g
  <2>2. ASSUME NEW q \in d .. b, \A r \in q + 1 .. b : r \in T PROVE q \in T
    <3>1. Matches(<<"/", "*">>, q) => f[BlockEnd(q)] = g[BlockEnd(q)]
      BY <1>2, <2>2
    <3>2. QED BY <2>1, <3>1
  <2> HIDE DEF T
  <2>3. d .. b \subseteq T
    BY <1>1, <2>2, FromAbove
  <2>4. QED BY <2>3 DEF T, f, g
<1>5. p \in V /\ p \in p .. b
  OBVIOUS
<1>6. Is(B(p), p) => B(p)[p] = IF ~Matches(<<"/", "*">>, p) THEN p ELSE B(p)[BlockEnd(p)]
  <2> DEFINE f == B(p)
  <2> HIDE DEF f
  <2>1. QED BY <1>5
<1> HIDE DEF B, Is, V, b
<1>7. CASE Matches(<<"/", "*">>, p)
  <2> DEFINE e == BlockEnd(p)
  <2>1. e \in p + 1 .. b
    BY <1>2, <1>5, <1>7
  <2>2. e \in V /\ p <= e /\ e \in e .. b
    BY <1>5, <2>1 DEF V
  <2> HIDE DEF e
  <2>3. PassBlocks(p) = B(p)[p] /\ PassBlocks(e) = B(e)[e] /\ B(p)[e] = B(e)[e]
    BY <1>3, <1>4, <1>5, <2>2
  <2>4. QED BY <1>3, <1>5, <1>6, <1>7, <2>3 DEF e
<1>8. QED BY <1>3, <1>5, <1>6, <1>7

LEMMA PassBlocksFacts ==
  ASSUME src \in Seq(Chars), NEW p \in 1 .. Len(src) + 1
  PROVE  /\ PassBlocks(p) \in p .. Len(src) + 1
         /\ ~Matches(<<"/", "*">>, p) => PassBlocks(p) = p
         /\ Matches(<<"/", "*">>, p) => PassBlocks(p) >= p + 2
<1> DEFINE b == Len(src) + 1
           T == {q \in 1 .. b : PassBlocks(q) \in q .. b}
<1>1. ASSUME NEW q \in 1 .. b, \A r \in q + 1 .. b : r \in T PROVE q \in T
  <2>1. CASE ~Matches(<<"/", "*">>, q)
    BY <2>1, PassBlocksStep
  <2>2. CASE Matches(<<"/", "*">>, q)
    <3> DEFINE e == BlockEnd(q)
    <3>1. e \in q + 2 .. b /\ PassBlocks(q) = PassBlocks(e)
      BY <2>2, PassBlocksStep, BlockEndFacts
    <3> HIDE DEF e
    <3>2. e \in T
      BY <1>1, <3>1
    <3>3. QED BY <3>1, <3>2
  <2>3. QED BY <2>1, <2>2
<1>2. 1 \in Int /\ b \in Int
  OBVIOUS
<1>3. 1 .. b \subseteq T
  <2> HIDE DEF T, b
  <2>1. QED BY <1>1, <1>2, FromAbove
<1>4. CASE ~Matches(<<"/", "*">>, p)
  BY <1>4, PassBlocksStep
<1>5. CASE Matches(<<"/", "*">>, p)
  <2> DEFINE e == BlockEnd(p)
  <2>1. e \in p + 2 .. b /\ PassBlocks(p) = PassBlocks(e)
    BY <1>5, PassBlocksStep, BlockEndFacts
  <2> HIDE DEF e
  <2>2. PassBlocks(e) \in e .. b
    BY <1>3, <2>1
  <2>3. QED BY <1>5, <2>1, <2>2
<1>6. QED BY <1>4, <1>5
-----------------------------------------------------------------------------
(***************************************************************************)
(* What is between two tokens is blank.                                    *)
(***************************************************************************)

\* A blank of f from q on, up to j: by a space, a line comment, a block comment.
BlankAt(f, q, j) ==
  \/ q = j
  \/ src[q] \in Space /\ f[q + 1]
  \/ /\ Matches(<<"/", "/">>, q)
     /\ \E m \in q + 2 .. j : /\ \A n \in q .. m - 1 : src[n] # "\n"
                              /\ m = j \/ src[m] = "\n"
                              /\ f[m]
  \/ /\ Matches(<<"/", "*">>, q)
     /\ \E m \in q + 4 .. j : Matches(<<"*", "/">>, m - 2) /\ f[m]
  \/ Matches(<<"/", "*">>, q) /\ j = Len(src) + 1

LEMMA BlankIs ==
  ASSUME src \in Seq(Chars), NEW j \in 1 .. Len(src) + 1, NEW i \in 1 .. j
  PROVE  \E f \in [i .. j -> BOOLEAN] :
           /\ \A q \in i .. j : f[q] = BlankAt(f, q, j)
           /\ \A q \in i .. j : f[q] = Blank(q, j)
<1> DEFINE V == 1 .. j
           Is(f, c) == f = [q \in c .. j |-> BlankAt(f, q, j)]
           B(c) == CHOOSE f : Is(f, c)
<1>1. j \in Int /\ \A c \in V : c \in Int
  OBVIOUS
<1>2. ASSUME NEW c \in V, NEW q \in c .. j, NEW F, NEW G, \A r \in q + 1 .. j : F[r] = G[r]
      PROVE  BlankAt(F, q, j) = BlankAt(G, q, j)
  <2>1. q # j => q + 1 \in q + 1 .. j
    BY <1>1
  <2>2. /\ \A m \in q + 2 .. j : m \in q + 1 .. j
        /\ \A m \in q + 4 .. j : m \in q + 1 .. j
    BY <1>1
  <2>3. /\ q # j => F[q + 1] = G[q + 1]
        /\ \A m \in q + 2 .. j : F[m] = G[m]
        /\ \A m \in q + 4 .. j : F[m] = G[m]
    BY <1>2, <2>1, <2>2
  <2>4. BlankAt(F, q, j) <=> BlankAt(G, q, j)
    BY <2>3, Zenon DEF BlankAt
  <2>5. BlankAt(F, q, j) \in BOOLEAN /\ BlankAt(G, q, j) \in BOOLEAN
    BY Zenon DEF BlankAt
  <2>6. QED BY <2>4, <2>5
<1>3. ASSUME NEW c \in V PROVE Is(B(c), c) /\ Blank(c, j) = B(c)[c]
  <2> DEFINE h == [q \in c .. j |-> [F \in [c .. j -> BOOLEAN] |-> BlankAt(F, q, j)]]
  <2>1. \A q \in c .. j : \A F : BlankAt(F, q, j) \in BOOLEAN
    BY Zenon DEF BlankAt
  <2>2. h \in [c .. j -> [[c .. j -> BOOLEAN] -> BOOLEAN]]
    BY <2>1, Zenon
  <2>3. \A q \in c .. j : \A F \in [c .. j -> BOOLEAN] : h[q][F] = BlankAt(F, q, j)
    OBVIOUS
  <2>4. \A q \in c .. j : \A F, G \in [c .. j -> BOOLEAN] :
          (\A r \in q + 1 .. j : F[r] = G[r]) => h[q][F] = h[q][G]
    <3> SUFFICES ASSUME NEW q \in c .. j, NEW F \in [c .. j -> BOOLEAN],
                        NEW G \in [c .. j -> BOOLEAN], \A r \in q + 1 .. j : F[r] = G[r]
                 PROVE  h[q][F] = h[q][G]
      BY Zenon
    <3>1. BlankAt(F, q, j) = BlankAt(G, q, j)
      BY <1>2
    <3> HIDE DEF h
    <3>2. h[q][F] = BlankAt(F, q, j) /\ h[q][G] = BlankAt(G, q, j)
      BY <2>3
    <3>3. QED BY <3>1, <3>2
  <2> HIDE DEF h
  <2>5. FromLarger(h, c, j, BOOLEAN)
    BY <2>2, <2>4 DEF FromLarger
  <2>6. PICK f \in [c .. j -> BOOLEAN] : IsFixed(f, h, c, j)
    <3>1. c \in Int /\ j \in Int /\ TRUE \in BOOLEAN
      BY <1>1
    <3>2. QED BY <2>5, <3>1, Descending
  <2>7. Is(f, c)
    <3>1. \A q \in c .. j : f[q] = BlankAt(f, q, j)
      BY <2>3, <2>6 DEF IsFixed
    <3>2. QED BY <3>1, Zenon
  <2>8. Is(B(c), c)
    <3> HIDE DEF Is
    <3>1. QED BY <2>7
  <2>9. Blank(c, j) = B(c)[c]
    BY DEF Blank, BlankAt
  <2>10. QED BY <2>8, <2>9
<1>4. ASSUME NEW c \in V, NEW d \in V, c <= d
      PROVE  \A q \in d .. j : B(c)[q] = B(d)[q]
  <2> DEFINE f == B(c)
             g == B(d)
             T == {q \in d .. j : f[q] = g[q]}
  <2>1. (\A q \in d .. j : f[q] = BlankAt(f, q, j)) /\ (\A q \in d .. j : g[q] = BlankAt(g, q, j))
    <3>1. Is(f, c) /\ Is(g, d)
      BY <1>3
    <3> HIDE DEF f, g
    <3>2. \A q \in d .. j : q \in c .. j
      BY <1>4
    <3>3. QED BY <3>1, <3>2
  <2> HIDE DEF f, g
  <2>2. ASSUME NEW q \in d .. j, \A r \in q + 1 .. j : r \in T PROVE q \in T
    <3>1. \A r \in q + 1 .. j : f[r] = g[r]
      BY <2>2
    <3>2. BlankAt(f, q, j) = BlankAt(g, q, j)
      BY <1>2, <3>1
    <3>3. QED BY <2>1, <3>2
  <2> HIDE DEF T
  <2>3. d .. j \subseteq T
    BY <1>1, <2>2, FromAbove
  <2>4. QED BY <2>3 DEF T, f, g
<1> DEFINE f == B(i)
<1>5. Is(f, i) /\ \A q \in i .. j : f[q] = Blank(q, j)
  <2>1. i \in V /\ \A q \in i .. j : q \in V /\ i <= q /\ q \in q .. j
    OBVIOUS
  <2> HIDE DEF B, Is, V
  <2>2. QED BY <1>3, <1>4, <2>1
<1> HIDE DEF f, B
<1>6. f \in [i .. j -> BOOLEAN] /\ \A q \in i .. j : f[q] = BlankAt(f, q, j)
  <2>1. \A q \in i .. j : BlankAt(f, q, j) \in BOOLEAN
    BY Zenon DEF BlankAt
  <2>2. QED BY <1>5, <2>1, Zenon
<1>7. QED BY <1>5, <1>6

LEMMA BlankSteps ==
  ASSUME src \in Seq(Chars), NEW j \in 1 .. Len(src) + 1, NEW i \in 1 .. j
  PROVE  /\ i = j => Blank(i, j)
         /\ i # j /\ src[i] \in Space /\ Blank(i + 1, j) => Blank(i, j)
         /\ \A m \in i + 2 .. j :
              /\ Matches(<<"/", "/">>, i)
              /\ \A n \in i .. m - 1 : src[n] # "\n"
              /\ m = j \/ src[m] = "\n"
              /\ Blank(m, j)
              => Blank(i, j)
         /\ \A m \in i + 4 .. j :
              Matches(<<"/", "*">>, i) /\ Matches(<<"*", "/">>, m - 2) /\ Blank(m, j) => Blank(i, j)
         /\ Matches(<<"/", "*">>, i) /\ j = Len(src) + 1 => Blank(i, j)
<1>1. PICK f \in [i .. j -> BOOLEAN] :
        /\ \A q \in i .. j : f[q] = BlankAt(f, q, j)
        /\ \A q \in i .. j : f[q] = Blank(q, j)
  BY BlankIs
<1>2. Blank(i, j) = BlankAt(f, i, j)
  BY <1>1
<1>3. i # j => f[i + 1] = Blank(i + 1, j)
  BY <1>1
<1>4. /\ \A m \in i + 2 .. j : f[m] = Blank(m, j)
      /\ \A m \in i + 4 .. j : f[m] = Blank(m, j)
  BY <1>1
<1>5. QED BY <1>2, <1>3, <1>4, Zenon DEF BlankAt

LEMMA BlankSpaces ==
  ASSUME src \in Seq(Chars), NEW j \in 1 .. Len(src) + 1, NEW r \in 1 .. j, NEW i \in 1 .. r,
         \A n \in i .. r - 1 : src[n] \in Space, Blank(r, j)
  PROVE  Blank(i, j)
<1> DEFINE T == {q \in i .. r : Blank(q, j)}
<1>1. ASSUME NEW q \in i .. r, \A n \in q + 1 .. r : n \in T PROVE q \in T
  <2>1. CASE q = r
    BY <2>1
  <2>2. CASE q # r
    <3>1. q \in 1 .. j /\ q # j /\ q \in i .. r - 1 /\ q + 1 \in q + 1 .. r
      BY <2>2
    <3>2. src[q] \in Space /\ Blank(q + 1, j)
      BY <1>1, <3>1
    <3>3. QED BY <3>1, <3>2, BlankSteps
  <2>3. QED BY <2>1, <2>2
<1>2. i \in Int /\ r \in Int /\ i \in i .. r
  OBVIOUS
<1>3. i .. r \subseteq T
  <2> HIDE DEF T
  <2>1. QED BY <1>1, <1>2, FromAbove
<1>4. QED BY <1>2, <1>3

LEMMA BlankLine ==
  ASSUME src \in Seq(Chars), NEW j \in 1 .. Len(src) + 1, NEW i \in 1 .. j,
         PassLine(i) <= j, Blank(PassLine(i), j)
  PROVE  Blank(i, j)
<1> DEFINE m == PassLine(i)
<1>1. i \in 1 .. Len(src) + 1 /\ m \in i .. Len(src) + 1
  BY PassLineFacts
<1>2. CASE ~Matches(<<"/", "/">>, i)
  BY <1>1, <1>2, PassLineFacts
<1>3. CASE Matches(<<"/", "/">>, i)
  <2>1. /\ m >= i + 2 /\ \A n \in i + 2 .. m - 1 : src[n] # "\n"
        /\ m = Len(src) + 1 \/ src[m] = "\n"
    BY <1>1, <1>3, PassLineFacts
  <2>2. src[i] = "/" /\ src[i + 1] = "/"
    BY <1>3 DEF Matches
  <2> HIDE DEF m
  <2>3. \A n \in i .. m - 1 : n = i \/ n = i + 1 \/ n \in i + 2 .. m - 1
    BY <1>1
  <2>4. \A n \in i .. m - 1 : src[n] # "\n"
    BY <2>1, <2>2, <2>3
  <2>5. m \in i + 2 .. j /\ (m = j \/ src[m] = "\n") /\ Blank(m, j)
    BY <1>1, <2>1 DEF m
  <2>6. QED BY <1>3, <2>4, <2>5, BlankSteps
<1>4. QED BY <1>2, <1>3

LEMMA BlankBlocks ==
  ASSUME src \in Seq(Chars), NEW j \in 1 .. Len(src) + 1, NEW i \in 1 .. j,
         PassBlocks(i) <= j, Blank(PassBlocks(i), j)
  PROVE  Blank(i, j)
<1> DEFINE T == {q \in 1 .. j : PassBlocks(q) <= j /\ Blank(PassBlocks(q), j) => Blank(q, j)}
<1>1. ASSUME NEW q \in 1 .. j, \A n \in q + 1 .. j : n \in T,
             PassBlocks(q) <= j, Blank(PassBlocks(q), j)
      PROVE  Blank(q, j)
  <2>1. q \in 1 .. Len(src) + 1
    OBVIOUS
  <2>2. CASE ~Matches(<<"/", "*">>, q)
    BY <1>1, <2>1, <2>2, PassBlocksStep
  <2>3. CASE Matches(<<"/", "*">>, q)
    <3> DEFINE e == BlockEnd(q)
    <3>0. PassBlocks(q) = PassBlocks(e)
      BY <2>1, <2>3, PassBlocksStep
    <3>1. /\ e \in q + 2 .. Len(src) + 1 /\ PassBlocks(q) = PassBlocks(e)
          /\ e = Len(src) + 1 \/ (e >= q + 4 /\ Matches(<<"*", "/">>, e - 2))
      <4> HIDE DEF T
      <4>1. e \in q + 2 .. Len(src) + 1
        BY <2>1, <2>3, BlockEndFacts
      <4>2. e = Len(src) + 1 \/ (e >= q + 4 /\ Matches(<<"*", "/">>, e - 2))
        BY <2>1, <2>3, BlockEndFacts
      <4>3. QED BY <3>0, <4>1, <4>2
    <3> HIDE DEF e
    <3>2. e \in 1 .. Len(src) + 1
      BY <3>1
    <3>3. PassBlocks(e) \in e .. Len(src) + 1
      BY <3>2, PassBlocksFacts
    <3>4. e \in q + 2 .. j /\ e \in q + 1 .. j
      BY <1>1, <3>1, <3>3
    <3>5. Blank(e, j)
      BY <1>1, <3>1, <3>4
    <3>6. CASE e = Len(src) + 1
      <4>1. j = Len(src) + 1
        BY <3>4, <3>6
      <4>2. QED BY <2>3, <4>1, BlankSteps
    <3>7. CASE e >= q + 4 /\ Matches(<<"*", "/">>, e - 2)
      <4>1. e \in q + 4 .. j
        BY <3>4, <3>7
      <4>2. QED BY <2>3, <3>5, <3>7, <4>1, BlankSteps
    <3>8. QED BY <3>1, <3>6, <3>7
  <2>4. QED BY <2>2, <2>3
<1>2. 1 \in Int /\ j \in Int
  OBVIOUS
<1>3. \A q \in 1 .. j : (\A n \in q + 1 .. j : n \in T) => q \in T
  BY <1>1
<1>4. 1 .. j \subseteq T
  <2> HIDE DEF T
  <2>1. QED BY <1>2, <1>3, FromAbove
<1>5. QED BY <1>4

\* What a turn of the loop skips is blank, and begins with a / if a comment comes
\* behind it.
LEMMA SkippedFacts ==
  ASSUME src \in Seq(Chars), NEW p \in 1 .. Len(src) + 1
  PROVE  /\ Skipped(p) \in p .. Len(src) + 1
         /\ Blank(p, Skipped(p))
         /\ src[p] \notin Space
            /\ (Matches(<<"/", "/">>, Skipped(p)) \/ Matches(<<"/", "*">>, Skipped(p))) =>
              \E q \in p .. Skipped(p) - 1 : src[q] = "/"
<1> DEFINE l == PassLine(p)
           c == PassBlocks(l)
           s == Pass(c, Space)
<1>1. l \in 1 .. Len(src) + 1 /\ p <= l
  BY PassLineFacts
<1>2. c \in 1 .. Len(src) + 1 /\ l <= c
  <2> HIDE DEF l
  <2>1. QED BY <1>1, PassBlocksFacts
<1>3. /\ s \in 1 .. Len(src) + 1 /\ c <= s
      /\ \A n \in c .. s - 1 : src[n] \in Space
  <2> HIDE DEF c
  <2>1. QED BY <1>2, PassFacts
<1>4. Skipped(p) = s
  BY DEF Skipped, PassSpace
<1>5. Blank(p, s)
  <2>1. s \in 1 .. s
    BY <1>3
  <2> HIDE DEF s
  <2>2. Blank(s, s)
    BY <1>3, <2>1, BlankSteps
  <2>3. Blank(c, s)
    <3> HIDE DEF c
    <3>1. c \in 1 .. s /\ s \in 1 .. s
      BY <1>2, <1>3
    <3>2. QED BY <1>3, <2>2, <3>1, BlankSpaces
  <2>4. Blank(l, s)
    <3> HIDE DEF l
    <3>1. l \in 1 .. s /\ c <= s
      BY <1>1, <1>2, <1>3
    <3>2. QED BY <1>3, <2>3, <3>1, BlankBlocks
  <2>5. p \in 1 .. s /\ l <= s
    <3> HIDE DEF l, c
    <3>1. QED BY <1>1, <1>2, <1>3
  <2>6. QED BY <1>3, <2>4, <2>5, BlankLine
<1>6. ASSUME src[p] \notin Space, Matches(<<"/", "/">>, s) \/ Matches(<<"/", "*">>, s)
      PROVE  \E q \in p .. s - 1 : src[q] = "/"
  <2>1. CASE Matches(<<"/", "/">>, p) \/ Matches(<<"/", "*">>, p)
    <3>1. src[p] = "/"
      BY <2>1 DEF Matches
    <3>2. l = p => c >= p + 2
      <4>1. l = p => Matches(<<"/", "*">>, p)
        BY <2>1, PassLineFacts
      <4>2. QED BY <4>1, PassBlocksFacts
    <3>3. p \in p .. s - 1
      <4> HIDE DEF l, c, s
      <4>1. QED BY <1>1, <1>2, <1>3, <3>2
    <3>4. QED BY <3>1, <3>3
  <2>2. CASE ~(Matches(<<"/", "/">>, p) \/ Matches(<<"/", "*">>, p))
    <3>1. l = p
      BY <2>2, PassLineFacts
    <3>2. c = p
      BY <2>2, <3>1, PassBlocksFacts
    <3>3. s # p /\ src[p] \in Space
      <4> HIDE DEF s
      <4>1. s # p
        BY <1>6, <2>2
      <4>2. p \in c .. s - 1
        BY <1>3, <3>2, <4>1
      <4>3. QED BY <1>3, <4>1, <4>2
    <3>4. QED BY <1>6, <3>3
  <2>3. QED BY <2>1, <2>2
<1>7. s \in p .. Len(src) + 1
  <2> HIDE DEF l, c, s
  <2>1. QED BY <1>1, <1>2, <1>3
<1>8. QED BY <1>4, <1>5, <1>6, <1>7
-----------------------------------------------------------------------------
(***************************************************************************)
(* Punctuators, literals and places.                                       *)
(***************************************************************************)

\* How many characters an entry of the table has.
Single(t) == \E a : t = <<a>>
Pair(t)   == \E a, b : t = <<a, b>>
Triple(t) == \E a, b, c : t = <<a, b, c>>

\* The table is ordered by length.
LEMMA TableOrdered ==
  /\ DOMAIN Table = 1 .. 48
  /\ \A k \in 1 .. 2 : Triple(Table[k])
  /\ \A k \in 3 .. 22 : Pair(Table[k])
  /\ \A k \in 23 .. 48 : Single(Table[k])
<1>1. DOMAIN Table = 1 .. 48
  BY DEF Table
<1>2. Triple(Table[1]) /\ Triple(Table[2])
  BY DEF Table, Triple
<1>3. /\ Pair(Table[3]) /\ Pair(Table[4]) /\ Pair(Table[5]) /\ Pair(Table[6])
      /\ Pair(Table[7]) /\ Pair(Table[8]) /\ Pair(Table[9]) /\ Pair(Table[10])
      /\ Pair(Table[11]) /\ Pair(Table[12]) /\ Pair(Table[13]) /\ Pair(Table[14])
      /\ Pair(Table[15]) /\ Pair(Table[16]) /\ Pair(Table[17]) /\ Pair(Table[18])
      /\ Pair(Table[19]) /\ Pair(Table[20]) /\ Pair(Table[21]) /\ Pair(Table[22])
  BY DEF Table, Pair
<1>4. /\ Single(Table[23]) /\ Single(Table[24]) /\ Single(Table[25]) /\ Single(Table[26])
      /\ Single(Table[27]) /\ Single(Table[28]) /\ Single(Table[29]) /\ Single(Table[30])
      /\ Single(Table[31]) /\ Single(Table[32]) /\ Single(Table[33]) /\ Single(Table[34])
      /\ Single(Table[35])
  BY DEF Table, Single
<1>5. /\ Single(Table[36]) /\ Single(Table[37]) /\ Single(Table[38]) /\ Single(Table[39])
      /\ Single(Table[40]) /\ Single(Table[41]) /\ Single(Table[42]) /\ Single(Table[43])
      /\ Single(Table[44]) /\ Single(Table[45]) /\ Single(Table[46]) /\ Single(Table[47])
      /\ Single(Table[48])
  BY DEF Table, Single
<1>6. QED BY <1>1, <1>2, <1>3, <1>4, <1>5

LEMMA TableIndexes == DOMAIN Table \subseteq Nat
BY TableOrdered

\* What the text at p matches is written there.
LEMMA MatchesSpelled ==
  ASSUME src \in Seq(Chars), NEW p \in 1 .. Len(src) + 1, NEW t, Matches(t, p),
         Single(t) \/ Pair(t) \/ Triple(t)
  PROVE  p + Len(t) <= Len(src) + 1 /\ t = SubSeq(src, p, p + Len(t) - 1)
<1>1. ASSUME NEW a, t = <<a>>
      PROVE  p + Len(t) <= Len(src) + 1 /\ t = SubSeq(src, p, p + Len(t) - 1)
  <2>1. Matches(<<a>>, p) /\ Len(t) = 1 /\ p + 1 - 1 = p
    BY <1>1
  <2>2. p <= Len(src) /\ src[p] = a
    BY <2>1 DEF Matches
  <2>3. <<a>> = SubSeq(src, p, p)
    BY <2>2
  <2>4. p + Len(t) - 1 = p
    BY <2>1
  <2>5. QED BY <1>1, <2>1, <2>2, <2>3, <2>4
<1>2. ASSUME NEW a, NEW b, t = <<a, b>>
      PROVE  p + Len(t) <= Len(src) + 1 /\ t = SubSeq(src, p, p + Len(t) - 1)
  <2>1. Matches(<<a, b>>, p)
    BY <1>2
  <2>2. p + 1 <= Len(src) /\ src[p] = a /\ src[p + 1] = b
    BY <2>1 DEF Matches
  <2>3. <<a, b>> = SubSeq(src, p, p + 1)
    BY <2>2
  <2>4. QED BY <1>2, <2>2, <2>3
<1>3. ASSUME NEW a, NEW b, NEW c, t = <<a, b, c>>
      PROVE  p + Len(t) <= Len(src) + 1 /\ t = SubSeq(src, p, p + Len(t) - 1)
  <2>1. Matches(<<a, b, c>>, p)
    BY <1>3
  <2>2. p + 2 <= Len(src) /\ src[p] = a /\ src[p + 1] = b /\ src[p + 2] = c
    BY <2>1 DEF Matches
  <2>3. <<a, b, c>> = SubSeq(src, p, p + 2)
    BY <2>2
  <2>4. QED BY <1>3, <2>2, <2>3
<1>4. QED BY <1>1, <1>2, <1>3 DEF Single, Pair, Triple

\* The length of the j-th entry.
Size(j) == IF j <= 2 THEN 3 ELSE IF j <= 22 THEN 2 ELSE 1

LEMMA SizeFacts ==
  /\ \A j \in 1 .. 2 : Size(j) = 3
  /\ \A j \in 3 .. 22 : Size(j) = 2
  /\ \A j \in 23 .. 48 : Size(j) = 1
  /\ \A i, j \in 1 .. 48 : Size(i) \in 1 .. 3 /\ (i <= j => Size(j) <= Size(i))
BY DEF Size

\* An entry that the text at p matches is what is written there, and is not
\* shorter than the ones behind it.
LEMMA EntryFacts ==
  ASSUME src \in Seq(Chars), NEW p \in 1 .. Len(src) + 1, NEW k \in DOMAIN Table,
         Matches(Table[k], p)
  PROVE  /\ p + Len(Table[k]) <= Len(src) + 1 /\ Len(Table[k]) \in 1 .. 3
         /\ Table[k] = SubSeq(src, p, p + Len(Table[k]) - 1)
         /\ \A j \in DOMAIN Table : k <= j => Len(Table[j]) <= Len(Table[k])
<1>1. ASSUME NEW j \in DOMAIN Table
      PROVE  Len(Table[j]) = Size(j) /\ (Single(Table[j]) \/ Pair(Table[j]) \/ Triple(Table[j]))
  <2>1. CASE j \in 1 .. 2
    <3>1. Triple(Table[j])
      BY <2>1, TableOrdered
    <3>5. Size(j) = 3
      BY <2>1, SizeFacts
    <3>2. PICK a, b, c : Table[j] = <<a, b, c>>
      BY <3>1 DEF Triple
    <3>3. Len(Table[j]) = 3
      BY <3>2
    <3>4. QED BY <3>1, <3>3, <3>5
  <2>2. CASE j \in 3 .. 22
    <3>1. Pair(Table[j])
      BY <2>2, TableOrdered
    <3>5. Size(j) = 2
      BY <2>2, SizeFacts
    <3>2. PICK a, b : Table[j] = <<a, b>>
      BY <3>1 DEF Pair
    <3>3. Len(Table[j]) = 2
      BY <3>2
    <3>4. QED BY <3>1, <3>3, <3>5
  <2>3. CASE j \in 23 .. 48
    <3>1. Single(Table[j])
      BY <2>3, TableOrdered
    <3>5. Size(j) = 1
      BY <2>3, SizeFacts
    <3>2. PICK a : Table[j] = <<a>>
      BY <3>1 DEF Single
    <3>3. Len(Table[j]) = 1
      BY <3>2
    <3>6. QED BY <3>1, <3>3, <3>5
  <2>4. j \in 1 .. 48 /\ (j \in 1 .. 2 \/ j \in 3 .. 22 \/ j \in 23 .. 48)
    BY TableOrdered
  <2>5. QED BY <2>1, <2>2, <2>3, <2>4
<1>2. \A i, j \in DOMAIN Table : Size(i) \in 1 .. 3 /\ (i <= j => Size(j) <= Size(i))
  BY TableOrdered, SizeFacts
<1>3. \A j \in DOMAIN Table : k <= j => Len(Table[j]) <= Len(Table[k])
  BY <1>1, <1>2
<1>4. Len(Table[k]) \in 1 .. 3
  BY <1>1, <1>2
<1>5. p + Len(Table[k]) <= Len(src) + 1 /\ Table[k] = SubSeq(src, p, p + Len(Table[k]) - 1)
  BY <1>1, MatchesSpelled
<1>6. QED BY <1>3, <1>4, <1>5

\* find_punct finds the longest entry that the text at p matches.
LEMMA FindPunctFacts ==
  ASSUME src \in Seq(Chars), NEW p \in 1 .. Len(src) + 1, FindPunct(p) # 0
  PROVE  LET t == Table[FindPunct(p)] IN
         /\ Len(t) \in 1 .. 3 /\ p + Len(t) <= Len(src) + 1
         /\ t = SubSeq(src, p, p + Len(t) - 1)
         /\ \A j \in DOMAIN Table : Matches(Table[j], p) => Len(Table[j]) <= Len(t)
<1> DEFINE found == {i \in DOMAIN Table : Matches(Table[i], p)}
           k == FindPunct(p)
<1>1. found # {} /\ k = Least(found)
  BY DEF FindPunct
<1>2. found \subseteq Nat
  BY TableIndexes, Zenon
<1>3. k \in found /\ \A j \in found : k <= j
  <2> HIDE DEF found, k
  <2>1. QED BY <1>1, <1>2, LeastIs
<1>4. k \in DOMAIN Table /\ Matches(Table[k], p)
  BY <1>3
<1>5. \A j \in DOMAIN Table : Matches(Table[j], p) => k <= j
  BY <1>3
<1> HIDE DEF k, found
<1>6. /\ Len(Table[k]) \in 1 .. 3 /\ p + Len(Table[k]) <= Len(src) + 1
      /\ Table[k] = SubSeq(src, p, p + Len(Table[k]) - 1)
  BY <1>4, EntryFacts
<1>7. \A j \in DOMAIN Table : k <= j => Len(Table[j]) <= Len(Table[k])
  BY <1>4, EntryFacts
<1>8. QED BY <1>5, <1>6, <1>7 DEF k

\* A literal: its characters are of the text or of escapes, and it ends behind
\* where it begins.
Literals == [end : Nat, text : Seq(Chars), exit : BOOLEAN]

LEMMA QuotedFacts ==
  ASSUME src \in Seq(Chars), NEW c, NEW p \in 1 .. Len(src) + 1
  PROVE  Quoted(c, p) \in Literals /\ Quoted(c, p).end >= p
<1> DEFINE b == Len(src) + 2
           End(i) == AtEnd(i) \/ src[i] = c
           Body(f, i) ==
             IF End(i) THEN [end |-> i, text |-> <<>>, exit |-> FALSE]
             ELSE IF src[i] # Backslash
             THEN [f[i + 1] EXCEPT !.text = <<src[i]>> \o @]
             ELSE IF Char(i + 1) \in DOMAIN Escape
             THEN [f[i + 2] EXCEPT !.text = <<Escape[src[i + 1]]>> \o @]
             ELSE [end |-> i, text |-> <<>>, exit |-> TRUE]
           Is(f) == f = [i \in p .. b |-> Body(f, i)]
           h == [i \in p .. b |-> [F \in [p .. b -> Literals] |-> Body(F, i)]]
<1>1. b \in Int /\ p \in Int /\ [end |-> 0, text |-> <<>>, exit |-> FALSE] \in Literals
  <2>1. <<>> \in Seq(Chars)
    OBVIOUS
  <2>2. QED BY <2>1 DEF Literals
<1>2. ASSUME NEW i \in p .. b, ~End(i) PROVE i \in 1 .. Len(src) /\ src[i] \in Chars /\ i + 1 \in i + 1 .. b
  BY <1>2 DEF AtEnd
<1>3. ASSUME NEW i \in p .. b, ~End(i), Char(i + 1) \in DOMAIN Escape
      PROVE  i + 2 \in i + 1 .. b /\ Escape[src[i + 1]] \in Chars
  <2>1. i \in 1 .. Len(src)
    BY <1>2, <1>3
  <2>2. NUL \notin DOMAIN Escape
    BY DEF NUL, Escape
  <2>3. i + 1 <= Len(src) /\ Char(i + 1) = src[i + 1]
    BY <1>3, <2>1, <2>2 DEF Char, AtEnd
  <2>4. QED BY <1>3, <2>1, <2>3, TextAssumption DEF Chars
<1>4. ASSUME NEW i \in p .. b, NEW F \in [p .. b -> Literals]
      PROVE  Body(F, i) \in Literals
  <2>1. i \in Nat /\ <<>> \in Seq(Chars)
    OBVIOUS
  <2>2. CASE End(i)
    BY <2>1, <2>2 DEF Literals
  <2>3. CASE ~End(i) /\ src[i] # Backslash
    <3>1. F[i + 1] \in Literals /\ <<src[i]>> \in Seq(Chars)
      BY <1>2, <2>3
    <3>2. <<src[i]>> \o F[i + 1].text \in Seq(Chars)
      BY <3>1 DEF Literals
    <3>3. [F[i + 1] EXCEPT !.text = <<src[i]>> \o @] \in Literals
      BY <3>1, <3>2 DEF Literals
    <3>4. QED BY <2>3, <3>3
  <2>4. CASE ~End(i) /\ src[i] = Backslash /\ Char(i + 1) \in DOMAIN Escape
    <3>1. F[i + 2] \in Literals /\ <<Escape[src[i + 1]]>> \in Seq(Chars)
      <4>1. i + 2 \in p .. b /\ Escape[src[i + 1]] \in Chars
        BY <1>3, <2>4
      <4>2. QED BY <4>1
    <3>2. <<Escape[src[i + 1]]>> \o F[i + 2].text \in Seq(Chars)
      <4>1. F[i + 2].text \in Seq(Chars)
        BY <3>1 DEF Literals
      <4>2. QED BY <3>1, <4>1
    <3>3. [F[i + 2] EXCEPT !.text = <<Escape[src[i + 1]]>> \o @] \in Literals
      BY <3>1, <3>2 DEF Literals
    <3>4. QED BY <2>4, <3>3
  <2>5. CASE ~End(i) /\ src[i] = Backslash /\ Char(i + 1) \notin DOMAIN Escape
    BY <2>1, <2>5 DEF Literals
  <2>6. QED BY <2>2, <2>3, <2>4, <2>5
<1>5. ASSUME NEW i \in p .. b, NEW F, NEW G, \A r \in i + 1 .. b : F[r] = G[r]
      PROVE  Body(F, i) = Body(G, i)
  <2>1. ~End(i) => F[i + 1] = G[i + 1]
    BY <1>2, <1>5
  <2>2. ~End(i) /\ Char(i + 1) \in DOMAIN Escape => F[i + 2] = G[i + 2]
    BY <1>3, <1>5
  <2>3. QED BY <2>1, <2>2
<1>6. \E f \in [p .. b -> Literals] : Is(f)
  <2> HIDE DEF Body
  <2>1. h \in [p .. b -> [[p .. b -> Literals] -> Literals]]
    BY <1>4
  <2>2. \A i \in p .. b : \A F \in [p .. b -> Literals] : h[i][F] = Body(F, i)
    OBVIOUS
  <2> HIDE DEF h
  <2>3. FromLarger(h, p, b, Literals)
    <3> SUFFICES ASSUME NEW i \in p .. b, NEW F \in [p .. b -> Literals],
                        NEW G \in [p .. b -> Literals], \A r \in i + 1 .. b : F[r] = G[r]
                 PROVE  h[i][F] = h[i][G]
      BY <2>1 DEF FromLarger
    <3>1. Body(F, i) = Body(G, i)
      BY <1>5
    <3>2. h[i][F] = Body(F, i) /\ h[i][G] = Body(G, i)
      BY <2>2
    <3>3. QED BY <3>1, <3>2
  <2>4. PICK f \in [p .. b -> Literals] : IsFixed(f, h, p, b)
    BY <1>1, <2>3, Descending
  <2>5. \A i \in p .. b : f[i] = Body(f, i)
    BY <2>2, <2>4 DEF IsFixed
  <2>6. QED BY <2>5
<1> DEFINE g == CHOOSE f : Is(f)
<1>7. Is(g)
  <2> HIDE DEF Is
  <2>1. QED BY <1>6
<1>8. Quoted(c, p) = g[p]
  BY DEF Quoted
<1> HIDE DEF g
<1>9. \A i \in p .. b : g[i] = Body(g, i)
  <2> HIDE DEF Body
  <2>1. QED BY <1>7
<1> DEFINE T == {i \in p .. b : g[i] \in Literals /\ g[i].end >= i}
<1>10. ASSUME NEW i \in p .. b, \A r \in i + 1 .. b : r \in T PROVE i \in T
  <2> SUFFICES g[i] \in Literals /\ g[i].end >= i
    OBVIOUS
  <2>1. i \in Nat /\ <<>> \in Seq(Chars)
    OBVIOUS
  <2>2. CASE End(i)
    <3>1. g[i] = [end |-> i, text |-> <<>>, exit |-> FALSE]
      BY <1>9, <2>2
    <3>2. g[i].end >= i
      BY <2>1, <3>1
    <3>3. QED BY <2>1, <3>1, <3>2 DEF Literals
  <2>3. CASE ~End(i) /\ src[i] # Backslash
    <3>1. i + 1 \in T /\ <<src[i]>> \in Seq(Chars)
      BY <1>2, <1>10, <2>3
    <3>2. <<src[i]>> \o g[i + 1].text \in Seq(Chars)
      BY <3>1 DEF Literals
    <3>6. g[i + 1] \in Literals /\ g[i + 1].end >= i + 1
      BY <3>1
    <3>3. g[i] = [g[i + 1] EXCEPT !.text = <<src[i]>> \o @]
      BY <1>9, <2>3
    <3>4. g[i].end = g[i + 1].end /\ g[i] \in Literals
      BY <3>2, <3>3, <3>6 DEF Literals
    <3>5. QED BY <2>1, <3>4, <3>6 DEF Literals
  <2>4. CASE ~End(i) /\ src[i] = Backslash /\ Char(i + 1) \in DOMAIN Escape
    <3>1. i + 2 \in T /\ <<Escape[src[i + 1]]>> \in Seq(Chars)
      BY <1>3, <1>10, <2>4
    <3>2. <<Escape[src[i + 1]]>> \o g[i + 2].text \in Seq(Chars)
      BY <3>1 DEF Literals
    <3>6. g[i + 2] \in Literals /\ g[i + 2].end >= i + 2
      BY <3>1
    <3>3. g[i] = [g[i + 2] EXCEPT !.text = <<Escape[src[i + 1]]>> \o @]
      BY <1>9, <2>4
    <3>4. g[i].end = g[i + 2].end /\ g[i] \in Literals
      BY <3>2, <3>3, <3>6 DEF Literals
    <3>5. QED BY <2>1, <3>4, <3>6 DEF Literals
  <2>5. CASE ~End(i) /\ src[i] = Backslash /\ Char(i + 1) \notin DOMAIN Escape
    <3>1. g[i] = [end |-> i, text |-> <<>>, exit |-> TRUE]
      BY <1>9, <2>5
    <3>2. g[i].end >= i
      BY <2>1, <3>1
    <3>3. [end |-> i, text |-> <<>>, exit |-> TRUE] \in Literals
      BY <2>1 DEF Literals
    <3>4. g[i] \in Literals
      BY <3>1, <3>3
    <3>5. QED BY <3>2, <3>4
  <2>6. QED BY <2>2, <2>3, <2>4, <2>5
<1>11. p .. b \subseteq T
  <2> HIDE DEF T
  <2>1. p \in Int /\ b \in Int
    BY <1>1
  <2> HIDE DEF b
  <2>2. QED BY <2>1, <1>10, FromAbove
<1>12. p \in p .. b
  OBVIOUS
<1>13. QED BY <1>8, <1>11, <1>12

\* The ends of lines before position p.
Newlines(p) == {q \in 1 .. p - 1 : src[q] = "\n"}

Places == [line : Nat, column : Nat]

\* The line counts the ends of lines, and the column the characters since the
\* last one.
PlaceIs(place, p) ==
  /\ place.line = 1 + Cardinality(Newlines(p))
  /\ \A l \in Newlines(p) \cup {0} :
       (\A q \in Newlines(p) : q <= l) => place.column = p - l

LEMMA NewlinesFacts ==
  ASSUME NEW p \in Nat \ {0}
  PROVE  /\ IsFiniteSet(Newlines(p)) /\ Cardinality(Newlines(p)) \in Nat
         /\ Newlines(1) = {} /\ Cardinality(Newlines(1)) = 0
         /\ src[p] = "\n" => /\ Newlines(p + 1) = Newlines(p) \cup {p}
                             /\ Cardinality(Newlines(p + 1)) = Cardinality(Newlines(p)) + 1
         /\ src[p] # "\n" => Newlines(p + 1) = Newlines(p)
<1>1. IsFiniteSet(Newlines(p)) /\ Cardinality(Newlines(p)) \in Nat
  <2>1. IsFiniteSet(1 .. p - 1) /\ Newlines(p) \subseteq 1 .. p - 1
    BY FS_Interval DEF Newlines
  <2>2. QED BY <2>1, FS_Subset, FS_CardinalityType
<1>2. Newlines(1) = {} /\ Cardinality(Newlines(1)) = 0
  <2>1. Newlines(1) = {}
    BY DEF Newlines
  <2>2. QED BY <2>1, FS_EmptySet
<1>3. ASSUME src[p] = "\n"
      PROVE  /\ Newlines(p + 1) = Newlines(p) \cup {p}
             /\ Cardinality(Newlines(p + 1)) = Cardinality(Newlines(p)) + 1
  <2>1. Newlines(p + 1) = Newlines(p) \cup {p} /\ p \notin Newlines(p)
    BY <1>3 DEF Newlines
  <2>2. Cardinality(Newlines(p) \cup {p}) = Cardinality(Newlines(p)) + 1
    BY <1>1, <2>1, FS_AddElement
  <2>3. QED BY <2>1, <2>2
<1>4. ASSUME src[p] # "\n" PROVE Newlines(p + 1) = Newlines(p)
  BY <1>4 DEF Newlines
<1>5. QED BY <1>1, <1>2, <1>3, <1>4

LEMMA PlaceFacts ==
  ASSUME src \in Seq(Chars), NEW p \in 1 .. Len(src) + 1
  PROVE  Place(p) \in Places /\ PlaceIs(Place(p), p)
<1> DEFINE Step(f, i) == IF i = 1 THEN [line |-> 1, column |-> 1]
                         ELSE IF src[i - 1] = "\n"
                         THEN [line |-> f[i - 1].line + 1, column |-> 1]
                         ELSE [f[i - 1] EXCEPT !.column = @ + 1]
           Is(f) == f = [i \in 1 .. p |-> Step(f, i)]
           first == [line |-> 1, column |-> 1]
           step == [i \in Nat |-> [v \in Places |->
                      IF src[i] = "\n" THEN [line |-> v.line + 1, column |-> 1]
                      ELSE [v EXCEPT !.column = @ + 1]]]
<1>1. first \in Places /\ step \in [Nat -> [Places -> Places]] /\ p - 1 \in Nat
  BY DEF Places
<1>2. \A i \in Nat : \A v \in Places :
        step[i][v] = IF src[i] = "\n" THEN [line |-> v.line + 1, column |-> 1]
                     ELSE [v EXCEPT !.column = @ + 1]
  OBVIOUS
<1>3. PICK r \in [0 .. p - 1 -> Places] : Recurs(r, first, step, p - 1)
  <2> HIDE DEF first, step
  <2>1. QED BY <1>1, Recursion
<1> DEFINE f == [i \in 1 .. p |-> r[i - 1]]
<1>4. Is(f)
  <2> SUFFICES \A i \in 1 .. p : f[i] = Step(f, i)
    <3> HIDE DEF Step
    <3>1. QED BY Zenon
  <2> TAKE i \in 1 .. p
  <2>1. CASE i = 1
    BY <1>3, <2>1 DEF Recurs
  <2>2. CASE i # 1
    <3>1. i - 1 \in 1 .. p - 1 /\ i - 1 \in 1 .. p /\ i - 2 \in 0 .. p - 1 /\ (i - 1) - 1 = i - 2
      BY <2>2
    <3>2. f[i] = r[i - 1] /\ f[i - 1] = r[i - 2] /\ r[i - 2] \in Places
      BY <3>1
    <3> HIDE DEF step, first, f
    <3>3. r[i - 1] = step[i - 1][r[i - 2]]
      BY <1>3, <3>1 DEF Recurs
    <3>4. i - 1 \in Nat
      BY <3>1
    <3>5. QED BY <1>2, <2>2, <3>2, <3>3, <3>4
  <2>3. QED BY <2>1, <2>2
<1> DEFINE g == CHOOSE w : Is(w)
<1>5. Is(g) /\ Place(p) = g[p]
  <2>1. Is(g)
    <3> HIDE DEF Is, f
    <3>1. QED BY <1>4
  <2>2. QED BY <2>1 DEF Place
<1> HIDE DEF g
<1>6. \A i \in 1 .. p : g[i] = Step(g, i)
  <2> HIDE DEF Step
  <2>1. QED BY <1>5
<1> DEFINE T == {m \in Nat : m + 1 <= p => g[m + 1] \in Places /\ PlaceIs(g[m + 1], m + 1)}
<1>7. 0 \in T
  <2>0. 1 \in 1 .. p
    OBVIOUS
  <2>1. g[1] = [line |-> 1, column |-> 1]
    BY <1>6, <2>0
  <2>2. g[1] \in Places
    BY <2>1 DEF Places
  <2>3. Newlines(1) = {} /\ Cardinality(Newlines(1)) = 0
    BY NewlinesFacts
  <2>4. PlaceIs(g[1], 1)
    BY <2>1, <2>3 DEF PlaceIs
  <2>5. QED BY <2>2, <2>4
<1>8. ASSUME NEW m \in Nat, m \in T, m + 2 <= p
      PROVE  g[m + 2] \in Places /\ PlaceIs(g[m + 2], m + 2)
  <2> DEFINE n == m + 1
  <2>1. /\ n \in Nat \ {0} /\ n + 1 \in 1 .. p /\ n + 1 # 1 /\ (n + 1) - 1 = n
        /\ n + 1 = m + 2
    BY <1>8
  <2>2. g[n] \in Places /\ PlaceIs(g[n], n)
    BY <1>8
  <2>3. g[n].line \in Nat /\ g[n].column \in Nat
    BY <2>2 DEF Places
  <2> HIDE DEF n
  <2>4. CASE src[n] = "\n"
    <3>1. g[n + 1] = [line |-> g[n].line + 1, column |-> 1]
      BY <1>6, <2>1, <2>4
    <3>2. /\ Newlines(n + 1) = Newlines(n) \cup {n}
          /\ Cardinality(Newlines(n + 1)) = Cardinality(Newlines(n)) + 1
          /\ Cardinality(Newlines(n)) \in Nat
      BY <2>1, <2>4, NewlinesFacts
    <3>3. \A q \in Newlines(n) : q < n
      BY <2>1 DEF Newlines
    <3>4. \A l \in Newlines(n + 1) \cup {0} : (\A q \in Newlines(n + 1) : q <= l) => l = n
      <4> SUFFICES ASSUME NEW l \in Newlines(n + 1) \cup {0}, \A q \in Newlines(n + 1) : q <= l
                   PROVE  l = n
        OBVIOUS
      <4>1. n <= l
        BY <3>2
      <4>2. l \in Newlines(n) \/ l = n \/ l = 0
        BY <3>2
      <4>3. l \in Newlines(n) => l \in Nat /\ l < n
        BY <3>3 DEF Newlines
      <4>4. QED BY <2>1, <4>1, <4>2, <4>3
    <3>5. g[n + 1].line = 1 + Cardinality(Newlines(n + 1))
      BY <2>2, <2>3, <3>1, <3>2 DEF PlaceIs
    <3>6. PlaceIs(g[n + 1], n + 1)
      <4>1. g[n + 1].column = 1 /\ (n + 1) - n = 1
        BY <2>1, <3>1
      <4>2. QED BY <3>4, <3>5, <4>1 DEF PlaceIs
    <3>7. g[n + 1] \in Places
      BY <2>3, <3>1 DEF Places
    <3>8. QED BY <2>1, <3>6, <3>7
  <2>5. CASE src[n] # "\n"
    <3>1. g[n + 1] = [g[n] EXCEPT !.column = @ + 1]
      BY <1>6, <2>1, <2>5
    <3>2. Newlines(n + 1) = Newlines(n)
      BY <2>1, <2>5, NewlinesFacts
    <3>3. g[n + 1] \in Places /\ g[n + 1].line = g[n].line /\ g[n + 1].column = g[n].column + 1
      BY <2>2, <3>1 DEF Places
    <3>4. \A l \in Newlines(n) \cup {0} : l \in Int
      BY DEF Newlines
    <3>5. ASSUME NEW l \in Newlines(n) \cup {0}, \A q \in Newlines(n) : q <= l
          PROVE  g[n + 1].column = (n + 1) - l
      <4>1. g[n].column = n - l
        BY <2>2, <3>5 DEF PlaceIs
      <4>2. QED BY <2>1, <2>3, <3>3, <3>4, <4>1
    <3>6. PlaceIs(g[n + 1], n + 1)
      BY <2>2, <3>2, <3>3, <3>5 DEF PlaceIs
    <3>7. QED BY <2>1, <3>3, <3>6
  <2>6. QED BY <2>4, <2>5
<1>9. \A m \in Nat : m \in T => m + 1 \in T
  <2> SUFFICES ASSUME NEW m \in Nat, m \in T PROVE m + 1 \in T
    OBVIOUS
  <2>1. m + 1 \in Nat /\ (m + 1) + 1 = m + 2
    OBVIOUS
  <2>2. QED BY <1>8, <2>1
<1>10. Nat \subseteq T
  <2> HIDE DEF T
  <2>1. QED BY <1>7, <1>9, Induction
<1>11. p - 1 \in Nat /\ (p - 1) + 1 = p
  OBVIOUS
<1>12. p - 1 \in T
  BY <1>10, <1>11
<1>13. g[p] \in Places /\ PlaceIs(g[p], p)
  BY <1>11, <1>12
<1>14. QED BY <1>5, <1>13
-----------------------------------------------------------------------------
(***************************************************************************)
(* The steps of the lexer.                                                 *)
(***************************************************************************)

LexInv ==
  /\ LexerTyped /\ Outcomes /\ TokensInText /\ SpacesPassed
  /\ OnlyBlanksSkipped /\ TokensWhole /\ CommentsSkippedUnlessBehindAnother
  /\ PlacesFollowText /\ LongestPunctuators

\* A property of the text stays true of it.
LEMMA BlankStays ==
  ASSUME src' = src, NEW i, NEW g, g = GapOf(i)', NEW x, x = tokens'[i].pos, Blank(g, x)
  PROVE  Blank(GapOf(i), tokens[i].pos)'
BY DEF Blank, Matches

LEMMA TokensStay ==
  ASSUME LexInv, src' = src, pos' = pos, tokens' = tokens, Outcomes',
         lexed' = "tokens" => lexed = "tokens"
  PROVE  LexInv'
<1>1. src' = src /\ pos' = pos /\ tokens' = tokens
  OBVIOUS
<1>2. LexerTyped' /\ TokensInText'
  BY <1>1 DEF LexInv, LexerTyped, TokensInText
<1>3. SpacesPassed'
  BY <1>1 DEF LexInv, SpacesPassed, ReadFrom, AtEnd
<1>4. OnlyBlanksSkipped'
  <2> SUFFICES ASSUME NEW i \in DOMAIN tokens' PROVE Blank(GapOf(i), tokens[i].pos)'
    BY DEF OnlyBlanksSkipped
  <2>1. GapOf(i)' = GapOf(i)
    BY <1>1 DEF GapOf
  <2>2. Blank(GapOf(i), tokens[i].pos)
    BY <1>1 DEF OnlyBlanksSkipped, LexInv
  <2>3. QED BY <1>1, <2>1, <2>2, BlankStays
<1>5. TokensWhole'
  BY <1>1 DEF LexInv, TokensWhole, Char, AtEnd
<1>6. CommentsSkippedUnlessBehindAnother'
  BY <1>1 DEF LexInv, CommentsSkippedUnlessBehindAnother, Matches, GapOf
<1>7. PlacesFollowText' /\ LongestPunctuators'
  <2>1. PlacesFollowText'
    BY <1>1 DEF LexInv, PlacesFollowText
  <2>2. LongestPunctuators'
    BY <1>1 DEF LexInv, LongestPunctuators, Matches
  <2>3. QED BY <2>1, <2>2
<1>8. QED BY <1>2, <1>3, <1>4, <1>5, <1>6, <1>7 DEF LexInv

LEMMA LexerStays ==
  ASSUME LexInv, UNCHANGED lexerVars
  PROVE  LexInv'
<1>1. src' = src /\ pos' = pos /\ tokens' = tokens /\ lexed' = lexed
  BY DEF lexerVars
<1>2. Outcomes'
  BY <1>1 DEF LexInv, Outcomes
<1>3. QED BY <1>1, <1>2, TokensStay

\* What has to be true of a new token, apart from what is in front of it.
Fits(kind, p, q, text) ==
  /\ kind = "Identifier" => Char(q) \notin WordChar
  /\ kind = "Int" => Char(q) \notin Digit \cup {"."}
  /\ kind = "Float" => Char(q - 1) = "f" \/ Char(q) \notin Digit \cup {"f"}
  /\ kind \notin {"Char", "String"} => text = SubSeq(src, p, q - 1)
  /\ kind = "Punctuator" =>
       \A k \in DOMAIN Table : Matches(Table[k], p) => Len(Table[k]) <= q - p

\* A token that is put behind the others, which may get their places meanwhile.
SameToken(t, u) == t.kind = u.kind /\ t.pos = u.pos /\ t.end = u.end /\ t.text = u.text

Extends(n, t) ==
  /\ tokens' \in Seq(Token) /\ Len(tokens') = n + 1
  /\ SameToken(tokens'[n + 1], t)
  /\ \A i \in 1 .. n : SameToken(tokens'[i], tokens[i])

LEMMA TokenAdded ==
  ASSUME LexInv, NEW n \in Nat, n = Len(tokens), NEW t \in Token, Extends(n, t), src' = src,
         NEW p \in pos .. Len(src) + 1, NEW q \in p .. Len(src) + 1, t.pos = p, t.end = q,
         Fits(t.kind, p, q, t.text), Blank(pos, p),
         Matches(<<"/", "/">>, p) \/ Matches(<<"/", "*">>, p) =>
           \E m \in pos .. p - 1 : src[m] = "/",
         pos' \in q .. Len(src) + 1, \A m \in q .. pos' - 1 : src[m] \in Space,
         AtEnd(pos') \/ src[pos'] \notin Space
  PROVE  /\ LexerTyped' /\ TokensInText' /\ SpacesPassed'
         /\ OnlyBlanksSkipped' /\ TokensWhole' /\ CommentsSkippedUnlessBehindAnother'
         /\ LongestPunctuators'
<1>1. /\ src \in Seq(Chars) /\ pos \in 1 .. Len(src) + 1 /\ tokens \in Seq(Token)
      /\ Len(src) \in Nat
  BY TextAssumption DEF LexInv, LexerTyped, Chars
<1>3. /\ tokens' \in Seq(Token) /\ Len(tokens') = n + 1
      /\ DOMAIN tokens' = 1 .. n + 1 /\ tokens' # <<>>
      /\ DOMAIN tokens = 1 .. n
  <2>1. tokens' \in Seq(Token) /\ Len(tokens') = n + 1
    BY DEF Extends
  <2>2. DOMAIN tokens' = 1 .. n + 1 /\ DOMAIN tokens = 1 .. n
    BY <1>1, <2>1
  <2>3. tokens' # <<>>
    BY <2>1
  <2>4. QED BY <2>1, <2>2, <2>3
<1>4. /\ tokens'[n + 1].kind = t.kind /\ tokens'[n + 1].pos = p /\ tokens'[n + 1].end = q
      /\ tokens'[n + 1].text = t.text
  BY DEF Extends, SameToken
<1>5. \A i \in 1 .. n : /\ tokens'[i].kind = tokens[i].kind /\ tokens'[i].pos = tokens[i].pos
                       /\ tokens'[i].end = tokens[i].end /\ tokens'[i].text = tokens[i].text
  BY DEF Extends, SameToken
<1>6. /\ p \in 1 .. Len(src) + 1 /\ p \in Nat /\ q \in Nat /\ pos <= p /\ p <= q /\ q <= pos'
      /\ pos \in Nat /\ pos' \in Nat
  BY <1>1
<1>7. \A i \in 1 .. n + 1 : i \in 1 .. n \/ i = n + 1
  BY <1>1
<1>8. \A i \in 1 .. n : /\ 1 <= tokens[i].pos /\ tokens[i].pos <= tokens[i].end
                       /\ tokens[i].end <= pos
                       /\ tokens[i].pos \in Nat /\ tokens[i].end \in Nat
  <2> SUFFICES ASSUME NEW i \in 1 .. n
               PROVE  /\ 1 <= tokens[i].pos /\ tokens[i].pos <= tokens[i].end
                      /\ tokens[i].end <= pos
                      /\ tokens[i].pos \in Nat /\ tokens[i].end \in Nat
    OBVIOUS
  <2>1. tokens[i] \in Token
    BY <1>1, <1>3, <1>5
  <2>2. QED BY <1>3, <1>5, <2>1 DEF LexInv, TokensInText, Token
<1>9. /\ \A i \in 1 .. n : GapOf(i)' = GapOf(i)
      /\ GapOf(n + 1)' = ReadFrom
      /\ ReadFrom \in 1 .. pos
  <2>1. \A i \in 1 .. n : i # 1 => i - 1 \in 1 .. n
    BY <1>1
  <2>2. \A i \in 1 .. n : GapOf(i)' = GapOf(i)
    BY <1>3, <1>5, <2>1 DEF GapOf
  <2>3. CASE tokens = <<>>
    <3>1. n = 0 /\ n + 1 = 1
      BY <2>3
    <3>2. QED BY <1>1, <2>2, <2>3, <3>1 DEF GapOf, ReadFrom
  <2>4. CASE tokens # <<>>
    <3>1. n \in 1 .. n /\ n + 1 # 1 /\ (n + 1) - 1 = n
      BY <1>1, <2>4
    <3>2. GapOf(n + 1)' = ReadFrom
      BY <1>3, <1>5, <2>4, <3>1 DEF GapOf, ReadFrom
    <3>3. ReadFrom = tokens[n].end
      BY <2>4 DEF ReadFrom
    <3>4. tokens[n].end \in 1 .. pos
      <4>1. /\ 1 <= tokens[n].pos /\ tokens[n].pos <= tokens[n].end /\ tokens[n].end <= pos
            /\ tokens[n].pos \in Nat /\ tokens[n].end \in Nat
        BY <1>8, <3>1
      <4>2. pos \in Nat
        BY <1>1
      <4>3. QED BY <4>1, <4>2
    <3>5. QED BY <2>2, <3>2, <3>3, <3>4
  <2>5. QED BY <2>3, <2>4
<1>10. \A m \in ReadFrom .. pos - 1 : src[m] \in Space
  BY DEF LexInv, SpacesPassed
<1>11. LexerTyped'
  <2>1. pos' \in 1 .. Len(src) + 1
    BY <1>1, <1>6
  <2>2. QED BY <1>1, <1>3, <2>1 DEF LexInv, LexerTyped
<1>12. TokensInText'
  <2> SUFFICES ASSUME NEW i \in 1 .. n + 1
               PROVE  /\ 1 <= tokens'[i].pos /\ tokens'[i].pos <= tokens'[i].end
                      /\ tokens'[i].end <= pos'
    BY <1>3, <1>5 DEF TokensInText
  <2>1. CASE i \in 1 .. n
    <3>1. /\ 1 <= tokens[i].pos /\ tokens[i].pos <= tokens[i].end /\ tokens[i].end <= pos
          /\ tokens[i].pos \in Nat /\ tokens[i].end \in Nat
      BY <1>8, <2>1
    <3>2. tokens[i].end <= pos'
      BY <1>6, <3>1
    <3>3. QED BY <1>5, <2>1, <3>1, <3>2
  <2>2. CASE i = n + 1
    BY <1>1, <1>3, <1>5, <1>4, <1>6, <2>2
  <2>3. QED BY <1>7, <2>1, <2>2
<1>13. SpacesPassed'
  <2>1. ReadFrom' = q
    BY <1>3, <1>5, <1>4 DEF ReadFrom
  <2>2. QED BY <1>1, <1>6, <2>1 DEF SpacesPassed, AtEnd
<1>14. OnlyBlanksSkipped'
  <2> SUFFICES ASSUME NEW i \in 1 .. n + 1 PROVE Blank(GapOf(i), tokens[i].pos)'
    BY <1>3, <1>5 DEF OnlyBlanksSkipped
  <2>1. CASE i \in 1 .. n
    <3>1. Blank(GapOf(i), tokens[i].pos)
      BY <1>3, <1>5, <2>1 DEF OnlyBlanksSkipped, LexInv
    <3>2. GapOf(i)' = GapOf(i) /\ tokens'[i].pos = tokens[i].pos
      BY <1>3, <1>5, <1>9, <2>1
    <3>3. QED BY <1>1, <3>1, <3>2, BlankStays
  <2>2. CASE i = n + 1
    <3>1. Blank(ReadFrom, p)
      <4>1. p \in 1 .. Len(src) + 1 /\ pos \in 1 .. p
        BY <1>1, <1>6
      <4>2. QED BY <1>1, <1>6, <1>9, <1>10, <4>1, BlankSpaces
    <3>2. GapOf(i)' = ReadFrom /\ tokens'[i].pos = p
      BY <1>3, <1>5, <1>4, <1>9, <2>2
    <3>3. QED BY <1>1, <3>1, <3>2, BlankStays
  <2>3. QED BY <1>7, <2>1, <2>2
<1>15. TokensWhole'
  <2> DEFINE W(i) ==
        /\ tokens'[i].kind = "Identifier" => Char(tokens[i].end)' \notin WordChar
        /\ tokens'[i].kind = "Int" => Char(tokens[i].end)' \notin Digit \cup {"."}
        /\ tokens'[i].kind = "Float" =>
             Char(tokens[i].end - 1)' = "f" \/ Char(tokens[i].end)' \notin Digit \cup {"f"}
        /\ tokens'[i].kind \notin {"Char", "String"} =>
             tokens'[i].text = SubSeq(src', tokens'[i].pos, tokens'[i].end - 1)
  <2> SUFFICES ASSUME NEW i \in 1 .. n + 1 PROVE W(i)
    BY <1>3, <1>5 DEF TokensWhole
  <2>1. CASE i \in 1 .. n
    BY <1>1, <1>3, <1>5, <2>1 DEF LexInv, TokensWhole, Char, AtEnd
  <2>2. CASE i = n + 1
    BY <1>1, <1>3, <1>5, <1>4, <2>2 DEF Fits, Char, AtEnd
  <2>3. QED BY <1>7, <2>1, <2>2
<1>16. CommentsSkippedUnlessBehindAnother'
  <2> SUFFICES ASSUME NEW i \in 1 .. n + 1,
                      Matches(<<"/", "/">>, tokens[i].pos)' \/ Matches(<<"/", "*">>, tokens[i].pos)'
               PROVE  \E m \in GapOf(i)' .. tokens'[i].pos - 1 : src'[m] = "/"
    BY <1>3, <1>5 DEF CommentsSkippedUnlessBehindAnother
  <2>1. CASE i \in 1 .. n
    <3>1. Matches(<<"/", "/">>, tokens[i].pos) \/ Matches(<<"/", "*">>, tokens[i].pos)
      BY <1>1, <1>3, <1>5, <2>1 DEF Matches
    <3>2. QED BY <1>1, <1>3, <1>5, <1>9, <2>1, <3>1 DEF LexInv, CommentsSkippedUnlessBehindAnother
  <2>2. CASE i = n + 1
    <3>1. Matches(<<"/", "/">>, p) \/ Matches(<<"/", "*">>, p)
      BY <1>1, <1>3, <1>5, <1>4, <2>2 DEF Matches
    <3>2. PICK m \in pos .. p - 1 : src[m] = "/"
      BY <1>6, <3>1
    <3>3. m \in ReadFrom .. p - 1
      BY <1>1, <1>9
    <3>4. QED BY <1>1, <1>3, <1>5, <1>4, <1>9, <2>2, <3>2, <3>3
  <2>3. QED BY <1>7, <2>1, <2>2
<1>18. LongestPunctuators'
  <2> SUFFICES ASSUME NEW i \in 1 .. n + 1, tokens'[i].kind = "Punctuator",
                      NEW k \in DOMAIN Table, Matches(Table[k], tokens[i].pos)'
               PROVE  Len(Table[k]) <= tokens'[i].end - tokens'[i].pos
    BY <1>3, <1>5 DEF LongestPunctuators
  <2>1. CASE i \in 1 .. n
    <3>1. Matches(Table[k], tokens[i].pos)
      BY <1>1, <1>3, <1>5, <2>1 DEF Matches
    <3>2. QED BY <1>3, <1>5, <2>1, <3>1 DEF LexInv, LongestPunctuators
  <2>2. CASE i = n + 1
    <3>1. Matches(Table[k], p)
      BY <1>1, <1>3, <1>5, <1>4, <2>2 DEF Matches
    <3>2. QED BY <1>3, <1>5, <1>4, <2>2, <3>1 DEF Fits
  <2>3. QED BY <1>7, <2>1, <2>2
<1>17. QED BY <1>11, <1>12, <1>13, <1>14, <1>15, <1>16, <1>18

LEMMA EmitStep ==
  ASSUME LexInv, lexed # "tokens", NEW kind \in Kinds, NEW text \in Seq(Chars),
         NEW p \in 1 .. Len(src), p = Skipped(pos), NEW q \in p .. Len(src) + 1,
         ~AtEnd(pos), Fits(kind, p, q, text), Emit(kind, p, q, text)
  PROVE  LexInv'
<1> DEFINE t == [kind |-> kind, pos |-> p, end |-> q, text |-> text, line |-> 0, column |-> 0]
<1>1. /\ src \in Seq(Chars) /\ pos \in 1 .. Len(src) + 1 /\ tokens \in Seq(Token)
      /\ src' = src /\ lexed' = lexed /\ Len(src) \in Nat /\ tokens' = Append(tokens, t)
  <2>1. src \in Texts /\ pos \in 1 .. Len(src) + 1 /\ tokens \in Seq(Token)
    BY DEF LexInv, LexerTyped
  <2>2. src \in Seq(Chars)
    BY <2>1, TextAssumption DEF Chars
  <2>3. src' = src /\ lexed' = lexed /\ tokens' = Append(tokens, t)
    BY DEF Emit
  <2> HIDE DEF t
  <2>4. QED BY <2>1, <2>2, <2>3
<1>2. PICK n \in Nat : n = Len(tokens)
  BY <1>1
<1>3. t \in Token /\ t.kind = kind /\ t.pos = p /\ t.end = q /\ t.text = text
  <2>1. p \in Nat /\ q \in Nat
    BY <1>1
  <2>2. QED BY <2>1 DEF Token, Chars
<1> HIDE DEF t
<1>4. Extends(n, t)
  <2>1. tokens' \in Seq(Token) /\ Len(tokens') = n + 1 /\ tokens'[n + 1] = t
    BY <1>1, <1>2, <1>3
  <2>2. \A i \in 1 .. n : tokens'[i] = tokens[i]
    BY <1>1, <1>2, <1>3
  <2>3. QED BY <2>1, <2>2 DEF Extends, SameToken
<1>5. /\ pos' \in q .. Len(src) + 1 /\ \A m \in q .. pos' - 1 : src[m] \in Space
      /\ AtEnd(pos') \/ src[pos'] \notin Space
  <2>1. pos' = Pass(q, Space) /\ q \in 1 .. Len(src) + 1
    BY <1>1 DEF Emit, PassSpace
  <2>2. QED BY <1>1, <2>1, PassFacts
<1>6. /\ p \in pos .. Len(src) + 1 /\ Blank(pos, p)
      /\ Matches(<<"/", "/">>, p) \/ Matches(<<"/", "*">>, p) => \E m \in pos .. p - 1 : src[m] = "/"
  <2>1. src[pos] \notin Space
    BY DEF LexInv, SpacesPassed
  <2>2. QED BY <1>1, <2>1, SkippedFacts
<1>7. Fits(t.kind, p, q, t.text)
  BY <1>3
<1>8. /\ LexerTyped' /\ TokensInText' /\ SpacesPassed'
      /\ OnlyBlanksSkipped' /\ TokensWhole' /\ CommentsSkippedUnlessBehindAnother'
      /\ LongestPunctuators'
  BY <1>1, <1>2, <1>3, <1>4, <1>5, <1>6, <1>7, TokenAdded
<1>9. Outcomes' /\ PlacesFollowText'
  BY <1>1 DEF LexInv, Outcomes, PlacesFollowText
<1>10. QED BY <1>8, <1>9 DEF LexInv

\* What a turn of the loop is.
LEMMA TurnFacts ==
  ASSUME LexInv, NEW p \in pos .. Len(src), Turn(p)
  PROVE  /\ lexed # "tokens" /\ ~AtEnd(pos) /\ p = Skipped(pos) /\ p \in 1 .. Len(src)
         /\ src \in Seq(Chars) /\ Char(p) = src[p] /\ Len(src) \in Nat
<1>1. lexed # "tokens" /\ ~AtEnd(pos) /\ p = Skipped(pos)
  BY Zenon DEF Turn
<1>2. pos \in 1 .. Len(src) + 1 /\ src \in Seq(Chars)
  BY TextAssumption DEF LexInv, LexerTyped, Chars
<1>3. p \in 1 .. Len(src) /\ Len(src) \in Nat
  BY <1>2
<1>4. Char(p) = src[p]
  BY <1>3 DEF Char, AtEnd
<1>5. QED BY <1>1, <1>2, <1>3, <1>4

\* Behind what Pass passes is another character.
LEMMA PassChar ==
  ASSUME src \in Seq(Chars), NEW p \in 1 .. Len(src) + 1, NEW C, NUL \notin C
  PROVE  Char(Pass(p, C)) \notin C
BY PassFacts DEF Char

LEMMA NulFacts == NUL \notin Digit /\ NUL \notin WordChar /\ NUL # "." /\ NUL # "f"
BY DEF NUL, Digit, WordChar

LEMMA WordStep ==
  ASSUME LexInv, Word
  PROVE  LexInv'
<1>1. PICK p \in pos .. Len(src) :
        /\ Turn(p)
        /\ LET q == Pass(p, WordChar) IN Emit("Identifier", p, q, SubSeq(src, p, q - 1))
  BY DEF Word
<1> DEFINE q == Pass(p, WordChar)
           text == SubSeq(src, p, q - 1)
<1>2. /\ lexed # "tokens" /\ ~AtEnd(pos) /\ p = Skipped(pos) /\ p \in 1 .. Len(src)
      /\ src \in Seq(Chars) /\ Len(src) \in Nat
  BY <1>1, TurnFacts
<1>3. q \in p .. Len(src) + 1 /\ Char(q) \notin WordChar
  BY <1>2, PassFacts, PassChar, NulFacts
<1>4. Emit("Identifier", p, q, text)
  BY <1>1
<1> HIDE DEF q
<1>5. text \in Seq(Chars)
  BY <1>2, <1>3
<1>6. Fits("Identifier", p, q, text)
  BY <1>3 DEF Fits
<1> HIDE DEF text
<1>7. "Identifier" \in Kinds
  BY DEF Kinds
<1>8. QED BY <1>2, <1>3, <1>4, <1>5, <1>6, <1>7, EmitStep

LEMMA PunctuatorStep ==
  ASSUME LexInv, Punctuator
  PROVE  LexInv'
<1>1. PICK p \in pos .. Len(src) :
        /\ Turn(p) /\ FindPunct(p) # 0
        /\ Emit("Punctuator", p, p + Len(Table[FindPunct(p)]), Table[FindPunct(p)])
  BY DEF Punctuator
<1> DEFINE text == Table[FindPunct(p)]
           q == p + Len(text)
<1>2. /\ lexed # "tokens" /\ ~AtEnd(pos) /\ p = Skipped(pos) /\ p \in 1 .. Len(src)
      /\ src \in Seq(Chars) /\ Len(src) \in Nat
  BY <1>1, TurnFacts
<1>10. p \in 1 .. Len(src) + 1 /\ p \in Nat /\ src \in Seq(Chars) /\ Len(src) \in Nat
  BY <1>2
<1>3. /\ Len(text) \in 1 .. 3 /\ p + Len(text) <= Len(src) + 1
      /\ text = SubSeq(src, p, p + Len(text) - 1)
  BY <1>1, <1>10, FindPunctFacts
<1>11. \A j \in DOMAIN Table : Matches(Table[j], p) => Len(Table[j]) <= Len(text)
  BY <1>1, <1>10, FindPunctFacts
<1>4. Emit("Punctuator", p, q, text)
  BY <1>1
<1> HIDE DEF text
<1>5. q \in p .. Len(src) + 1 /\ q - p = Len(text)
  BY <1>3, <1>10
<1>6. text \in Seq(Chars)
  <2>1. p + Len(text) - 1 \in Int /\ p + Len(text) - 1 <= Len(src)
    BY <1>3, <1>10
  <2> DEFINE e == p + Len(text) - 1
  <2> HIDE DEF e
  <2>2. SubSeq(src, p, e) \in Seq(Chars)
    BY <1>10, <2>1 DEF e
  <2>3. QED BY <1>3, <2>2 DEF e
<1>7. Fits("Punctuator", p, q, text)
  BY <1>3, <1>5, <1>11 DEF Fits
<1> HIDE DEF q
<1>8. "Punctuator" \in Kinds
  BY DEF Kinds
<1>9. QED BY <1>2, <1>4, <1>5, <1>6, <1>7, <1>8, EmitStep

LEMMA NumberStep ==
  ASSUME LexInv, Number
  PROVE  LexInv'
<1> DEFINE Kind(q) == IF Char(q) # "." THEN "Int" ELSE "Float"
           After(q) == Pass(q + 1, Digit)
           End(q) == IF Char(q) # "." THEN q
                     ELSE IF Char(After(q)) = "f" THEN After(q) + 1 ELSE After(q)
<1>1. PICK p \in pos .. Len(src) :
        /\ Turn(p)
        /\ LET q == Pass(p, Digit)
               r == Pass(q + 1, Digit) IN
           IF Char(q) # "." THEN Emit("Int", p, q, SubSeq(src, p, q - 1))
           ELSE LET x == IF Char(r) = "f" THEN r + 1 ELSE r IN
                Emit("Float", p, x, SubSeq(src, p, x - 1))
  BY Zenon DEF Number
<1> DEFINE q == Pass(p, Digit)
           e == End(q)
           text == SubSeq(src, p, e - 1)
<1>2. /\ lexed # "tokens" /\ ~AtEnd(pos) /\ p = Skipped(pos) /\ p \in 1 .. Len(src)
      /\ src \in Seq(Chars) /\ Len(src) \in Nat
  BY <1>1, TurnFacts
<1>3. Emit(Kind(q), p, e, text)
  BY <1>1
<1>4. q \in p .. Len(src) + 1 /\ Char(q) \notin Digit
  BY <1>2, PassFacts, PassChar, NulFacts
<1> HIDE DEF q
<1>5. e \in p .. Len(src) + 1
      /\ (Kind(q) = "Int" => Char(e) \notin Digit \cup {"."})
      /\ (Kind(q) = "Float" => Char(e - 1) = "f" \/ Char(e) \notin Digit \cup {"f"})
  <2>1. CASE Char(q) # "."
    <3>1. e = q /\ Kind(q) = "Int"
      BY <2>1
    <3>2. QED BY <1>4, <2>1, <3>1
  <2>2. CASE Char(q) = "."
    <3> DEFINE r == After(q)
    <3>1. q <= Len(src)
      BY <1>2, <1>4, <2>2, NulFacts DEF Char, AtEnd
    <3>2. q + 1 \in 1 .. Len(src) + 1 /\ q + 1 > p
      BY <1>2, <1>4, <3>1
    <3>3. r \in q + 1 .. Len(src) + 1 /\ Char(r) \notin Digit
      BY <1>2, <3>2, PassFacts, PassChar, NulFacts
    <3>4. Kind(q) = "Float" /\ e = IF Char(r) = "f" THEN r + 1 ELSE r
      BY <2>2
    <3> HIDE DEF r
    <3>5. CASE Char(r) = "f"
      <4>1. r <= Len(src)
        BY <1>2, <3>3, <3>5, NulFacts DEF Char, AtEnd
      <4>2. e = r + 1 /\ e - 1 = r /\ e \in p .. Len(src) + 1
        BY <1>2, <1>4, <3>3, <3>4, <3>5, <4>1
      <4>3. QED BY <3>4, <3>5, <4>2
    <3>6. CASE Char(r) # "f"
      <4>1. e = r /\ e \in p .. Len(src) + 1
        BY <1>2, <1>4, <3>3, <3>4, <3>6
      <4>2. QED BY <3>3, <3>4, <3>6, <4>1
    <3>7. QED BY <3>5, <3>6
  <2>3. QED BY <2>1, <2>2
<1>6. Kind(q) \in {"Int", "Float"}
  OBVIOUS
<1> HIDE DEF e, Kind
<1>7. text \in Seq(Chars)
  BY <1>2, <1>5
<1>8. Fits(Kind(q), p, e, text)
  BY <1>5, <1>6 DEF Fits
<1> HIDE DEF text
<1>9. Kind(q) \in Kinds
  BY <1>6 DEF Kinds
<1>10. QED BY <1>2, <1>3, <1>5, <1>7, <1>8, <1>9, EmitStep

LEMMA GiveUpStep ==
  ASSUME LexInv, NEW why \in {"invalid_token", "4545", "exit"}, GiveUp(why)
  PROVE  LexInv'
<1>1. src' = src /\ pos' = pos /\ tokens' = tokens /\ lexed' = why
  BY DEF GiveUp
<1>2. Outcomes' /\ lexed' # "tokens"
  BY <1>1 DEF Outcomes
<1>3. QED BY <1>1, <1>2, TokensStay

LEMMA LiteralStep ==
  ASSUME LexInv, Literal
  PROVE  LexInv'
<1>1. PICK p \in pos .. Len(src) :
        /\ Turn(p)
        /\ LET q == Quoted(Char(p), p + 1) IN
           IF q.exit THEN GiveUp("exit")
           ELSE IF AtEnd(q.end) THEN GiveUp("4545")
           ELSE Emit(IF Char(p) = "'" THEN "Char" ELSE "String", p, q.end + 1, q.text)
  BY Zenon DEF Literal
<1> DEFINE q == Quoted(Char(p), p + 1)
           kind == IF Char(p) = "'" THEN "Char" ELSE "String"
<1>2. /\ lexed # "tokens" /\ ~AtEnd(pos) /\ p = Skipped(pos) /\ p \in 1 .. Len(src)
      /\ src \in Seq(Chars) /\ Len(src) \in Nat
  BY <1>1, TurnFacts
<1>3. p + 1 \in 1 .. Len(src) + 1
  BY <1>2
<1>4. q \in Literals /\ q.end >= p + 1
  BY <1>2, <1>3, QuotedFacts
<1>5. GiveUp("exit") \/ GiveUp("4545") \/ (~AtEnd(q.end) /\ Emit(kind, p, q.end + 1, q.text))
  BY <1>1
<1>6. CASE GiveUp("exit") \/ GiveUp("4545")
  BY <1>6, GiveUpStep
<1>7. CASE ~AtEnd(q.end) /\ Emit(kind, p, q.end + 1, q.text)
  <2> DEFINE e == q.end + 1
  <2>1. q.end \in Nat /\ q.text \in Seq(Chars)
    BY <1>4 DEF Literals
  <2>2. q.end <= Len(src)
    BY <1>2, <1>7, <2>1 DEF AtEnd
  <2>3. kind \in {"Char", "String"}
    OBVIOUS
  <2> HIDE DEF q, kind
  <2>4. e \in p .. Len(src) + 1
    BY <1>2, <1>4, <2>1, <2>2
  <2>5. Emit(kind, p, e, q.text)
    BY <1>7
  <2> HIDE DEF e
  <2>6. Fits(kind, p, e, q.text) /\ kind \in Kinds
    BY <2>3 DEF Fits, Kinds
  <2>7. QED BY <1>2, <2>1, <2>4, <2>5, <2>6, EmitStep
<1>8. QED BY <1>5, <1>6, <1>7

LEMMA FinishStep ==
  ASSUME LexInv, Finish
  PROVE  LexInv'
<1> DEFINE eof == [kind |-> "Eof", pos |-> pos, end |-> pos, text |-> <<>>, line |-> 0, column |-> 0]
           all == Append(tokens, eof)
           placed(i) == IF i = 1 THEN all[i]
                        ELSE LET place == Place(all[i].pos) IN
                             [all[i] EXCEPT !.line = place.line, !.column = place.column]
<1>1. /\ src \in Seq(Chars) /\ pos \in 1 .. Len(src) + 1 /\ tokens \in Seq(Token)
      /\ Len(src) \in Nat
  BY TextAssumption DEF LexInv, LexerTyped, Chars
<1>2. /\ lexed' = "tokens" /\ src' = src /\ pos' = pos /\ AtEnd(pos)
      /\ tokens' = [i \in DOMAIN all |-> placed(i)]
  BY Zenon DEF Finish
<1>3. pos = Len(src) + 1 /\ pos \in Nat
  <2>1. AtEnd(pos)
    BY <1>2
  <2>2. QED BY <1>1, <2>1 DEF AtEnd
<1>4. PICK n \in Nat : n = Len(tokens)
  BY <1>1
<1>5. PICK p \in pos .. Len(src) + 1 : p = pos
  BY <1>3
<1>6. PICK t : t = eof
  OBVIOUS
<1>7. t \in Token /\ t.kind = "Eof" /\ t.pos = p /\ t.end = p /\ t.text = <<>>
  <2>1. <<>> \in Seq(Chars)
    OBVIOUS
  <2>2. "Eof" \in Kinds
    BY DEF Kinds
  <2>3. QED BY <1>3, <1>5, <1>6, <2>1, <2>2 DEF Token, Chars
<1>8. /\ all \in Seq(Token) /\ Len(all) = n + 1 /\ DOMAIN all = 1 .. n + 1 /\ all[n + 1] = t
      /\ \A i \in 1 .. n : all[i] = tokens[i]
  <2> HIDE DEF eof
  <2>1. all \in Seq(Token) /\ Len(all) = n + 1 /\ all[n + 1] = t
    BY <1>1, <1>4, <1>6, <1>7
  <2>2. \A i \in 1 .. n : all[i] = tokens[i]
    BY <1>1, <1>4, <1>6, <1>7
  <2> HIDE DEF all
  <2>3. QED BY <2>1, <2>2
<1> HIDE DEF all, eof
<1>9. \A i \in 1 .. n + 1 : all[i].pos \in 1 .. Len(src) + 1 /\ all[i] \in Token
  <2> SUFFICES ASSUME NEW i \in 1 .. n + 1
               PROVE  all[i].pos \in 1 .. Len(src) + 1 /\ all[i] \in Token
    OBVIOUS
  <2>1. all[i] \in Token
    BY <1>8
  <2>2. CASE i = n + 1
    BY <1>1, <1>5, <1>7, <1>8, <2>1, <2>2
  <2>3. CASE i \in 1 .. n
    <3>1. 1 <= tokens[i].pos /\ tokens[i].pos <= tokens[i].end /\ tokens[i].end <= pos
      BY <1>1, <1>4, <2>3 DEF LexInv, TokensInText
    <3>2. tokens[i].pos \in Nat /\ tokens[i].end \in Nat
      BY <1>8, <2>1, <2>3 DEF Token
    <3>3. QED BY <1>3, <1>8, <2>1, <2>3, <3>1, <3>2
  <2>4. i = n + 1 \/ i \in 1 .. n
    BY <1>4
  <2>5. QED BY <2>2, <2>3, <2>4
<1>10. tokens' = [i \in 1 .. n + 1 |-> placed(i)]
  BY <1>2, <1>8
<1>23. ASSUME NEW i \in 1 .. n + 1
       PROVE  /\ tokens'[i] \in Token /\ SameToken(tokens'[i], all[i])
              /\ i # 1 => /\ tokens'[i].line = Place(all[i].pos).line
                          /\ tokens'[i].column = Place(all[i].pos).column
  <2> DEFINE v == placed(i)
  <2>7. tokens'[i] = v
    BY <1>10
  <2>1. all[i] \in Token
    BY <1>9
  <2> DEFINE place == Place(all[i].pos)
  <2>2. place.line \in Nat /\ place.column \in Nat
    BY <1>1, <1>9, PlaceFacts DEF Places
  <2>3. i # 1 => v = [all[i] EXCEPT !.line = place.line, !.column = place.column]
    OBVIOUS
  <2>8. i = 1 => v = all[i]
    OBVIOUS
  <2> HIDE DEF place, v
  <2>4. CASE i = 1
    BY <2>1, <2>4, <2>7, <2>8 DEF SameToken
  <2>5. CASE i # 1
    <3> DEFINE u == [all[i] EXCEPT !.line = place.line, !.column = place.column]
    <3>1. u \in Token /\ SameToken(u, all[i]) /\ u.line = place.line /\ u.column = place.column
      BY <2>1, <2>2 DEF Token, SameToken
    <3>2. QED BY <2>3, <2>5, <2>7, <3>1 DEF place
  <2>6. QED BY <2>4, <2>5, <2>7
<1>11. tokens' \in Seq(Token) /\ Len(tokens') = n + 1 /\ DOMAIN tokens' = 1 .. n + 1
  <2>1. tokens' \in [1 .. n + 1 -> Token]
    BY <1>10, <1>23, Zenon
  <2>2. n + 1 \in Nat
    BY <1>4
  <2>3. QED BY <2>1, <2>2
<1>12. Extends(n, t)
  <2>1. \A i \in 1 .. n + 1 : SameToken(tokens'[i], all[i])
    BY <1>23
  <2>2. n + 1 \in 1 .. n + 1 /\ \A i \in 1 .. n : i \in 1 .. n + 1
    BY <1>4
  <2>3. SameToken(tokens'[n + 1], t) /\ \A i \in 1 .. n : SameToken(tokens'[i], tokens[i])
    BY <1>8, <2>1, <2>2
  <2>4. QED BY <1>11, <2>3 DEF Extends
<1>13. p \in 1 .. Len(src) + 1 /\ p \in p .. Len(src) + 1 /\ pos' \in p .. Len(src) + 1
  BY <1>1, <1>2, <1>3, <1>5
<1>14. Blank(pos, p)
  <2>1. p \in 1 .. p
    BY <1>13
  <2>2. QED BY <1>1, <1>5, <1>13, <2>1, BlankSteps
<1>15. ~Matches(<<"/", "/">>, p) /\ ~Matches(<<"/", "*">>, p)
  BY <1>1, <1>3, <1>5 DEF Matches
<1>16. \A m \in p .. pos' - 1 : src[m] \in Space
  <2>1. pos' = p
    BY <1>2, <1>5
  <2>2. QED BY <1>13, <2>1
<1>17. AtEnd(pos')
  BY <1>1, <1>2, <1>3 DEF AtEnd
<1>18. Fits(t.kind, p, p, t.text)
  <2>1. SubSeq(src, p, p - 1) = <<>>
    BY <1>1, <1>13
  <2>2. QED BY <1>7, <2>1 DEF Fits
<1>19. /\ LexerTyped' /\ TokensInText' /\ SpacesPassed'
       /\ OnlyBlanksSkipped' /\ TokensWhole' /\ CommentsSkippedUnlessBehindAnother'
       /\ LongestPunctuators'
  BY <1>2, <1>4, <1>7, <1>12, <1>13, <1>14, <1>15, <1>16, <1>17, <1>18, TokenAdded
<1>20. Outcomes'
  BY <1>2 DEF Outcomes
<1>21. PlacesFollowText'
  <2> SUFFICES ASSUME NEW i \in 2 .. n + 1, NEW newlines,
                      newlines = {m \in 1 .. tokens'[i].pos - 1 : src'[m] = "\n"}
               PROVE  /\ tokens'[i].line = 1 + Cardinality(newlines)
                      /\ \A m \in newlines \cup {0} :
                           (\A q \in newlines : q <= m) => tokens'[i].column = tokens'[i].pos - m
    BY <1>11 DEF PlacesFollowText
  <2> DEFINE x == all[i].pos
  <2>1. i \in 1 .. n + 1 /\ i # 1
    BY <1>4
  <2>2. /\ tokens'[i].pos = x
        /\ tokens'[i].line = Place(x).line /\ tokens'[i].column = Place(x).column
    BY <1>23, <2>1 DEF SameToken
  <2>3. x \in 1 .. Len(src) + 1
    BY <1>9, <2>1
  <2> HIDE DEF x
  <2>4. PlaceIs(Place(x), x)
    BY <1>1, <2>3, PlaceFacts
  <2>5. newlines = Newlines(x)
    BY <1>2, <2>2 DEF Newlines
  <2>6. QED BY <2>2, <2>4, <2>5 DEF PlaceIs
<1>22. QED BY <1>19, <1>20, <1>21 DEF LexInv
-----------------------------------------------------------------------------
(***************************************************************************)
(* Code points: what is decoded and encoded.                               *)
(***************************************************************************)

\* What Unicode has code points for.
CodePoint == {cp \in Nat : cp <= 1114111}

\* What is a unit.
LEMMA UnitIs ==
  /\ \A n \in Unit : n \in Nat /\ n <= 65535
  /\ \A n \in Nat : n <= 65535 => n \in Unit
<1>1. MaxUnit = 65535 /\ 65535 \in Nat
  BY SMT DEF MaxUnit
<1> HIDE DEF MaxUnit
<1>4. MaxUnit \in Nat
  BY SMT, <1>1
<1>2. /\ \A n \in Unit : n \in Nat /\ n <= MaxUnit
      /\ \A n \in Nat : n <= MaxUnit => n \in Unit
  BY SMT, <1>4 DEF Unit
<1>3. QED BY SMT, <1>1, <1>2

LEMMA BytesAreUnits == \A n \in Byte : n \in Unit
<1>1. \A n \in Byte : n \in Nat /\ n <= 65535
  BY SMT DEF Byte
<1>2. QED BY <1>1, UnitIs

\* The parts that a code point is split into.
LEMMA Parts ==
  ASSUME NEW cp \in CodePoint
  PROVE  /\ cp \in Nat /\ cp <= 1114111
         /\ cp < 2048 => cp \div 64 \in 0 .. 31
         /\ cp < 65536 => cp \div 4096 \in 0 .. 15
         /\ cp \div 262144 \in 0 .. 4
         /\ cp % 64 \in 0 .. 63 /\ (cp \div 64) % 64 \in 0 .. 63 /\ (cp \div 4096) % 64 \in 0 .. 63
<1>1. cp \in Nat /\ cp <= 1114111
  BY SMT DEF CodePoint
<1>2. cp < 2048 => cp \div 64 \in 0 .. 31
  BY SMT, <1>1
<1>3. cp < 65536 => cp \div 4096 \in 0 .. 15
  BY SMT, <1>1
<1>4. cp \div 262144 \in 0 .. 4
  BY SMT, <1>1
<1>5. cp % 64 \in 0 .. 63
  BY SMT, <1>1
<1>6. cp \div 64 \in Nat /\ cp \div 4096 \in Nat
  BY SMT, <1>1
<1>7. ASSUME NEW d \in Nat PROVE d % 64 \in 0 .. 63
  BY SMT
<1>8. (cp \div 64) % 64 \in 0 .. 63 /\ (cp \div 4096) % 64 \in 0 .. 63
  BY SMT, <1>6, <1>7
<1>9. QED BY SMT, <1>1, <1>2, <1>3, <1>4, <1>5, <1>8

\* The lengths of short sequences.
LEMMA Sizes ==
  ASSUME NEW S, NEW a \in S, NEW b \in S, NEW c \in S, NEW d \in S
  PROVE  /\ <<a>> \in Seq(S) /\ Len(<<a>>) = 1
         /\ <<a, b>> \in Seq(S) /\ Len(<<a, b>>) = 2
         /\ <<a, b, c>> \in Seq(S) /\ Len(<<a, b, c>>) = 3
         /\ <<a, b, c, d>> \in Seq(S) /\ Len(<<a, b, c, d>>) = 4
OBVIOUS

\* A code point is encoded in as many units as are counted for it.
LEMMA Encode8 ==
  ASSUME NEW cp \in CodePoint
  PROVE  Utf8Encode(cp) \in Seq(Byte) /\ Len(Utf8Encode(cp)) = CountUtf8(cp)
<1> DEFINE a == cp % 64
           b == (cp \div 64) % 64
           c == (cp \div 4096) % 64
           u == cp \div 64
           v == cp \div 4096
           w == cp \div 262144
<1>1. /\ cp \in Nat /\ cp <= 1114111
      /\ cp < 2048 => u \in 0 .. 31
      /\ cp < 65536 => v \in 0 .. 15
      /\ w \in 0 .. 4
      /\ a \in 0 .. 63 /\ b \in 0 .. 63 /\ c \in 0 .. 63
  BY SMT, Parts
<1>2. Utf8Encode(cp) = IF cp < 128 THEN <<cp>>
                       ELSE IF cp < 2048 THEN <<192 + u, 128 + a>>
                       ELSE IF cp < 65536 THEN <<224 + v, 128 + b, 128 + a>>
                       ELSE <<240 + w, 128 + c, 128 + b, 128 + a>>
  BY SMT DEF Utf8Encode
<1> HIDE DEF a, b, c, u, v, w
<1> DEFINE one   == <<cp>>
           two   == <<192 + u, 128 + a>>
           three == <<224 + v, 128 + b, 128 + a>>
           four  == <<240 + w, 128 + c, 128 + b, 128 + a>>
<1>a. Utf8Encode(cp) = IF cp < 128 THEN one ELSE IF cp < 2048 THEN two
                       ELSE IF cp < 65536 THEN three ELSE four
  BY <1>2
<1> HIDE DEF one, two, three, four
<1>b. /\ cp < 128 => Utf8Encode(cp) = one
      /\ cp >= 128 /\ cp < 2048 => Utf8Encode(cp) = two
      /\ cp >= 2048 /\ cp < 65536 => Utf8Encode(cp) = three
      /\ cp >= 65536 => Utf8Encode(cp) = four
  BY SMT, <1>1, <1>a
<1>3. CASE cp < 128
  <2>1. Utf8Encode(cp) = <<cp>> /\ cp \in Byte
    BY SMT, <1>1, <1>b, <1>3 DEF Byte, one
  <2>2. CountUtf8(cp) = 1
    BY SMT, <1>3 DEF CountUtf8
  <2>3. QED BY SMT, <2>1, <2>2, Sizes
<1>4. CASE cp >= 128 /\ cp < 2048
  <2>1. Utf8Encode(cp) = <<192 + u, 128 + a>>
    BY SMT, <1>1, <1>b, <1>4 DEF two
  <2>2. 192 + u \in Byte /\ 128 + a \in Byte
    BY SMT, <1>1, <1>4 DEF Byte
  <2>3. CountUtf8(cp) = 2
    BY SMT, <1>1, <1>4 DEF CountUtf8
  <2>4. QED BY SMT, <2>1, <2>2, <2>3, Sizes
<1>5. CASE cp >= 2048 /\ cp < 65536
  <2>1. Utf8Encode(cp) = <<224 + v, 128 + b, 128 + a>>
    BY SMT, <1>1, <1>b, <1>5 DEF three
  <2>2. 224 + v \in Byte /\ 128 + b \in Byte /\ 128 + a \in Byte
    BY SMT, <1>1, <1>5 DEF Byte
  <2>3. CountUtf8(cp) = 3
    BY SMT, <1>1, <1>5 DEF CountUtf8
  <2>4. QED BY SMT, <2>1, <2>2, <2>3, Sizes
<1>6. CASE cp >= 65536
  <2>1. Utf8Encode(cp) = <<240 + w, 128 + c, 128 + b, 128 + a>>
    BY SMT, <1>1, <1>b, <1>6 DEF four
  <2>2. 240 + w \in Byte /\ 128 + c \in Byte /\ 128 + b \in Byte /\ 128 + a \in Byte
    BY SMT, <1>1, <1>6 DEF Byte
  <2>3. CountUtf8(cp) = 4
    BY SMT, <1>1, <1>6 DEF CountUtf8
  <2>4. QED BY SMT, <2>1, <2>2, <2>3, Sizes
<1>7. QED BY SMT, <1>1, <1>3, <1>4, <1>5, <1>6

LEMMA Encode16 ==
  ASSUME NEW cp \in CodePoint
  PROVE  Utf16Encode(cp) \in Seq(Unit) /\ Len(Utf16Encode(cp)) = CountUtf16(cp)
<1>1. cp \in Nat /\ cp <= 1114111
  BY SMT DEF CodePoint
<1>2. CASE cp < 65536
  <2>0. cp \in Unit
    <3>1. cp <= 65535
      BY SMT, <1>1, <1>2
    <3>2. QED BY SMT, <1>1, <3>1, UnitIs
  <2>1. Utf16Encode(cp) = <<cp>> /\ cp \in Unit /\ CountUtf16(cp) = 1
    BY SMT, <1>1, <1>2, <2>0 DEF Utf16Encode, CountUtf16
  <2>2. QED BY SMT, <2>1, Sizes
<1>3. CASE cp >= 65536
  <2> DEFINE d == cp - 65536
             h == d \div 1024
             l == d % 1024
  <2>1. Utf16Encode(cp) = <<55296 + h, 56320 + l>>
    BY SMT, <1>1, <1>3 DEF Utf16Encode
  <2>2. d \in Nat /\ d < 1048576
    BY SMT, <1>1, <1>3
  <2> HIDE DEF d
  <2>3. h \in Nat /\ h < 1024 /\ l \in Nat /\ l < 1024
    BY SMT, <2>2
  <2> HIDE DEF h, l
  <2>4. 55296 + h \in Unit /\ 56320 + l \in Unit
    <3>1. /\ 55296 + h \in Nat /\ 55296 + h <= 65535
          /\ 56320 + l \in Nat /\ 56320 + l <= 65535
      BY SMT, <2>3
    <3>2. QED BY SMT, <3>1, UnitIs
  <2>5. CountUtf16(cp) = 2
    BY SMT, <1>1, <1>3 DEF CountUtf16
  <2>6. QED BY SMT, <2>1, <2>4, <2>5, Sizes
<1>4. QED BY SMT, <1>1, <1>2, <1>3

\* A code point is decoded from at least one unit.
Decodes(d) == d.cp \in CodePoint /\ d.n \in Nat /\ d.n >= 1

\* The least code point for which n bytes must follow the first.
LeastOf(n) == CASE n = 1 -> 128 [] n = 2 -> 2048 [] n = 3 -> 65536
Passes(v, n) == v >= LeastOf(n) /\ v <= 1114111

\* The values that Sequence goes through.
Values(f, lead, s, i, n) ==
  /\ f[0] = lead
  /\ \A k \in 1 .. n : f[k] = 64 * f[k - 1] + (s[i + k] % 64)
  /\ Sequence(lead, s, i, n) = Decoded(IF Passes(f[n], n) THEN f[n] ELSE Replacement, n + 1)

\* What is decoded of a first byte's bits and n continuation bytes.
LEMMA SequenceIs ==
  ASSUME NEW lead \in Nat, NEW s, NEW i \in Nat, NEW n \in 1 .. 3,
         \A k \in 1 .. n : s[i + k] \in Nat
  PROVE  \E f \in [0 .. n -> Nat] : Values(f, lead, s, i, n)
<1> DEFINE step == [k \in Nat |-> [v \in Nat |-> IF k \in 1 .. n THEN 64 * v + (s[i + k] % 64) ELSE v]]
           Is(f) == f = [k \in 0 .. n |-> IF k = 0 THEN lead ELSE 64 * f[k - 1] + (s[i + k] % 64)]
           F == CHOOSE f : Is(f)
<1>1. step \in [Nat -> [Nat -> Nat]]
  <2>1. \A k \in 1 .. n : s[i + k] % 64 \in Nat
    BY SMT
  <2> DEFINE r == [k \in 1 .. n |-> s[i + k] % 64]
  <2>2. \A k \in 1 .. n : r[k] \in Nat /\ r[k] = s[i + k] % 64
    BY SMT, <2>1
  <2> HIDE DEF r
  <2>3. step = [k \in Nat |-> [v \in Nat |-> IF k \in 1 .. n THEN 64 * v + r[k] ELSE v]]
    BY SMT, <2>2
  <2> HIDE DEF step
  <2>4. QED BY SMT, <2>2, <2>3
<1>2. PICK f \in [0 .. n -> Nat] : Recurs(f, lead, step, n)
  <2>1. n \in Nat
    BY SMT
  <2> HIDE DEF step, Is, F
  <2>2. QED BY <1>1, <2>1, Recursion
<1>3. Is(f)
  <2>1. ASSUME NEW k \in 0 .. n PROVE f[k] = IF k = 0 THEN lead ELSE 64 * f[k - 1] + (s[i + k] % 64)
    <3>1. CASE k = 0
      BY <1>2, <3>1, SMT DEF Recurs
    <3>2. CASE k # 0
      <4>1. k \in 1 .. n /\ k - 1 \in 0 .. n /\ k \in Nat
        BY <3>2, SMT
      <4>2. f[k] = step[k][f[k - 1]] /\ f[k - 1] \in Nat
        <5> HIDE DEF step
        <5>1. QED BY <1>2, <4>1, SMT DEF Recurs
      <4>3. step[k][f[k - 1]] = 64 * f[k - 1] + (s[i + k] % 64)
        BY <4>1, <4>2, SMT
      <4>4. QED BY <3>2, <4>2, <4>3, SMT
    <3>3. QED BY <3>1, <3>2, SMT
  <2> HIDE DEF step
  <2>2. QED BY <2>1, SMT
<1>4. Is(F)
  <2> HIDE DEF Is
  <2>1. QED BY <1>3, SMT
<1>5. \A k \in 0 .. n : F[k] = IF k = 0 THEN lead ELSE 64 * F[k - 1] + (s[i + k] % 64)
  <2> HIDE DEF F
  <2>1. QED BY <1>4, SMT
<1>6. F \in [0 .. n -> Nat]
  <2> DEFINE Nats == {k \in Nat : k <= n => F[k] \in Nat}
  <2>1. DOMAIN F = 0 .. n /\ F = [k \in 0 .. n |-> F[k]]
    <3> HIDE DEF F
    <3>1. QED BY <1>4
  <2> HIDE DEF F
  <2>2. 0 \in Nats
    BY <1>5, SMT
  <2>3. ASSUME NEW k \in Nat, k \in Nats PROVE k + 1 \in Nats
    <3>1. SUFFICES ASSUME k + 1 <= n PROVE F[k + 1] \in Nat
      BY SMT
    <3>2. F[k] \in Nat /\ k + 1 \in 1 .. n /\ k + 1 \in 0 .. n /\ (k + 1) - 1 = k /\ k + 1 # 0
      BY <2>3, <3>1, SMT
    <3>3. F[k + 1] = 64 * F[k] + (s[i + (k + 1)] % 64)
      BY <1>5, <3>2, SMT
    <3>4. s[i + (k + 1)] % 64 \in Nat
      <4>1. s[i + (k + 1)] \in Nat
        BY <3>2
      <4>2. QED BY <4>1, SMT
    <3>5. QED BY <3>2, <3>3, <3>4, SMT
  <2>4. Nat \subseteq Nats
    <3> HIDE DEF Nats
    <3>1. QED BY <2>2, <2>3, Induction, SMT
  <2>5. \A k \in 0 .. n : F[k] \in Nat
    BY <2>4, SMT
  <2> HIDE DEF Nats
  <2>6. QED BY <2>1, <2>5, Zenon
<1>7. Sequence(lead, s, i, n)
        = Decoded(IF Passes(F[n], n) THEN F[n] ELSE Replacement, n + 1)
  BY SMT DEF Sequence, LeastOf, Passes
<1> HIDE DEF F
<1>8. F[0] = lead /\ \A k \in 1 .. n : F[k] = 64 * F[k - 1] + (s[i + k] % 64)
  BY <1>5, SMT
<1>9. Values(F, lead, s, i, n)
  BY <1>7, <1>8 DEF Values
<1>10. QED BY <1>6, <1>9

\* A code point is decoded from at least one unit; it is 0 only of a 0.
LEMMA SequenceFacts ==
  ASSUME NEW lead \in Nat, NEW s, NEW i \in Nat, NEW n \in 1 .. 3,
         \A k \in 1 .. n : s[i + k] \in Nat
  PROVE  /\ Decodes(Sequence(lead, s, i, n)) /\ Sequence(lead, s, i, n).n = n + 1
         /\ Sequence(lead, s, i, n).cp # 0
<1>1. PICK f \in [0 .. n -> Nat] : Values(f, lead, s, i, n)
  BY SequenceIs
<1>2. LeastOf(n) \in {128, 2048, 65536}
  BY SMT DEF LeastOf
<1>3. PICK v \in Nat : v = f[n]
  BY SMT
<1>4. Replacement \in CodePoint /\ Replacement # 0
  BY SMT DEF Replacement, CodePoint
<1> DEFINE c == IF Passes(v, n) THEN v ELSE Replacement
<1>5. c \in CodePoint /\ c # 0
  <2>1. Passes(v, n) => v \in CodePoint
    BY SMT, <1>3 DEF CodePoint, Passes
  <2>2. Passes(v, n) => v # 0
    BY SMT, <1>2, <1>3 DEF Passes
  <2>3. QED BY SMT, <1>4, <2>1, <2>2
<1> HIDE DEF c
<1>6. Sequence(lead, s, i, n) = Decoded(c, n + 1)
  BY <1>1, <1>3 DEF c, Values
<1>7. n + 1 \in Nat /\ n + 1 >= 1
  BY SMT
<1>8. QED BY SMT, <1>5, <1>6, <1>7 DEF Decodes, Decoded

LEMMA PlainFacts ==
  ASSUME NEW cp \in CodePoint
  PROVE  Decodes(Decoded(cp, 1)) /\ Decoded(cp, 1).n = 1
BY SMT DEF Decoded, Decodes

LEMMA ReplacementFacts == Replacement \in CodePoint
BY SMT DEF Replacement, CodePoint

\* What is decoded of bytes ends in them.
EndsIn(d, i, m) == Decodes(d) /\ i + d.n <= m + 1

LEMMA SequenceEnds ==
  ASSUME NEW s \in Seq(Nat), NEW i \in 1 .. Len(s), NEW n \in 1 .. 3, NEW l \in Nat,
         i + n <= Len(s)
  PROVE  EndsIn(Sequence(l, s, i, n), i, Len(s))
<1>1. i \in Nat /\ Len(s) \in Nat
  BY SMT
<1>2. ASSUME NEW k \in 1 .. n PROVE s[i + k] \in Nat
  <2>1. i + k \in 1 .. Len(s)
    BY <1>1, SMT
  <2>2. QED BY <2>1, SMT
<1>3. Decodes(Sequence(l, s, i, n)) /\ Sequence(l, s, i, n).n = n + 1
  BY <1>1, <1>2, SequenceFacts, Zenon
<1>4. i + (n + 1) <= Len(s) + 1
  BY <1>1, SMT
<1>5. QED BY <1>3, <1>4, SMT DEF EndsIn

LEMMA Utf8DecodeFacts ==
  ASSUME NEW s \in Seq(Nat), NEW i \in 1 .. Len(s)
  PROVE  EndsIn(Utf8Decode(s, i), i, Len(s))
<1> DEFINE Conts(n) == i + n <= Len(s) /\ \A k \in 1 .. n : IsCont(s[i + k])
           Good(d) == EndsIn(d, i, Len(s))
           one == Decoded(s[i], 1)
           two == Sequence(s[i] % 32, s, i, 1)
           three == Sequence(s[i] % 16, s, i, 2)
           four == Sequence(s[i] % 8, s, i, 3)
           none == Decoded(Replacement, 1)
           isOne == s[i] < 128
           isTwo == s[i] \div 32 = 6 /\ Conts(1)
           isThree == s[i] \div 16 = 14 /\ Conts(2)
           isFour == s[i] \div 8 = 30 /\ Conts(3)
           r == Utf8Decode(s, i)
<1>1. i \in Nat /\ Len(s) \in Nat /\ i <= Len(s) /\ s[i] \in Nat
  BY SMT
<1>2. r = CASE isOne -> one [] isTwo -> two [] isThree -> three [] isFour -> four
            [] OTHER -> none
  BY SMT DEF Utf8Decode
<1>3. s[i] % 32 \in Nat /\ s[i] % 16 \in Nat /\ s[i] % 8 \in Nat
  <2> DEFINE c == s[i]
  <2>1. c \in Nat
    BY <1>1
  <2> HIDE DEF c
  <2>2. c % 32 \in Nat /\ c % 16 \in Nat /\ c % 8 \in Nat
    BY <2>1, SMT
  <2>3. QED BY <2>2 DEF c
<1>4. ASSUME NEW cp \in CodePoint PROVE Good(Decoded(cp, 1))
  <2>1. i + 1 <= Len(s) + 1
    BY <1>1, SMT
  <2>2. QED BY <2>1, PlainFacts, SMT DEF EndsIn
<1>5. isOne => Good(one)
  <2>1. isOne => s[i] \in CodePoint
    BY <1>1, SMT DEF CodePoint
  <2> HIDE DEF Good
  <2>2. QED BY <2>1, <1>4, Zenon
<1>6. isTwo => Good(two)
  <2> SUFFICES ASSUME isTwo PROVE Good(two)
    OBVIOUS
  <2>1. i + 1 <= Len(s) /\ 1 \in 1 .. 3
    BY SMT
  <2>2. QED BY <1>3, <2>1, SequenceEnds, Zenon
<1>7. isThree => Good(three)
  <2> SUFFICES ASSUME isThree PROVE Good(three)
    OBVIOUS
  <2>1. i + 2 <= Len(s) /\ 2 \in 1 .. 3
    BY SMT
  <2>2. QED BY <1>3, <2>1, SequenceEnds, Zenon
<1>8. isFour => Good(four)
  <2> SUFFICES ASSUME isFour PROVE Good(four)
    OBVIOUS
  <2>1. i + 3 <= Len(s) /\ 3 \in 1 .. 3
    BY SMT
  <2>2. QED BY <1>3, <2>1, SequenceEnds, Zenon
<1>9. Good(none)
  <2> HIDE DEF Good
  <2>1. QED BY ReplacementFacts, <1>4, Zenon
<1> HIDE DEF r, one, two, three, four, none, isOne, isTwo, isThree, isFour, Good
<1>10. (isOne /\ r = one) \/ (isTwo /\ r = two) \/ (isThree /\ r = three) \/ (isFour /\ r = four)
       \/ r = none
  BY <1>2, SMT
<1>11. Good(r)
  BY <1>5, <1>6, <1>7, <1>8, <1>9, <1>10, Zenon
<1>12. QED BY <1>11 DEF r, Good

\* One unit is decoded, or both halves of a pair.
LEMMA Utf16DecodeFacts ==
  ASSUME NEW w1 \in Unit, NEW w2 \in Unit
  PROVE  /\ Decodes(Utf16Decode(w1, w2))
         /\ Utf16Decode(w1, w2).n \in {1, 2}
         /\ Utf16Decode(w1, w2).n = 2 => IsHigh(w1) /\ IsLow(w2)
<1>1. w1 \in Nat /\ w1 <= 65535 /\ w2 \in Nat
  BY UnitIs, SMT
<1>2. CASE ~IsHigh(w1)
  <2>1. w1 \in CodePoint
    BY <1>1, SMT DEF CodePoint
  <2>2. QED BY <1>2, <2>1, SMT DEF Utf16Decode, Decoded, Decodes
<1>3. CASE IsHigh(w1) /\ IsLow(w2)
  <2> DEFINE cp == (w1 - 55296) * 1024 + (w2 - 56320) + 65536
  <2>1. w1 >= 55296 /\ w1 <= 56319 /\ w2 >= 56320 /\ w2 <= 57343
    <3>1. \A a, b, u \in Nat : u \in a .. b => u >= a /\ u <= b
      OBVIOUS
    <3>2. 55296 \in Nat /\ 56319 \in Nat /\ 56320 \in Nat /\ 57343 \in Nat
      BY SMT
    <3>3. w1 \in 55296 .. 56319 /\ w2 \in 56320 .. 57343
      BY <1>3, SMT DEF IsHigh, IsLow
    <3>4. QED BY <1>1, <3>1, <3>2, <3>3, SMT
  <2>2. cp \in CodePoint
    BY <1>1, <2>1, SMT DEF CodePoint
  <2> HIDE DEF cp
  <2>3. Utf16Decode(w1, w2) = Decoded(cp, 2)
    BY <1>3, SMT DEF Utf16Decode, cp
  <2>4. QED BY <1>3, <2>2, <2>3, SMT DEF Decoded, Decodes
<1>4. CASE IsHigh(w1) /\ ~IsLow(w2)
  <2>1. Replacement \in CodePoint
    BY SMT DEF Replacement, CodePoint
  <2> HIDE DEF Replacement
  <2>2. QED BY <1>4, <2>1, SMT DEF Utf16Decode, Decoded, Decodes
<1>5. QED BY <1>2, <1>3, <1>4, SMT
-----------------------------------------------------------------------------
(***************************************************************************)
(* The way that both passes go.                                            *)
(***************************************************************************)

\* A byte is a unit, and units are numbers.
LEMMA UnitsAreNumbers ==
  ASSUME NEW s \in Seq(Unit)
  PROVE  s \in Seq(Nat)
<1>1. \A n \in Unit : n \in Nat
  BY UnitIs
<1>2. QED BY <1>1, SMT

\* What there is more to read of is in the input.
LEMMA MoreFacts ==
  ASSUME CodecTyped
  PROVE  /\ More <=> MoreAt(at)
         /\ \A p \in Nat \ {0} : MoreAt(p) => p \in 1 .. Len(input)
         /\ Len(input) \in Nat
<1>1. len \in {-1, Len(input)} /\ Len(input) \in Nat
  BY SMT DEF CodecTyped
<1>2. \A p \in Nat \ {0} : MoreAt(p) => p \in 1 .. Len(input)
  BY <1>1, SMT DEF MoreAt
<1>3. More <=> MoreAt(at)
  BY SMT DEF More, MoreAt
<1>4. QED BY <1>1, <1>2, <1>3

\* What follows a unit of UTF-16 in the input.
Second(p) == IF p < Len(input) THEN input[p + 1] ELSE 0

LEMMA AtFacts ==
  ASSUME CodecTyped, NEW p \in 1 .. Len(input)
  PROVE  EndsIn(At(p), p, Len(input))
<1>1. input \in Seq(Unit) /\ to \in {8, 16} /\ Len(input) \in Nat /\ p \in Nat /\ p <= Len(input)
  BY SMT DEF CodecTyped
<1>2. CASE to = 16
  <2>1. At(p) = Utf8Decode(input, p)
    BY <1>2, SMT DEF At
  <2>2. QED BY <1>1, <2>1, UnitsAreNumbers, Utf8DecodeFacts, Zenon
<1>3. CASE to = 8
  <2>1. At(p) = Utf16Decode(input[p], Second(p))
    BY <1>3, SMT DEF At, Second
  <2>2. input[p] \in Unit /\ Second(p) \in Unit
    <3>1. 0 \in Unit
      BY UnitIs, SMT
    <3>2. p < Len(input) => p + 1 \in 1 .. Len(input)
      BY <1>1, SMT
    <3>3. input[p] \in Unit /\ (p < Len(input) => input[p + 1] \in Unit)
      BY <1>1, <3>2, SMT
    <3>4. QED BY <3>1, <3>3, SMT DEF Second
  <2> DEFINE d == Utf16Decode(input[p], Second(p))
  <2>3. Decodes(d) /\ d.n \in {1, 2} /\ (d.n = 2 => IsLow(Second(p)))
    BY <2>2, Utf16DecodeFacts, Zenon
  <2> HIDE DEF d
  <2>4. d.n = 2 => p < Len(input)
    <3>1. ~IsLow(0)
      BY SMT DEF IsLow
    <3>2. QED BY <2>3, <3>1, SMT DEF Second
  <2>5. p + d.n <= Len(input) + 1
    BY <1>1, <2>3, <2>4, SMT
  <2>6. QED BY <2>1, <2>3, <2>5, SMT DEF d, EndsIn
<1>4. QED BY <1>1, <1>2, <1>3, Zenon

\* What may be found at the position: one thing, if the input is not open-ended.
LEMMA FoundFacts ==
  ASSUME CodecTyped, More, NEW d \in Found
  PROVE  Decodes(d) /\ (~OpenEnded => d = At(at))
<1>1. /\ input \in Seq(Unit) /\ to \in {8, 16} /\ Len(input) \in Nat
      /\ len \in {-1, Len(input)} /\ at \in 1 .. Len(input) /\ at \in Nat /\ at <= Len(input)
  <2>1. at \in Nat \ {0} /\ input \in Seq(Unit) /\ to \in {8, 16} /\ len \in {-1, Len(input)}
    BY SMT DEF CodecTyped
  <2>2. at \in 1 .. Len(input) /\ Len(input) \in Nat
    BY <2>1, MoreFacts
  <2>3. QED BY <2>1, <2>2, SMT
<1>2. CASE to = 16
  <2>1. d = At(at)
    BY <1>2, SMT DEF Found, At
  <2>2. QED BY <1>1, <2>1, AtFacts, SMT DEF EndsIn
<1>3. CASE to = 8
  <2> DEFINE seconds == IF at < Len(input) THEN {input[at + 1]}
                        ELSE IF len >= 0 THEN Behind ELSE {0}
             w1 == input[at]
  <2>1. Found = {Utf16Decode(w1, w2) : w2 \in seconds}
    BY <1>3, SMT DEF Found
  <2>2. PICK w2 \in seconds : d = Utf16Decode(w1, w2)
    <3> HIDE DEF seconds, w1
    <3>1. QED BY <2>1
  <2>3. w1 \in Unit /\ w2 \in Unit
    <3>1. 0 \in Unit
      BY UnitIs, SMT
    <3>2. at < Len(input) => at + 1 \in 1 .. Len(input)
      BY <1>1, SMT
    <3>3. w1 \in Unit /\ (at < Len(input) => input[at + 1] \in Unit)
      BY <1>1, <3>2, SMT
    <3>4. Behind \subseteq Unit
      BY TextAssumption
    <3>5. QED BY <3>1, <3>3, <3>4, SMT
  <2>4. Decodes(d)
    BY <2>2, <2>3, Utf16DecodeFacts, Zenon
  <2>5. ASSUME ~OpenEnded PROVE d = At(at)
    <3>1. At(at) = Utf16Decode(w1, Second(at))
      BY <1>3, SMT DEF At, Second
    <3>2. CASE at < Len(input) \/ ~(len >= 0)
      <4>1. w2 = Second(at)
        BY <3>2, SMT DEF Second
      <4>2. QED BY <2>2, <3>1, <4>1, Zenon
    <3>3. CASE ~(at < Len(input)) /\ len >= 0
      <4>1. at = len /\ len > 0
        BY <1>1, <3>3, SMT
      <4>2. ~IsHigh(w1)
        BY <1>3, <2>5, <4>1, SMT DEF OpenEnded
      <4>3. \A u, v : Utf16Decode(w1, u) = Utf16Decode(w1, v)
        BY <4>2, SMT DEF Utf16Decode
      <4>4. QED BY <2>2, <3>1, <4>3, Zenon
    <3>4. QED BY <3>2, <3>3, Zenon
  <2>6. QED BY <2>4, <2>5
<1>4. QED BY <1>1, <1>2, <1>3, SMT

\* What is left is the cost of the next code point, and what is left behind it.
LEMMA RestFacts ==
  ASSUME CodecTyped, NEW p \in 1 .. Len(input) + 1
  PROVE  /\ Rest(p) \in Nat
         /\ MoreAt(p) => Rest(p) = Cost(At(p).cp) + Rest(p + At(p).n)
         /\ ~MoreAt(p) => Rest(p) = 0
<1> DEFINE b == Len(input) + 1
           cost(q) == Cost(At(q).cp)
           next(q) == q + At(q).n
           Is(f) == f = [q \in 1 .. b |-> IF MoreAt(q) THEN cost(q) + f[next(q)] ELSE 0]
           R == CHOOSE f : Is(f)
           h == [q \in 1 .. b |-> [F \in [1 .. b -> Nat] |->
                   IF MoreAt(q) THEN cost(q) + F[next(q)] ELSE 0]]
<1>1. b \in Int /\ 1 \in Int /\ Len(input) \in Nat
  BY MoreFacts, SMT
<1>2. ASSUME NEW q \in 1 .. b, MoreAt(q) PROVE cost(q) \in Nat /\ next(q) \in q + 1 .. b
  <2>1. q \in 1 .. Len(input)
    <3>1. q \in Nat \ {0}
      BY <1>1, SMT
    <3>2. QED BY <1>2, <3>1, MoreFacts
  <2> DEFINE d == At(q)
  <2>2. EndsIn(d, q, Len(input))
    BY <2>1, AtFacts
  <2> HIDE DEF d
  <2>3. d.n \in Nat /\ d.n >= 1 /\ q + d.n <= Len(input) + 1
    BY <2>2, SMT DEF EndsIn, Decodes
  <2>4. q + d.n \in q + 1 .. b
    BY <1>1, <2>1, <2>3, SMT
  <2>5. Cost(d.cp) \in Nat
    BY SMT DEF Cost, CountUtf8, CountUtf16
  <2>6. QED BY <2>4, <2>5 DEF d
<1>3. \A q \in 1 .. b : \A n \in q + 1 .. b : n \in 1 .. b
  BY <1>1, SMT
<1>4. Rest(p) = R[p] /\ \A q \in 1 .. b : Rest(q) = R[q]
  BY SMT DEF Rest
<1> HIDE DEF b, cost, next
<1>5. h \in [1 .. b -> [[1 .. b -> Nat] -> Nat]]
  <2>1. \A q \in 1 .. b : MoreAt(q) => cost(q) \in Nat /\ next(q) \in 1 .. b
    BY <1>2, <1>3
  <2>2. ASSUME NEW q \in 1 .. b, NEW F \in [1 .. b -> Nat]
        PROVE  (IF MoreAt(q) THEN cost(q) + F[next(q)] ELSE 0) \in Nat
    BY <2>1, SMT
  <2>3. QED BY <2>2, Zenon
<1>6. ASSUME NEW q \in 1 .. b, NEW F \in [1 .. b -> Nat], NEW G \in [1 .. b -> Nat],
             \A r \in q + 1 .. b : F[r] = G[r]
      PROVE  h[q][F] = h[q][G]
  BY <1>2, <1>6, SMT
<1>7. \A q \in 1 .. b : \A F \in [1 .. b -> Nat] :
        h[q][F] = IF MoreAt(q) THEN cost(q) + F[next(q)] ELSE 0
  OBVIOUS
<1> HIDE DEF h
<1>8. PICK f \in [1 .. b -> Nat] : IsFixed(f, h, 1, b)
  <2>1. \A q \in 1 .. b : \A F, G \in [1 .. b -> Nat] :
          (\A r \in q + 1 .. b : F[r] = G[r]) => h[q][F] = h[q][G]
    BY <1>6
  <2>2. FromLarger(h, 1, b, Nat)
    BY <1>5, <2>1 DEF FromLarger
  <2>3. 0 \in Nat
    OBVIOUS
  <2>4. QED BY <1>1, <2>2, <2>3, Descending
<1>9. Is(f)
  <2>1. \A q \in 1 .. b : f[q] = IF MoreAt(q) THEN cost(q) + f[next(q)] ELSE 0
    BY <1>7, <1>8, Zenon DEF IsFixed
  <2>2. QED BY <2>1, Zenon
<1>10. Is(R)
  <2> HIDE DEF Is
  <2>1. QED BY <1>9
<1> HIDE DEF R
<1>11. \A q \in 1 .. b : R[q] = IF MoreAt(q) THEN cost(q) + R[next(q)] ELSE 0
  BY <1>10, Zenon
<1> DEFINE T == {q \in 1 .. b : R[q] \in Nat}
<1>12. ASSUME NEW q \in 1 .. b, \A r \in q + 1 .. b : r \in T PROVE q \in T
  <2>1. CASE MoreAt(q)
    <3>1. cost(q) \in Nat /\ next(q) \in T
      BY <1>2, <1>12, <2>1
    <3>2. R[next(q)] \in Nat
      BY <3>1
    <3>3. R[q] = cost(q) + R[next(q)]
      BY <1>11, <2>1
    <3>4. QED BY <3>1, <3>2, <3>3, SMT
  <2>2. CASE ~MoreAt(q)
    BY <1>11, <2>2, SMT
  <2>3. QED BY <2>1, <2>2
<1>13. 1 .. b \subseteq T
  <2> HIDE DEF T
  <2>1. QED BY <1>1, <1>12, FromAbove
<1>14. p \in 1 .. b
  BY DEF b
<1>15. Rest(p) \in Nat
  BY <1>4, <1>13, <1>14
<1>16. MoreAt(p) => Rest(p) = cost(p) + Rest(next(p))
  <2>1. MoreAt(p) => next(p) \in 1 .. b
    BY <1>2, <1>3, <1>14
  <2>2. QED BY <1>4, <1>11, <1>14, <2>1
<1>17. ~MoreAt(p) => Rest(p) = 0
  BY <1>4, <1>11, <1>14
<1>18. QED BY <1>15, <1>16, <1>17 DEF cost, next

\* What is left, after a step that leaves the input alone.
LEMMA RestStays ==
  ASSUME to' = to, input' = input, len' = len, NEW q, q = at'
  PROVE  Rest(at)' = Rest(q) /\ Rest(1)' = Rest(1)
<1>1. Rest(at)' = Rest(q)
  BY DEF Rest, MoreAt, At, Cost
<1>2. Rest(1)' = Rest(1)
  BY DEF Rest, MoreAt, At, Cost
<1>3. QED BY <1>1, <1>2

\* What a whole input takes is a number, before and after a step.
LEMMA RestOfAll == CodecTyped => Rest(1) \in Nat
<1> SUFFICES ASSUME CodecTyped PROVE Rest(1) \in Nat
  OBVIOUS
<1>1. 1 \in 1 .. Len(input) + 1
  BY MoreFacts, SMT
<1>2. QED BY <1>1, RestFacts

LEMMA RestOfAllNext == CodecTyped' => Rest(1)' \in Nat
<1>1. (CodecTyped => Rest(1) \in Nat)'
  BY RestOfAll, PTL
<1>2. QED BY <1>1

\* The part of the invariant that is about conversions.
CodecInv == CodecTyped /\ SameWay

LEMMA CodecStays ==
  ASSUME CodecInv, UNCHANGED codecVars
  PROVE  CodecInv'
<1>1. /\ pass' = pass /\ to' = to /\ input' = input /\ len' = len
      /\ at' = at /\ size' = size /\ out' = out
  BY DEF codecVars
<1>2. CodecTyped'
  BY <1>1 DEF CodecInv, CodecTyped
<1>3. Rest(at)' = Rest(at) /\ Rest(1)' = Rest(1)
  BY <1>1, RestStays
<1>4. OpenEnded' <=> OpenEnded
  BY <1>1 DEF OpenEnded
<1>5. SameWay'
  BY <1>1, <1>3, <1>4, SMT DEF CodecInv, SameWay
<1>6. QED BY <1>2, <1>5 DEF CodecInv

\* The parts of the type.
LEMMA Typed ==
  ASSUME CodecTyped
  PROVE  /\ to \in {8, 16} /\ input \in Seq(Unit) /\ out \in Seq(IF to = 8 THEN Byte ELSE Unit)
         /\ len \in {-1, Len(input)} /\ at \in Nat /\ at # 0 /\ size \in Nat /\ Len(out) \in Nat
<1>1. out \in Seq(IF to = 8 THEN Byte ELSE Unit)
  BY DEF CodecTyped
<1>2. Len(out) \in Nat
  BY <1>1, SMT
<1>3. QED BY <1>1, <1>2, SMT DEF CodecTyped

\* A call.
LEMMA ConvertStep ==
  ASSUME NEW target \in {8, 16}, NEW s \in Seq(Unit), NEW n \in {-1, Len(s)}, NEW null \in BOOLEAN,
         Convert(target, s, n, null)
  PROVE  CodecInv'
<1>1. /\ to' = target /\ input' = s /\ len' = n /\ at' = 1 /\ size' = 0 /\ out' = <<>>
      /\ pass' \in {"size", "null"}
  BY DEF Convert
<1>2. CodecTyped'
  BY <1>1, SMT DEF CodecTyped
<1>3. Rest(at)' = Rest(1)'
  BY <1>1 DEF Rest
<1>4. Rest(1)' \in Nat
  BY <1>2, RestOfAllNext
<1>5. 0 + Rest(at)' = Rest(1)'
  BY <1>3, <1>4, SMT
<1>6. Len(input') \in Nat
  BY <1>1, SMT
<1>7. SameWay'
  BY <1>1, <1>5, <1>6, SMT DEF SameWay
<1>8. QED BY <1>2, <1>7 DEF CodecInv

\* The end of a pass.
LEMMA AllocateStep ==
  ASSUME CodecInv, Allocate
  PROVE  CodecInv'
<1>1. /\ pass = "size" /\ ~More /\ pass' = "write" /\ at' = 1
      /\ to' = to /\ input' = input /\ len' = len /\ size' = size /\ out' = out
  BY DEF Allocate
<1>2. CodecTyped /\ SameWay
  BY DEF CodecInv
<1>3. CodecTyped'
  BY <1>1, <1>2 DEF CodecTyped
<1>4. Rest(at)' = Rest(1)
  BY <1>1, RestStays
<1>5. OpenEnded' <=> OpenEnded
  BY <1>1 DEF OpenEnded
<1>6. SameWay'
  <2> SUFFICES ASSUME ~OpenEnded PROVE at' <= Len(input') + 1 /\ Len(out') + Rest(at)' = size'
    BY <1>1, <1>5 DEF SameWay
  <2>1. out = <<>> /\ size + Rest(at) = Rest(1) /\ at <= Len(input) + 1
    BY <1>1, <1>2 DEF SameWay
  <2>2. /\ size \in Nat /\ at \in Nat /\ at # 0 /\ Len(input) \in Nat
        /\ (~More <=> ~MoreAt(at))
    BY <1>2, Typed, MoreFacts
  <2>3. at \in 1 .. Len(input) + 1
    BY <2>1, <2>2, SMT
  <2>4. Rest(at) = 0
    BY <1>1, <1>2, <2>2, <2>3, RestFacts
  <2>5. size = Rest(1) /\ Len(out) = 0
    BY <2>1, <2>2, <2>4, SMT
  <2>6. QED BY <1>1, <1>4, <2>2, <2>5, SMT
<1>7. QED BY <1>3, <1>6 DEF CodecInv

LEMMA TerminateStep ==
  ASSUME CodecInv, Terminate
  PROVE  CodecInv'
<1>1. /\ pass = "write" /\ ~More /\ pass' = "done" /\ at' = at
      /\ to' = to /\ input' = input /\ len' = len /\ size' = size /\ out' = out
  BY DEF Terminate
<1>2. CodecTyped /\ SameWay
  BY DEF CodecInv
<1>3. CodecTyped'
  BY <1>1, <1>2 DEF CodecTyped
<1>4. OpenEnded' <=> OpenEnded
  BY <1>1 DEF OpenEnded
<1>5. SameWay'
  <2> SUFFICES ASSUME ~OpenEnded PROVE Len(out') = size'
    BY <1>1, <1>4 DEF SameWay
  <2>1. Len(out) + Rest(at) = size /\ at <= Len(input) + 1
    BY <1>1, <1>2 DEF SameWay
  <2>2. /\ size \in Nat /\ at \in Nat /\ at # 0 /\ Len(input) \in Nat /\ Len(out) \in Nat
        /\ (~More <=> ~MoreAt(at))
    BY <1>2, Typed, MoreFacts
  <2>3. at \in 1 .. Len(input) + 1
    BY <2>1, <2>2, SMT
  <2>4. Rest(at) = 0
    BY <1>1, <1>2, <2>2, <2>3, RestFacts
  <2>5. QED BY <1>1, <2>1, <2>2, <2>4, SMT
<1>6. QED BY <1>3, <1>5 DEF CodecInv

\* What a turn of either loop does.
LEMMA OnTheWay ==
  ASSUME CodecInv, pass \in {"size", "write"}, More, NEW d \in Found
  PROVE  /\ Decodes(d) /\ at + d.n \in Nat /\ at + d.n # 0 /\ Cost(d.cp) \in Nat
         /\ ~OpenEnded => /\ at + d.n <= Len(input) + 1
                          /\ Rest(at + d.n) \in Nat
                          /\ Rest(at) = Cost(d.cp) + Rest(at + d.n)
<1>1. CodecTyped /\ SameWay
  BY DEF CodecInv
<1>2. Decodes(d) /\ (~OpenEnded => d = At(at))
  BY <1>1, FoundFacts
<1>3. /\ at \in Nat /\ at # 0 /\ Len(input) \in Nat /\ MoreAt(at) /\ at \in Nat \ {0}
  BY <1>1, Typed, MoreFacts
<1>4. at + d.n \in Nat /\ at + d.n # 0
  BY <1>2, <1>3, SMT DEF Decodes
<1>5. Cost(d.cp) \in Nat
  BY SMT DEF Cost, CountUtf8, CountUtf16
<1>6. ASSUME ~OpenEnded
      PROVE  /\ at + d.n <= Len(input) + 1
             /\ Rest(at + d.n) \in Nat
             /\ Rest(at) = Cost(d.cp) + Rest(at + d.n)
  <2>1. d = At(at)
    BY <1>2, <1>6
  <2>2. at \in 1 .. Len(input)
    BY <1>1, <1>3, MoreFacts
  <2>3. at + d.n <= Len(input) + 1
    BY <1>1, <2>1, <2>2, AtFacts DEF EndsIn
  <2>4. at \in 1 .. Len(input) + 1 /\ at + d.n \in 1 .. Len(input) + 1
    BY <1>3, <1>4, <2>2, <2>3, SMT
  <2>5. Rest(at + d.n) \in Nat
    BY <1>1, <2>4, RestFacts
  <2>6. Rest(at) = Cost(d.cp) + Rest(at + d.n)
    BY <1>1, <1>3, <2>1, <2>4, RestFacts
  <2>7. QED BY <2>3, <2>5, <2>6
<1>7. QED BY <1>2, <1>4, <1>5, <1>6

LEMMA CountStep ==
  ASSUME CodecInv, Count
  PROVE  CodecInv'
<1>1. /\ pass = "size" /\ More /\ pass' = pass
      /\ to' = to /\ input' = input /\ len' = len /\ out' = out
  BY DEF Count
<1>2. PICK d \in Found : size' = size + Cost(d.cp) /\ at' = at + d.n
  BY DEF Count, Cost
<1>3. CodecTyped /\ SameWay
  BY DEF CodecInv
<1>4. PICK next \in Nat : next = at + d.n
  BY <1>1, OnTheWay
<1>5. next # 0 /\ Cost(d.cp) \in Nat
  BY <1>1, <1>4, OnTheWay
<1>6. ~OpenEnded => /\ next <= Len(input) + 1 /\ Rest(next) \in Nat
                    /\ Rest(at) = Cost(d.cp) + Rest(next)
  BY <1>1, <1>4, OnTheWay
<1>7. size \in Nat
  BY <1>3, Typed
<1>8. CodecTyped'
  <2>1. at' \in Nat \ {0} /\ size' \in Nat
    BY <1>2, <1>4, <1>5, <1>7, SMT
  <2>2. QED BY <1>1, <1>3, <2>1 DEF CodecTyped
<1>9. Rest(at)' = Rest(next) /\ Rest(1)' = Rest(1)
  BY <1>1, <1>2, <1>4, RestStays
<1>10. OpenEnded' <=> OpenEnded
  BY <1>1 DEF OpenEnded
<1>11. SameWay'
  <2> SUFFICES ASSUME ~OpenEnded
               PROVE  at' <= Len(input') + 1 /\ out' = <<>> /\ size' + Rest(at)' = Rest(1)'
    BY <1>1, <1>10 DEF SameWay
  <2>1. out = <<>> /\ size + Rest(at) = Rest(1)
    BY <1>1, <1>3 DEF SameWay
  <2>2. (size + Cost(d.cp)) + Rest(next) = Rest(1)
    BY <1>5, <1>6, <1>7, <2>1, SMT
  <2>3. QED BY <1>1, <1>2, <1>4, <1>6, <1>9, <2>1, <2>2
<1>12. QED BY <1>8, <1>11 DEF CodecInv

LEMMA WriteStep ==
  ASSUME CodecInv, Write
  PROVE  CodecInv'
<1>1. /\ pass = "write" /\ More /\ pass' = pass
      /\ to' = to /\ input' = input /\ len' = len /\ size' = size
  BY DEF Write
<1>2. PICK d \in Found : /\ out' = out \o IF to = 16 THEN Utf16Encode(d.cp) ELSE Utf8Encode(d.cp)
                         /\ at' = at + d.n
  BY DEF Write
<1>3. CodecTyped /\ SameWay
  BY DEF CodecInv
<1>4. PICK next \in Nat : next = at + d.n
  BY <1>1, OnTheWay
<1>5. next # 0 /\ Cost(d.cp) \in Nat /\ d.cp \in CodePoint
  BY <1>1, <1>4, OnTheWay DEF Decodes
<1>6. ~OpenEnded => /\ next <= Len(input) + 1 /\ Rest(next) \in Nat
                    /\ Rest(at) = Cost(d.cp) + Rest(next)
  BY <1>1, <1>4, OnTheWay
<1> DEFINE e == IF to = 16 THEN Utf16Encode(d.cp) ELSE Utf8Encode(d.cp)
           S == IF to = 8 THEN Byte ELSE Unit
<1>7. e \in Seq(S) /\ Len(e) = Cost(d.cp)
  <2>1. to \in {8, 16}
    BY <1>3, Typed
  <2>2. CASE to = 8
    <3>1. e = Utf8Encode(d.cp) /\ S = Byte /\ Cost(d.cp) = CountUtf8(d.cp)
      BY <2>2, SMT DEF Cost
    <3> HIDE DEF e, S
    <3>2. QED BY <1>5, <3>1, Encode8, Zenon
  <2>3. CASE to = 16
    <3>1. e = Utf16Encode(d.cp) /\ S = Unit /\ Cost(d.cp) = CountUtf16(d.cp)
      BY <2>3, SMT DEF Cost
    <3> HIDE DEF e, S
    <3>2. QED BY <1>5, <3>1, Encode16, Zenon
  <2>4. QED BY <2>1, <2>2, <2>3, SMT
<1>8. out \in Seq(S) /\ size \in Nat /\ Len(out) \in Nat
  BY <1>3, Typed
<1> HIDE DEF e, S
<1>9. out' = out \o e /\ out' \in Seq(S) /\ Len(out') = Len(out) + Cost(d.cp)
  <2>1. out' = out \o e
    BY <1>2 DEF e
  <2>2. out \o e \in Seq(S) /\ Len(out \o e) = Len(out) + Len(e)
    BY <1>7, <1>8
  <2>3. QED BY <1>7, <2>1, <2>2
<1>10. CodecTyped'
  <2>1. at' \in Nat \ {0}
    BY <1>2, <1>4, <1>5
  <2>2. out' \in Seq(IF to' = 8 THEN Byte ELSE Unit)
    BY <1>1, <1>9 DEF S
  <2>3. QED BY <1>1, <1>3, <2>1, <2>2 DEF CodecTyped
<1>11. Rest(at)' = Rest(next) /\ Rest(1)' = Rest(1)
  BY <1>1, <1>2, <1>4, RestStays
<1>12. OpenEnded' <=> OpenEnded
  BY <1>1 DEF OpenEnded
<1>13. SameWay'
  <2> SUFFICES ASSUME ~OpenEnded
               PROVE  at' <= Len(input') + 1 /\ Len(out') + Rest(at)' = size'
    BY <1>1, <1>12 DEF SameWay
  <2>1. Len(out) + Rest(at) = size
    BY <1>1, <1>3 DEF SameWay
  <2>2. (Len(out) + Cost(d.cp)) + Rest(next) = size
    BY <1>5, <1>6, <1>8, <2>1, SMT
  <2>3. QED BY <1>1, <1>2, <1>4, <1>6, <1>9, <1>11, <2>2
<1>14. QED BY <1>10, <1>13 DEF CodecInv
-----------------------------------------------------------------------------
(***************************************************************************)
(* From the literal to its object, and back.                               *)
(***************************************************************************)

\* The text is of characters, and the tokens are in order.
LEMMA InvalidTokenStep ==
  ASSUME LexInv, InvalidToken
  PROVE  LexInv'
<1>1. GiveUp("invalid_token")
  BY DEF InvalidToken
<1>2. QED BY <1>1, GiveUpStep

\* The spaces at the beginning have been passed.
LEMMA LexStart ==
  ASSUME LexInit
  PROVE  LexInv
<1>1. src \in Texts /\ src \in Seq(Chars) /\ tokens = <<>> /\ Len(src) \in Nat
  <2>1. src \in Texts /\ tokens = <<>>
    BY Zenon DEF LexInit
  <2>2. src \in Seq(DOMAIN ByteOf)
    BY <2>1, TextAssumption
  <2>3. QED BY <2>1, <2>2 DEF Chars
<1>2. lexed \in {"", "tokens", "invalid_token", "4545", "exit"} /\ lexed # "tokens"
  BY Zenon DEF LexInit
<1> DEFINE S == {q \in 1 .. Len(src) + 1 : AtEnd(q) \/ src[q] \notin Space}
           m == Least(S)
<1>3. pos = m
  BY Zenon DEF LexInit
<1>4. S \subseteq Nat /\ Len(src) + 1 \in S
  BY <1>1 DEF AtEnd
<1>5. m \in S /\ \A n \in S : m <= n
  <2> HIDE DEF S
  <2>1. QED BY <1>4, LeastIs
<1>6. pos \in 1 .. Len(src) + 1 /\ (AtEnd(pos) \/ src[pos] \notin Space)
  BY <1>3, <1>5
<1>7. ASSUME NEW n \in 1 .. pos - 1 PROVE src[n] \in Space
  <2>1. n \in 1 .. Len(src) + 1 /\ ~(pos <= n)
    BY <1>1, <1>6
  <2>2. n \notin S
    BY <1>3, <1>5, <2>1
  <2>3. QED BY <2>1, <2>2
<1> HIDE DEF m
<1>8. LexerTyped
  <2>1. tokens \in Seq(Token)
    BY <1>1
  <2>2. QED BY <1>1, <1>6, <2>1 DEF LexerTyped
<1>9. SpacesPassed
  <2>1. ReadFrom = 1
    BY <1>1 DEF ReadFrom
  <2>2. QED BY <1>6, <1>7, <2>1 DEF SpacesPassed
<1>10. DOMAIN tokens = {}
  BY <1>1
<1>11. Outcomes
  BY <1>2, Zenon DEF Outcomes
<1>12. PlacesFollowText
  BY <1>2, Zenon DEF PlacesFollowText
<1>13. /\ TokensInText /\ OnlyBlanksSkipped /\ TokensWhole /\ CommentsSkippedUnlessBehindAnother
       /\ LongestPunctuators
  BY <1>10 DEF TokensInText, OnlyBlanksSkipped, TokensWhole, CommentsSkippedUnlessBehindAnother,
               LongestPunctuators
<1>14. QED BY <1>8, <1>9, <1>11, <1>12, <1>13, Zenon DEF LexInv

LEMMA LexStep ==
  ASSUME LexInv, LexNext
  PROVE  LexInv'
<1>1. CASE Number
  BY <1>1, NumberStep
<1>2. CASE Word
  BY <1>2, WordStep
<1>3. CASE Literal
  BY <1>3, LiteralStep
<1>4. CASE Punctuator
  BY <1>4, PunctuatorStep
<1>5. CASE InvalidToken
  BY <1>5, InvalidTokenStep
<1>6. CASE Finish
  BY <1>6, FinishStep
<1>7. QED BY <1>1, <1>2, <1>3, <1>4, <1>5, <1>6 DEF LexNext

\* What has been written is of units.
LEMMA OutIsUnits ==
  ASSUME CodecTyped
  PROVE  out \in Seq(Unit)
<1>1. \A n \in Byte : n \in Unit
  BY BytesAreUnits
<1>2. out \in Seq(IF to = 8 THEN Byte ELSE Unit)
  BY DEF CodecTyped
<1>3. CASE to = 8
  <2>1. out \in Seq(Byte)
    BY <1>2, <1>3
  <2>2. QED BY <1>1, <2>1, SMT
<1>4. CASE to # 8
  BY <1>2, <1>4
<1>5. QED BY <1>3, <1>4

-----------------------------------------------------------------------------
(***************************************************************************)
(* A well-formed sequence of bytes is a code point, and the code point is  *)
(* those bytes again.                                                      *)
(***************************************************************************)

\* What is decoded of two, three and four bytes.
LEMMA Sequence1 ==
  ASSUME NEW s, NEW i \in Nat, NEW a \in Nat, s[i + 1] \in Nat,
         NEW v, v = 64 * a + (s[i + 1] % 64), Passes(v, 1)
  PROVE  Sequence(a, s, i, 1) = Decoded(v, 2)
<1>1. 1 \in 1 .. 3 /\ \A k \in 1 .. 1 : s[i + k] \in Nat
  BY SMT
<1>2. PICK f \in [0 .. 1 -> Nat] : Values(f, a, s, i, 1)
  BY <1>1, SequenceIs
<1>3. f[1] = v
  BY <1>2, SMT DEF Values
<1>4. QED BY <1>2, <1>3, SMT DEF Values

LEMMA Sequence2 ==
  ASSUME NEW s, NEW i \in Nat, NEW a \in Nat, s[i + 1] \in Nat, s[i + 2] \in Nat,
         NEW v, v = 64 * (64 * a + (s[i + 1] % 64)) + (s[i + 2] % 64), Passes(v, 2)
  PROVE  Sequence(a, s, i, 2) = Decoded(v, 3)
<1>1. 2 \in 1 .. 3 /\ \A k \in 1 .. 2 : s[i + k] \in Nat
  BY SMT
<1>2. PICK f \in [0 .. 2 -> Nat] : Values(f, a, s, i, 2)
  BY <1>1, SequenceIs
<1>3. f[1] = 64 * f[0] + (s[i + 1] % 64) /\ f[2] = 64 * f[1] + (s[i + 2] % 64)
  BY <1>2, SMT DEF Values
<1>4. f[2] = v
  BY <1>2, <1>3, SMT DEF Values
<1>5. QED BY <1>2, <1>4, SMT DEF Values

LEMMA Sequence3 ==
  ASSUME NEW s, NEW i \in Nat, NEW a \in Nat,
         s[i + 1] \in Nat, s[i + 2] \in Nat, s[i + 3] \in Nat,
         NEW v, v = 64 * (64 * (64 * a + (s[i + 1] % 64)) + (s[i + 2] % 64)) + (s[i + 3] % 64),
         Passes(v, 3)
  PROVE  Sequence(a, s, i, 3) = Decoded(v, 4)
<1>1. 3 \in 1 .. 3 /\ \A k \in 1 .. 3 : s[i + k] \in Nat
  BY SMT
<1>2. PICK f \in [0 .. 3 -> Nat] : Values(f, a, s, i, 3)
  BY <1>1, SequenceIs
<1>3. /\ f[1] = 64 * f[0] + (s[i + 1] % 64) /\ f[2] = 64 * f[1] + (s[i + 2] % 64)
      /\ f[3] = 64 * f[2] + (s[i + 3] % 64)
  BY <1>2, SMT DEF Values
<1>4. f[3] = v
  BY <1>2, <1>3, SMT DEF Values
<1>5. QED BY <1>2, <1>4, SMT DEF Values

\* What was put together is taken apart.
LEMMA Apart ==
  ASSUME NEW x \in Nat, NEW y \in Nat, y < 64
  PROVE  (64 * x + y) \div 64 = x /\ (64 * x + y) % 64 = y
BY SMT

\* The bytes of a well-formed code point: one, two, three or four.
OneByte(a) == a < 128
TwoBytes(a, b) == a \in 194 .. 223 /\ b \in Tail1
ThreeBytes(a, b, c) ==
  /\ a \in 224 .. 239 /\ b \in Tail1 /\ c \in Tail1
  /\ a = 224 => b >= 160
  /\ a = 237 => b <= 159
FourBytes(a, b, c, d) ==
  /\ a \in 240 .. 244 /\ b \in Tail1 /\ c \in Tail1 /\ d \in Tail1
  /\ a = 240 => b >= 144
  /\ a = 244 => b <= 143

LEMMA DemandsAre ==
  ASSUME NEW a \in Nat
  PROVE  LET D == Demands(a) IN
         /\ a < 128 => D = <<>>
         /\ ((a >= 128 /\ a < 194) \/ a > 244) => D = <<{}>>
         /\ a \in 194 .. 223 => D = <<Tail1>>
         /\ a = 224 => D = <<160 .. 191, Tail1>>
         /\ a = 237 => D = <<128 .. 159, Tail1>>
         /\ a \in 225 .. 239 /\ a # 237 => D = <<Tail1, Tail1>>
         /\ a = 240 => D = <<144 .. 191, Tail1, Tail1>>
         /\ a = 244 => D = <<128 .. 143, Tail1, Tail1>>
         /\ a \in 241 .. 243 => D = <<Tail1, Tail1, Tail1>>
<1> DEFINE none == <<{}>>
           d0 == <<>>
           d1 == <<Tail1>>
           d224 == <<160 .. 191, Tail1>>
           d2 == <<Tail1, Tail1>>
           d237 == <<128 .. 159, Tail1>>
           d240 == <<144 .. 191, Tail1, Tail1>>
           d3 == <<Tail1, Tail1, Tail1>>
           d244 == <<128 .. 143, Tail1, Tail1>>
           D == Demands(a)
<1>1. D = CASE a < 128 -> d0 [] a \in 194 .. 223 -> d1 [] a = 224 -> d224
            [] a \in 225 .. 236 -> d2 [] a = 237 -> d237 [] a \in 238 .. 239 -> d2
            [] a = 240 -> d240 [] a \in 241 .. 243 -> d3 [] a = 244 -> d244
            [] OTHER -> none
  BY SMT DEF Demands
<1> HIDE DEF D, none, d0, d1, d224, d2, d237, d240, d3, d244
<1>2. /\ a < 128 => D = d0
      /\ ((a >= 128 /\ a < 194) \/ a > 244) => D = none
      /\ a \in 194 .. 223 => D = d1
      /\ a = 224 => D = d224
      /\ a = 237 => D = d237
      /\ a \in 225 .. 239 /\ a # 237 => D = d2
      /\ a = 240 => D = d240
      /\ a = 244 => D = d244
      /\ a \in 241 .. 243 => D = d3
  BY <1>1, SMT
<1>3. QED BY <1>2 DEF D, none, d0, d1, d224, d2, d237, d240, d3, d244

LEMMA FormedBytes ==
  ASSUME NEW s \in Seq(Byte), NEW i \in 1 .. Len(s), Formed(s, i)
  PROVE  LET n == Len(Demands(s[i])) IN
         /\ n \in 0 .. 3 /\ i + n <= Len(s)
         /\ n = 0 => OneByte(s[i])
         /\ n = 1 => TwoBytes(s[i], s[i + 1])
         /\ n = 2 => ThreeBytes(s[i], s[i + 1], s[i + 2])
         /\ n = 3 => FourBytes(s[i], s[i + 1], s[i + 2], s[i + 3])
<1> DEFINE a == s[i]
           b == s[i + 1]
           c == s[i + 2]
           d == s[i + 3]
           D == Demands(a)
<1>1. a \in Nat /\ a <= 255
  <2>1. a \in Byte
    OBVIOUS
  <2>2. \A n \in Byte : n \in Nat /\ n <= 255
    BY SMT DEF Byte
  <2>3. QED BY <2>1, <2>2
<1>2. i + Len(D) <= Len(s) /\ \A k \in DOMAIN D : s[i + k] \in D[k]
  BY DEF Formed
<1> HIDE DEF D
<1> DEFINE from(n, m) == {k \in Tail1 : n <= k /\ k <= m}
<1>d. /\ 160 .. 191 = from(160, 191) /\ 128 .. 159 = from(128, 159)
      /\ 144 .. 191 = from(144, 191) /\ 128 .. 143 = from(128, 143)
  <2>1. ASSUME NEW n \in Nat, NEW m \in Nat, 128 <= n, m <= 191 PROVE n .. m = from(n, m)
    <3>1. ASSUME NEW k PROVE k \in n .. m <=> (k \in 128 .. 191 /\ n <= k /\ k <= m)
      <4>1. ASSUME k \in n .. m PROVE k \in 128 .. 191 /\ n <= k /\ k <= m
        BY <2>1, <4>1, SMT
      <4>2. ASSUME k \in 128 .. 191, n <= k, k <= m PROVE k \in n .. m
        BY <2>1, <4>2, SMT
      <4>3. QED BY <4>1, <4>2
    <3> DEFINE A == n .. m
               B == 128 .. 191
               R(k) == n <= k /\ k <= m
    <3>2. \A k : k \in A <=> k \in B /\ R(k)
      BY <3>1
    <3> HIDE DEF A, B, R
    <3>3. A = {k \in B : R(k)}
      BY <3>2, Zenon
    <3>4. QED BY <3>3 DEF A, B, R, Tail1
  <2> HIDE DEF from
  <2>2. /\ 160 \in Nat /\ 191 \in Nat /\ 128 \in Nat /\ 159 \in Nat /\ 144 \in Nat /\ 143 \in Nat
        /\ 128 <= 160 /\ 128 <= 128 /\ 128 <= 144 /\ 191 <= 191 /\ 159 <= 191 /\ 143 <= 191
    BY SMT
  <2>3. 160 .. 191 = from(160, 191)
    BY <2>1, <2>2
  <2>4. 128 .. 159 = from(128, 159)
    BY <2>1, <2>2
  <2>5. 144 .. 191 = from(144, 191)
    BY <2>1, <2>2
  <2>6. 128 .. 143 = from(128, 143)
    BY <2>1, <2>2
  <2>7. QED BY <2>3, <2>4, <2>5, <2>6
<1>a. \A S : <<S>>[1] = S /\ DOMAIN <<S>> = 1 .. 1 /\ Len(<<S>>) = 1
  OBVIOUS
<1>b. \A S, T : <<S, T>>[1] = S /\ <<S, T>>[2] = T /\ DOMAIN <<S, T>> = 1 .. 2 /\ Len(<<S, T>>) = 2
  OBVIOUS
<1>c. \A S, T, U : /\ <<S, T, U>>[1] = S /\ <<S, T, U>>[2] = T /\ <<S, T, U>>[3] = U
                   /\ DOMAIN <<S, T, U>> = 1 .. 3 /\ Len(<<S, T, U>>) = 3
  OBVIOUS
<1>3. ASSUME NEW S, D = <<S>> PROVE Len(D) = 1 /\ b \in S
  BY <1>2, <1>3, <1>a, SMT
<1>4. ASSUME NEW S, NEW T, D = <<S, T>> PROVE Len(D) = 2 /\ b \in S /\ c \in T
  BY <1>2, <1>4, <1>b, SMT
<1>5. ASSUME NEW S, NEW T, NEW U, D = <<S, T, U>> PROVE Len(D) = 3 /\ b \in S /\ c \in T /\ d \in U
  BY <1>2, <1>5, <1>c, SMT
<1> DEFINE Good == /\ Len(D) \in 0 .. 3
                   /\ Len(D) = 0 => OneByte(a)
                   /\ Len(D) = 1 => TwoBytes(a, b)
                   /\ Len(D) = 2 => ThreeBytes(a, b, c)
                   /\ Len(D) = 3 => FourBytes(a, b, c, d)
<1> HIDE DEF a, b, c, d
<1>6. ASSUME a < 128 PROVE Good
  <2>1. D = <<>>
    BY <1>1, <1>6, DemandsAre DEF D
  <2>2. Len(D) = 0
    BY <2>1
  <2>3. Good
    BY <1>6, <2>2, SMT DEF OneByte
  <2>4. QED BY <2>3
<1>7. ASSUME ((a >= 128 /\ a < 194) \/ a > 244) PROVE Good
  <2>1. D = <<{}>>
    BY <1>7, <1>1, DemandsAre DEF D
  <2>2. b \in {}
    BY <1>3, <2>1
  <2>3. QED BY <2>2
<1>8. ASSUME a \in 194 .. 223 PROVE Good
  <2>1. D = <<Tail1>>
    BY <1>8, <1>1, DemandsAre DEF D
  <2>2. Len(D) = 1 /\ b \in Tail1
    BY <1>3, <2>1
  <2>3. Good
    BY <1>8, <2>2, SMT DEF TwoBytes
  <2>4. QED BY <2>3
<1>9. ASSUME a \in 224 .. 239 PROVE Good
  <2>1. a = 224 \/ a = 237 \/ (a # 224 /\ a # 237 /\ a \in 225 .. 239)
    BY <1>9, SMT
  <2>2. ASSUME NEW S, NEW T, D = <<S, T>>, b \in S /\ c \in T => ThreeBytes(a, b, c)
        PROVE  Good
    BY <1>4, <2>2, SMT
  <2>3. CASE a = 224
    <3>1. D = <<from(160, 191), Tail1>>
      BY <1>1, <1>d, <2>3, DemandsAre DEF D
    <3>2. b \in from(160, 191) /\ c \in Tail1 => ThreeBytes(a, b, c)
      BY <1>9, <2>3 DEF ThreeBytes
    <3> HIDE DEF from
    <3>3. QED BY <2>2, <3>1, <3>2
  <2>4. CASE a = 237
    <3>1. D = <<from(128, 159), Tail1>>
      BY <1>1, <1>d, <2>4, DemandsAre DEF D
    <3>2. b \in from(128, 159) /\ c \in Tail1 => ThreeBytes(a, b, c)
      BY <1>9, <2>4 DEF ThreeBytes
    <3> HIDE DEF from
    <3>3. QED BY <2>2, <3>1, <3>2
  <2>5. CASE a # 224 /\ a # 237
    <3>1. D = <<Tail1, Tail1>>
      BY <1>1, <2>1, <2>5, DemandsAre DEF D
    <3>2. b \in Tail1 /\ c \in Tail1 => ThreeBytes(a, b, c)
      BY <1>9, <2>5 DEF ThreeBytes
    <3>3. QED BY <2>2, <3>1, <3>2
  <2>6. QED BY <2>3, <2>4, <2>5
<1>10. ASSUME a \in 240 .. 244 PROVE Good
  <2>1. a = 240 \/ a = 244 \/ (a # 240 /\ a # 244 /\ a \in 241 .. 243)
    BY <1>10, SMT
  <2>2. ASSUME NEW S, NEW T, NEW U, D = <<S, T, U>>,
               b \in S /\ c \in T /\ d \in U => FourBytes(a, b, c, d)
        PROVE  Good
    BY <1>5, <2>2, SMT
  <2>3. CASE a = 240
    <3>1. D = <<from(144, 191), Tail1, Tail1>>
      BY <1>1, <1>d, <2>3, DemandsAre DEF D
    <3>2. b \in from(144, 191) /\ c \in Tail1 /\ d \in Tail1 => FourBytes(a, b, c, d)
      BY <1>10, <2>3 DEF FourBytes
    <3> HIDE DEF from
    <3>3. QED BY <2>2, <3>1, <3>2
  <2>4. CASE a = 244
    <3>1. D = <<from(128, 143), Tail1, Tail1>>
      BY <1>1, <1>d, <2>4, DemandsAre DEF D
    <3>2. b \in from(128, 143) /\ c \in Tail1 /\ d \in Tail1 => FourBytes(a, b, c, d)
      BY <1>10, <2>4 DEF FourBytes
    <3> HIDE DEF from
    <3>3. QED BY <2>2, <3>1, <3>2
  <2>5. CASE a # 240 /\ a # 244
    <3>1. D = <<Tail1, Tail1, Tail1>>
      BY <1>1, <2>1, <2>5, DemandsAre DEF D
    <3>2. b \in Tail1 /\ c \in Tail1 /\ d \in Tail1 => FourBytes(a, b, c, d)
      BY <1>10, <2>5 DEF FourBytes
    <3>3. QED BY <2>2, <3>1, <3>2
  <2>6. QED BY <2>3, <2>4, <2>5
<1>11. Good
  <2>1. \/ a < 128 \/ ((a >= 128 /\ a < 194) \/ a > 244) \/ a \in 194 .. 223
        \/ a \in 224 .. 239 \/ a \in 240 .. 244
    BY <1>1, SMT
  <2>2. QED BY <2>1, <1>6, <1>7, <1>8, <1>9, <1>10
<1>12. QED BY <1>2, <1>11 DEF a, b, c, d, D, Good

\* What is decoded, and encoded, of two bytes.
LEMMA TwoBytesFacts ==
  ASSUME NEW a, NEW b, TwoBytes(a, b)
  PROVE  \E cp \in Scalar :
           /\ a \div 32 = 6 /\ IsCont(b)
           /\ cp = 64 * (a % 32) + (b % 64) /\ Passes(cp, 1)
           /\ Utf8Encode(cp) = <<a, b>> /\ cp < 65536
<1> DEFINE x == a - 192
           y == b - 128
           cp == 64 * x + y
<1>1. x \in Nat /\ x >= 2 /\ x < 32 /\ y \in Nat /\ y < 64 /\ a = 192 + x /\ b = 128 + y
  BY SMT DEF TwoBytes, Tail1
<1> HIDE DEF x, y
<1>2. a \div 32 = 6 /\ b \div 64 = 2 /\ a % 32 = x /\ b % 64 = y
  BY <1>1, SMT
<1>3. cp \div 64 = x /\ cp % 64 = y
  BY <1>1, Apart
<1>4. cp \in Nat /\ cp >= 128 /\ cp < 2048
  BY <1>1, SMT
<1> HIDE DEF cp
<1>5. Utf8Encode(cp) = <<a, b>>
  BY <1>1, <1>3, <1>4, SMT DEF Utf8Encode
<1>6. cp \in Scalar
  BY <1>4, SMT DEF Scalar, IsHigh, IsLow
<1>7. Passes(cp, 1)
  BY <1>4, SMT DEF Passes, LeastOf
<1>8. cp = 64 * (a % 32) + (b % 64)
  BY <1>2 DEF cp
<1>9. cp < 65536
  BY <1>4, SMT
<1>10. QED BY <1>2, <1>5, <1>6, <1>7, <1>8, <1>9 DEF IsCont

LEMMA ThreeBytesFacts ==
  ASSUME NEW a, NEW b, NEW c, ThreeBytes(a, b, c)
  PROVE  \E cp \in Scalar :
           /\ a \div 16 = 14 /\ IsCont(b) /\ IsCont(c)
           /\ cp = 64 * (64 * (a % 16) + (b % 64)) + (c % 64) /\ Passes(cp, 2)
           /\ Utf8Encode(cp) = <<a, b, c>> /\ cp < 65536
<1> DEFINE x == a - 224
           y == b - 128
           z == c - 128
           u == 64 * x + y
           cp == 64 * u + z
<1>1. /\ x \in Nat /\ x < 16 /\ y \in Nat /\ y < 64 /\ z \in Nat /\ z < 64
      /\ a = 224 + x /\ b = 128 + y /\ c = 128 + z
      /\ x = 0 => y >= 32
      /\ x = 13 => y < 32
  BY SMT DEF ThreeBytes, Tail1
<1> HIDE DEF x, y, z
<1>2. /\ a \div 16 = 14 /\ b \div 64 = 2 /\ c \div 64 = 2
      /\ a % 16 = x /\ b % 64 = y /\ c % 64 = z
  BY <1>1, SMT
<1>3. u \in Nat /\ u >= 32 /\ u < 1024 /\ (u < 864 \/ u >= 896)
  BY <1>1, SMT
<1>4. u \div 64 = x /\ u % 64 = y
  BY <1>1, Apart
<1> HIDE DEF u
<1>5. cp \div 64 = u /\ cp % 64 = z
  BY <1>1, <1>3, Apart
<1>6. cp \in Nat /\ cp >= 2048 /\ cp < 65536 /\ (cp < 55296 \/ cp >= 57344)
  BY <1>1, <1>3, SMT
<1>7. cp \div 4096 = x
  <2>1. cp = 4096 * x + (64 * y + z) /\ 64 * y + z \in Nat /\ 64 * y + z < 4096
    BY <1>1, SMT DEF u
  <2>2. \A q, r \in Nat : r < 4096 => (4096 * q + r) \div 4096 = q
    BY SMT
  <2> HIDE DEF cp
  <2>3. QED BY <1>1, <2>1, <2>2
<1> HIDE DEF cp
<1>8. Utf8Encode(cp) = <<a, b, c>>
  <2>1. ~(cp < 128) /\ ~(cp < 2048)
    BY <1>6, SMT
  <2>2. Utf8Encode(cp) = <<224 + cp \div 4096, 128 + ((cp \div 64) % 64), 128 + (cp % 64)>>
    BY <1>6, <2>1, SMT DEF Utf8Encode
  <2>3. QED BY <1>1, <1>4, <1>5, <1>7, <2>2
<1>9. cp \in Scalar
  BY <1>6, SMTT(30) DEF Scalar, IsHigh, IsLow
<1>10. Passes(cp, 2)
  BY <1>6, SMT DEF Passes, LeastOf
<1>11. cp = 64 * (64 * (a % 16) + (b % 64)) + (c % 64)
  BY <1>2 DEF cp, u
<1>12. QED BY <1>2, <1>6, <1>8, <1>9, <1>10, <1>11 DEF IsCont

LEMMA FourBytesFacts ==
  ASSUME NEW a, NEW b, NEW c, NEW d, FourBytes(a, b, c, d)
  PROVE  \E cp \in Scalar :
           /\ a \div 8 = 30 /\ IsCont(b) /\ IsCont(c) /\ IsCont(d)
           /\ cp = 64 * (64 * (64 * (a % 8) + (b % 64)) + (c % 64)) + (d % 64) /\ Passes(cp, 3)
           /\ Utf8Encode(cp) = <<a, b, c, d>>
<1> DEFINE x == a - 240
           y == b - 128
           z == c - 128
           w == d - 128
           u == 64 * x + y
           v == 64 * u + z
           cp == 64 * v + w
<1>1. /\ x \in Nat /\ x < 5 /\ y \in Nat /\ y < 64 /\ z \in Nat /\ z < 64 /\ w \in Nat /\ w < 64
      /\ a = 240 + x /\ b = 128 + y /\ c = 128 + z /\ d = 128 + w
      /\ x = 0 => y >= 16
      /\ x = 4 => y < 16
  BY SMT DEF FourBytes, Tail1
<1> HIDE DEF x, y, z, w
<1>2. /\ a \div 8 = 30 /\ b \div 64 = 2 /\ c \div 64 = 2 /\ d \div 64 = 2
      /\ a % 8 = x /\ b % 64 = y /\ c % 64 = z /\ d % 64 = w
  BY <1>1, SMT
<1>3. u \in Nat /\ u >= 16 /\ u < 272
  BY <1>1, SMT
<1>4. u \div 64 = x /\ u % 64 = y
  BY <1>1, Apart
<1> HIDE DEF u
<1>5. v \div 64 = u /\ v % 64 = z /\ v \in Nat /\ v >= 1024 /\ v < 17408
  <2>1. v \div 64 = u /\ v % 64 = z
    BY <1>1, <1>3, Apart
  <2>2. v \in Nat /\ v >= 1024 /\ v < 17408
    BY <1>1, <1>3, SMT
  <2>3. QED BY <2>1, <2>2
<1>6. cp \div 4096 = u /\ cp \div 262144 = x
  <2>1. cp = 4096 * u + (64 * z + w) /\ 64 * z + w \in Nat /\ 64 * z + w < 4096
    BY <1>1, <1>3, SMT
  <2>2. \A q, r \in Nat : r < 4096 => (4096 * q + r) \div 4096 = q
    BY SMT
  <2>3. cp \div 4096 = u
    <3> HIDE DEF cp
    <3>1. QED BY <1>3, <2>1, <2>2
  <2>4. /\ cp = 262144 * x + (4096 * y + (64 * z + w)) /\ 4096 * y + (64 * z + w) \in Nat
        /\ 4096 * y + (64 * z + w) < 262144
    BY <1>1, SMT DEF u
  <2>5. \A q, r \in Nat : r < 262144 => (262144 * q + r) \div 262144 = q
    BY SMT
  <2>6. cp \div 262144 = x
    <3> HIDE DEF cp
    <3>1. QED BY <1>1, <2>4, <2>5, SMT
  <2>7. QED BY <2>3, <2>6
<1> HIDE DEF v
<1>7. cp \div 64 = v /\ cp % 64 = w
  BY <1>1, <1>5, Apart
<1>8. cp \in Nat /\ cp >= 65536 /\ Passes(cp, 3)
  BY <1>1, <1>5, SMT DEF Passes, LeastOf
<1>9. cp \in Scalar
  BY <1>1, <1>5, SMT DEF Scalar, IsHigh, IsLow
<1>10. cp = 64 * (64 * (64 * (a % 8) + (b % 64)) + (c % 64)) + (d % 64)
  BY <1>2 DEF cp, u, v
<1> HIDE DEF cp
<1>11. Utf8Encode(cp) = <<a, b, c, d>>
  BY <1>1, <1>4, <1>5, <1>6, <1>7, <1>8, SMT DEF Utf8Encode
<1>12. QED BY <1>2, <1>8, <1>9, <1>10, <1>11 DEF IsCont

\* n continuation bytes follow.
Conts(s, i, n) == i + n <= Len(s) /\ \A k \in 1 .. n : IsCont(s[i + k])

\* Which of its branches Utf8Decode takes.
LEMMA Utf8Is ==
  ASSUME NEW s, NEW i \in Nat, s[i] \in Nat
  PROVE  LET d == Utf8Decode(s, i) IN
         \/ s[i] < 128 /\ d = Decoded(s[i], 1)
         \/ s[i] \div 32 = 6 /\ Conts(s, i, 1) /\ d = Sequence(s[i] % 32, s, i, 1)
         \/ s[i] \div 16 = 14 /\ Conts(s, i, 2) /\ d = Sequence(s[i] % 16, s, i, 2)
         \/ s[i] \div 8 = 30 /\ Conts(s, i, 3) /\ d = Sequence(s[i] % 8, s, i, 3)
         \/ /\ d = Decoded(Replacement, 1)
            /\ s[i] >= 128 /\ ~(s[i] \div 32 = 6 /\ Conts(s, i, 1))
            /\ ~(s[i] \div 16 = 14 /\ Conts(s, i, 2)) /\ ~(s[i] \div 8 = 30 /\ Conts(s, i, 3))
<1> DEFINE one == Decoded(s[i], 1)
           two == Sequence(s[i] % 32, s, i, 1)
           three == Sequence(s[i] % 16, s, i, 2)
           four == Sequence(s[i] % 8, s, i, 3)
           none == Decoded(Replacement, 1)
           isOne == s[i] < 128
           isTwo == s[i] \div 32 = 6 /\ Conts(s, i, 1)
           isThree == s[i] \div 16 = 14 /\ Conts(s, i, 2)
           isFour == s[i] \div 8 = 30 /\ Conts(s, i, 3)
           r == Utf8Decode(s, i)
<1>1. r = CASE isOne -> one [] isTwo -> two [] isThree -> three [] isFour -> four
            [] OTHER -> none
  BY SMT DEF Utf8Decode, Conts
<1>2. ~isOne => s[i] >= 128
  BY SMT
<1> HIDE DEF r, one, two, three, four, none, isOne, isTwo, isThree, isFour
<1>3. \/ isOne /\ r = one
      \/ isTwo /\ r = two
      \/ isThree /\ r = three
      \/ isFour /\ r = four
      \/ (r = none /\ ~isOne /\ ~isTwo /\ ~isThree /\ ~isFour)
  BY <1>1, SMT
<1>4. QED BY <1>2, <1>3 DEF r, one, two, three, four, none, isOne, isTwo, isThree, isFour

\* The bytes at i are a code point, and are decoded as it.
Transcodes(s, i, n, cp) ==
  /\ cp \in Scalar
  /\ Utf8Decode(s, i) = Decoded(cp, n + 1)
  /\ Len(Utf8Encode(cp)) = n + 1
  /\ \A j \in 1 .. n + 1 : Utf8Encode(cp)[j] = s[i + j - 1]
  /\ n < 3 => cp < 65536

LEMMA OneDecodes ==
  ASSUME NEW s \in Seq(Byte), NEW i \in 1 .. Len(s), OneByte(s[i])
  PROVE  \E cp : Transcodes(s, i, 0, cp)
<1> DEFINE cp == s[i]
<1>1. cp \in Byte /\ i \in Nat
  BY SMT
<1>2. \A n \in Byte : n \in Nat
  BY SMT DEF Byte
<1>3. cp \in Nat /\ cp < 128
  BY <1>1, <1>2, SMT DEF OneByte
<1>4. cp \in Scalar
  <2> HIDE DEF cp
  <2>1. QED BY <1>3, SMT DEF Scalar, IsHigh, IsLow
<1>5. Utf8Encode(cp) = <<cp>>
  BY <1>3, SMT DEF Utf8Encode
<1>6. Utf8Decode(s, i) = Decoded(cp, 1)
  <2>1. ~(cp \div 32 = 6) /\ ~(cp \div 16 = 14) /\ ~(cp \div 8 = 30) /\ ~(cp >= 128)
    <3> HIDE DEF cp
    <3>1. QED BY <1>3, SMT
  <2>2. QED BY <1>1, <1>3, <2>1, Utf8Is
<1> HIDE DEF cp
<1>7. Len(Utf8Encode(cp)) = 0 + 1 /\ \A j \in 1 .. 0 + 1 : Utf8Encode(cp)[j] = s[i + j - 1]
  BY <1>1, <1>5, SMT DEF cp
<1>8. cp < 65536 /\ 0 + 1 = 1
  BY <1>3, SMT
<1>9. Transcodes(s, i, 0, cp)
  BY <1>4, <1>6, <1>7, <1>8 DEF Transcodes
<1>10. QED BY <1>9

LEMMA TwoDecode ==
  ASSUME NEW s \in Seq(Byte), NEW i \in 1 .. Len(s), i + 1 <= Len(s), TwoBytes(s[i], s[i + 1])
  PROVE  \E cp : Transcodes(s, i, 1, cp)
<1> DEFINE a == s[i]
           b == s[i + 1]
<1>1. i \in Nat /\ a \in Byte /\ b \in Byte
  BY SMT
<1>2. \A n \in Byte : n \in Nat
  BY SMT DEF Byte
<1>3. a \in Nat /\ b \in Nat
  BY <1>1, <1>2
<1>4. PICK cp \in Scalar :
        /\ a \div 32 = 6 /\ IsCont(b)
        /\ cp = 64 * (a % 32) + (b % 64) /\ Passes(cp, 1)
        /\ Utf8Encode(cp) = <<a, b>> /\ cp < 65536
  BY TwoBytesFacts
<1>5. Conts(s, i, 1)
  BY <1>4, SMT DEF Conts
<1>6. a % 32 \in Nat
  <2> HIDE DEF a
  <2>1. QED BY <1>3, SMT
<1>7. Sequence(a % 32, s, i, 1) = Decoded(cp, 2)
  <2> HIDE DEF a
  <2>1. QED BY <1>1, <1>3, <1>4, <1>6, Sequence1
<1>8. Utf8Decode(s, i) = Decoded(cp, 2)
  <2>1. ~(a < 128) /\ ~(a \div 16 = 14) /\ ~(a \div 8 = 30)
    <3> HIDE DEF a
    <3>1. QED BY <1>3, <1>4, SMT
  <2>2. QED BY <1>1, <1>3, <1>4, <1>5, <1>7, <2>1, Utf8Is
<1>9. Len(Utf8Encode(cp)) = 1 + 1 /\ \A j \in 1 .. 1 + 1 : Utf8Encode(cp)[j] = s[i + j - 1]
  BY <1>1, <1>4, SMT
<1>10. 1 + 1 = 2
  BY SMT
<1>11. Transcodes(s, i, 1, cp)
  BY <1>4, <1>8, <1>9, <1>10 DEF Transcodes
<1>12. QED BY <1>11

LEMMA ThreeDecode ==
  ASSUME NEW s \in Seq(Byte), NEW i \in 1 .. Len(s), i + 2 <= Len(s),
         ThreeBytes(s[i], s[i + 1], s[i + 2])
  PROVE  \E cp : Transcodes(s, i, 2, cp)
<1> DEFINE a == s[i]
           b == s[i + 1]
           c == s[i + 2]
<1>1. i \in Nat /\ a \in Byte /\ b \in Byte /\ c \in Byte
  BY SMT
<1>2. \A n \in Byte : n \in Nat
  BY SMT DEF Byte
<1>3. a \in Nat /\ b \in Nat /\ c \in Nat
  BY <1>1, <1>2
<1>4. PICK cp \in Scalar :
        /\ a \div 16 = 14 /\ IsCont(b) /\ IsCont(c)
        /\ cp = 64 * (64 * (a % 16) + (b % 64)) + (c % 64) /\ Passes(cp, 2)
        /\ Utf8Encode(cp) = <<a, b, c>> /\ cp < 65536
  BY ThreeBytesFacts
<1>5. Conts(s, i, 2)
  BY <1>4, SMT DEF Conts
<1>6. a % 16 \in Nat
  <2> HIDE DEF a
  <2>1. QED BY <1>3, SMT
<1>7. Sequence(a % 16, s, i, 2) = Decoded(cp, 3)
  <2> HIDE DEF a
  <2>1. QED BY <1>1, <1>3, <1>4, <1>6, Sequence2, SMTT(30)
<1>8. Utf8Decode(s, i) = Decoded(cp, 3)
  <2>1. ~(a < 128) /\ ~(a \div 32 = 6) /\ ~(a \div 8 = 30)
    <3> HIDE DEF a
    <3>1. QED BY <1>3, <1>4, SMT
  <2>2. QED BY <1>1, <1>3, <1>4, <1>5, <1>7, <2>1, Utf8Is, SMTT(30)
<1>9. Len(Utf8Encode(cp)) = 2 + 1 /\ \A j \in 1 .. 2 + 1 : Utf8Encode(cp)[j] = s[i + j - 1]
  BY <1>1, <1>4, SMT
<1>10. 2 + 1 = 3
  BY SMT
<1>11. Transcodes(s, i, 2, cp)
  BY <1>4, <1>8, <1>9, <1>10 DEF Transcodes
<1>12. QED BY <1>11

LEMMA FourDecode ==
  ASSUME NEW s \in Seq(Byte), NEW i \in 1 .. Len(s), i + 3 <= Len(s),
         FourBytes(s[i], s[i + 1], s[i + 2], s[i + 3])
  PROVE  \E cp : Transcodes(s, i, 3, cp)
<1> DEFINE a == s[i]
           b == s[i + 1]
           c == s[i + 2]
           d == s[i + 3]
<1>1. i \in Nat /\ a \in Byte /\ b \in Byte /\ c \in Byte /\ d \in Byte
  BY SMT
<1>2. \A n \in Byte : n \in Nat
  BY SMT DEF Byte
<1>3. a \in Nat /\ b \in Nat /\ c \in Nat /\ d \in Nat
  BY <1>1, <1>2
<1>4. PICK cp \in Scalar :
        /\ a \div 8 = 30 /\ IsCont(b) /\ IsCont(c) /\ IsCont(d)
        /\ cp = 64 * (64 * (64 * (a % 8) + (b % 64)) + (c % 64)) + (d % 64) /\ Passes(cp, 3)
        /\ Utf8Encode(cp) = <<a, b, c, d>>
  BY FourBytesFacts
<1>5. Conts(s, i, 3)
  BY <1>4, SMT DEF Conts
<1>6. a % 8 \in Nat
  <2> HIDE DEF a
  <2>1. QED BY <1>3, SMT
<1>7. Sequence(a % 8, s, i, 3) = Decoded(cp, 4)
  <2>1. cp = 64 * (64 * (64 * (a % 8) + (b % 64)) + (c % 64)) + (d % 64) /\ Passes(cp, 3)
    BY <1>4
  <2> HIDE DEF a
  <2>2. QED BY <1>1, <1>3, <1>6, <2>1, Sequence3, SMTT(30)
<1>8. Utf8Decode(s, i) = Decoded(cp, 4)
  <2>1. ~(a < 128) /\ ~(a \div 32 = 6) /\ ~(a \div 16 = 14)
    <3>1. a \div 8 = 30
      BY <1>4
    <3> HIDE DEF a
    <3>2. 240 <= a /\ a <= 247
      BY <1>3, <3>1, SMT
    <3>3. QED BY <1>3, <3>2, SMT
  <2>2. QED BY <1>1, <1>3, <1>4, <1>5, <1>7, <2>1, Utf8Is
<1>9. Len(Utf8Encode(cp)) = 3 + 1 /\ \A j \in 1 .. 3 + 1 : Utf8Encode(cp)[j] = s[i + j - 1]
  BY <1>1, <1>4, SMT
<1>10. 3 + 1 = 4 /\ ~(3 < 3)
  BY SMT
<1>11. Transcodes(s, i, 3, cp)
  BY <1>4, <1>8, <1>9, <1>10 DEF Transcodes
<1>12. QED BY <1>11

LEMMA FormedDecodes ==
  ASSUME NEW s \in Seq(Byte), NEW i \in 1 .. Len(s), Formed(s, i)
  PROVE  /\ Len(Demands(s[i])) \in 0 .. 3 /\ i + Len(Demands(s[i])) <= Len(s)
         /\ \E cp : Transcodes(s, i, Len(Demands(s[i])), cp)
         /\ s[i] < 240 => Len(Demands(s[i])) < 3
<1> DEFINE n == Len(Demands(s[i]))
<1>1. /\ n \in 0 .. 3 /\ i + n <= Len(s)
      /\ n = 0 => OneByte(s[i])
      /\ n = 1 => TwoBytes(s[i], s[i + 1])
      /\ n = 2 => ThreeBytes(s[i], s[i + 1], s[i + 2])
      /\ n = 3 => FourBytes(s[i], s[i + 1], s[i + 2], s[i + 3])
  BY FormedBytes
<1> HIDE DEF n
<1>2. n = 0 \/ n = 1 \/ n = 2 \/ n = 3
  BY <1>1, SMT
<1>3. n = 0 => \E cp : Transcodes(s, i, n, cp)
  BY <1>1, OneDecodes
<1>4. n = 1 => \E cp : Transcodes(s, i, n, cp)
  BY <1>1, TwoDecode
<1>5. n = 2 => \E cp : Transcodes(s, i, n, cp)
  BY <1>1, ThreeDecode
<1>6. n = 3 => \E cp : Transcodes(s, i, n, cp)
  BY <1>1, FourDecode
<1>7. s[i] < 240 => n < 3
  <2> SUFFICES ASSUME s[i] < 240, n = 3 PROVE FALSE
    BY <1>2, SMT
  <2>1. s[i] \in 240 .. 244
    BY <1>1 DEF FourBytes
  <2>2. QED BY <2>1, SMT
<1>8. QED BY <1>1, <1>2, <1>3, <1>4, <1>5, <1>6, <1>7 DEF n

LEMMA ScalarIsCodePoint ==
  ASSUME NEW cp \in Scalar
  PROVE  cp \in CodePoint /\ cp \in Nat /\ ~IsHigh(cp) /\ ~IsLow(cp)
BY SMT DEF Scalar, CodePoint

\* A 0 is decoded of a 0 only.
LEMMA Utf8Nul ==
  ASSUME NEW s \in Seq(Nat), NEW i \in 1 .. Len(s)
  PROVE  Utf8Decode(s, i).cp = 0 <=> s[i] = 0
<1> DEFINE d == Utf8Decode(s, i)
           a == s[i]
<1>1. i \in Nat /\ a \in Nat /\ Len(s) \in Nat
  BY SMT
<1>2. \A cp, n : Decoded(cp, n).cp = cp
  BY DEF Decoded
<1>3. ASSUME NEW n \in 1 .. 3, Conts(s, i, n), NEW lead \in Nat PROVE Sequence(lead, s, i, n).cp # 0
  <2>1. \A k \in 1 .. n : s[i + k] \in Nat
    <3>1. \A k \in 1 .. n : i + k \in 1 .. Len(s)
      BY <1>1, <1>3, SMT DEF Conts
    <3>2. QED BY <3>1
  <2>2. QED BY <1>1, <2>1, SequenceFacts
<1>4. a % 32 \in Nat /\ a % 16 \in Nat /\ a % 8 \in Nat
      /\ (a = 0 => a < 128 /\ a \div 32 # 6 /\ a \div 16 # 14 /\ a \div 8 # 30)
      /\ (a >= 128 => a # 0)
  <2> HIDE DEF a
  <2>1. QED BY <1>1, SMT
<1>5. 1 \in 1 .. 3 /\ 2 \in 1 .. 3 /\ 3 \in 1 .. 3
  BY SMT
<1>6. Replacement # 0
  BY SMT DEF Replacement
<1>7. \/ a < 128 /\ d = Decoded(a, 1)
      \/ a \div 32 = 6 /\ Conts(s, i, 1) /\ d = Sequence(a % 32, s, i, 1)
      \/ a \div 16 = 14 /\ Conts(s, i, 2) /\ d = Sequence(a % 16, s, i, 2)
      \/ a \div 8 = 30 /\ Conts(s, i, 3) /\ d = Sequence(a % 8, s, i, 3)
      \/ a >= 128 /\ d = Decoded(Replacement, 1)
  BY <1>1, Utf8Is
<1> HIDE DEF a, d, Replacement
<1>8. d.cp = 0 <=> a = 0
  BY <1>2, <1>3, <1>4, <1>5, <1>6, <1>7
<1>9. QED BY <1>8 DEF a, d

\* A 0 is encoded as a 0, and nothing else as anything with a 0.
LEMMA EncodeNul ==
  ASSUME NEW cp \in CodePoint
  PROVE  /\ Len(Utf8Encode(cp)) \in 1 .. 4 /\ Len(Utf16Encode(cp)) \in {1, 2}
         /\ Utf8Encode(cp)[1] = 0 <=> cp = 0
         /\ Utf16Encode(cp)[1] = 0 <=> cp = 0
         /\ cp # 0 => NoNul(Utf16Encode(cp))
<1>1. cp \in Nat
  BY SMT DEF CodePoint
<1>2. Len(Utf8Encode(cp)) \in 1 .. 4
  BY Encode8, SMT DEF CountUtf8
<1>3. Len(Utf16Encode(cp)) \in {1, 2}
  BY Encode16, SMT DEF CountUtf16
<1>4. Utf8Encode(cp)[1] = 0 <=> cp = 0
  <2> DEFINE u == cp \div 64
             v == cp \div 4096
             w == cp \div 262144
  <2>1. u \in Nat /\ v \in Nat /\ w \in Nat
    BY <1>1, SMT
  <2>2. Utf8Encode(cp)[1] = IF cp < 128 THEN cp ELSE IF cp < 2048 THEN 192 + u
                            ELSE IF cp < 65536 THEN 224 + v ELSE 240 + w
    BY <1>1, SMT DEF Utf8Encode
  <2> HIDE DEF u, v, w
  <2>3. QED BY <1>1, <2>1, <2>2, SMT
<1>5. (Utf16Encode(cp)[1] = 0 <=> cp = 0) /\ (cp # 0 => NoNul(Utf16Encode(cp)))
  <2>1. CASE cp < 65536
    <3>1. Utf16Encode(cp) = <<cp>>
      BY <2>1, SMT DEF Utf16Encode
    <3>2. QED BY <3>1, SMT DEF NoNul
  <2>2. CASE ~(cp < 65536)
    <3> DEFINE h == (cp - 65536) \div 1024
               l == (cp - 65536) % 1024
    <3>1. Utf16Encode(cp) = <<55296 + h, 56320 + l>>
      BY <2>2, SMT DEF Utf16Encode
    <3>2. h \in Nat /\ l \in Nat /\ cp # 0
      BY <1>1, <2>2, SMT
    <3> HIDE DEF h, l
    <3>3. QED BY <3>1, <3>2, SMT DEF NoNul
  <2>3. QED BY <2>1, <2>2
<1>6. QED BY <1>2, <1>3, <1>4, <1>5

\* What has been encoded is decoded again.
LEMMA Utf16Again ==
  ASSUME NEW cp \in Scalar, NEW w2,
         Len(Utf16Encode(cp)) = 2 => w2 = Utf16Encode(cp)[2]
  PROVE  Utf16Decode(Utf16Encode(cp)[1], w2) = Decoded(cp, Len(Utf16Encode(cp)))
<1>1. cp \in Nat /\ cp <= 1114111 /\ ~IsHigh(cp)
  BY SMT DEF Scalar
<1>2. CASE cp < 65536
  <2>1. Utf16Encode(cp) = <<cp>>
    BY <1>2, SMT DEF Utf16Encode
  <2>2. Len(Utf16Encode(cp)) = 1 /\ Utf16Encode(cp)[1] = cp
    BY <2>1
  <2>3. QED BY <1>1, <2>2, SMT DEF Utf16Decode
<1>3. CASE ~(cp < 65536)
  <2> DEFINE d == cp - 65536
             h == d \div 1024
             l == d % 1024
             a == 55296 + h
             b == 56320 + l
  <2>1. Utf16Encode(cp) = <<a, b>>
    BY <1>3, SMT DEF Utf16Encode
  <2>2. d \in Nat /\ d < 1048576
    BY <1>1, <1>3, SMT
  <2> HIDE DEF d
  <2>3. h \in Nat /\ h < 1024 /\ l \in Nat /\ l < 1024 /\ d = h * 1024 + l
    BY <2>2, SMT
  <2> HIDE DEF h, l
  <2>4. IsHigh(a) /\ IsLow(b) /\ (a - 55296) * 1024 + (b - 56320) = d
    BY <2>3, SMT DEF IsHigh, IsLow
  <2> HIDE DEF a, b
  <2>5. Len(Utf16Encode(cp)) = 2 /\ Utf16Encode(cp)[1] = a /\ Utf16Encode(cp)[2] = b
    BY <2>1
  <2>6. w2 = b
    BY <2>5
  <2>7. Utf16Decode(a, b) = Decoded(d + 65536, 2)
    BY <2>4 DEF Utf16Decode
  <2>8. d + 65536 = cp
    BY <1>1, SMT DEF d
  <2>9. QED BY <2>5, <2>6, <2>7, <2>8
<1>4. QED BY <1>2, <1>3

\* What a well-formed text is made of.
LEMMA FormedAll ==
  ASSUME NEW s \in Seq(Byte), WellFormed(s)
  PROVE  FormedFrom(s, 1)
<1> DEFINE b == Len(s) + 1
           next(q) == q + Len(Demands(s[q])) + 1
           At2(f, q) == q > Len(s) \/ (Formed(s, q) /\ f[next(q)])
           Is(f) == f = [q \in 1 .. b |-> At2(f, q)]
           W == CHOOSE f : Is(f)
           h == [q \in 1 .. b |-> [F \in [1 .. b -> BOOLEAN] |-> At2(F, q)]]
<1>1. b \in Int /\ 1 \in Int /\ Len(s) \in Nat /\ TRUE \in BOOLEAN
  BY SMT
<1>2. ASSUME NEW q \in 1 .. b, ~(q > Len(s)), Formed(s, q) PROVE next(q) \in q + 1 .. b
  <2>1. q \in 1 .. Len(s)
    BY <1>1, <1>2, SMT
  <2>2. Len(Demands(s[q])) \in 0 .. 3 /\ q + Len(Demands(s[q])) <= Len(s)
    BY <1>2, <2>1, FormedDecodes
  <2>3. QED BY <1>1, <2>1, <2>2, SMT
<1>3. WellFormed(s) = W[1]
  BY DEF WellFormed, Formed
<1> HIDE DEF b, next
<1>4. \A q : \A f : At2(f, q) \in BOOLEAN
  BY Zenon
<1>5. ASSUME NEW q \in 1 .. b, NEW F, NEW G, \A r \in q + 1 .. b : F[r] = G[r]
      PROVE  At2(F, q) = At2(G, q)
  <2>1. At2(F, q) <=> At2(G, q)
    BY <1>2, <1>5
  <2> HIDE DEF At2
  <2>2. QED BY <1>4, <2>1
<1> HIDE DEF At2
<1>6. h \in [1 .. b -> [[1 .. b -> BOOLEAN] -> BOOLEAN]]
  BY <1>4, Zenon
<1>7. \A q \in 1 .. b : \A F \in [1 .. b -> BOOLEAN] : h[q][F] = At2(F, q)
  OBVIOUS
<1> HIDE DEF h
<1>8. \A q \in 1 .. b : \A F, G \in [1 .. b -> BOOLEAN] :
        (\A r \in q + 1 .. b : F[r] = G[r]) => h[q][F] = h[q][G]
  <2> SUFFICES ASSUME NEW q \in 1 .. b, NEW F \in [1 .. b -> BOOLEAN], NEW G \in [1 .. b -> BOOLEAN],
                      \A r \in q + 1 .. b : F[r] = G[r]
               PROVE  h[q][F] = h[q][G]
    BY Zenon
  <2>1. At2(F, q) = At2(G, q)
    BY <1>5
  <2>2. h[q][F] = At2(F, q) /\ h[q][G] = At2(G, q)
    BY <1>7
  <2>3. QED BY <2>1, <2>2
<1>9. FromLarger(h, 1, b, BOOLEAN)
  BY <1>6, <1>8 DEF FromLarger
<1>10. PICK f \in [1 .. b -> BOOLEAN] : IsFixed(f, h, 1, b)
  BY <1>1, <1>9, Descending
<1>11. Is(f)
  <2>1. \A q \in 1 .. b : f[q] = At2(f, q)
    BY <1>7, <1>10 DEF IsFixed
  <2>2. QED BY <2>1, Zenon
<1>12. Is(W)
  <2> HIDE DEF Is
  <2>1. QED BY <1>11
<1> HIDE DEF W
<1>13. \A q \in 1 .. b : W[q] = At2(W, q)
  BY <1>12, Zenon
<1> DEFINE T == {q \in 1 .. b : W[q]}
<1>14. W[1] /\ 1 \in 1 .. b
  <2>1. W[1]
    BY <1>3, Zenon
  <2>2. 1 \in 1 .. b
    BY <1>1, SMT DEF b
  <2>3. QED BY <2>1, <2>2
<1>15. ASSUME NEW t \in T, t <= Len(s) PROVE Formed(s, t) /\ t + 1 + Len(Demands(s[t])) \in T
  <2>1. t \in 1 .. b /\ At2(W, t)
    BY <1>13, <1>15
  <2>2. ~(t > Len(s))
    BY <1>1, <1>15, <2>1, SMT DEF b
  <2>3. Formed(s, t) /\ W[next(t)]
    BY <2>1, <2>2 DEF At2
  <2>4. next(t) \in t + 1 .. b
    BY <1>2, <2>1, <2>2, <2>3
  <2>5. next(t) \in 1 .. b
    BY <1>1, <2>1, <2>4, SMT DEF b
  <2>6. t + 1 + Len(Demands(s[t])) = next(t)
    <3>1. t \in 1 .. Len(s)
      BY <1>1, <1>15, <2>1, SMT DEF b
    <3>2. Len(Demands(s[t])) \in 0 .. 3
      BY <2>3, <3>1, FormedDecodes
    <3>3. QED BY <3>1, <3>2, SMT DEF next
  <2>7. QED BY <2>3, <2>5, <2>6
<1>16. T \in SUBSET (1 .. Len(s) + 1) /\ 1 \in T
  BY <1>14 DEF b
<1> HIDE DEF T
<1>17. QED BY <1>15, <1>16 DEF FormedFrom
-----------------------------------------------------------------------------
(***************************************************************************)
(* What two texts have in common, and how it grows.                        *)
(***************************************************************************)

\* The encodings of a code point.
LEMMA EncodedSizes ==
  ASSUME NEW cp \in Scalar
  PROVE  /\ Utf8Encode(cp) \in Seq(Byte) /\ Utf16Encode(cp) \in Seq(Unit)
         /\ Len(Utf8Encode(cp)) \in Nat /\ Len(Utf16Encode(cp)) \in Nat
         /\ Len(Utf8Encode(cp)) >= 1 /\ Len(Utf16Encode(cp)) >= 1
<1>1. cp \in CodePoint
  BY ScalarIsCodePoint
<1>2. Len(Utf8Encode(cp)) \in 1 .. 4 /\ Len(Utf16Encode(cp)) \in {1, 2}
  BY <1>1, EncodeNul
<1>3. Utf8Encode(cp) \in Seq(Byte) /\ Utf16Encode(cp) \in Seq(Unit)
  BY <1>1, Encode8, Encode16
<1>4. \A n : n \in 1 .. 4 \/ n \in {1, 2} => n \in Nat /\ n >= 1
  BY SMT
<1>5. QED BY <1>2, <1>3, <1>4

\* Nothing is the same text as nothing.
LEMMA CommonStart == ASSUME NEW b PROVE Common(b, 0, <<>>, <<0, 0>>)
<1> DEFINE P == {<<0, 0>>}
<1>1. Len(<<>>) = 0 /\ 0 \in 0 .. 0
  BY SMT
<1>2. P \in SUBSET ((0 .. 0) \X (0 .. Len(<<>>)))
  BY <1>1
<1>3. SameText(b, 0, <<>>, P) /\ <<0, 0>> \in P
  BY <1>1, <1>2, Zenon DEF SameText
<1> HIDE DEF P
<1>4. QED BY <1>2, <1>3 DEF Common

\* A code point more is read, and written.
LEMMA CommonGrows ==
  ASSUME NEW b \in Seq(Byte), NEW m \in Nat, NEW y \in Seq(Unit), Common(b, m, y, <<0, 0>>),
         NEW cp \in Scalar, StandsIn(Utf8Encode(cp), b, m)
  PROVE  Common(b, m + Len(Utf8Encode(cp)), y \o Utf16Encode(cp), <<0, 0>>)
<1> DEFINE e == Utf16Encode(cp)
           n == Len(Utf8Encode(cp))
           z == y \o e
           last == <<m, Len(y)>>
           next == <<m + n, Len(z)>>
<1>1. e \in Seq(Unit) /\ n \in Nat /\ Len(e) \in Nat /\ Len(y) \in Nat
  BY EncodedSizes
<1> HIDE DEF e, n
<1>2. /\ z \in Seq(Unit) /\ Len(z) = Len(y) + Len(e)
      /\ \A k \in 1 .. Len(y) : z[k] = y[k]
      /\ \A k \in 1 .. Len(e) : z[Len(y) + k] = e[k]
  BY <1>1, SMT
<1> HIDE DEF z
<1>3. PICK P \in SUBSET ((0 .. m) \X (0 .. Len(y))) : SameText(b, m, y, P)
  BY DEF Common
<1> DEFINE Q == P \cup {next}
<1>4. Q \in SUBSET ((0 .. m + n) \X (0 .. Len(z)))
  <2>1. \A k \in 0 .. m : k \in 0 .. m + n
    BY <1>1, SMT
  <2>2. \A k \in 0 .. Len(y) : k \in 0 .. Len(z)
    BY <1>1, <1>2, SMT
  <2>3. m + n \in 0 .. m + n /\ Len(z) \in 0 .. Len(z)
    BY <1>1, <1>2, SMT
  <2>4. \A r \in P : r \in (0 .. m + n) \X (0 .. Len(z))
    BY <2>1, <2>2, Zenon
  <2>5. next \in (0 .. m + n) \X (0 .. Len(z))
    BY <2>3
  <2> HIDE DEF next
  <2>6. QED BY <2>4, <2>5
<1>5. ASSUME NEW r \in Q, r # next
      PROVE  \E c \in Scalar :
               /\ StandsIn(Utf8Encode(c), b, r[1]) /\ StandsIn(Utf16Encode(c), z, r[2])
               /\ <<r[1] + Len(Utf8Encode(c)), r[2] + Len(Utf16Encode(c))>> \in Q
  <2>1. r \in P
    BY <1>5
  <2>2. CASE r = last
    <3>1. r[1] = m /\ r[2] = Len(y)
      BY <2>2
    <3>2. StandsIn(e, z, Len(y))
      BY <1>1, <1>2, SMTT(30) DEF StandsIn
    <3>3. <<r[1] + n, r[2] + Len(e)>> = next
      BY <1>2, <3>1
    <3> HIDE DEF next, Q
    <3>4. next \in Q
      BY DEF Q
    <3>5. QED BY <3>1, <3>2, <3>3, <3>4 DEF e, n
  <2>3. CASE r # last
    <3>1. PICK c \in Scalar :
            /\ StandsIn(Utf8Encode(c), b, r[1]) /\ StandsIn(Utf16Encode(c), y, r[2])
            /\ <<r[1] + Len(Utf8Encode(c)), r[2] + Len(Utf16Encode(c))>> \in P
      BY <1>3, <2>1, <2>3 DEF SameText
    <3>2. r[2] \in Nat
      <4>1. r[2] \in 0 .. Len(y)
        BY <2>1
      <4>2. QED BY <4>1, SMT
    <3> DEFINE f == Utf16Encode(c)
    <3>3. Len(f) \in Nat
      BY EncodedSizes
    <3>4. StandsIn(f, y, r[2])
      BY <3>1
    <3> HIDE DEF f
    <3>5. StandsIn(f, z, r[2])
      <4>1. r[2] + Len(f) <= Len(y) /\ \A j \in 1 .. Len(f) : y[r[2] + j] = f[j]
        BY <3>4 DEF StandsIn
      <4>2. r[2] + Len(f) <= Len(z)
        BY <1>1, <1>2, <3>2, <3>3, <4>1, SMT
      <4>3. \A j \in 1 .. Len(f) : r[2] + j \in 1 .. Len(y)
        BY <1>1, <3>2, <3>3, <4>1, SMT
      <4>4. QED BY <1>2, <4>1, <4>2, <4>3 DEF StandsIn
    <3>6. QED BY <3>1, <3>5 DEF f
  <2>4. QED BY <2>2, <2>3
<1>6. <<0, 0>> \in Q /\ next \in Q
  BY <1>3 DEF SameText
<1> HIDE DEF Q
<1>7. SameText(b, m + n, z, Q)
  BY <1>4, <1>5, <1>6 DEF SameText
<1>8. QED BY <1>4, <1>6, <1>7 DEF Common, z, e, n

\* Where one text goes on, the other one does.
LEMMA CommonNext ==
  ASSUME NEW b, NEW m \in Nat, NEW y, Len(y) \in Nat, NEW p, NEW q, Common(b, m, y, <<p, q>>)
  PROVE  /\ p \in 0 .. m /\ q \in 0 .. Len(y)
         /\ q = Len(y) => p = m
         /\ p = m => q = Len(y)
         /\ q # Len(y) =>
              \E cp \in Scalar :
                /\ StandsIn(Utf8Encode(cp), b, p) /\ StandsIn(Utf16Encode(cp), y, q)
                /\ Common(b, m, y, <<p + Len(Utf8Encode(cp)), q + Len(Utf16Encode(cp))>>)
<1> DEFINE r == <<p, q>>
           next(cp) == <<p + Len(Utf8Encode(cp)), q + Len(Utf16Encode(cp))>>
<1>1. PICK P \in SUBSET ((0 .. m) \X (0 .. Len(y))) : SameText(b, m, y, P) /\ r \in P
  BY DEF Common
<1>2. r[1] = p /\ r[2] = q
  OBVIOUS
<1>3. p \in 0 .. m /\ q \in 0 .. Len(y)
  <2> HIDE DEF r
  <2>1. r[1] \in 0 .. m /\ r[2] \in 0 .. Len(y)
    BY <1>1
  <2>2. QED BY <1>2, <2>1
<1>4. r # <<m, Len(y)>> => \E cp \in Scalar :
        StandsIn(Utf8Encode(cp), b, p) /\ StandsIn(Utf16Encode(cp), y, q) /\ next(cp) \in P
  <2> HIDE DEF r
  <2>1. QED BY <1>1, <1>2 DEF SameText
<1>5. \A cp : next(cp) \in P => Common(b, m, y, next(cp))
  <2> HIDE DEF next
  <2>1. QED BY <1>1 DEF Common
<1>6. ASSUME NEW cp \in Scalar, next(cp) \in P PROVE p # m /\ q # Len(y)
  <2> DEFINE k == Len(Utf8Encode(cp))
             l == Len(Utf16Encode(cp))
  <2>1. k \in Nat /\ k >= 1 /\ l \in Nat /\ l >= 1
    BY EncodedSizes
  <2>2. p + k \in 0 .. m /\ q + l \in 0 .. Len(y)
    BY <1>1, <1>6
  <2> HIDE DEF k, l
  <2>3. QED BY <1>3, <2>1, <2>2, SMT
<1>7. p = m <=> q = Len(y)
  <2>1. r = <<m, Len(y)>> <=> p = m /\ q = Len(y)
    OBVIOUS
  <2> HIDE DEF r, next
  <2>2. QED BY <1>4, <1>6, <2>1
<1>8. q # Len(y) => r # <<m, Len(y)>>
  OBVIOUS
<1> HIDE DEF r
<1>9. q # Len(y) => \E cp \in Scalar :
        StandsIn(Utf8Encode(cp), b, p) /\ StandsIn(Utf16Encode(cp), y, q)
        /\ Common(b, m, y, next(cp))
  <2> HIDE DEF next
  <2>1. QED BY <1>4, <1>5, <1>8
<1>10. QED BY <1>3, <1>7, <1>9

\* What is up to a 0.
LEMMA UpToNulIs ==
  ASSUME NEW S, NEW s \in Seq(S)
  PROVE  /\ UpToNul(s) \in Seq(S) /\ Len(UpToNul(s)) <= Len(s)
         /\ \A k \in 1 .. Len(UpToNul(s)) : s[k] # 0 /\ UpToNul(s)[k] = s[k]
         /\ NoNul(UpToNul(s))
         /\ Len(UpToNul(s)) < Len(s) => s[Len(UpToNul(s)) + 1] = 0
         /\ NoNul(s) => UpToNul(s) = s
         /\ UpToNul(s) = <<>> <=> s = <<>> \/ s[1] = 0
<1> DEFINE T == {i \in 1 .. Len(s) + 1 : i > Len(s) \/ s[i] = 0}
           m == Least(T)
           u == UpToNul(s)
<1>1. Len(s) \in Nat
  BY SMT
<1>2. T \subseteq Nat /\ Len(s) + 1 \in T
  BY <1>1, SMT
<1>3. m \in T /\ \A k \in T : m <= k
  <2> HIDE DEF T
  <2>1. QED BY <1>2, LeastIs, Zenon
<1>4. m \in 1 .. Len(s) + 1 /\ (m > Len(s) \/ s[m] = 0)
  BY <1>3
<1>5. u = SubSeq(s, 1, m - 1)
  BY DEF UpToNul
<1>6. ASSUME NEW k \in 1 .. m - 1 PROVE k \in 1 .. Len(s) /\ s[k] # 0
  <2>1. k \in 1 .. Len(s) + 1 /\ k \in 1 .. Len(s) /\ ~(m <= k)
    BY <1>1, <1>4, SMT
  <2>2. k \notin T
    BY <1>3, <2>1
  <2>3. QED BY <2>1, <2>2
<1> HIDE DEF T, m, u
<1>7. u \in Seq(S) /\ Len(u) = m - 1 /\ \A k \in 1 .. m - 1 : u[k] = s[k]
  <2>1. \A k \in 1 .. m - 1 : s[k] \in S
    BY <1>6
  <2>2. m - 1 \in Nat
    BY <1>1, <1>4, SMT
  <2>3. Len(u) = m - 1 /\ \A k \in 1 .. m - 1 : u[k] = s[k]
    BY <1>1, <1>4, <1>5, SMT
  <2>4. u \in Seq(S)
    BY <1>1, <1>4, <1>5, SMT
  <2>5. QED BY <2>3, <2>4
<1>8. NoNul(u)
  BY <1>6, <1>7 DEF NoNul
<1>9. Len(u) <= Len(s) /\ (Len(u) < Len(s) => s[Len(u) + 1] = 0)
  <2>1. Len(u) + 1 = m
    BY <1>1, <1>4, <1>7, SMT
  <2>2. Len(u) <= Len(s) /\ (Len(u) < Len(s) => ~(m > Len(s)))
    BY <1>1, <1>4, <1>7, SMT
  <2>3. QED BY <1>4, <2>1, <2>2
<1>10. NoNul(s) => u = s
  <2> SUFFICES ASSUME NoNul(s) PROVE u = s
    OBVIOUS
  <2>1. \A k \in 1 .. Len(s) : s[k] # 0
    BY DEF NoNul
  <2>2. m = Len(s) + 1
    BY <1>1, <1>4, <2>1, SMT
  <2>3. Len(u) = Len(s)
    BY <1>1, <1>7, <2>2, SMT
  <2>4. \A k \in 1 .. Len(s) : u[k] = s[k]
    BY <1>1, <1>7, <2>2, SMT
  <2>5. QED BY <1>7, <2>3, <2>4, SMT
<1>11. u = <<>> <=> s = <<>> \/ s[1] = 0
  <2>1. u = <<>> <=> m = 1
    BY <1>1, <1>4, <1>7, SMT
  <2>2. s = <<>> <=> Len(s) = 0
    BY SMT
  <2>3. m = 1 => s = <<>> \/ s[1] = 0
    BY <1>1, <1>4, <2>2, SMT
  <2>4. m # 1 => Len(s) # 0 /\ s[1] # 0
    BY <1>1, <1>4, <1>6, SMT
  <2>5. QED BY <2>1, <2>2, <2>3, <2>4
<1>12. QED BY <1>6, <1>7, <1>8, <1>9, <1>10, <1>11 DEF u
-----------------------------------------------------------------------------
(***************************************************************************)
(* The literal becomes the object, and the object what is shown.           *)
(***************************************************************************)

\* The bytes of a token are as many as its characters.
LEMMA BytesFacts ==
  ASSUME NEW t \in Token
  PROVE  Bytes(t) \in Seq(Byte) /\ Len(Bytes(t)) = Len(t.text)
<1>1. t.text \in Seq(DOMAIN ByteOf) /\ Len(t.text) \in Nat
  BY SMT DEF Token
<1>2. \A i \in 1 .. Len(t.text) : ByteOf[t.text[i]] \in Byte
  <2>1. SUFFICES ASSUME NEW i \in 1 .. Len(t.text) PROVE ByteOf[t.text[i]] \in Byte
    OBVIOUS
  <2>2. t.text[i] \in DOMAIN ByteOf
    BY <1>1, SMT
  <2>3. QED BY <2>2, TextAssumption
<1> DEFINE b == [i \in 1 .. Len(t.text) |-> ByteOf[t.text[i]]]
<1>3. Bytes(t) = b
  BY <1>1, SMT DEF Bytes
<1>4. b \in [1 .. Len(t.text) -> Byte]
  BY <1>2, Zenon
<1> HIDE DEF b
<1>5. b \in Seq(Byte) /\ Len(b) = Len(t.text)
  BY <1>1, <1>4, SMT
<1>6. QED BY <1>3, <1>5

\* The bytes of the literal.
LEMMA LiteralFacts ==
  ASSUME tokens \in Seq(Token), token \in 0 .. Len(tokens), token # 0
  PROVE  /\ Literally \in Seq(Byte) /\ Literally \in Seq(Unit) /\ Literally \in Seq(Nat)
         /\ Len(Literally) \in Nat
<1>1. tokens[token] \in Token
  <2>1. token \in 1 .. Len(tokens)
    BY SMT
  <2>2. QED BY <2>1
<1>2. Literally \in Seq(Byte)
  BY <1>1, BytesFacts DEF Literally
<1>3. Literally \in Seq(Unit)
  BY <1>2, BytesAreUnits, SMT
<1>4. QED BY <1>2, <1>3, UnitsAreNumbers, SMT

\* A turn of the second loop, over the literal.
LEMMA ReadMore ==
  ASSUME CodecTyped, ReadSoFar, pass = "write", More, NEW d \in Found, input \in Seq(Byte)
  PROVE  LET z == out \o Utf16Encode(d.cp)
             next == at + d.n IN
         /\ next \in Nat /\ next # 1 /\ next <= Len(input) + 1
         /\ z # <<>> /\ (z[1] = 0 <=> input[1] = 0)
         /\ NoNul(input) => NoNul(z)
         /\ WellFormed(input) => FormedFrom(input, next) /\ Common(input, next - 1, z, <<0, 0>>)
<1> DEFINE e == Utf16Encode(d.cp)
           z == out \o e
           next == at + d.n
<1>1. /\ to = 16 /\ len = Len(input) /\ Len(input) \in Nat /\ at \in Nat /\ at # 0
      /\ input \in Seq(Nat) /\ out \in Seq(Unit)
  <2>1. to = 16 /\ len = Len(input)
    BY DEF ReadSoFar
  <2>2. out \in Seq(Unit)
    BY OutIsUnits
  <2>3. input \in Seq(Unit) /\ at \in Nat /\ at # 0
    BY Typed
  <2>4. QED BY <2>1, <2>2, <2>3, UnitsAreNumbers, SMT
<1>2. at \in 1 .. Len(input)
  BY <1>1, SMT DEF More
<1>3. d = Utf8Decode(input, at)
  BY <1>1, SMT DEF Found
<1>4. EndsIn(d, at, Len(input))
  BY <1>1, <1>2, <1>3, Utf8DecodeFacts
<1>5. d.cp \in CodePoint /\ d.n \in Nat /\ d.n >= 1 /\ at + d.n <= Len(input) + 1
  BY <1>4 DEF EndsIn, Decodes
<1>6. next \in Nat /\ next # 1 /\ next <= Len(input) + 1
  BY <1>1, <1>5, SMT
<1>7. e \in Seq(Unit) /\ Len(e) \in {1, 2} /\ (e[1] = 0 <=> d.cp = 0) /\ (d.cp # 0 => NoNul(e))
  BY <1>5, Encode16, EncodeNul
<1>8. d.cp = 0 <=> input[at] = 0
  BY <1>1, <1>2, <1>3, Utf8Nul
<1> HIDE DEF e
<1>9. /\ z \in Seq(Unit) /\ Len(z) = Len(out) + Len(e) /\ Len(out) \in Nat /\ Len(e) >= 1
      /\ \A k \in 1 .. Len(z) : z[k] = IF k <= Len(out) THEN out[k] ELSE e[k - Len(out)]
  BY <1>1, <1>7, SMT
<1>10. z # <<>> /\ Len(z) >= 1 /\ 1 \in 1 .. Len(z)
  BY <1>9, SMT
<1>11. /\ IF at = 1 THEN out = <<>> ELSE out # <<>> /\ (out[1] = 0 <=> input[1] = 0)
       /\ NoNul(input) => NoNul(out)
       /\ WellFormed(input) => FormedFrom(input, at) /\ Common(input, at - 1, out, <<0, 0>>)
  BY DEF ReadSoFar
<1>12. z[1] = 0 <=> input[1] = 0
  <2>1. CASE at = 1
    <3>1. out = <<>>
      BY <1>11, <2>1
    <3>2. z[1] = e[1]
      BY <1>9, <1>10, <3>1, SMT
    <3>3. QED BY <1>7, <1>8, <2>1, <3>2
  <2>2. CASE at # 1
    <3>1. out # <<>> /\ (out[1] = 0 <=> input[1] = 0)
      BY <1>11, <2>2
    <3>2. z[1] = out[1]
      BY <1>1, <1>9, <1>10, <3>1, SMT
    <3>3. QED BY <3>1, <3>2
  <2>3. QED BY <2>1, <2>2
<1>13. NoNul(input) => NoNul(z)
  <2> SUFFICES ASSUME NoNul(input) PROVE NoNul(z)
    OBVIOUS
  <2>1. input[at] # 0
    BY <1>1, <1>2 DEF NoNul
  <2>2. NoNul(out) /\ NoNul(e)
    BY <1>7, <1>8, <1>11, <2>1
  <2>3. \A k \in 1 .. Len(out) : out[k] # 0
    BY <1>1, <2>2 DEF NoNul
  <2>4. \A k \in 1 .. Len(e) : e[k] # 0
    BY <1>7, <2>2 DEF NoNul
  <2>5. ASSUME NEW k \in 1 .. Len(z) PROVE z[k] # 0
    <3>1. CASE k <= Len(out)
      BY <1>9, <2>3, <3>1, SMT
    <3>2. CASE ~(k <= Len(out))
      <4>1. k - Len(out) \in 1 .. Len(e)
        BY <1>7, <1>9, <3>2, SMT
      <4>2. QED BY <1>9, <2>4, <3>2, <4>1
    <3>3. QED BY <3>1, <3>2
  <2>6. QED BY <1>9, <2>5 DEF NoNul
<1>14. WellFormed(input) => FormedFrom(input, next) /\ Common(input, next - 1, z, <<0, 0>>)
  <2> SUFFICES ASSUME WellFormed(input)
               PROVE  FormedFrom(input, next) /\ Common(input, next - 1, z, <<0, 0>>)
    OBVIOUS
  <2> DEFINE n == Len(Demands(input[at]))
  <2>1. PICK T \in SUBSET (1 .. Len(input) + 1) :
          /\ at \in T
          /\ \A t \in T : t <= Len(input) => Formed(input, t) /\ t + 1 + Len(Demands(input[t])) \in T
    BY <1>11 DEF FormedFrom
  <2>2. at <= Len(input)
    BY <1>1, <1>2, SMT
  <2>3. Formed(input, at) /\ at + 1 + n \in T
    BY <2>1, <2>2
  <2>4. n \in 0 .. 3 /\ at + n <= Len(input) /\ \E cp : Transcodes(input, at, n, cp)
    BY <1>2, <2>3, FormedDecodes
  <2> HIDE DEF n
  <2>5. PICK cp : Transcodes(input, at, n, cp)
    BY <2>4
  <2>6. /\ cp \in Scalar /\ d = Decoded(cp, n + 1) /\ Len(Utf8Encode(cp)) = n + 1
        /\ \A j \in 1 .. n + 1 : Utf8Encode(cp)[j] = input[at + j - 1]
    BY <1>3, <2>5 DEF Transcodes
  <2>7. d.cp = cp /\ d.n = n + 1
    BY <2>6 DEF Decoded
  <2>8. next = at + 1 + n /\ next - 1 = (at - 1) + (n + 1) /\ at - 1 \in Nat
    BY <1>1, <2>4, <2>7, SMT
  <2>9. FormedFrom(input, next)
    BY <2>1, <2>3, <2>8 DEF FormedFrom
  <2>10. StandsIn(Utf8Encode(cp), input, at - 1)
    <3> DEFINE f == Utf8Encode(cp)
    <3>1. Len(f) = n + 1 /\ \A j \in 1 .. n + 1 : f[j] = input[at + j - 1]
      BY <2>6
    <3> HIDE DEF f
    <3>2. \A j \in 1 .. n + 1 : at + j - 1 = (at - 1) + j
      BY <1>1, <2>4, SMT
    <3>3. (at - 1) + (n + 1) <= Len(input)
      BY <1>1, <2>4, SMT
    <3>4. QED BY <3>1, <3>2, <3>3 DEF StandsIn, f
  <2>11. Common(input, at - 1, out, <<0, 0>>)
    BY <1>11
  <2>12. Common(input, (at - 1) + Len(Utf8Encode(cp)), out \o Utf16Encode(cp), <<0, 0>>)
    BY <1>1, <2>6, <2>8, <2>10, <2>11, CommonGrows
  <2>13. z = out \o Utf16Encode(cp)
    BY <2>7 DEF e
  <2>14. QED BY <2>6, <2>8, <2>9, <2>12, <2>13
<1>15. QED BY <1>6, <1>10, <1>12, <1>13, <1>14 DEF e

\* Both texts have the code point cp next.
Continues(b, m, y, p, q, cp) ==
  /\ StandsIn(Utf8Encode(cp), b, p) /\ StandsIn(Utf16Encode(cp), y, q)
  /\ Common(b, m, y, <<p + Len(Utf8Encode(cp)), q + Len(Utf16Encode(cp))>>)

LEMMA GoOn ==
  ASSUME NEW b, NEW m \in Nat, NEW y, Len(y) \in Nat, NEW p, NEW q, Common(b, m, y, <<p, q>>),
         q # Len(y)
  PROVE  \E cp \in Scalar : Continues(b, m, y, p, q, cp)
BY CommonNext DEF Continues

\* The first byte of a code point tells how many there are.
LEMMA EncodeDemands ==
  ASSUME NEW cp \in Scalar
  PROVE  LET e == Utf8Encode(cp) IN
         /\ Len(e) = 1 + Len(Demands(e[1]))
         /\ cp # 0 => \A k \in 1 .. Len(e) : e[k] # 0
         /\ ~(e[1] >= 240) => Len(Utf16Encode(cp)) = 1
<1> DEFINE e == Utf8Encode(cp)
           a == cp % 64
           b == (cp \div 64) % 64
           c == (cp \div 4096) % 64
           u == cp \div 64
           v == cp \div 4096
           w == cp \div 262144
<1>1. cp \in CodePoint /\ cp \in Nat
  BY ScalarIsCodePoint
<1>2. /\ cp >= 128 /\ cp < 2048 => u \in 2 .. 31
      /\ cp < 65536 => v \in 0 .. 15
      /\ w \in 0 .. 4
      /\ a \in 0 .. 63 /\ b \in 0 .. 63 /\ c \in 0 .. 63
  <2>1. cp >= 128 /\ cp < 2048 => u \in 2 .. 31
    BY <1>1, SMT
  <2>2. QED BY <1>1, <2>1, Parts
<1>3. e = IF cp < 128 THEN <<cp>>
          ELSE IF cp < 2048 THEN <<192 + u, 128 + a>>
          ELSE IF cp < 65536 THEN <<224 + v, 128 + b, 128 + a>>
          ELSE <<240 + w, 128 + c, 128 + b, 128 + a>>
  BY SMT DEF Utf8Encode
<1>4. cp < 65536 => Len(Utf16Encode(cp)) = 1
  BY SMT DEF Utf16Encode
<1> HIDE DEF a, b, c, u, v, w, e
<1>5. CASE cp < 128
  <2>1. e = <<cp>>
    BY <1>3, <1>5
  <2>2. Len(e) = 1 /\ e[1] = cp
    BY <2>1
  <2>3. Demands(cp) = <<>> /\ Len(<<>>) = 0
    BY <1>1, <1>5, DemandsAre
  <2>4. cp < 65536
    BY <1>1, <1>5, SMT
  <2>5. QED BY <1>4, <2>2, <2>3, <2>4, SMT DEF e
<1>6. CASE ~(cp < 128) /\ cp < 2048
  <2>1. e = <<192 + u, 128 + a>>
    BY <1>3, <1>6
  <2>2. Len(e) = 2 /\ e[1] = 192 + u /\ e[2] = 128 + a
    BY <2>1
  <2>3. 192 + u \in Nat /\ 192 + u \in 194 .. 223 /\ 128 + a # 0 /\ 192 + u # 0
    BY <1>1, <1>2, <1>6, SMT
  <2>4. Len(Demands(e[1])) = 1
    <3>1. \A S : Len(<<S>>) = 1
      OBVIOUS
    <3>2. \A x \in Nat : x \in 194 .. 223 => Demands(x) = <<Tail1>>
      BY DemandsAre
    <3>3. Demands(e[1]) = <<Tail1>>
      BY <2>2, <2>3, <3>2
    <3>4. QED BY <3>1, <3>3
  <2>5. cp < 65536
    BY <1>1, <1>6, SMT
  <2>6. \A k \in 1 .. Len(e) : e[k] # 0
    BY <2>2, <2>3, SMT
  <2>7. Len(e) = 1 + Len(Demands(e[1]))
    <3>1. 2 = 1 + 1
      BY SMT
    <3>2. QED BY <2>2, <2>4, <3>1
  <2>8. QED BY <1>4, <2>5, <2>6, <2>7 DEF e
<1>7. CASE ~(cp < 2048) /\ cp < 65536
  <2>0. ~(cp < 128)
    BY <1>1, <1>7, SMT
  <2>1. e = <<224 + v, 128 + b, 128 + a>>
    BY <1>3, <1>7, <2>0
  <2>2. Len(e) = 3 /\ e[1] = 224 + v /\ e[2] = 128 + b /\ e[3] = 128 + a
    BY <2>1
  <2>3. /\ 224 + v \in Nat /\ 224 + v \in 224 .. 239 /\ 128 + b # 0 /\ 128 + a # 0 /\ 224 + v # 0
        /\ 224 + v = 224 \/ 224 + v = 237 \/ (224 + v \in 225 .. 239 /\ 224 + v # 237)
    BY <1>2, <1>7, SMT
  <2>4. Len(Demands(e[1])) = 2
    <3>1. \A S, T : Len(<<S, T>>) = 2
      OBVIOUS
    <3>2. e[1] \in Nat /\ (e[1] = 224 \/ e[1] = 237 \/ (e[1] \in 225 .. 239 /\ e[1] # 237))
      BY <2>2, <2>3
    <3>3. \E S, T : Demands(e[1]) = <<S, T>>
      BY <3>2, DemandsAre
    <3>4. QED BY <3>1, <3>3
  <2>6. \A k \in 1 .. Len(e) : e[k] # 0
    BY <2>2, <2>3, SMT
  <2>7. Len(e) = 1 + Len(Demands(e[1]))
    <3>1. 3 = 1 + 2
      BY SMT
    <3>2. QED BY <2>2, <2>4, <3>1
  <2>8. QED BY <1>4, <1>7, <2>6, <2>7 DEF e
<1>8. CASE ~(cp < 65536)
  <2>0. ~(cp < 128) /\ ~(cp < 2048)
    BY <1>1, <1>8, SMT
  <2>1. e = <<240 + w, 128 + c, 128 + b, 128 + a>>
    BY <1>3, <1>8, <2>0
  <2>2. Len(e) = 4 /\ e[1] = 240 + w /\ e[2] = 128 + c /\ e[3] = 128 + b /\ e[4] = 128 + a
    BY <2>1
  <2>3. /\ 240 + w \in Nat /\ 240 + w >= 240 /\ 128 + c # 0 /\ 128 + b # 0 /\ 128 + a # 0 /\ 240 + w # 0
        /\ 240 + w = 240 \/ 240 + w = 244 \/ 240 + w \in 241 .. 243
    BY <1>2, SMT
  <2>4. Len(Demands(e[1])) = 3
    <3>1. \A S, T, U : Len(<<S, T, U>>) = 3
      OBVIOUS
    <3>2. e[1] \in Nat /\ (e[1] = 240 \/ e[1] = 244 \/ e[1] \in 241 .. 243)
      BY <2>2, <2>3
    <3>3. \E S, T, U : Demands(e[1]) = <<S, T, U>>
      BY <3>2, DemandsAre
    <3>4. QED BY <3>1, <3>3
  <2>6. \A k \in 1 .. Len(e) : e[k] # 0
    BY <2>2, <2>3, SMT
  <2>7. Len(e) = 1 + Len(Demands(e[1]))
    <3>1. 4 = 1 + 3
      BY SMT
    <3>2. QED BY <2>2, <2>4, <3>1
  <2>8. e[1] >= 240
    BY <2>2, <2>3
  <2>9. QED BY <2>6, <2>7, <2>8 DEF e
<1>9. QED BY <1>5, <1>6, <1>7, <1>8

\* The object, when the literal has been read.
LEMMA ReadDone ==
  ASSUME CodecTyped, ReadSoFar, pass = "done", Literally \in Seq(Byte)
  PROVE  LET o == UpToNul(out)
             b == Literally IN
         /\ NoNul(o)
         /\ o = <<>> => UpToNul(b) = <<>>
         /\ WellFormed(b) /\ NoNul(b) => Common(b, Len(b), o, <<0, 0>>)
         /\ Len(o) # 1 => \/ UpToNul(b) = <<>>
                          \/ ~WellFormed(b)
                          \/ Len(UpToNul(b)) > 1 + Len(Demands(b[1])) \/ b[1] >= 240
<1> DEFINE o == UpToNul(out)
           b == Literally
           u == UpToNul(b)
<1>1. /\ input = b /\ len = Len(b) /\ at = Len(b) + 1 /\ pass # "size"
      /\ IF at = 1 THEN out = <<>> ELSE out # <<>> /\ (out[1] = 0 <=> b[1] = 0)
      /\ NoNul(b) => NoNul(out)
      /\ WellFormed(b) => Common(b, at - 1, out, <<0, 0>>)
  BY DEF ReadSoFar
<1>2. out \in Seq(Unit) /\ b \in Seq(Byte) /\ Len(b) \in Nat /\ Len(out) \in Nat
  BY OutIsUnits, SMT
<1>3. /\ NoNul(o) /\ Len(o) <= Len(out) /\ Len(o) \in Nat
      /\ \A k \in 1 .. Len(o) : out[k] # 0
      /\ Len(o) < Len(out) => out[Len(o) + 1] = 0
      /\ NoNul(out) => o = out
      /\ o = <<>> <=> out = <<>> \/ out[1] = 0
  <2>1. o \in Seq(Unit)
    BY <1>2, UpToNulIs
  <2>2. Len(o) \in Nat
    BY <2>1, SMT
  <2>3. QED BY <1>2, <2>2, UpToNulIs
<1>4. /\ Len(u) <= Len(b) /\ Len(u) \in Nat
      /\ Len(u) < Len(b) => b[Len(u) + 1] = 0
      /\ u = <<>> <=> b = <<>> \/ b[1] = 0
  <2>1. u \in Seq(Byte)
    BY <1>2, UpToNulIs
  <2>2. Len(u) \in Nat
    BY <2>1, SMT
  <2>3. QED BY <1>2, <2>2, UpToNulIs
<1> HIDE DEF o, b, u
<1>5. at - 1 = Len(b) /\ (at = 1 <=> b = <<>>)
  BY <1>1, <1>2, SMT
<1>6. o = <<>> => u = <<>>
  BY <1>1, <1>3, <1>4, <1>5
<1>7. WellFormed(b) /\ NoNul(b) => Common(b, Len(b), o, <<0, 0>>)
  BY <1>1, <1>3, <1>5
<1>8. ASSUME Len(o) # 1, u # <<>>, WellFormed(b), ~(b[1] >= 240)
      PROVE  Len(u) > 1 + Len(Demands(b[1]))
  <2>1. b # <<>> /\ b[1] # 0 /\ out # <<>> /\ out[1] # 0 /\ o # <<>>
    BY <1>1, <1>3, <1>4, <1>5, <1>8
  <2>2. Len(b) >= 1 /\ 1 \in 1 .. Len(b) /\ Len(out) >= 1
    BY <1>2, <2>1, SMT
  <2>3. Len(o) # 0
    <3>1. o \in Seq(Unit)
      BY <1>2, UpToNulIs DEF o
    <3>2. QED BY <2>1, <3>1, SMT
  <2>4. Len(o) >= 2 /\ 2 \in 1 .. Len(o) /\ Len(out) >= 2
    <3> DEFINE l == Len(o)
               k == Len(out)
    <3>1. l \in Nat /\ k \in Nat /\ l <= k /\ l # 0 /\ l # 1
      BY <1>2, <1>3, <1>8, <2>3
    <3> HIDE DEF l, k
    <3>2. l >= 2 /\ 2 \in 1 .. l /\ k >= 2
      BY <3>1, SMT
    <3>3. QED BY <3>2 DEF l, k
  <2>5. out[2] # 0
    BY <1>3, <2>4
  <2> DEFINE n == Len(Demands(b[1]))
             m == Len(b)
  <2>6. Common(b, m, out, <<0, 0>>)
    BY <1>1, <1>5, <1>8
  <2>7. m \in Nat /\ 0 # Len(out)
    BY <1>2, <2>2, SMT
  <2> HIDE DEF m
  <2>8. PICK cp \in Scalar : Continues(b, m, out, 0, 0, cp)
    <3>1. Len(out) \in Nat
      BY <1>2
    <3>2. QED BY <2>6, <2>7, <3>1, GoOn
  <2> DEFINE e == Utf8Encode(cp)
             f == Utf16Encode(cp)
  <2>9. /\ Len(e) = 1 + Len(Demands(e[1]))
        /\ cp # 0 => \A k \in 1 .. Len(e) : e[k] # 0
        /\ ~(e[1] >= 240) => Len(f) = 1
    BY EncodeDemands
  <2>10. Len(e) \in Nat /\ Len(e) >= 1 /\ (e[1] = 0 <=> cp = 0)
    BY EncodedSizes, ScalarIsCodePoint, EncodeNul
  <2>11. StandsIn(e, b, 0) /\ StandsIn(f, out, 0) /\ Common(b, m, out, <<0 + Len(e), 0 + Len(f)>>)
    BY <2>8 DEF Continues
  <2> HIDE DEF e, f
  <2>12. \A k \in 1 .. Len(e) : b[k] = e[k]
    BY <2>10, <2>11, SMT DEF StandsIn
  <2>13. b[1] = e[1]
    BY <2>10, <2>12, SMT
  <2>14. Len(e) = 1 + n /\ Len(f) = 1 /\ \A k \in 1 .. Len(e) : b[k] # 0
    BY <1>8, <2>1, <2>9, <2>10, <2>12, <2>13
  <2>15. Common(b, m, out, <<Len(e), 1>>) /\ 1 # Len(out)
    <3>1. 0 + Len(e) = Len(e) /\ 0 + Len(f) = 1 /\ 1 # Len(out)
      <4>1. Len(out) >= 2 /\ Len(out) \in Nat /\ Len(e) \in Nat /\ Len(f) = 1
        BY <1>2, <2>4, <2>10, <2>14
      <4>2. \A x, y \in Nat : x >= 2 => 0 + y = y /\ 0 + 1 = 1 /\ 1 # x
        BY SMT
      <4>3. QED BY <4>1, <4>2
    <3>2. QED BY <2>11, <3>1
  <2>16. PICK c2 \in Scalar : Continues(b, m, out, Len(e), 1, c2)
    <3>1. Len(out) \in Nat
      BY <1>2
    <3>2. QED BY <2>7, <2>15, <3>1, GoOn
  <2> DEFINE g == Utf8Encode(c2)
             h == Utf16Encode(c2)
  <2>17. /\ Len(g) \in Nat /\ Len(g) >= 1 /\ Len(h) \in Nat /\ Len(h) >= 1
         /\ g[1] = 0 <=> c2 = 0
         /\ h[1] = 0 <=> c2 = 0
    BY EncodedSizes, ScalarIsCodePoint, EncodeNul
  <2>18. StandsIn(g, b, Len(e)) /\ StandsIn(h, out, 1)
    BY <2>16 DEF Continues
  <2> HIDE DEF g, h
  <2>19. b[Len(e) + 1] = g[1] /\ out[1 + 1] = h[1] /\ Len(e) + 1 <= Len(b)
    <3>1. 1 \in 1 .. Len(g) /\ 1 \in 1 .. Len(h)
      BY <2>17, SMT
    <3>2. Len(e) + Len(g) <= Len(b)
      BY <2>18 DEF StandsIn
    <3>3. QED BY <1>2, <2>10, <2>17, <2>18, <3>1, <3>2, SMT DEF StandsIn
  <2>20. b[Len(e) + 1] # 0
    <3>1. 1 + 1 = 2
      BY SMT
    <3>2. QED BY <2>5, <2>17, <2>19, <3>1
  <2>21. SUFFICES ASSUME ~(Len(u) > 1 + n) PROVE FALSE
    BY DEF n
  <2>22. Len(u) < Len(b) /\ (Len(u) + 1 \in 1 .. Len(e) \/ Len(u) + 1 = Len(e) + 1)
    <3> HIDE DEF n
    <3>1. Len(u) <= Len(e)
      BY <1>4, <2>10, <2>14, <2>21, SMT
    <3>2. QED BY <1>2, <1>4, <2>10, <2>19, <3>1, SMT
  <2>23. QED BY <1>4, <2>14, <2>20, <2>22
<1>9. QED BY <1>3, <1>6, <1>7, <1>8 DEF o, b, u

\* There is more to read as long as the end of the object is not reached.
LEMMA ShowMoreIs ==
  ASSUME CodecTyped, ShownSoFar, ObjectKept, object \in Seq(Unit), at - 1 \in 0 .. Len(object)
  PROVE  /\ More <=> at - 1 # Len(object)
         /\ at - 1 # Len(object) => input[at] = object[at]
         /\ at < Len(object) => at < Len(input) /\ input[at + 1] = object[at + 1]
<1>1. /\ input \in Seq(Unit) /\ at \in Nat /\ at # 0 /\ Len(object) \in Nat
      /\ at <= Len(object) + 1
  <2>1. input \in Seq(Unit) /\ at \in Nat /\ at # 0
    BY Typed
  <2>2. QED BY <2>1, SMT
<1>2. ASSUME at - 1 # Len(object) PROVE at \in 1 .. Len(object)
  BY <1>1, <1>2, SMT
<1>3. \A k \in 1 .. Len(object) : object[k] # 0
  BY DEF ObjectKept, NoNul
<1>4. at < Len(object) => at + 1 \in 1 .. Len(object) /\ at - 1 # Len(object)
  BY <1>1, SMT
<1>5. CASE input = object /\ len = Len(object)
  <2>1. More <=> at <= Len(object)
    BY <1>1, <1>5, SMT DEF More
  <2>2. at <= Len(object) <=> at - 1 # Len(object)
    BY <1>1, SMT
  <2>3. QED BY <1>2, <1>5, <2>1, <2>2
<1>6. CASE input = Append(object, 0) /\ len = -1
  <2>1. /\ Len(input) = Len(object) + 1 /\ input[Len(object) + 1] = 0
        /\ \A k \in 1 .. Len(object) : input[k] = object[k]
    BY <1>1, <1>6, SMT
  <2>2. More <=> at <= Len(input) /\ input[at] # 0
    BY <1>6, SMT DEF More
  <2>3. at <= Len(input)
    BY <1>1, <2>1, SMT
  <2>4. at - 1 = Len(object) => at = Len(object) + 1
    BY <1>1, SMT
  <2>5. at < Len(object) => at < Len(input)
    BY <1>1, <2>1, SMT
  <2>6. QED BY <1>2, <1>3, <1>4, <2>1, <2>2, <2>3, <2>4, <2>5
<1>7. QED BY <1>5, <1>6 DEF ShownSoFar

\* Sequences with the same members are the same.
LEMMA SameSequence ==
  ASSUME NEW S, NEW T, NEW s \in Seq(S), NEW t \in Seq(T), Len(s) = Len(t),
         \A k \in 1 .. Len(s) : s[k] = t[k]
  PROVE  s = t
<1>1. s = [k \in 1 .. Len(s) |-> s[k]] /\ t = [k \in 1 .. Len(t) |-> t[k]]
  BY SMT
<1>2. QED BY <1>1, Zenon

\* A turn of the second loop, over the object.
LEMMA ShowMore ==
  ASSUME CodecTyped, ShownSoFar, ObjectKept, More, NEW d \in Found, Showing,
         object \in Seq(Unit), Literally \in Seq(Byte)
  PROVE  LET z == out \o Utf8Encode(d.cp) IN
         /\ Common(Literally, Len(Literally), object, <<Len(z), (at + d.n) - 1>>)
         /\ z = SubSeq(Literally, 1, Len(z))
<1> DEFINE b == Literally
           m == Len(b)
           p == Len(out)
           q == at - 1
<1>1. /\ m \in Nat /\ p \in Nat /\ Len(object) \in Nat /\ at \in Nat /\ at # 0 /\ to = 8
      /\ b \in Seq(Byte) /\ out \in Seq(Unit)
  <2>1. at \in Nat /\ at # 0 /\ out \in Seq(Unit)
    BY Typed, OutIsUnits
  <2>2. to = 8
    BY DEF ShownSoFar
  <2>3. QED BY <2>1, <2>2, SMT
<1>2. Common(b, m, object, <<p, q>>)
  BY DEF Showing
<1>3. out = SubSeq(b, 1, p)
  BY DEF Showing
<1> HIDE DEF b, m, p
<1>4. q \in 0 .. Len(object) /\ p \in 0 .. m
  BY <1>1, <1>2, CommonNext
<1>5. /\ q # Len(object) /\ input[at] = object[at]
      /\ at < Len(object) => at < Len(input) /\ input[at + 1] = object[at + 1]
  BY <1>4, ShowMoreIs
<1> HIDE DEF q
<1>6. PICK cp \in Scalar : Continues(b, m, object, p, q, cp)
  BY <1>1, <1>2, <1>5, GoOn
<1> DEFINE e == Utf8Encode(cp)
           f == Utf16Encode(cp)
<1>7. StandsIn(e, b, p) /\ StandsIn(f, object, q) /\ Common(b, m, object, <<p + Len(e), q + Len(f)>>)
  BY <1>6 DEF Continues
<1>8. e \in Seq(Byte) /\ Len(e) \in Nat /\ Len(f) \in Nat /\ Len(f) >= 1 /\ Len(f) \in {1, 2}
  BY EncodedSizes, ScalarIsCodePoint, EncodeNul
<1>9. \A w2 : (Len(f) = 2 => w2 = f[2]) => Utf16Decode(f[1], w2) = Decoded(cp, Len(f))
  BY Utf16Again
<1> HIDE DEF e, f
<1>10. q \in Nat /\ q + 1 = at /\ q + 2 = at + 1
  BY <1>1, SMT DEF q
<1>11. q + Len(f) <= Len(object) /\ \A j \in 1 .. Len(f) : object[q + j] = f[j]
  BY <1>7 DEF StandsIn
<1>12. f[1] = input[at]
  <2>1. 1 \in 1 .. Len(f)
    BY <1>8, SMT
  <2>2. QED BY <1>5, <1>10, <1>11, <2>1
<1>13. Len(f) = 2 => at < Len(input) /\ f[2] = input[at + 1]
  <2> SUFFICES ASSUME Len(f) = 2 PROVE at < Len(input) /\ f[2] = input[at + 1]
    OBVIOUS
  <2>1. 2 \in 1 .. Len(f) /\ at < Len(object)
    BY <1>1, <1>8, <1>10, <1>11, SMT
  <2>2. QED BY <1>5, <1>10, <1>11, <2>1
<1> DEFINE seconds == IF at < Len(input) THEN {input[at + 1]}
                      ELSE IF len >= 0 THEN Behind ELSE {0}
<1>14. Found = {Utf16Decode(input[at], w2) : w2 \in seconds}
  BY <1>1, SMT DEF Found
<1>15. PICK w2 \in seconds : d = Utf16Decode(input[at], w2)
  <2> HIDE DEF seconds
  <2>1. QED BY <1>14
<1>16. Len(f) = 2 => w2 = f[2]
  BY <1>13
<1>17. d = Decoded(cp, Len(f))
  BY <1>9, <1>12, <1>15, <1>16
<1>18. d.cp = cp /\ d.n = Len(f)
  BY <1>17 DEF Decoded
<1> DEFINE z == out \o e
<1>19. p = Len(out)
  BY DEF p
<1>20. z \in Seq(Unit) /\ Len(z) = p + Len(e)
       /\ \A k \in 1 .. p + Len(e) : z[k] = IF k <= p THEN out[k] ELSE e[k - p]
  <2>1. \A n \in Byte : n \in Unit
    BY BytesAreUnits
  <2>2. e \in Seq(Unit)
    BY <1>8, <2>1, SMT
  <2>3. QED BY <1>1, <1>8, <1>19, <2>2, SMT
<1> HIDE DEF z
<1>21. p + Len(e) <= Len(b) /\ \A j \in 1 .. Len(e) : b[p + j] = e[j]
  BY <1>7 DEF StandsIn
<1>22. \A k \in 1 .. p : out[k] = b[k]
  <2>1. p <= Len(b)
    BY <1>1, <1>8, <1>21, SMT DEF m
  <2>2. QED BY <1>1, <1>3, <2>1, SMT DEF m
<1>23. ASSUME NEW k \in 1 .. p + Len(e) PROVE z[k] = b[k]
  <2>1. CASE k <= p
    <3>1. k \in 1 .. p
      BY <1>1, <1>8, <2>1, SMT
    <3>2. QED BY <1>20, <1>22, <2>1, <3>1
  <2>2. CASE ~(k <= p)
    <3>1. k - p \in 1 .. Len(e) /\ p + (k - p) = k
      BY <1>1, <1>8, <2>2, SMT
    <3>2. QED BY <1>20, <1>21, <2>2, <3>1
  <2>3. QED BY <2>1, <2>2
<1>24. z = SubSeq(b, 1, Len(z))
  <2> DEFINE l == p + Len(e)
  <2>1. l \in Nat /\ l <= Len(b) /\ Len(b) \in Nat
    BY <1>1, <1>8, <1>21, SMT DEF m
  <2>2. \A k \in 1 .. l : z[k] = b[k]
    BY <1>23
  <2>3. Len(z) = l
    BY <1>20
  <2> HIDE DEF l
  <2>4. z = SubSeq(b, 1, l)
    <3> DEFINE s == SubSeq(b, 1, l)
    <3>1. s \in Seq(Byte) /\ Len(s) = l /\ \A k \in 1 .. l : s[k] = b[k]
      BY <1>1, <2>1, SMT
    <3> HIDE DEF s
    <3>2. z \in Seq(Unit)
      BY <1>20
    <3>3. Len(z) = Len(s) /\ \A k \in 1 .. Len(z) : z[k] = s[k]
      BY <2>2, <2>3, <3>1
    <3>4. z = s
      BY <3>1, <3>2, <3>3, SameSequence
    <3>5. QED BY <3>4 DEF s
  <2>5. QED BY <2>3, <2>4
<1>25. Common(b, m, object, <<Len(z), (at + d.n) - 1>>)
  <2>1. \A i, j, n \in Nat : j + 1 = i => (i + n) - 1 = j + n
    BY SMT
  <2>2. (at + d.n) - 1 = q + Len(f)
    <3>1. at \in Nat /\ q \in Nat /\ Len(f) \in Nat /\ q + 1 = at
      BY <1>1, <1>8, <1>10
    <3>2. (at + Len(f)) - 1 = q + Len(f)
      BY <2>1, <3>1
    <3>3. d.n = Len(f)
      BY <1>18
    <3>4. QED BY <3>2, <3>3
  <2>3. QED BY <1>7, <1>20, <2>2
<1>26. QED BY <1>18, <1>24, <1>25 DEF z, e, b, m

\* The end of the object is the end of the literal.
LEMMA ShowDone ==
  ASSUME CodecTyped, ShownSoFar, ObjectKept, ~More, Showing,
         object \in Seq(Unit), Literally \in Seq(Byte)
  PROVE  out = Literally
<1>1. Len(Literally) \in Nat /\ Len(object) \in Nat
  BY SMT
<1>2. Common(Literally, Len(Literally), object, <<Len(out), at - 1>>)
  BY DEF Showing
<1>3. at - 1 \in 0 .. Len(object)
  BY <1>1, <1>2, CommonNext
<1>4. at - 1 = Len(object)
  BY <1>3, ShowMoreIs
<1>5. Len(out) = Len(Literally)
  BY <1>1, <1>2, <1>4, CommonNext
<1>6. out = SubSeq(Literally, 1, Len(Literally))
  BY <1>5 DEF Showing
<1>7. QED BY <1>1, <1>6, SMT
-----------------------------------------------------------------------------
(***************************************************************************)
(* The steps.                                                              *)
(***************************************************************************)

\* The invariant of TextInvariant is what is to be known of the lexer, of the
\* codec and of the stages each, and of the text of the literal.
Base == LexInv /\ CodecInv /\ StagesTyped

LEMMA InvariantParts == IInv <=> Base /\ Busy /\ TextKept
BY DEF IInv, Base, LexInv, CodecInv, TokensFollowText

\* The invariant holds at the start.
LEMMA Start ==
  ASSUME Init
  PROVE  IInv
<1>1. LexInv
  BY LexStart DEF Init
<1>2. /\ pass = "idle" /\ to = 8 /\ input = <<>> /\ len = -1
      /\ at = 1 /\ size = 0 /\ out = <<>>
  BY DEF Init, CodecInit
<1>3. token = 0 /\ object = <<>> /\ stage = "lex"
  BY DEF Init
<1>4. CodecTyped /\ SameWay
  BY <1>2, SMT DEF CodecTyped, SameWay
<1>5. StagesTyped
  <2>1. Len(tokens) \in Nat
    BY <1>1 DEF LexInv, LexerTyped
  <2>2. QED BY <1>3, <2>1, SMT DEF StagesTyped
<1>6. Busy /\ TextKept
  BY <1>2, <1>3, Zenon DEF Busy, TextKept, LiteralsKept
<1>7. QED BY <1>1, <1>4, <1>5, <1>6, InvariantParts DEF Base, CodecInv

\* A step that leaves the tokens alone.
LEMMA StagesStay ==
  ASSUME Base, UNCHANGED lexerVars, token' \in DOMAIN tokens \/ token' = token, object' \in Seq(Unit),
         stage' \in {"read", "object", "show", "shown", "invalid_character_literal", "logic_error"}
           \/ (token' = token /\ stage' = stage)
  PROVE  StagesTyped'
<1>1. tokens' = tokens
  BY DEF lexerVars
<1>2. StagesTyped /\ tokens \in Seq(Token)
  BY DEF Base, LexInv, LexerTyped
<1>3. token' \in 0 .. Len(tokens')
  BY <1>1, <1>2, SMT DEF StagesTyped
<1>4. QED BY <1>2, <1>3 DEF StagesTyped

LEMMA CodecStep ==
  ASSUME CodecInv, CodecNext
  PROVE  CodecInv'
<1>1. CASE Count
  BY <1>1, CountStep
<1>2. CASE Allocate
  BY <1>2, AllocateStep
<1>3. CASE Write
  BY <1>3, WriteStep
<1>4. CASE Terminate
  BY <1>4, TerminateStep
<1>5. QED BY <1>1, <1>2, <1>3, <1>4 DEF CodecNext

\* The parts hold after every step.
LEMMA BaseStep ==
  ASSUME Base, [Next]_vars
  PROVE  Base'
<1>1. LexInv /\ CodecInv /\ StagesTyped /\ CodecTyped /\ tokens \in Seq(Token) /\ object \in Seq(Unit)
  BY DEF Base, CodecInv, LexInv, LexerTyped, StagesTyped
<1>2. CASE Lex
  <2>1. LexNext /\ stage = "lex" /\ UNCHANGED codecVars
        /\ token' = token /\ object' = object /\ stage' = stage
    BY <1>2 DEF Lex
  <2>2. LexInv'
    BY <1>1, <2>1, LexStep
  <2>3. CodecInv'
    BY <1>1, <2>1, CodecStays
  <2>4. StagesTyped'
    <3>1. tokens' \in Seq(Token)
      BY <2>2 DEF LexInv, LexerTyped
    <3>2. Len(tokens') \in Nat
      BY <3>1, SMT
    <3>3. token' = 0
      BY <1>1, <2>1 DEF StagesTyped
    <3>4. QED BY <1>1, <2>1, <3>2, <3>3, SMT DEF StagesTyped
  <2>5. QED BY <2>2, <2>3, <2>4 DEF Base
<1>3. ASSUME UNCHANGED lexerVars, CodecInv', StagesTyped' PROVE Base'
  <2>1. LexInv'
    BY <1>1, <1>3, LexerStays
  <2>2. QED BY <1>3, <2>1 DEF Base
<1>4. CASE ReadLiteral
  <2>1. PICK i \in DOMAIN tokens :
          /\ token' = i
          /\ Convert(16, Bytes(tokens[i]), Len(tokens[i].text), FALSE)
    BY <1>4 DEF ReadLiteral
  <2>2. stage' = "read" /\ UNCHANGED lexerVars /\ object' = object
    BY <1>4 DEF ReadLiteral
  <2>3. tokens[i] \in Token
    BY <1>1, SMT
  <2> DEFINE s == Bytes(tokens[i])
             n == Len(tokens[i].text)
  <2>4. s \in Seq(Unit) /\ n = Len(s)
    <3>1. s \in Seq(Byte) /\ n = Len(s)
      BY <2>3, BytesFacts
    <3>2. QED BY <3>1, BytesAreUnits, SMT
  <2>5. Convert(16, s, n, FALSE)
    BY <2>1
  <2> HIDE DEF s, n
  <2>6. 16 \in {8, 16} /\ n \in {-1, Len(s)} /\ FALSE \in BOOLEAN
    BY <2>4
  <2>7. CodecInv'
    BY <2>4, <2>5, <2>6, ConvertStep
  <2>8. StagesTyped'
    BY <1>1, <2>1, <2>2, StagesStay
  <2>9. QED BY <1>3, <2>2, <2>7, <2>8
<1>5. CASE Codec
  <2>1. CodecNext /\ UNCHANGED lexerVars /\ token' = token /\ object' = object /\ stage' = stage
    BY <1>5 DEF Codec
  <2>2. CodecInv'
    BY <1>1, <2>1, CodecStep
  <2>3. StagesTyped'
    BY <1>1, <2>1, StagesStay
  <2>4. QED BY <1>3, <2>1, <2>2, <2>3
<1>6. CASE MakeChar \/ MakeString
  <2>1. /\ UNCHANGED lexerVars /\ UNCHANGED codecVars /\ token' = token
        /\ object' = UpToNul(out) /\ stage' \in {"object", "invalid_character_literal"}
    BY <1>6 DEF MakeChar, MakeString
  <2>2. object' \in Seq(Unit)
    BY <1>1, <2>1, OutIsUnits, UpToNulIs
  <2>3. CodecInv'
    BY <1>1, <2>1, CodecStays
  <2>4. StagesTyped'
    BY <2>1, <2>2, StagesStay
  <2>5. QED BY <1>3, <2>1, <2>3, <2>4
<1>7. CASE ShowObject
  <2>1. UNCHANGED lexerVars /\ token' = token /\ object' = object /\ stage' = "show"
    BY <1>7 DEF ShowObject
  <2>2. \/ Convert(8, Append(object, 0), -1, FALSE)
        \/ Convert(8, object, Len(object), object = <<>>)
    BY <1>7 DEF ShowObject
  <2>3. CodecInv'
    <3>1. 8 \in {8, 16} /\ FALSE \in BOOLEAN /\ (object = <<>>) \in BOOLEAN
      OBVIOUS
    <3>2. CASE Convert(8, Append(object, 0), -1, FALSE)
      <4> DEFINE s == Append(object, 0)
      <4>1. s \in Seq(Unit)
        <5>1. 0 \in Unit
          BY UnitIs, SMT
        <5>2. QED BY <1>1, <5>1, SMT
      <4>2. Convert(8, s, -1, FALSE)
        BY <3>2
      <4> HIDE DEF s
      <4>3. -1 \in {-1, Len(s)}
        OBVIOUS
      <4>4. QED BY <3>1, <4>1, <4>2, <4>3, ConvertStep
    <3>3. CASE Convert(8, object, Len(object), object = <<>>)
      <4>1. Len(object) \in {-1, Len(object)}
        OBVIOUS
      <4>2. QED BY <1>1, <3>1, <3>3, <4>1, ConvertStep
    <3>4. QED BY <2>2, <3>2, <3>3
  <2>4. StagesTyped'
    BY <1>1, <2>1, StagesStay
  <2>5. QED BY <1>3, <2>1, <2>3, <2>4
<1>8. CASE Shown
  <2>1. /\ UNCHANGED lexerVars /\ UNCHANGED codecVars /\ token' = token /\ object' = object
        /\ stage' \in {"logic_error", "shown"}
    BY <1>8 DEF Shown
  <2>2. CodecInv'
    BY <1>1, <2>1, CodecStays
  <2>3. StagesTyped'
    BY <1>1, <2>1, StagesStay
  <2>4. QED BY <1>3, <2>1, <2>2, <2>3
<1>9. CASE UNCHANGED vars
  <2>1. /\ UNCHANGED lexerVars /\ UNCHANGED codecVars /\ token' = token /\ object' = object
        /\ stage' = stage
    BY <1>9 DEF vars, lexerVars, codecVars
  <2>2. CodecInv'
    BY <1>1, <2>1, CodecStays
  <2>3. StagesTyped'
    BY <1>1, <2>1, StagesStay
  <2>4. QED BY <1>3, <2>1, <2>2, <2>3
<1>10. QED BY <1>2, <1>4, <1>5, <1>6, <1>7, <1>8, <1>9 DEF Next

\* What is known of the literal that is converted.
LEMMA Context ==
  ASSUME Base, Busy, stage # "lex"
  PROVE  /\ CodecTyped /\ SameWay /\ object \in Seq(Unit) /\ Len(object) \in Nat
         /\ token # 0 /\ Literally \in Seq(Byte) /\ Len(Literally) \in Nat
<1>1. CodecTyped /\ SameWay /\ object \in Seq(Unit) /\ tokens \in Seq(Token)
      /\ token \in 0 .. Len(tokens)
  BY DEF Base, CodecInv, LexInv, LexerTyped, StagesTyped
<1>2. token # 0
  BY DEF Busy
<1>3. Len(object) \in Nat
  BY <1>1, SMT
<1>4. QED BY <1>1, <1>2, <1>3, LiteralFacts

\* The literal stays.
LEMMA LiteralStays ==
  ASSUME UNCHANGED lexerVars, token' = token
  PROVE  Literally' = Literally /\ (Regular' <=> Regular)
<1>1. tokens' = tokens
  BY DEF lexerVars
<1>2. Literally' = Literally
  BY <1>1 DEF Literally
<1>3. QED BY <1>2 DEF Regular

LEMMA ObjectStays ==
  ASSUME UNCHANGED lexerVars, token' = token, object' = object, ObjectKept
  PROVE  ObjectKept'
<1>1. Literally' = Literally /\ (Regular' <=> Regular)
  BY LiteralStays
<1>2. QED BY <1>1 DEF ObjectKept

\* lex() has nothing to do with conversions.
LEMMA LexKept ==
  ASSUME Busy, Lex
  PROVE  Busy' /\ TextKept'
<1>1. stage = "lex" /\ stage' = stage /\ pass' = pass
  BY DEF Lex, codecVars
<1>2. QED BY <1>1, Zenon DEF Busy, TextKept, LiteralsKept

\* The conversion of a literal begins.
LEMMA ReadLiteralKept ==
  ASSUME Base, ReadLiteral
  PROVE  Busy' /\ TextKept'
<1>1. PICK i \in DOMAIN tokens :
        /\ token' = i
        /\ Convert(16, Bytes(tokens[i]), Len(tokens[i].text), FALSE)
  BY DEF ReadLiteral
<1>2. stage' = "read" /\ tokens' = tokens
  BY DEF ReadLiteral, lexerVars
<1>3. tokens \in Seq(Token)
  BY DEF Base, LexInv, LexerTyped
<1>4. tokens[i] \in Token /\ i # 0
  BY <1>3, SMT
<1>5. Literally' = Bytes(tokens[i])
  BY <1>1, <1>2 DEF Literally
<1>6. pass' = "size" /\ to' = 16 /\ input' = Bytes(tokens[i]) /\ len' = Len(tokens[i].text)
  BY <1>1 DEF Convert
<1>7. len' = Len(input')
  BY <1>4, <1>6, BytesFacts
<1>8. ReadSoFar'
  BY <1>5, <1>6, <1>7 DEF ReadSoFar
<1>9. Busy'
  BY <1>1, <1>2, <1>4 DEF Busy
<1>10. QED BY <1>2, <1>8, <1>9, Zenon DEF TextKept, LiteralsKept

\* A step of the conversion of the literal.
LEMMA ReadSoFarStays ==
  ASSUME Base, Busy, stage = "read", ReadSoFar, CodecNext, UNCHANGED lexerVars, token' = token
  PROVE  ReadSoFar'
<1>1. /\ CodecTyped /\ SameWay /\ Literally \in Seq(Byte) /\ Len(Literally) \in Nat
      /\ Literally' = Literally
  BY Context, LiteralStays
<1>2. /\ pass \in {"size", "write", "done"} /\ to = 16 /\ input = Literally /\ len = Len(input)
      /\ pass # "size" => at <= len + 1
  BY DEF ReadSoFar
<1>3. at \in Nat /\ len \in Nat /\ input \in Seq(Byte) /\ Len(input) = len
  BY <1>1, <1>2, Typed
<1>4. CASE Count
  <2>1. pass = "size" /\ pass' = pass /\ to' = to /\ input' = input /\ len' = len
    BY <1>4 DEF Count
  <2>2. QED BY <1>1, <1>2, <2>1 DEF ReadSoFar
<1>5. CASE Allocate
  <2>1. /\ pass = "size" /\ pass' = "write" /\ at' = 1 /\ to' = to /\ input' = input /\ len' = len
        /\ out' = out
    BY <1>5 DEF Allocate
  <2>2. out = <<>>
    <3>1. ~OpenEnded
      BY <1>2 DEF OpenEnded
    <3>2. QED BY <1>1, <2>1, <3>1 DEF SameWay
  <2>3. 1 <= len + 1 /\ 1 - 1 = 0
    BY <1>3, SMT
  <2>4. NoNul(<<>>)
    BY SMT DEF NoNul
  <2>5. WellFormed(input) => FormedFrom(input, 1) /\ Common(input, 1 - 1, <<>>, <<0, 0>>)
    BY <1>3, <2>3, FormedAll, CommonStart
  <2>6. QED BY <1>1, <1>2, <2>1, <2>2, <2>3, <2>4, <2>5 DEF ReadSoFar
<1>6. CASE Write
  <2>1. pass = "write" /\ More /\ pass' = pass /\ to' = to /\ input' = input /\ len' = len
    BY <1>6 DEF Write
  <2>2. PICK d \in Found : out' = out \o Utf16Encode(d.cp) /\ at' = at + d.n
    BY <1>2, <1>6 DEF Write
  <2> DEFINE z == out \o Utf16Encode(d.cp)
             next == at + d.n
  <2>3. /\ next \in Nat /\ next # 1 /\ next <= Len(input) + 1
        /\ z # <<>> /\ (z[1] = 0 <=> input[1] = 0)
        /\ NoNul(input) => NoNul(z)
        /\ WellFormed(input) => FormedFrom(input, next) /\ Common(input, next - 1, z, <<0, 0>>)
    BY <1>1, <1>3, <2>1, ReadMore
  <2>4. out' = z /\ at' = next
    BY <2>2
  <2> HIDE DEF z, next
  <2>5. QED BY <1>1, <1>2, <2>1, <2>3, <2>4 DEF ReadSoFar
<1>7. CASE Terminate
  <2>1. /\ pass = "write" /\ ~More /\ pass' = "done" /\ to' = to /\ input' = input /\ len' = len
        /\ at' = at /\ out' = out
    BY <1>7 DEF Terminate
  <2>2. at = len + 1
    <3>1. ~(at <= len)
      BY <1>3, <2>1, SMT DEF More
    <3>2. at <= len + 1
      BY <1>2, <2>1
    <3>3. QED BY <1>3, <3>1, <3>2, SMT
  <2>3. QED BY <1>1, <1>2, <2>1, <2>2 DEF ReadSoFar
<1>8. QED BY <1>4, <1>5, <1>6, <1>7 DEF CodecNext

\* A step of the conversion of the object.
LEMMA ShownSoFarStays ==
  ASSUME Base, Busy, stage = "show", ObjectKept, ShownSoFar, CodecNext, UNCHANGED lexerVars,
         token' = token, object' = object
  PROVE  ShownSoFar'
<1>1. /\ CodecTyped /\ SameWay /\ Literally \in Seq(Byte) /\ object \in Seq(Unit)
      /\ Literally' = Literally /\ (Regular' <=> Regular)
  BY Context, LiteralStays
<1> DEFINE Whole(i, l) == (i = Append(object, 0) /\ l = -1) \/ (i = object /\ l = Len(object))
<1>2. /\ pass \in {"size", "write", "done", "null"} /\ to = 8
      /\ Whole(input, len)
      /\ pass = "size" => out = <<>>
      /\ pass = "write" /\ Regular => Showing
  BY DEF ShownSoFar
<1>3. ASSUME to' = to, input' = input, len' = len, pass' \in {"size", "write", "done"},
             pass' = "size" => out' = <<>>,
             pass' = "write" /\ Regular => Showing',
             pass' = "done" /\ Regular => out' = Literally
      PROVE  ShownSoFar'
  <2>1. (input' = Append(object', 0) /\ len' = -1) \/ (input' = object' /\ len' = Len(object'))
    BY <1>2, <1>3
  <2>2. pass' # "null" /\ pass' \in {"size", "write", "done", "null"} /\ to' = 8
    BY <1>2, <1>3
  <2>3. QED BY <1>1, <1>3, <2>1, <2>2 DEF ShownSoFar
<1> HIDE DEF Whole
<1>4. CASE Count
  <2>1. pass = "size" /\ pass' = pass /\ to' = to /\ input' = input /\ len' = len /\ out' = out
    BY <1>4 DEF Count
  <2>2. QED BY <1>2, <1>3, <2>1
<1>5. CASE Allocate
  <2>1. /\ pass = "size" /\ pass' = "write" /\ at' = 1 /\ to' = to /\ input' = input /\ len' = len
        /\ out' = out
    BY <1>5 DEF Allocate
  <2>2. ASSUME Regular PROVE Showing'
    <3>1. Common(Literally, Len(Literally), object, <<0, 0>>)
      BY <2>2 DEF ObjectKept
    <3>2. out' = <<>> /\ Len(<<>>) = 0 /\ 1 - 1 = 0
      BY <1>2, <2>1
    <3>3. SubSeq(Literally, 1, 0) = <<>>
      BY <1>1, SMT
    <3>4. QED BY <1>1, <2>1, <3>1, <3>2, <3>3 DEF Showing
  <2>3. QED BY <1>3, <2>1, <2>2
<1>6. CASE Write
  <2>1. pass = "write" /\ More /\ pass' = pass /\ to' = to /\ input' = input /\ len' = len
    BY <1>6 DEF Write
  <2>2. PICK d \in Found : out' = out \o Utf8Encode(d.cp) /\ at' = at + d.n
    BY <1>2, <1>6 DEF Write
  <2>3. ASSUME Regular PROVE Showing'
    <3> DEFINE z == out \o Utf8Encode(d.cp)
               next == at + d.n
    <3>1. Showing
      BY <1>2, <2>1, <2>3
    <3>2. /\ Common(Literally, Len(Literally), object, <<Len(z), next - 1>>)
          /\ z = SubSeq(Literally, 1, Len(z))
      BY <1>1, <2>1, <3>1, ShowMore
    <3>3. out' = z /\ at' = next
      BY <2>2
    <3> HIDE DEF z, next
    <3>4. QED BY <1>1, <3>2, <3>3 DEF Showing
  <2>4. QED BY <1>3, <2>1, <2>3
<1>7. CASE Terminate
  <2>1. /\ pass = "write" /\ ~More /\ pass' = "done" /\ to' = to /\ input' = input /\ len' = len
        /\ out' = out
    BY <1>7 DEF Terminate
  <2>2. Regular => out' = Literally
    BY <1>1, <1>2, <2>1, ShowDone
  <2>3. QED BY <1>3, <2>1, <2>2
<1>8. QED BY <1>4, <1>5, <1>6, <1>7 DEF CodecNext

\* A step of a conversion.
LEMMA CodecKept ==
  ASSUME Base, Busy, TextKept, Codec
  PROVE  Busy' /\ TextKept'
<1>1. CodecNext /\ UNCHANGED lexerVars /\ token' = token /\ object' = object /\ stage' = stage
  BY DEF Codec
<1>2. pass \in {"size", "write"}
  BY <1>1 DEF CodecNext, Count, Allocate, Write, Terminate
<1>3. stage \in {"read", "show"}
  BY <1>2 DEF Busy
<1>4. Busy'
  BY <1>1, <1>3 DEF Busy
<1>5. CASE stage = "read"
  <2>1. ReadSoFar'
    BY <1>1, <1>5, ReadSoFarStays DEF TextKept
  <2>2. QED BY <1>1, <1>4, <1>5, <2>1, Zenon DEF TextKept, LiteralsKept
<1>6. CASE stage = "show"
  <2>1. ObjectKept /\ ShownSoFar
    BY <1>6 DEF TextKept
  <2>2. ObjectKept' /\ ShownSoFar'
    BY <1>1, <1>6, <2>1, ObjectStays, ShownSoFarStays
  <2>3. QED BY <1>1, <1>4, <1>6, <2>2, Zenon DEF TextKept, LiteralsKept
<1>7. QED BY <1>3, <1>5, <1>6

\* ps_factor makes an object of what has been written.
LEMMA MakeKept ==
  ASSUME Base, Busy, TextKept, MakeChar \/ MakeString
  PROVE  Busy' /\ TextKept'
<1>1. /\ stage = "read" /\ pass = "done" /\ UNCHANGED lexerVars /\ pass' = pass /\ token' = token
      /\ object' = UpToNul(out)
      /\ stage' = "object" \/ (stage' = "invalid_character_literal" /\ Len(object') # 1)
  BY DEF MakeChar, MakeString, codecVars
<1>2. CodecTyped /\ Literally \in Seq(Byte) /\ token # 0
  BY <1>1, Context
<1>3. ReadSoFar
  BY <1>1 DEF TextKept
<1> DEFINE o == UpToNul(out)
           b == Literally
<1>4. /\ NoNul(o)
      /\ o = <<>> => UpToNul(b) = <<>>
      /\ WellFormed(b) /\ NoNul(b) => Common(b, Len(b), o, <<0, 0>>)
      /\ Len(o) # 1 => \/ UpToNul(b) = <<>>
                       \/ ~WellFormed(b)
                       \/ Len(UpToNul(b)) > 1 + Len(Demands(b[1])) \/ b[1] >= 240
  BY <1>1, <1>2, <1>3, ReadDone
<1>5. object' = o /\ Literally' = b /\ (Regular' <=> WellFormed(b) /\ NoNul(b))
  BY <1>1, LiteralStays DEF Regular
<1> HIDE DEF o, b
<1>6. Busy'
  BY <1>1, <1>2 DEF Busy
<1>7. ObjectKept'
  BY <1>4, <1>5 DEF ObjectKept
<1>8. LiteralsKept'
  <2>1. Bytes(tokens[token])' = b
    BY <1>5 DEF Literally
  <2>2. QED BY <1>1, <1>4, <1>5, <2>1 DEF LiteralsKept
<1>9. stage' \notin {"read", "show"}
  BY <1>1
<1>10. QED BY <1>6, <1>7, <1>8, <1>9, Zenon DEF TextKept

\* The conversion of an object begins.
LEMMA ShowObjectKept ==
  ASSUME Base, Busy, TextKept, ShowObject
  PROVE  Busy' /\ TextKept'
<1>1. stage = "object" /\ stage' = "show" /\ UNCHANGED lexerVars /\ token' = token /\ object' = object
  BY DEF ShowObject
<1>2. token # 0 /\ ObjectKept
  BY <1>1, Context DEF TextKept
<1>3. ObjectKept'
  BY <1>1, <1>2, ObjectStays
<1>4. \/ Convert(8, Append(object, 0), -1, FALSE)
      \/ Convert(8, object, Len(object), object = <<>>)
  BY DEF ShowObject
<1>5. /\ pass' = "size" \/ (pass' = "null" /\ object = <<>>)
      /\ to' = 8 /\ out' = <<>>
      /\ (input' = Append(object, 0) /\ len' = -1) \/ (input' = object /\ len' = Len(object))
  BY <1>4 DEF Convert
<1>6. ShownSoFar'
  BY <1>1, <1>5 DEF ShownSoFar
<1>7. Busy'
  BY <1>1, <1>2 DEF Busy
<1>8. QED BY <1>1, <1>3, <1>6, <1>7, Zenon DEF TextKept, LiteralsKept

\* The result is shown, or there is none.
LEMMA ShownKept ==
  ASSUME Base, Busy, TextKept, Shown
  PROVE  Busy' /\ TextKept'
<1>1. /\ stage = "show" /\ pass \in {"done", "null"} /\ UNCHANGED lexerVars /\ pass' = pass
      /\ out' = out /\ token' = token
      /\ stage' = IF pass = "null" THEN "logic_error" ELSE "shown"
  BY DEF Shown, codecVars
<1>2. token # 0 /\ ObjectKept /\ ShownSoFar
  BY <1>1, Context DEF TextKept
<1> DEFINE b == Literally
<1>3. stage' = "logic_error" => UpToNul(b) = <<>>
  BY <1>1, <1>2 DEF ShownSoFar, ObjectKept
<1>4. stage' = "shown" /\ WellFormed(b) /\ NoNul(b) => out' = b
  BY <1>1, <1>2 DEF ShownSoFar, Regular
<1>5. 0 \notin {b[i] : i \in DOMAIN b} => NoNul(b)
  BY DEF NoNul
<1>6. Bytes(tokens[token])' = b
  BY <1>1, LiteralStays DEF Literally
<1> HIDE DEF b
<1>7. LiteralsKept'
  <2>1. stage' # "invalid_character_literal"
    BY <1>1
  <2>2. QED BY <1>3, <1>4, <1>5, <1>6, <2>1 DEF LiteralsKept
<1>8. stage' \notin {"lex", "read", "object", "show"}
  BY <1>1
<1>9. Busy'
  BY <1>1, <1>2 DEF Busy
<1>10. QED BY <1>7, <1>8, <1>9, Zenon DEF TextKept

\* Nothing changes.
LEMMA StutterKept ==
  ASSUME Busy, TextKept, UNCHANGED vars
  PROVE  Busy' /\ TextKept'
<1>1. /\ pass' = pass /\ to' = to /\ input' = input /\ len' = len /\ at' = at /\ out' = out
      /\ tokens' = tokens /\ token' = token /\ object' = object /\ stage' = stage
      /\ UNCHANGED lexerVars
  BY DEF vars, lexerVars
<1>2. Literally' = Literally /\ (Regular' <=> Regular)
  BY <1>1, LiteralStays
<1>3. Busy'
  BY <1>1 DEF Busy
<1>4. ObjectKept' <=> ObjectKept
  BY <1>1, <1>2 DEF ObjectKept
<1>5. ReadSoFar' <=> ReadSoFar
  BY <1>1, <1>2 DEF ReadSoFar
<1>6. ShownSoFar' <=> ShownSoFar
  BY <1>1, <1>2 DEF ShownSoFar, Showing
<1>7. LiteralsKept' <=> LiteralsKept
  BY <1>1 DEF LiteralsKept
<1>8. QED BY <1>1, <1>3, <1>4, <1>5, <1>6, <1>7 DEF TextKept

\* The invariant holds after every step.
LEMMA Step ==
  ASSUME IInv, [Next]_vars
  PROVE  IInv'
<1>1. Base /\ Busy /\ TextKept
  BY InvariantParts
<1>2. Base'
  BY <1>1, BaseStep
<1>3. Busy' /\ TextKept'
  BY <1>1, LexKept, ReadLiteralKept, CodecKept, MakeKept, ShowObjectKept, ShownKept, StutterKept
     DEF Next
<1>4. (Base /\ Busy /\ TextKept => IInv)'
  BY InvariantParts, PTL
<1>5. QED BY <1>2, <1>3, <1>4

-----------------------------------------------------------------------------
(***************************************************************************)
(* The theorems.                                                           *)
(***************************************************************************)

\* The invariant of module TextInvariant is one: of lex() and of both passes of
\* a conversion.
THEOREM Invariant == Spec => []IInv
BY Start, Step, PTL DEF Spec

\* Everything has its type, and the tokens lie in the text that lex() has read.
THEOREM TypeCorrect == Spec => []TypeOK
<1>1. IInv => TypeOK
  <2> SUFFICES ASSUME IInv PROVE TypeOK
    OBVIOUS
  <2>1. /\ pos \in 1 .. Len(src) + 1
        /\ \A i \in DOMAIN tokens : tokens[i].pos <= tokens[i].end /\ tokens[i].end <= pos
    BY DEF IInv, LexerTyped, TokensInText
  <2>2. lexed \in {"", "tokens", "invalid_token", "4545", "exit"}
    BY Zenon DEF IInv, Outcomes
  <2>3. \A i \in DOMAIN tokens : tokens[i].kind \in Kinds
    <3>1. tokens \in Seq(Token)
      BY DEF IInv, LexerTyped
    <3>2. \A t \in Token : t.kind \in Kinds
      BY DEF Token
    <3>3. \A i \in DOMAIN tokens : tokens[i] \in Token
      BY <3>1
    <3>4. QED BY <3>2, <3>3
  <2>4. /\ pass \in {"idle", "size", "write", "done", "null"}
        /\ input \in Seq(Unit) /\ out \in Seq(IF to = 8 THEN Byte ELSE Unit)
    BY DEF IInv, CodecTyped
  <2>5. /\ token \in 0 .. Len(tokens)
        /\ stage \in {"lex", "read", "object", "show", "shown", "invalid_character_literal", "logic_error"}
    BY DEF IInv, StagesTyped
  <2>6. QED BY <2>1, <2>2, <2>3, <2>4, <2>5, Zenon DEF TypeOK, Kinds
<1>2. QED BY <1>1, Invariant, PTL

\* The tokens of lex() are the text, less spaces and comments, each with its place.
THEOREM TokensFollow == Spec => []TokensFollowText
<1>1. IInv => TokensFollowText
  BY DEF IInv
<1>2. QED BY <1>1, Invariant, PTL

\* find_punct takes the longest operator that the text begins with.
THEOREM LongestMatch == Spec => []LongestPunctuators
<1>1. IInv => LongestPunctuators
  BY DEF IInv
<1>2. QED BY <1>1, Invariant, PTL

\* Both passes of a conversion (strconv.cpp) agree: what is written fits the
\* buffer that was allocated, and fills it.
THEOREM CountedAndWritten == Spec => []WritesWhatItCounted
<1>1. IInv => WritesWhatItCounted
  <2> SUFFICES ASSUME IInv, pass \in {"write", "done"}, ~OpenEnded
               PROVE  Len(out) <= size /\ (pass = "done" => Len(out) = size)
    BY DEF WritesWhatItCounted, OpenEnded
  <2>1. CodecTyped /\ SameWay
    BY DEF IInv
  <2>2. /\ at \in Nat /\ at # 0 /\ Len(input) \in Nat /\ Len(out) \in Nat /\ size \in Nat
    BY <2>1, Typed, MoreFacts
  <2>3. CASE pass = "done"
    <3>1. Len(out) = size
      BY <2>1, <2>3 DEF SameWay
    <3>2. QED BY <2>2, <2>3, <3>1, SMT
  <2>4. CASE pass = "write"
    <3>1. at <= Len(input) + 1 /\ Len(out) + Rest(at) = size
      BY <2>1, <2>4 DEF SameWay
    <3>2. at \in 1 .. Len(input) + 1
      BY <2>2, <3>1, SMT
    <3>3. Rest(at) \in Nat
      BY <2>1, <3>2, RestFacts
    <3>4. QED BY <2>2, <2>4, <3>1, <3>3, SMT
  <2>5. QED BY <2>3, <2>4
<1>2. QED BY <1>1, Invariant, PTL

\* A literal of well-formed UTF-8 without a NUL that becomes an object
\* (ps_factor) and is shown (Object::to_string) is what was written; it is
\* refused, or fails, only where LiteralsKept says so.
THEOREM LiteralsAreKept == Spec => []LiteralsKept
<1>1. IInv => LiteralsKept
  BY DEF IInv, TextKept
<1>2. QED BY <1>1, Invariant, PTL
=============================================================================
