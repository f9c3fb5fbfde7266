----------------------------- MODULE ParserProofs -----------------------------
(***************************************************************************)
(* The parser never leaves the tokens, the type invariant of module        *)
(* Parser, and closes the brackets it opens, OnlyLastClassUnclosed: for    *)
(* every program and every table of tokens.                                *)
(*                                                                         *)
(* What an instruction may do to the cursor is the relation <<x, n, m>>:   *)
(* instruction x, begun with n tokens reached at least, makes nodes of     *)
(* tokens read only, never passes the end marker, and leaves at least m    *)
(* tokens reached.  As the instructions are nested to any depth, such a    *)
(* relation is not computed: there is one that explains itself.            *)
(***************************************************************************)
EXTENDS ParserProperties, ListProofs, FiniteSetTheorems, SequenceTheorems

IsSeq(s) == s \in Seq({s[i] : i \in DOMAIN s})

NoTry(s) == \A i \in DOMAIN s : s[i].do # "try"

\* Relation W says at least that x leads from n to m.
Has(W, x, n, m) == \E j, k \in Nat : <<x, j, k>> \in W /\ j <= n /\ m <= k

\* By W, instructions s lead from n to m, one after the other.
Chain(W, s, n, m) ==
  /\ IsSeq(s)
  /\ \E b \in [1 .. Len(s) + 1 -> Nat] :
       /\ b[1] <= n /\ m <= b[Len(s) + 1]
       /\ \A i \in 1 .. Len(s) : Has(W, s[i], b[i], b[i + 1])

Inner(W, s, n, m) == NoTry(s) /\ Chain(W, s, n, m)

\* The rules that begin at the current token, and those that go on with what
\* began at an earlier one.
FreshRules ==
  {"symbol", "typename_symbol", "type_name", "factor", "subscript", "unary", "let",
   "let_in_condition", "stmt", "scope", "statements", "function", "method", "class",
   "members", "members_after_new", "enum", "namespace", "namespace_items", "mod_item",
   "mod_items"}
LoopRules == {"postfix", "assign", "catches"}

\* How many tokens rule r reads at least.
Least(r) == IF r \in LoopRules \cup {"members", "members_after_new", "mod_items"} THEN 0 ELSE 1

\* Instruction x without instructions inside leads from n to m.
Simple(x, n, m) ==
  \/ x.do = "expect" /\ x.text # Eof /\ m <= n + 1
  \/ x.do \in {"ident", "int", "literal"} /\ m <= n + 1
  \/ x.do = "rule" /\ x.rule \in FreshRules /\ x.first = 0 /\ m <= n + Least(x.rule)
  \/ x.do = "rule" /\ x.rule \in LoopRules /\ x.first \in 1 .. n /\ m <= n
                   /\ (x.rule = "catches" => x.first < n)
  \/ x.do = "level" /\ x.level \in DOMAIN Levels /\ m <= n + 1
  \/ x.do = "loop" /\ x.level \in DOMAIN Levels /\ x.first \in 1 .. n /\ m <= n
  \/ x.do = "fields" /\ m <= n
  \/ x.do = "try" /\ x.save \in Nat /\ m <= x.save /\ m <= n
  \/ x.do = "close" /\ x.first \in 1 .. n /\ m <= n
  \/ x.do = "make" /\ x.first \in 1 .. n - 1 /\ x.op \in {0} \cup (x.first .. n - 1) /\ m <= n
  \/ x.do = "throw" /\ x.error \in Outcomes
  \/ x.do = "exit"

\* x leads from n to m if its insides do what W says.
Fits(W, x, n, m) ==
  \/ Simple(x, n, m)
  \/ /\ x.do = "eat" /\ Eof \notin DOMAIN x.table
     /\ \A t \in DOMAIN x.table : Inner(W, x.table[t], n + 1, m)
     /\ Inner(W, x.no, n, m)
  \/ /\ x.do = "look"
     /\ \A t \in DOMAIN x.table : Inner(W, x.table[t], n, m)
     /\ Inner(W, x.no, n, m)
  \/ x.do \in {"list", "attempt"} /\ Inner(W, x.body, n, n) /\ m <= n

Sound(W) == \A x : \A n, m \in Nat : <<x, n, m>> \in W => Fits(W, x, n, m)

Proceeds(s, n, m) == \E W : Sound(W) /\ Chain(W, s, n, m)
Runs(s, n, m)     == \E W : Sound(W) /\ Inner(W, s, n, m)
-----------------------------------------------------------------------------
(* Sequences of instructions.                                              *)

LEMMA IsSeqOf == ASSUME NEW S, NEW s \in Seq(S) PROVE IsSeq(s) /\ DOMAIN s = 1 .. Len(s) /\ Len(s) \in Nat
  BY DEF IsSeq

LEMMA SeqFacts == ASSUME NEW s, IsSeq(s) PROVE DOMAIN s = 1 .. Len(s) /\ Len(s) \in Nat
  BY DEF IsSeq

LEMMA OneFacts == ASSUME NEW x PROVE IsSeq(<<x>>) /\ Len(<<x>>) = 1 /\ <<x>>[1] = x
  BY DEF IsSeq

LEMMA JoinIsSeq ==
  ASSUME NEW s, NEW t, IsSeq(s), IsSeq(t)
  PROVE  /\ IsSeq(s \o t) /\ Len(s \o t) = Len(s) + Len(t)
         /\ \A i \in 1 .. Len(s) : (s \o t)[i] = s[i]
         /\ \A i \in 1 .. Len(t) : (s \o t)[Len(s) + i] = t[i]
         /\ \A i \in Len(s) + 1 .. Len(s) + Len(t) : (s \o t)[i] = t[i - Len(s)]
<1> DEFINE S == {s[i] : i \in DOMAIN s} \cup {t[i] : i \in DOMAIN t}
<1>1. s \in Seq(S) /\ t \in Seq(S)
  BY DEF IsSeq
<1> HIDE DEF S
<1>2. s \o t \in Seq(S)
  BY <1>1
<1>3. IsSeq(s \o t)
  BY <1>2, IsSeqOf
<1>4. QED BY <1>1, <1>3

LEMMA RestIsSeq ==
  ASSUME NEW s, IsSeq(s), NEW i \in 1 .. Len(s)
  PROVE  /\ IsSeq(SubSeq(s, i + 1, Len(s))) /\ Len(SubSeq(s, i + 1, Len(s))) = Len(s) - i
         /\ \A j \in 1 .. Len(s) - i : SubSeq(s, i + 1, Len(s))[j] = s[i + j]
<1> DEFINE S == {s[j] : j \in DOMAIN s}
<1>1. s \in Seq(S)
  BY DEF IsSeq
<1> HIDE DEF S
<1>2. SubSeq(s, i + 1, Len(s)) \in Seq(S)
  BY <1>1
<1>3. IsSeq(SubSeq(s, i + 1, Len(s)))
  BY <1>2, IsSeqOf
<1>4. QED BY <1>1, <1>3

LEMMA TailIsRest ==
  ASSUME NEW s, IsSeq(s), s # <<>>
  PROVE  1 \in 1 .. Len(s) /\ Head(s) = s[1] /\ Tail(s) = SubSeq(s, 1 + 1, Len(s))
<1> DEFINE S == {s[j] : j \in DOMAIN s}
<1>1. s \in Seq(S)
  BY DEF IsSeq
<1> HIDE DEF S
<1>2. Len(s) \in Nat /\ Len(s) # 0
  BY <1>1
<1>3. QED BY <1>1, <1>2
-----------------------------------------------------------------------------
(* Chains of instructions.                                                 *)

LEMMA HasWeaker ==
  ASSUME NEW W, NEW x, NEW n \in Nat, NEW m \in Nat, NEW j \in Nat, NEW k \in Nat,
         Has(W, x, n, m), n <= j, k <= m
  PROVE  Has(W, x, j, k)
<1>1. PICK p, q \in Nat : <<x, p, q>> \in W /\ p <= n /\ m <= q
  BY DEF Has
<1>2. p <= j /\ k <= q
  BY <1>1
<1>3. QED BY <1>1, <1>2 DEF Has

LEMMA HasMore ==
  ASSUME NEW W, NEW V, W \subseteq V, NEW x, NEW n, NEW m, Has(W, x, n, m)
  PROVE  Has(V, x, n, m)
  BY DEF Has

LEMMA ChainMore ==
  ASSUME NEW W, NEW V, W \subseteq V, NEW s, NEW n, NEW m, Chain(W, s, n, m)
  PROVE  Chain(V, s, n, m)
<1>1. PICK b \in [1 .. Len(s) + 1 -> Nat] :
         /\ b[1] <= n /\ m <= b[Len(s) + 1]
         /\ \A i \in 1 .. Len(s) : Has(W, s[i], b[i], b[i + 1])
  BY DEF Chain
<1>2. \A i \in 1 .. Len(s) : Has(V, s[i], b[i], b[i + 1])
  BY <1>1, HasMore
<1>3. QED BY <1>1, <1>2 DEF Chain

LEMMA InnerMore ==
  ASSUME NEW W, NEW V, W \subseteq V, NEW s, NEW n, NEW m, Inner(W, s, n, m)
  PROVE  Inner(V, s, n, m)
  BY ChainMore DEF Inner

LEMMA FitsMore ==
  ASSUME NEW W, NEW V, W \subseteq V, NEW x, NEW n, NEW m, Fits(W, x, n, m)
  PROVE  Fits(V, x, n, m)
<1>1. CASE Simple(x, n, m)
  BY <1>1 DEF Fits
<1>2. \A s, i, j : Inner(W, s, i, j) => Inner(V, s, i, j)
  BY InnerMore
<1>3. QED BY <1>1, <1>2 DEF Fits

LEMMA ChainWeaker ==
  ASSUME NEW W, NEW s, NEW n \in Nat, NEW m \in Nat, NEW j \in Nat, NEW k \in Nat,
         Chain(W, s, n, m), n <= j, k <= m
  PROVE  Chain(W, s, j, k)
<1>1. PICK b \in [1 .. Len(s) + 1 -> Nat] :
         /\ b[1] <= n /\ m <= b[Len(s) + 1]
         /\ \A i \in 1 .. Len(s) : Has(W, s[i], b[i], b[i + 1])
  BY DEF Chain
<1>2. IsSeq(s) /\ Len(s) \in Nat
  BY SeqFacts DEF Chain
<1>3. b[1] \in Nat /\ b[Len(s) + 1] \in Nat
  BY <1>1, <1>2
<1>4. b[1] <= j /\ k <= b[Len(s) + 1]
  BY <1>1, <1>3
<1>5. QED BY <1>1, <1>2, <1>4 DEF Chain

\* One after the other.
LEMMA ChainJoin ==
  ASSUME NEW W, NEW s, NEW t, NEW n \in Nat, NEW k \in Nat, NEW m \in Nat,
         Chain(W, s, n, k), Chain(W, t, k, m)
  PROVE  Chain(W, s \o t, n, m)
<1>1. PICK b \in [1 .. Len(s) + 1 -> Nat] :
         /\ b[1] <= n /\ k <= b[Len(s) + 1]
         /\ \A i \in 1 .. Len(s) : Has(W, s[i], b[i], b[i + 1])
  BY DEF Chain
<1>2. PICK c \in [1 .. Len(t) + 1 -> Nat] :
         /\ c[1] <= k /\ m <= c[Len(t) + 1]
         /\ \A i \in 1 .. Len(t) : Has(W, t[i], c[i], c[i + 1])
  BY DEF Chain
<1>3. IsSeq(s) /\ IsSeq(t) /\ Len(s) \in Nat /\ Len(t) \in Nat
  BY SeqFacts DEF Chain
<1> DEFINE L == Len(s)
           M == Len(t)
           r == s \o t
           d == [i \in 1 .. L + M + 1 |-> IF i <= L THEN b[i] ELSE c[i - L]]
<1>4. IsSeq(r) /\ Len(r) = L + M /\ (\A i \in 1 .. L : r[i] = s[i])
      /\ (\A i \in L + 1 .. L + M : r[i] = t[i - L])
  BY <1>3, JoinIsSeq
<1> HIDE DEF r
<1>5. d \in [1 .. L + M + 1 -> Nat] /\ (\A i \in 1 .. L : d[i] = b[i])
      /\ (\A i \in L + 1 .. L + M + 1 : d[i] = c[i - L])
  <2>1. \A i \in 1 .. L + M + 1 : (IF i <= L THEN b[i] ELSE c[i - L]) \in Nat
    <3>1. SUFFICES ASSUME NEW i \in 1 .. L + M + 1 PROVE (IF i <= L THEN b[i] ELSE c[i - L]) \in Nat
      OBVIOUS
    <3>2. CASE i <= L
      BY <1>1, <1>3, <3>2
    <3>3. CASE ~(i <= L)
      <4>1. i - L \in 1 .. M + 1
        BY <1>3, <3>3
      <4>2. QED BY <1>2, <3>3, <4>1
    <3>4. QED BY <3>2, <3>3
  <2>2. \A i \in 1 .. L : i \in 1 .. L + M + 1 /\ i <= L
    BY <1>3
  <2>3. \A i \in L + 1 .. L + M + 1 : i \in 1 .. L + M + 1 /\ ~(i <= L)
    BY <1>3
  <2>4. QED BY <2>1, <2>2, <2>3
<1> HIDE DEF d
<1>6. d[1] <= n
  <2>1. CASE L = 0
    <3>1. d[1] = c[1] /\ b[1] \in Nat /\ c[1] \in Nat
      BY <1>1, <1>2, <1>3, <1>5, <2>1
    <3>2. k <= b[1]
      BY <1>1, <2>1
    <3>3. QED BY <1>1, <1>2, <3>1, <3>2
  <2>2. CASE L # 0
    <3>1. 1 \in 1 .. L
      BY <1>3, <2>2
    <3>2. QED BY <1>1, <1>5, <3>1
  <2>3. QED BY <2>1, <2>2
<1>7. m <= d[L + M + 1]
  <2>1. L + M + 1 \in L + 1 .. L + M + 1 /\ L + M + 1 - L = M + 1
    BY <1>3
  <2>2. QED BY <1>2, <1>5, <2>1
<1>8. ASSUME NEW i \in 1 .. L + M PROVE Has(W, r[i], d[i], d[i + 1])
  <2>1. CASE i < L
    <3>1. i \in 1 .. L /\ i + 1 \in 1 .. L
      BY <1>3, <2>1
    <3>2. QED BY <1>1, <1>4, <1>5, <3>1
  <2>2. CASE i = L
    <3>1. L \in 1 .. L /\ L + 1 \in L + 1 .. L + M + 1 /\ (L + 1) - L = 1 /\ L + 1 \in 1 .. L + 1 /\ 1 \in 1 .. M + 1
      BY <1>3, <2>2
    <3>2. Has(W, r[i], d[i], b[L + 1]) /\ d[L + 1] = c[1]
      BY <1>1, <1>4, <1>5, <2>2, <3>1
    <3>3. d[i] \in Nat /\ b[L + 1] \in Nat /\ c[1] \in Nat
      <4>1. i \in 1 .. L + M + 1
        BY <1>3, <2>2, <3>1
      <4>2. d[i] \in Nat
        BY <1>5, <4>1
      <4>3. b[L + 1] \in Nat /\ c[1] \in Nat
        BY <1>1, <1>2, <3>1
      <4>4. QED BY <4>2, <4>3
    <3>4. c[1] <= b[L + 1]
      BY <1>1, <1>2, <3>3
    <3>5. QED BY <2>2, <3>2, <3>3, <3>4, HasWeaker
  <2>3. CASE i > L
    <3>1. i \in L + 1 .. L + M /\ i \in L + 1 .. L + M + 1 /\ i + 1 \in L + 1 .. L + M + 1
          /\ i - L \in 1 .. M /\ (i + 1) - L = (i - L) + 1
      BY <1>3, <2>3
    <3>2. r[i] = t[i - L] /\ d[i] = c[i - L] /\ d[i + 1] = c[(i - L) + 1]
      BY <1>4, <1>5, <3>1
    <3>3. Has(W, t[i - L], c[i - L], c[(i - L) + 1])
      BY <1>2, <3>1
    <3>4. QED BY <3>2, <3>3
  <2>4. QED BY <1>3, <2>1, <2>2, <2>3
<1>9. Chain(W, r, n, m)
  <2>1. d \in [1 .. Len(r) + 1 -> Nat] /\ d[1] <= n /\ m <= d[Len(r) + 1]
        /\ \A i \in 1 .. Len(r) : Has(W, r[i], d[i], d[i + 1])
    BY <1>4, <1>5, <1>6, <1>7, <1>8
  <2>2. QED BY <1>4, <2>1 DEF Chain
<1>10. QED BY <1>9 DEF r

\* The i-th of them, and what is behind it.
LEMMA ChainFrom ==
  ASSUME NEW W, NEW s, NEW n \in Nat, NEW m \in Nat, Chain(W, s, n, m), NEW i \in 1 .. Len(s)
  PROVE  \E j, k \in Nat : /\ Has(W, s[i], j, k)
                           /\ Chain(W, SubSeq(s, i + 1, Len(s)), k, m)
                           /\ i = 1 => j <= n
<1>1. PICK b \in [1 .. Len(s) + 1 -> Nat] :
         /\ b[1] <= n /\ m <= b[Len(s) + 1]
         /\ \A l \in 1 .. Len(s) : Has(W, s[l], b[l], b[l + 1])
  BY DEF Chain
<1>2. IsSeq(s) /\ Len(s) \in Nat
  BY SeqFacts DEF Chain
<1> DEFINE r == SubSeq(s, i + 1, Len(s))
           L == Len(s)
           d == [l \in 1 .. L - i + 1 |-> b[i + l]]
<1>3. IsSeq(r) /\ Len(r) = L - i /\ \A l \in 1 .. L - i : r[l] = s[i + l]
  BY <1>2, RestIsSeq
<1> HIDE DEF r
<1>4. \A l \in 1 .. L - i + 1 : i + l \in 1 .. L + 1
  BY <1>2
<1>5. d \in [1 .. L - i + 1 -> Nat] /\ \A l \in 1 .. L - i + 1 : d[l] = b[i + l]
  BY <1>1, <1>4
<1> HIDE DEF d
<1>6. 1 \in 1 .. L - i + 1 /\ L - i + 1 \in 1 .. L - i + 1 /\ i + (L - i + 1) = L + 1
      /\ \A l \in 1 .. L - i : l \in 1 .. L - i + 1 /\ l + 1 \in 1 .. L - i + 1
                               /\ i + l \in 1 .. L /\ i + (l + 1) = (i + l) + 1
  BY <1>2
<1>7. d[1] = b[i + 1] /\ m <= d[L - i + 1]
  BY <1>1, <1>5, <1>6
<1>8. ASSUME NEW l \in 1 .. L - i PROVE Has(W, r[l], d[l], d[l + 1])
  <2>1. i + l \in 1 .. L /\ d[l] = b[i + l] /\ d[l + 1] = b[(i + l) + 1] /\ r[l] = s[i + l]
    BY <1>3, <1>5, <1>6
  <2>2. Has(W, s[i + l], b[i + l], b[(i + l) + 1])
    BY <1>1, <2>1
  <2>3. QED BY <2>1, <2>2
<1>9. b[i] \in Nat /\ b[i + 1] \in Nat /\ b[i + 1] <= b[i + 1]
  BY <1>1, <1>2
<1>10. Chain(W, r, b[i + 1], m)
  <2>1. d \in [1 .. Len(r) + 1 -> Nat] /\ d[1] <= b[i + 1] /\ m <= d[Len(r) + 1]
        /\ \A l \in 1 .. Len(r) : Has(W, r[l], d[l], d[l + 1])
    BY <1>3, <1>5, <1>7, <1>8, <1>9
  <2>2. QED BY <1>3, <2>1 DEF Chain
<1>11. QED BY <1>1, <1>9, <1>10 DEF r

LEMMA ChainEmpty ==
  ASSUME NEW W, NEW n \in Nat, NEW m \in Nat, m <= n
  PROVE  Chain(W, <<>>, n, m)
<1> DEFINE b == [i \in 1 .. 1 |-> n]
<1>1. IsSeq(<<>>) /\ Len(<<>>) = 0
  BY DEF IsSeq
<1>2. b \in [1 .. 0 + 1 -> Nat] /\ b[1] = n /\ b[0 + 1] = n /\ 1 .. 0 = {}
  OBVIOUS
<1> HIDE DEF b
<1>3. QED BY <1>1, <1>2 DEF Chain

LEMMA ChainOne ==
  ASSUME NEW W, NEW x, NEW n \in Nat, NEW m \in Nat, <<x, n, m>> \in W
  PROVE  Chain(W, <<x>>, n, m)
<1> DEFINE b == [i \in 1 .. 2 |-> IF i = 1 THEN n ELSE m]
<1>1. IsSeq(<<x>>) /\ Len(<<x>>) = 1 /\ <<x>>[1] = x
  BY OneFacts
<1>2. b \in [1 .. 1 + 1 -> Nat] /\ b[1] = n /\ b[1 + 1] = m /\ n <= n /\ m <= m /\ 1 .. 1 = {1}
  OBVIOUS
<1> HIDE DEF b
<1>3. Has(W, x, n, m)
  BY <1>2 DEF Has
<1>4. Has(W, <<x>>[1], b[1], b[1 + 1])
  BY <1>1, <1>2, <1>3
<1>5. QED BY <1>1, <1>2, <1>4 DEF Chain
-----------------------------------------------------------------------------
(* Relations that explain themselves.                                      *)

LEMMA SoundUnion ==
  ASSUME NEW U, \A W \in U : Sound(W)
  PROVE  Sound(UNION U)
<1>1. SUFFICES ASSUME NEW x, NEW n \in Nat, NEW m \in Nat, <<x, n, m>> \in UNION U
               PROVE  Fits(UNION U, x, n, m)
  BY DEF Sound
<1>2. PICK W \in U : <<x, n, m>> \in W
  BY <1>1
<1>3. Fits(W, x, n, m)
  BY <1>2 DEF Sound
<1>4. W \subseteq UNION U
  BY <1>2
<1>5. QED BY <1>3, <1>4, FitsMore

LEMMA SoundBoth ==
  ASSUME NEW W, NEW V, Sound(W), Sound(V)
  PROVE  \E X : Sound(X) /\ W \subseteq X /\ V \subseteq X
<1>1. \A X \in {W, V} : Sound(X)
  OBVIOUS
<1>2. Sound(UNION {W, V})
  BY <1>1, SoundUnion
<1>3. W \subseteq UNION {W, V} /\ V \subseteq UNION {W, V}
  OBVIOUS
<1>4. QED BY <1>2, <1>3

\* One more instruction explained.
LEMMA SoundAdd ==
  ASSUME NEW W, Sound(W), NEW x, NEW n \in Nat, NEW m \in Nat, Fits(W, x, n, m)
  PROVE  Proceeds(<<x>>, n, m)
<1> DEFINE V == W \cup {<<x, n, m>>}
<1>1. W \subseteq V /\ <<x, n, m>> \in V
  OBVIOUS
<1>2. ASSUME NEW y, NEW j \in Nat, NEW k \in Nat, <<y, j, k>> \in V PROVE Fits(W, y, j, k)
  <2>1. CASE <<y, j, k>> \in W
    BY <2>1 DEF Sound
  <2>2. CASE <<y, j, k>> = <<x, n, m>>
    BY <2>2
  <2>3. QED BY <1>2, <2>1, <2>2
<1> HIDE DEF V
<1>3. Sound(V)
  <2>1. \A y : \A j, k \in Nat : <<y, j, k>> \in V => Fits(V, y, j, k)
    BY <1>1, <1>2, FitsMore
  <2>2. QED BY <2>1 DEF Sound
<1>4. Chain(V, <<x>>, n, m)
  BY <1>1, ChainOne
<1>5. QED BY <1>3, <1>4 DEF Proceeds
-----------------------------------------------------------------------------
(* What the sequences of instructions do, by what they are made of.        *)

LEMMA ProceedsJoin ==
  ASSUME NEW s, NEW t, NEW n \in Nat, NEW k \in Nat, NEW m \in Nat,
         Proceeds(s, n, k), Proceeds(t, k, m)
  PROVE  Proceeds(s \o t, n, m)
<1>1. PICK W : Sound(W) /\ Chain(W, s, n, k)
  BY DEF Proceeds
<1>2. PICK V : Sound(V) /\ Chain(V, t, k, m)
  BY DEF Proceeds
<1>3. PICK X : Sound(X) /\ W \subseteq X /\ V \subseteq X
  BY <1>1, <1>2, SoundBoth
<1>4. Chain(X, s, n, k) /\ Chain(X, t, k, m)
  BY <1>1, <1>2, <1>3, ChainMore
<1>5. Chain(X, s \o t, n, m)
  BY <1>4, ChainJoin
<1>6. QED BY <1>3, <1>5 DEF Proceeds

LEMMA ProceedsWeaker ==
  ASSUME NEW s, NEW n \in Nat, NEW m \in Nat, NEW j \in Nat, NEW k \in Nat,
         Proceeds(s, n, m), n <= j, k <= m
  PROVE  Proceeds(s, j, k)
  BY ChainWeaker DEF Proceeds

LEMMA RunsIs ==
  ASSUME NEW s, NEW n, NEW m
  PROVE  Runs(s, n, m) <=> NoTry(s) /\ Proceeds(s, n, m)
  BY DEF Runs, Proceeds, Inner

LEMMA ProceedsIsSeq ==
  ASSUME NEW s, NEW n, NEW m, Proceeds(s, n, m)
  PROVE  IsSeq(s) /\ DOMAIN s = 1 .. Len(s) /\ Len(s) \in Nat
  BY SeqFacts DEF Proceeds, Chain

LEMMA NoTryJoin ==
  ASSUME NEW s, NEW t, IsSeq(s), IsSeq(t), NoTry(s), NoTry(t)
  PROVE  NoTry(s \o t)
<1>1. DOMAIN s = 1 .. Len(s) /\ DOMAIN t = 1 .. Len(t) /\ Len(s) \in Nat /\ Len(t) \in Nat
  BY SeqFacts
<1>2. SUFFICES ASSUME NEW i \in DOMAIN (s \o t) PROVE (s \o t)[i].do # "try"
  BY DEF NoTry
<1>3. DOMAIN (s \o t) = 1 .. Len(s) + Len(t)
  BY JoinIsSeq, SeqFacts
<1>4. CASE i <= Len(s)
  <2>1. i \in 1 .. Len(s)
    BY <1>1, <1>2, <1>3, <1>4
  <2>2. (s \o t)[i] = s[i]
    BY <2>1, JoinIsSeq
  <2>3. QED BY <1>1, <2>1, <2>2 DEF NoTry
<1>5. CASE ~(i <= Len(s))
  <2>1. i \in Len(s) + 1 .. Len(s) + Len(t) /\ i - Len(s) \in 1 .. Len(t)
    BY <1>1, <1>2, <1>3, <1>5
  <2>2. (s \o t)[i] = t[i - Len(s)]
    BY <2>1, JoinIsSeq
  <2>3. QED BY <1>1, <2>1, <2>2 DEF NoTry
<1>6. QED BY <1>4, <1>5

LEMMA RunsJoin ==
  ASSUME NEW s, NEW t, NEW n \in Nat, NEW k \in Nat, NEW m \in Nat,
         Runs(s, n, k), Runs(t, k, m)
  PROVE  Runs(s \o t, n, m)
<1>1. Proceeds(s \o t, n, m)
  BY ProceedsJoin, RunsIs
<1>2. NoTry(s \o t)
  BY NoTryJoin, ProceedsIsSeq, RunsIs
<1>3. QED BY <1>1, <1>2, RunsIs

LEMMA RunsWeaker ==
  ASSUME NEW s, NEW n \in Nat, NEW m \in Nat, NEW j \in Nat, NEW k \in Nat,
         Runs(s, n, m), n <= j, k <= m
  PROVE  Runs(s, j, k)
  BY ProceedsWeaker, RunsIs

LEMMA RunsNothing ==
  ASSUME NEW n \in Nat, NEW m \in Nat, m <= n
  PROVE  Runs(<<>>, n, m)
<1>1. Sound({}) /\ NoTry(<<>>)
  BY DEF Sound, NoTry
<1>2. QED BY <1>1, ChainEmpty DEF Runs, Inner

LEMMA NoTryOne == ASSUME NEW x, x.do # "try" PROVE NoTry(<<x>>)
  BY DEF NoTry

\* An instruction without instructions inside.
LEMMA RunsSimple ==
  ASSUME NEW x, NEW n \in Nat, NEW m \in Nat, Simple(x, n, m), x.do # "try"
  PROVE  Runs(<<x>>, n, m)
<1>1. Sound({}) /\ Fits({}, x, n, m)
  BY DEF Sound, Fits
<1>2. Proceeds(<<x>>, n, m)
  BY <1>1, SoundAdd
<1>3. QED BY <1>2, NoTryOne, RunsIs

\* A table whose entries all lead from n to m.
Table(f, n, m) == \A t \in DOMAIN f : Runs(f[t], n, m)

LEMMA TableTogether ==
  ASSUME NEW f, NEW n \in Nat, NEW m \in Nat, Table(f, n, m)
  PROVE  \E W : Sound(W) /\ \A t \in DOMAIN f : Inner(W, f[t], n, m)
<1> DEFINE Why(t) == CHOOSE W : Sound(W) /\ Inner(W, f[t], n, m)
           U == {Why(t) : t \in DOMAIN f}
<1>1. ASSUME NEW t \in DOMAIN f PROVE Sound(Why(t)) /\ Inner(Why(t), f[t], n, m)
  <2>1. \E W : Sound(W) /\ Inner(W, f[t], n, m)
    BY DEF Table, Runs
  <2>2. QED BY <2>1
<1> HIDE DEF Why
<1>2. Sound(UNION U)
  <2>1. \A W \in U : Sound(W)
    BY <1>1
  <2> HIDE DEF U
  <2>2. QED BY <2>1, SoundUnion
<1>3. ASSUME NEW t \in DOMAIN f PROVE Inner(UNION U, f[t], n, m)
  <2>1. Why(t) \subseteq UNION U
    OBVIOUS
  <2> HIDE DEF U
  <2>2. QED BY <1>1, <2>1, InnerMore
<1>4. QED BY <1>2, <1>3

LEMMA RunsEat ==
  ASSUME NEW f, NEW no, NEW n \in Nat, NEW m \in Nat,
         Eof \notin DOMAIN f, Table(f, n + 1, m), Runs(no, n, m)
  PROVE  Runs(Eat(f, no), n, m)
<1> DEFINE x == [do |-> "eat", table |-> f, no |-> no]
<1>1. n + 1 \in Nat
  OBVIOUS
<1>2. PICK W : Sound(W) /\ \A t \in DOMAIN f : Inner(W, f[t], n + 1, m)
  BY <1>1, TableTogether
<1>3. PICK V : Sound(V) /\ Inner(V, no, n, m)
  BY DEF Runs
<1>4. PICK X : Sound(X) /\ W \subseteq X /\ V \subseteq X
  BY <1>2, <1>3, SoundBoth
<1>5. (\A t \in DOMAIN f : Inner(X, f[t], n + 1, m)) /\ Inner(X, no, n, m)
  BY <1>2, <1>3, <1>4, InnerMore
<1>6. x.do = "eat" /\ x.table = f /\ x.no = no
  OBVIOUS
<1> HIDE DEF x
<1>7. Fits(X, x, n, m)
  BY <1>5, <1>6 DEF Fits
<1>8. Runs(<<x>>, n, m)
  <2>1. Proceeds(<<x>>, n, m)
    BY <1>4, <1>7, SoundAdd
  <2>2. NoTry(<<x>>)
    BY <1>6, NoTryOne
  <2>3. QED BY <2>1, <2>2, RunsIs
<1>9. QED BY <1>8 DEF Eat, x

LEMMA RunsLook ==
  ASSUME NEW f, NEW no, NEW n \in Nat, NEW m \in Nat, Table(f, n, m), Runs(no, n, m)
  PROVE  Runs(Look(f, no), n, m)
<1> DEFINE x == [do |-> "look", table |-> f, no |-> no]
<1>1. PICK W : Sound(W) /\ \A t \in DOMAIN f : Inner(W, f[t], n, m)
  BY TableTogether
<1>2. PICK V : Sound(V) /\ Inner(V, no, n, m)
  BY DEF Runs
<1>3. PICK X : Sound(X) /\ W \subseteq X /\ V \subseteq X
  BY <1>1, <1>2, SoundBoth
<1>4. (\A t \in DOMAIN f : Inner(X, f[t], n, m)) /\ Inner(X, no, n, m)
  BY <1>1, <1>2, <1>3, InnerMore
<1>5. x.do = "look" /\ x.table = f /\ x.no = no
  OBVIOUS
<1> HIDE DEF x
<1>6. Fits(X, x, n, m)
  BY <1>4, <1>5 DEF Fits
<1>7. Runs(<<x>>, n, m)
  <2>1. Proceeds(<<x>>, n, m)
    BY <1>3, <1>6, SoundAdd
  <2>2. NoTry(<<x>>)
    BY <1>5, NoTryOne
  <2>3. QED BY <2>1, <2>2, RunsIs
<1>8. QED BY <1>7 DEF Look, x

LEMMA RunsBody ==
  ASSUME NEW body, NEW n \in Nat, NEW m \in Nat, Runs(body, n, n), m <= n,
         NEW x, x.do \in {"list", "attempt"}, x.body = body
  PROVE  Runs(<<x>>, n, m)
<1>1. PICK W : Sound(W) /\ Inner(W, body, n, n)
  BY DEF Runs
<1>2. Fits(W, x, n, m)
  BY <1>1 DEF Fits
<1>3. Proceeds(<<x>>, n, m)
  BY <1>1, <1>2, SoundAdd
<1>4. NoTry(<<x>>)
  BY NoTryOne
<1>5. QED BY <1>3, <1>4, RunsIs

LEMMA RunsAttempt ==
  ASSUME NEW body, NEW n \in Nat, Runs(body, n, n)
  PROVE  Runs(Attempt(body), n, n)
<1> DEFINE x == [do |-> "attempt", body |-> body]
<1>1. x.do \in {"list", "attempt"} /\ x.body = body /\ n <= n
  OBVIOUS
<1> HIDE DEF x
<1>2. Runs(<<x>>, n, n)
  BY <1>1, RunsBody
<1>3. QED BY <1>2 DEF Attempt, x

LEMMA RunsList ==
  ASSUME NEW body, NEW n \in Nat, NEW m \in Nat, Runs(body, n, m), n <= m
  PROVE  Runs(List(body), n, m)
<1> DEFINE x == [do |-> "list", body |-> body]
<1>1. x.do \in {"list", "attempt"} /\ x.body = body /\ m <= m
  OBVIOUS
<1> HIDE DEF x
<1>2. Runs(body, m, m)
  BY RunsWeaker
<1>3. Runs(<<x>>, m, m)
  BY <1>1, <1>2, RunsBody
<1>4. Runs(body \o <<x>>, n, m)
  BY <1>3, RunsJoin
<1>5. QED BY <1>4 DEF List, x
-----------------------------------------------------------------------------
(* The single instructions.                                                *)

LEMMA RunsExpect ==
  ASSUME NEW t, t # Eof, NEW n \in Nat
  PROVE  Runs(Expect(t), n, n + 1)
<1> DEFINE x == [do |-> "expect", text |-> t]
<1>1. x.do = "expect" /\ x.text = t /\ n + 1 \in Nat /\ n + 1 <= n + 1
  OBVIOUS
<1> HIDE DEF x
<1>2. Simple(x, n, n + 1)
  BY <1>1 DEF Simple
<1>3. Runs(<<x>>, n, n + 1)
  BY <1>1, <1>2, RunsSimple
<1>4. QED BY <1>3 DEF Expect, x

LEMMA RunsToken ==
  ASSUME NEW n \in Nat
  PROVE  /\ Runs(ExpectIdent, n, n + 1) /\ Runs(ExpectInt, n, n + 1)
         /\ Runs(Literal, n, n + 1) /\ Runs(FieldsOrTypes, n, n)
<1>1. n + 1 \in Nat /\ n + 1 <= n + 1 /\ n <= n
  OBVIOUS
<1>2. ASSUME NEW x, x.do \in {"ident", "int", "literal"} PROVE Runs(<<x>>, n, n + 1)
  BY <1>1, <1>2, RunsSimple DEF Simple
<1>3. ASSUME NEW x, x.do = "fields" PROVE Runs(<<x>>, n, n)
  BY <1>1, <1>3, RunsSimple DEF Simple
<1>4. QED BY <1>2, <1>3 DEF ExpectIdent, ExpectInt, Literal, FieldsOrTypes

LEMMA RunsExit == ASSUME NEW n \in Nat, NEW m \in Nat PROVE Runs(Exit, n, m)
<1> DEFINE x == [do |-> "exit"]
<1>1. x.do = "exit"
  OBVIOUS
<1> HIDE DEF x
<1>2. Simple(x, n, m) /\ x.do # "try"
  BY <1>1 DEF Simple
<1>3. Runs(<<x>>, n, m)
  BY <1>2, RunsSimple
<1>4. QED BY <1>3 DEF Exit, x

LEMMA RunsThrow ==
  ASSUME NEW e \in Outcomes, NEW n \in Nat, NEW m \in Nat
  PROVE  Runs(Throw(e), n, m)
<1> DEFINE x == [do |-> "throw", error |-> e]
<1>1. x.do = "throw" /\ x.error \in Outcomes
  OBVIOUS
<1> HIDE DEF x
<1>2. Simple(x, n, m) /\ x.do # "try"
  BY <1>1 DEF Simple
<1>3. Runs(<<x>>, n, m)
  BY <1>2, RunsSimple
<1>4. QED BY <1>3 DEF Throw, x

LEMMA RunsRule ==
  ASSUME NEW r \in FreshRules, NEW n \in Nat
  PROVE  Runs(Rule(r), n, n + Least(r))
<1> DEFINE x == [do |-> "rule", rule |-> r, first |-> 0]
<1>1. x.do = "rule" /\ x.rule = r /\ x.first = 0
  OBVIOUS
<1>2. n + Least(r) \in Nat /\ n + Least(r) <= n + Least(r)
  BY DEF Least
<1> HIDE DEF x
<1>3. Simple(x, n, n + Least(r))
  BY <1>1, <1>2 DEF Simple
<1>4. Runs(<<x>>, n, n + Least(r))
  BY <1>1, <1>2, <1>3, RunsSimple
<1>5. QED BY <1>4 DEF Rule, x

LEMMA RunsAgain ==
  ASSUME NEW r \in LoopRules, NEW n \in Nat, NEW first \in 1 .. n, r = "catches" => first < n
  PROVE  Runs(Again(r, first), n, n)
<1> DEFINE x == [do |-> "rule", rule |-> r, first |-> first]
<1>1. x.do = "rule" /\ x.rule = r /\ x.first = first /\ n <= n
  OBVIOUS
<1> HIDE DEF x
<1>2. Simple(x, n, n)
  BY <1>1 DEF Simple
<1>3. Runs(<<x>>, n, n)
  BY <1>1, <1>2, RunsSimple
<1>4. QED BY <1>3 DEF Again, x

LEMMA RunsLevel ==
  ASSUME NEW k \in DOMAIN Levels, NEW n \in Nat
  PROVE  Runs(Level(k), n, n + 1)
<1> DEFINE x == [do |-> "level", level |-> k]
<1>1. x.do = "level" /\ x.level = k /\ n + 1 \in Nat /\ n + 1 <= n + 1
  OBVIOUS
<1> HIDE DEF x
<1>2. Simple(x, n, n + 1)
  BY <1>1 DEF Simple
<1>3. Runs(<<x>>, n, n + 1)
  BY <1>1, <1>2, RunsSimple
<1>4. QED BY <1>3 DEF Level, x

LEMMA RunsLoop ==
  ASSUME NEW k \in DOMAIN Levels, NEW n \in Nat, NEW first \in 1 .. n
  PROVE  Runs(Loop(k, first), n, n)
<1> DEFINE x == [do |-> "loop", level |-> k, first |-> first]
<1>1. x.do = "loop" /\ x.level = k /\ x.first = first /\ n <= n
  OBVIOUS
<1> HIDE DEF x
<1>2. Simple(x, n, n)
  BY <1>1 DEF Simple
<1>3. Runs(<<x>>, n, n)
  BY <1>1, <1>2, RunsSimple
<1>4. QED BY <1>3 DEF Loop, x

LEMMA RunsClose ==
  ASSUME NEW n \in Nat, NEW first \in 1 .. n
  PROVE  Runs(CloseTypes(first), n, n)
<1> DEFINE x == [do |-> "close", first |-> first]
<1>1. x.do = "close" /\ x.first = first /\ n <= n
  OBVIOUS
<1> HIDE DEF x
<1>2. Simple(x, n, n)
  BY <1>1 DEF Simple
<1>3. Runs(<<x>>, n, n)
  BY <1>1, <1>2, RunsSimple
<1>4. QED BY <1>3 DEF CloseTypes, x

LEMMA RunsMake ==
  ASSUME NEW kind, NEW n \in Nat, NEW first \in 1 .. n - 1, NEW op \in {0} \cup (first .. n - 1)
  PROVE  Runs(Make(kind, first, op), n, n)
<1> DEFINE x == [do |-> "make", kind |-> kind, first |-> first, op |-> op]
<1>1. x.do = "make" /\ x.first = first /\ x.op = op /\ n <= n
  OBVIOUS
<1> HIDE DEF x
<1>2. Simple(x, n, n)
  BY <1>1 DEF Simple
<1>3. Runs(<<x>>, n, n)
  BY <1>1, <1>2, RunsSimple
<1>4. QED BY <1>3 DEF Make, x
-----------------------------------------------------------------------------
(* Tables.                                                                 *)

LEMMA TableOne ==
  ASSUME NEW t, NEW s, NEW n, NEW m, Runs(s, n, m)
  PROVE  Table(t :> s, n, m) /\ DOMAIN (t :> s) = {t}
  BY DEF Table, :>

LEMMA TableMore ==
  ASSUME NEW f, NEW g, NEW n, NEW m, Table(f, n, m), Table(g, n, m)
  PROVE  Table(f @@ g, n, m) /\ DOMAIN (f @@ g) = DOMAIN f \cup DOMAIN g
  BY DEF Table, @@
-----------------------------------------------------------------------------
(* What never goes back: from k to k, wherever it is begun behind k.       *)

Keeps(s, k) == Runs(s, k, k)

LEMMA KeepsIfRuns ==
  ASSUME NEW s, NEW k \in Nat, NEW m \in Nat, Runs(s, k, m), k <= m
  PROVE  Keeps(s, k)
  BY RunsWeaker DEF Keeps

LEMMA KeepsNothing == ASSUME NEW k \in Nat PROVE Keeps(<<>>, k)
  BY RunsNothing DEF Keeps

LEMMA KeepsJoin ==
  ASSUME NEW s, NEW t, NEW k \in Nat, Keeps(s, k), Keeps(t, k)
  PROVE  Keeps(s \o t, k)
  BY RunsJoin DEF Keeps

LEMMA KeepsList ==
  ASSUME NEW s, NEW k \in Nat, Keeps(s, k)
  PROVE  Keeps(List(s), k)
  BY RunsList DEF Keeps

LEMMA KeepsAttempt ==
  ASSUME NEW s, NEW k \in Nat, Keeps(s, k)
  PROVE  Keeps(Attempt(s), k)
  BY RunsAttempt DEF Keeps

\* A table none of whose entries goes back; one that does not know the end.
Entries(f, k) == \A t \in DOMAIN f : Keeps(f[t], k)
NotEnd(f)     == Eof \notin DOMAIN f

LEMMA KeepsEat ==
  ASSUME NEW f, NEW no, NEW k \in Nat, Entries(f, k), NotEnd(f), Keeps(no, k)
  PROVE  Keeps(Eat(f, no), k)
<1>1. k + 1 \in Nat /\ k <= k + 1 /\ k <= k
  OBVIOUS
<1>2. ASSUME NEW t \in DOMAIN f PROVE Runs(f[t], k + 1, k)
  <2>1. Runs(f[t], k, k)
    BY DEF Entries, Keeps
  <2>2. QED BY <1>1, <2>1, RunsWeaker
<1>3. Table(f, k + 1, k)
  BY <1>2 DEF Table
<1>4. QED BY <1>3, RunsEat DEF NotEnd, Keeps

LEMMA KeepsLook ==
  ASSUME NEW f, NEW no, NEW k \in Nat, Entries(f, k), Keeps(no, k)
  PROVE  Keeps(Look(f, no), k)
<1>1. Table(f, k, k)
  BY DEF Entries, Keeps, Table
<1>2. QED BY <1>1, RunsLook DEF Keeps

\* How larger things keep k when their parts do.
LEMMA Combining ==
  ASSUME NEW k \in Nat
  PROVE  /\ Keeps(<<>>, k)
         /\ \A s, t : Keeps(s, k) /\ Keeps(t, k) => Keeps(s \o t, k)
         /\ \A s : Keeps(s, k) => Keeps(List(s), k)
         /\ \A s : Keeps(s, k) => Keeps(Attempt(s), k)
         /\ \A t, s : Keeps(s, k) => Entries(t :> s, k)
         /\ \A f, g : Entries(f, k) /\ Entries(g, k) => Entries(f @@ g, k)
         /\ \A t, s : t # Eof => NotEnd(t :> s)
         /\ \A f, g : NotEnd(f) /\ NotEnd(g) => NotEnd(f @@ g)
         /\ \A f, no : Entries(f, k) /\ NotEnd(f) /\ Keeps(no, k) => Keeps(Eat(f, no), k)
         /\ \A f, no : Entries(f, k) /\ Keeps(no, k) => Keeps(Look(f, no), k)
         /\ \A t : t # Eof => Keeps(Skip(t), k)
         /\ \A t, s : t # Eof /\ Keeps(s, k) => Keeps(Maybe(t, s), k)
<1>1. \A t, s : Keeps(s, k) => Entries(t :> s, k)
  BY DEF Entries, :>
<1>2. \A t, s : t # Eof => NotEnd(t :> s)
  BY DEF NotEnd, :>
<1>3. \A f, g : Entries(f, k) /\ Entries(g, k) => Entries(f @@ g, k)
  BY DEF Entries, @@
<1>4. \A f, g : NotEnd(f) /\ NotEnd(g) => NotEnd(f @@ g)
  BY DEF NotEnd, @@
<1>5. Keeps(<<>>, k)
  BY KeepsNothing
<1>6. \A t : t # Eof => Keeps(Skip(t), k)
  BY <1>1, <1>2, <1>5, KeepsEat DEF Skip
<1>7. \A t, s : t # Eof /\ Keeps(s, k) => Keeps(Maybe(t, s), k)
  BY <1>1, <1>2, <1>5, KeepsEat DEF Maybe
<1>8. QED BY <1>1, <1>2, <1>3, <1>4, <1>5, <1>6, <1>7,
             KeepsJoin, KeepsList, KeepsAttempt, KeepsEat, KeepsLook

\* No rule asks for the end marker.
LEMMA TextsNotEof ==
  /\ "<" # Eof /\ ">" # Eof /\ "::" # Eof /\ ":" # Eof /\ "ref" # Eof /\ "const" # Eof
  /\ "(" # Eof /\ ")" # Eof /\ "[" # Eof /\ "]" # Eof /\ "{" # Eof /\ "}" # Eof
  /\ "," # Eof /\ ";" # Eof /\ "." # Eof /\ "++" # Eof /\ "--" # Eof /\ "+" # Eof /\ "=" # Eof
  /\ "->" # Eof /\ "decltype" # Eof /\ "self" # Eof /\ "true" # Eof /\ "false" # Eof
  /\ "delete" # Eof /\ "new" # Eof /\ "pub" # Eof /\ "var" # Eof /\ "static" # Eof /\ "fn" # Eof
  /\ "class" # Eof /\ "enum" # Eof /\ "namespace" # Eof /\ "try" # Eof /\ "catch" # Eof
  /\ "finally" # Eof /\ "if" # Eof /\ "else" # Eof /\ "while" # Eof /\ "for" # Eof /\ "in" # Eof
  /\ "return" # Eof /\ "break" # Eof /\ "continue" # Eof
  BY DEF Eof

LEMMA KeepsParts ==
  ASSUME NEW k \in Nat
  PROVE  /\ \A t : t # Eof => Keeps(Expect(t), k)
         /\ Keeps(ExpectIdent, k) /\ Keeps(ExpectInt, k) /\ Keeps(FieldsOrTypes, k)
         /\ Keeps(Type, k) /\ Keeps(Expr, k) /\ Keeps(Scope, k) /\ Keeps(Exit, k)
         /\ \A r \in FreshRules : Keeps(Rule(r), k)
         /\ \A e \in Outcomes : Keeps(Throw(e), k)
<1>1. k + 1 \in Nat /\ k <= k + 1
  OBVIOUS
<1>2. ASSUME NEW r \in FreshRules PROVE Keeps(Rule(r), k)
  <2>1. k + Least(r) \in Nat /\ k <= k + Least(r)
    BY DEF Least
  <2>2. QED BY <2>1, RunsRule, KeepsIfRuns
<1>3. Keeps(Type, k) /\ Keeps(Scope, k)
  <2>1. "type_name" \in FreshRules /\ "scope" \in FreshRules
    BY DEF FreshRules
  <2>2. QED BY <1>2, <2>1 DEF Type, Scope
<1>4. Keeps(Expr, k)
  <2>1. 1 \in DOMAIN Levels
    BY DEF Levels
  <2>2. QED BY <1>1, <2>1, RunsLevel, KeepsIfRuns DEF Expr
<1>5. \A t : t # Eof => Keeps(Expect(t), k)
  BY <1>1, RunsExpect, KeepsIfRuns
<1>6. Keeps(ExpectIdent, k) /\ Keeps(ExpectInt, k) /\ Keeps(FieldsOrTypes, k)
  BY <1>1, RunsToken, KeepsIfRuns DEF Keeps
<1>7. Keeps(Exit, k) /\ \A e \in Outcomes : Keeps(Throw(e), k)
  BY RunsExit, RunsThrow DEF Keeps
<1>8. QED BY <1>2, <1>3, <1>4, <1>5, <1>6, <1>7

LEMMA KeepsMake ==
  ASSUME NEW k \in Nat, NEW first \in 1 .. k - 1
  PROVE  \A kind : Keeps(Make(kind, first, 0), k)
  BY RunsMake DEF Keeps

\* How larger things read a token when their parts do.
LEMMA Reading ==
  ASSUME NEW n \in Nat, NEW k \in Nat, k = n + 1
  PROVE  /\ \A s, t : Runs(s, n, k) /\ Keeps(t, k) => Runs(s \o t, n, k)
         /\ \A s, t : Keeps(s, n) /\ Runs(t, n, k) => Runs(s \o t, n, k)
         /\ \A f, no : Entries(f, k) /\ NotEnd(f) /\ Runs(no, n, k) => Runs(Eat(f, no), n, k)
         /\ \A f, no : Table(f, n, k) /\ Runs(no, n, k) => Runs(Look(f, no), n, k)
         /\ \A t, s : Runs(s, n, k) => Table(t :> s, n, k)
         /\ \A f, g : Table(f, n, k) /\ Table(g, n, k) => Table(f @@ g, n, k)
<1>1. \A s, t : Runs(s, n, k) /\ Keeps(t, k) => Runs(s \o t, n, k)
  BY RunsJoin DEF Keeps
<1>2. \A s, t : Keeps(s, n) /\ Runs(t, n, k) => Runs(s \o t, n, k)
  BY RunsJoin DEF Keeps
<1>3. ASSUME NEW f, NEW no, Entries(f, k), NotEnd(f), Runs(no, n, k) PROVE Runs(Eat(f, no), n, k)
  <2>1. Table(f, n + 1, k)
    BY <1>3 DEF Entries, Keeps, Table
  <2>2. QED BY <1>3, <2>1, RunsEat DEF NotEnd
<1>4. \A f, no : Table(f, n, k) /\ Runs(no, n, k) => Runs(Look(f, no), n, k)
  BY RunsLook
<1>5. \A t, s : Runs(s, n, k) => Table(t :> s, n, k)
  BY TableOne
<1>6. \A f, g : Table(f, n, k) /\ Table(g, n, k) => Table(f @@ g, n, k)
  BY TableMore
<1>7. QED BY <1>1, <1>2, <1>3, <1>4, <1>5, <1>6

\* A table eats a token before its entries begin.
LEMMA KeepsEatNext ==
  ASSUME NEW f, NEW no, NEW n \in Nat, NEW k \in Nat, k = n + 1,
         Entries(f, k), NotEnd(f), Keeps(no, n)
  PROVE  Keeps(Eat(f, no), n)
<1>1. n <= k /\ k <= k
  OBVIOUS
<1>2. ASSUME NEW t \in DOMAIN f PROVE Runs(f[t], k, n)
  <2>1. Runs(f[t], k, k)
    BY DEF Entries, Keeps
  <2>2. QED BY <1>1, <2>1, RunsWeaker
<1>3. Table(f, n + 1, n)
  BY <1>2 DEF Table
<1>4. QED BY <1>3, RunsEat DEF NotEnd, Keeps

\* Two tokens or more, and the rest behind them.
LEMMA ReadsJoin ==
  ASSUME NEW s, NEW t, NEW n \in Nat, NEW k \in Nat, Runs(s, n, k), Keeps(t, k)
  PROVE  Runs(s \o t, n, k)
  BY RunsJoin DEF Keeps

\* What reads a token.
LEMMA ReadsParts ==
  ASSUME NEW n \in Nat
  PROVE  /\ \A t : t # Eof => Runs(Expect(t), n, n + 1)
         /\ Runs(ExpectIdent, n, n + 1) /\ Runs(Literal, n, n + 1)
         /\ Runs(Type, n, n + 1) /\ Runs(Expr, n, n + 1) /\ Runs(Scope, n, n + 1)
         /\ \A r \in FreshRules : Least(r) = 1 => Runs(Rule(r), n, n + 1)
<1>1. \A r \in FreshRules : Least(r) = 1 => Runs(Rule(r), n, n + 1)
  BY RunsRule
<1>2. Runs(Type, n, n + 1) /\ Runs(Scope, n, n + 1)
  <2>1. "type_name" \in FreshRules /\ "scope" \in FreshRules /\ Least("type_name") = 1 /\ Least("scope") = 1
    BY DEF FreshRules, Least, LoopRules
  <2>2. QED BY <1>1, <2>1 DEF Type, Scope
<1>3. Runs(Expr, n, n + 1)
  <2>1. 1 \in DOMAIN Levels
    BY DEF Levels
  <2>2. QED BY <2>1, RunsLevel DEF Expr
<1>4. QED BY <1>1, <1>2, <1>3, RunsExpect, RunsToken
-----------------------------------------------------------------------------
(* The rules.                                                              *)

LEMMA SymbolRuns ==
  ASSUME NEW tok \in Nat \ {0}, NEW asTypename \in BOOLEAN
  PROVE  Runs(Symbol(asTypename, tok), tok, tok + 1)
<1> DEFINE k == tok + 1
<1>1. k \in Nat /\ tok \in 1 .. k - 1 /\ tok \in 1 .. k /\ tok < k /\ k = tok + 1
  OBVIOUS
<1>2. Runs(ExpectIdent, tok, k)
  BY <1>1, ReadsParts, TextsNotEof
<1>3. Keeps(Type, k) /\ Keeps(Expect("<"), k) /\ Keeps(Rule("symbol"), k)
  BY <1>1, KeepsParts, TextsNotEof DEF FreshRules
<1>4. Keeps(CloseTypes(tok + 1), k)
  BY <1>1, RunsClose DEF Keeps
<1> HIDE DEF k
<1>5. Runs(Symbol(asTypename, tok), tok, k)
  BY <1>1, <1>2, <1>3, <1>4, Combining, Reading, TextsNotEof DEF Symbol
<1>6. QED BY <1>5 DEF k

LEMMA TypeNameRuns ==
  ASSUME NEW tok \in Nat \ {0}
  PROVE  Runs(TypeName, tok, tok + 1)
<1> DEFINE k == tok + 1
<1>1. k \in Nat /\ tok \in 1 .. k - 1 /\ tok \in 1 .. k /\ tok < k /\ k = tok + 1
  OBVIOUS
<1>2. Runs(Rule("typename_symbol"), tok, k)
  BY <1>1, ReadsParts, TextsNotEof DEF FreshRules, LoopRules, Least
<1>3. /\ Keeps(Type, k) /\ Keeps(Expr, k) /\ Keeps(Expect("("), k)
      /\ Keeps(Expect(","), k) /\ Keeps(Expect(")"), k)
  BY <1>1, KeepsParts, TextsNotEof
<1> HIDE DEF k
<1>4. Runs(TypeName, tok, k)
  BY <1>1, <1>2, <1>3, Combining, Reading, TextsNotEof DEF TypeName
<1>5. QED BY <1>4 DEF k

LEMMA FactorRuns ==
  ASSUME NEW tok \in Nat \ {0}
  PROVE  Runs(Factor(tok), tok, tok + 1)
<1> DEFINE k == tok + 1
<1>1. k \in Nat /\ tok \in 1 .. k - 1 /\ tok \in 1 .. k /\ tok < k /\ k = tok + 1
  OBVIOUS
<1>2. Runs(Literal, tok, k)
  BY <1>1, ReadsParts, TextsNotEof
<1>3. /\ Keeps(Expr, k) /\ Keeps(Expect(")"), k) /\ Keeps(Expect("]"), k)
      /\ Keeps(Throw("cannot_use_decltype_here"), k)
  BY <1>1, KeepsParts, TextsNotEof DEF Outcomes
<1>4. \A kind : Keeps(Make(kind, tok, 0), k)
  BY <1>1, KeepsMake
<1> HIDE DEF k
<1>5. Runs(Factor(tok), tok, k)
  BY <1>1, <1>2, <1>3, <1>4, Combining, Reading, TextsNotEof DEF Factor
<1>6. QED BY <1>5 DEF k

LEMMA SubscriptRuns ==
  ASSUME NEW tok \in Nat \ {0}
  PROVE  Runs(Rule("factor") \o Again("postfix", tok), tok, tok + 1)
<1> DEFINE k == tok + 1
<1>1. k \in Nat /\ tok \in 1 .. k - 1 /\ tok \in 1 .. k /\ tok < k /\ k = tok + 1
  OBVIOUS
<1>2. Runs(Rule("factor"), tok, k)
  BY <1>1, ReadsParts, TextsNotEof DEF FreshRules, LoopRules, Least
<1>3. Keeps(Again("postfix", tok), k)
  BY <1>1, RunsAgain DEF Keeps, LoopRules
<1> HIDE DEF k
<1>4. Runs(Rule("factor") \o Again("postfix", tok), tok, k)
  BY <1>1, <1>2, <1>3, Combining, Reading, TextsNotEof
<1>5. QED BY <1>4 DEF k

LEMMA LetRuns ==
  ASSUME NEW tok \in Nat \ {0}, NEW end, Keeps(end, tok + 1)
  PROVE  Runs(Let(tok, end), tok, tok + 1)
<1> DEFINE k == tok + 1
<1>1. k \in Nat /\ tok \in 1 .. k - 1 /\ tok \in 1 .. k /\ tok < k /\ k = tok + 1
  OBVIOUS
<1>2. Runs(Expect("var"), tok, k)
  BY <1>1, ReadsParts, TextsNotEof
<1>3. /\ Keeps(Type, k) /\ Keeps(Expr, k) /\ Keeps(ExpectIdent, k)
      /\ Keeps(Expect(")"), k)
  BY <1>1, KeepsParts, TextsNotEof
<1>4. \A kind : Keeps(Make(kind, tok, 0), k)
  BY <1>1, KeepsMake
<1>5. Keeps(end, k)
  BY <1>1
<1> HIDE DEF k
<1>6. Runs(Let(tok, end), tok, k)
  BY <1>1, <1>2, <1>3, <1>4, <1>5, Combining, Reading, TextsNotEof DEF Let
<1>7. QED BY <1>6 DEF k

LEMMA StmtRuns ==
  ASSUME NEW tok \in Nat \ {0}
  PROVE  Runs(Stmt(tok), tok, tok + 1)
<1> DEFINE k == tok + 1
<1>1. k \in Nat /\ tok \in 1 .. k - 1 /\ tok \in 1 .. k /\ tok < k /\ k = tok + 1
  OBVIOUS
<1>2. Runs(Scope, tok, k) /\ Runs(Rule("let"), tok, k) /\ Runs(Expr, tok, k)
  BY <1>1, ReadsParts, TextsNotEof DEF FreshRules, LoopRules, Least
<1>3. /\ Keeps(Type, k) /\ Keeps(Expr, k) /\ Keeps(Scope, k)
      /\ Keeps(ExpectIdent, k) /\ Keeps(Expect(":"), k) /\ Keeps(Expect(";"), k)
      /\ Keeps(Expect("in"), k) /\ Keeps(Rule("stmt"), k)
      /\ Keeps(Rule("let_in_condition"), k)
      /\ Keeps(Throw("expected_catch_block"), k)
  BY <1>1, KeepsParts, TextsNotEof DEF FreshRules, Outcomes
<1>4. \A kind : Keeps(Make(kind, tok, 0), k)
  BY <1>1, KeepsMake
<1>5. Keeps(Again("catches", tok), k)
  BY <1>1, RunsAgain DEF Keeps, LoopRules
<1> HIDE DEF k
<1>6. Keeps(Condition, k)
  BY <1>1, <1>2, <1>3, <1>4, <1>5, Combining, TextsNotEof DEF Condition
<1>7. Runs(Stmt(tok), tok, k)
  BY <1>1, <1>2, <1>3, <1>4, <1>5, <1>6, Combining, Reading, TextsNotEof DEF Stmt
<1>8. QED BY <1>7 DEF k

LEMMA ScopeRuns ==
  ASSUME NEW tok \in Nat \ {0}
  PROVE  Runs(ScopeBody(tok), tok, tok + 1)
<1> DEFINE k == tok + 1
<1>1. k \in Nat /\ tok \in 1 .. k - 1 /\ tok \in 1 .. k /\ tok < k /\ k = tok + 1
  OBVIOUS
<1>2. Runs(Expect("{"), tok, k)
  BY <1>1, ReadsParts, TextsNotEof
<1>3. Keeps(Rule("statements"), k)
  BY <1>1, KeepsParts, TextsNotEof DEF FreshRules
<1>4. \A kind : Keeps(Make(kind, tok, 0), k)
  BY <1>1, KeepsMake
<1> HIDE DEF k
<1>5. Runs(ScopeBody(tok), tok, k)
  BY <1>1, <1>2, <1>3, <1>4, Combining, Reading, TextsNotEof DEF ScopeBody
<1>6. QED BY <1>5 DEF k

LEMMA StatementsRuns ==
  ASSUME NEW tok \in Nat \ {0}
  PROVE  Runs(Statements, tok, tok + 1)
<1> DEFINE k == tok + 1
<1>1. k \in Nat /\ tok \in 1 .. k - 1 /\ tok \in 1 .. k /\ tok < k /\ k = tok + 1
  OBVIOUS
<1>2. Runs(Rule("stmt"), tok, k)
  BY <1>1, ReadsParts, TextsNotEof DEF FreshRules, LoopRules, Least
<1>3. Keeps(Rule("statements"), k)
  BY <1>1, KeepsParts, TextsNotEof DEF FreshRules
<1>4. Runs(Throw("scope_not_terminated"), tok, k)
  BY <1>1, RunsThrow DEF Outcomes
<1> HIDE DEF k
<1>5. Runs(Statements, tok, k)
  BY <1>1, <1>2, <1>3, <1>4, Combining, Reading, TextsNotEof DEF Statements
<1>6. QED BY <1>5 DEF k

LEMMA EnumRuns ==
  ASSUME NEW tok \in Nat \ {0}
  PROVE  Runs(Enum(tok), tok, tok + 1)
<1> DEFINE k == tok + 1
<1>1. k \in Nat /\ tok \in 1 .. k - 1 /\ tok \in 1 .. k /\ tok < k /\ k = tok + 1
  OBVIOUS
<1>2. Runs(Expect("enum"), tok, k)
  BY <1>1, ReadsParts, TextsNotEof
<1>3. /\ Keeps(ExpectIdent, k) /\ Keeps(Expect("{"), k) /\ Keeps(Expect("}"), k)
      /\ Keeps(Expect(")"), k) /\ Keeps(FieldsOrTypes, k)
      /\ Keeps(Throw("empty_class_or_enum_is_not_valid"), k)
  BY <1>1, KeepsParts, TextsNotEof DEF Outcomes
<1>4. \A kind : Keeps(Make(kind, tok, 0), k)
  BY <1>1, KeepsMake
<1> HIDE DEF k
<1>5. Runs(Enum(tok), tok, k)
  BY <1>1, <1>2, <1>3, <1>4, Combining, Reading, TextsNotEof
     DEF Enum, EnumeratorDef
<1>6. QED BY <1>5 DEF k

LEMMA NamespaceRuns ==
  ASSUME NEW tok \in Nat \ {0}
  PROVE  Runs(Namespace(tok), tok, tok + 1)
<1> DEFINE k == tok + 1
<1>1. k \in Nat /\ tok \in 1 .. k - 1 /\ tok \in 1 .. k /\ tok < k /\ k = tok + 1
  OBVIOUS
<1>2. Runs(Expect("namespace"), tok, k)
  BY <1>1, ReadsParts, TextsNotEof
<1>3. /\ Keeps(ExpectIdent, k) /\ Keeps(Expect("{"), k)
      /\ Keeps(Rule("namespace_items"), k)
  BY <1>1, KeepsParts, TextsNotEof DEF FreshRules
<1>4. \A kind : Keeps(Make(kind, tok, 0), k)
  BY <1>1, KeepsMake
<1> HIDE DEF k
<1>5. Runs(Namespace(tok), tok, k)
  BY <1>1, <1>2, <1>3, <1>4, Combining, Reading, TextsNotEof DEF Namespace
<1>6. QED BY <1>5 DEF k

LEMMA NamespaceItemsRuns ==
  ASSUME NEW tok \in Nat \ {0}
  PROVE  Runs(NamespaceItems, tok, tok + 1)
<1> DEFINE k == tok + 1
<1>1. k \in Nat /\ tok \in 1 .. k - 1 /\ tok \in 1 .. k /\ tok < k /\ k = tok + 1
  OBVIOUS
<1>2. Runs(Rule("mod_item"), tok, k)
  BY <1>1, ReadsParts, TextsNotEof DEF FreshRules, LoopRules, Least
<1>3. Keeps(Rule("namespace_items"), k)
  BY <1>1, KeepsParts, TextsNotEof DEF FreshRules
<1>4. Runs(Throw("scope_not_terminated"), tok, k)
  BY <1>1, RunsThrow DEF Outcomes
<1> HIDE DEF k
<1>5. Runs(NamespaceItems, tok, k)
  BY <1>1, <1>2, <1>3, <1>4, Combining, Reading, TextsNotEof DEF NamespaceItems
<1>6. QED BY <1>5 DEF k

LEMMA ModItemRuns ==
  ASSUME NEW tok \in Nat \ {0}
  PROVE  Runs(ModItem, tok, tok + 1)
<1> DEFINE k == tok + 1
<1>1. k \in Nat /\ tok \in 1 .. k - 1 /\ tok \in 1 .. k /\ tok < k /\ k = tok + 1
  OBVIOUS
<1>2. /\ Runs(Rule("let"), tok, k) /\ Runs(Rule("function"), tok, k)
      /\ Runs(Rule("class"), tok, k) /\ Runs(Rule("enum"), tok, k)
      /\ Runs(Rule("namespace"), tok, k)
  BY <1>1, ReadsParts, TextsNotEof DEF FreshRules, LoopRules, Least
<1>3. Runs(Throw("expected_item_of_module"), tok, k)
  BY <1>1, RunsThrow DEF Outcomes
<1> HIDE DEF k
<1>4. Runs(ModItem, tok, k)
  BY <1>1, <1>2, <1>3, Combining, Reading, TextsNotEof DEF ModItem
<1>5. QED BY <1>4 DEF k

\* The type arguments made begin two tokens behind tok, at the <.
LEMMA TemplateParamsRun ==
  ASSUME NEW tok \in Nat
  PROVE  Keeps(TemplateParams(tok), tok + 2)
<1> DEFINE k == tok + 2
           j == tok + 3
<1>1. k \in Nat /\ j \in Nat /\ k \in 1 .. j - 1 /\ j = k + 1
  OBVIOUS
<1>2. Keeps(Type, j) /\ Keeps(Expect(">"), j) /\ \A kind : Keeps(Make(kind, k, 0), j)
  BY <1>1, KeepsParts, KeepsMake, TextsNotEof
<1> HIDE DEF k, j
<1> DEFINE f == "<" :> (List(Type) \o Expect(">") \o Make("TypeArgs", k, 0))
<1>3. Entries(f, j) /\ NotEnd(f)
  BY <1>1, <1>2, Combining, TextsNotEof
<1>4. Keeps(<<>>, k)
  BY <1>1, KeepsNothing
<1> HIDE DEF f
<1>5. Keeps(Eat(f, <<>>), k)
  BY <1>1, <1>3, <1>4, KeepsEatNext
<1>6. QED BY <1>5 DEF TemplateParams, Maybe, f, k

\* fn and the name come before the type parameters.
LEMMA FunctionRuns ==
  ASSUME NEW tok \in Nat \ {0}, NEW isMethod \in BOOLEAN
  PROVE  Runs(Function(tok, isMethod), tok, tok + 1)
<1> DEFINE k == tok + 2
<1>1. k \in Nat /\ tok \in 1 .. k - 1 /\ tok + 1 <= k /\ tok + 1 \in Nat /\ (tok + 1) + 1 = k
  OBVIOUS
<1>2. Runs(Expect("fn") \o ExpectIdent, tok, k)
  <2>1. Runs(Expect("fn"), tok, tok + 1) /\ Runs(ExpectIdent, tok + 1, k)
    BY <1>1, ReadsParts, TextsNotEof
  <2>2. QED BY <1>1, <2>1, RunsJoin
<1>3. /\ Keeps(Type, k) /\ Keeps(Scope, k) /\ Keeps(ExpectIdent, k)
      /\ Keeps(Expect(":"), k) /\ Keeps(Expect(")"), k)
  BY <1>1, KeepsParts, TextsNotEof
<1>4. \A kind : Keeps(Make(kind, tok, 0), k)
  BY <1>1, KeepsMake
<1>5. Keeps(TemplateParams(tok), k)
  BY TemplateParamsRun
<1> HIDE DEF k
<1>6. Keeps(Params, k)
  BY <1>1, <1>3, Combining DEF Params
<1>7. Runs(Function(tok, isMethod), tok, k)
  <2>1. CASE isMethod
    BY <1>1, <1>2, <1>3, <1>4, <1>5, <1>6, <2>1, Combining, TextsNotEof, ReadsJoin DEF Function
  <2>2. CASE ~isMethod
    BY <1>1, <1>2, <1>3, <1>4, <1>5, <1>6, <2>2, Combining, TextsNotEof, ReadsJoin DEF Function
  <2>3. QED BY <2>1, <2>2
<1>8. QED BY <1>1, <1>7, RunsWeaker

LEMMA ClassRuns ==
  ASSUME NEW tok \in Nat \ {0}
  PROVE  Runs(Class(tok), tok, tok + 1)
<1> DEFINE k == tok + 2
<1>1. k \in Nat /\ tok \in 1 .. k - 1 /\ tok + 1 <= k /\ tok + 1 \in Nat /\ (tok + 1) + 1 = k
  OBVIOUS
<1>2. Runs(Expect("class") \o ExpectIdent, tok, k)
  <2>1. Runs(Expect("class"), tok, tok + 1) /\ Runs(ExpectIdent, tok + 1, k)
    BY <1>1, ReadsParts, TextsNotEof
  <2>2. QED BY <1>1, <2>1, RunsJoin
<1>3. /\ Keeps(Type, k) /\ Keeps(Expect("{"), k) /\ Keeps(Rule("members"), k)
      /\ Keeps(Throw("empty_class_or_enum_is_not_valid"), k)
  BY <1>1, KeepsParts, TextsNotEof DEF FreshRules, Outcomes
<1>4. \A kind : Keeps(Make(kind, tok, 0), k)
  BY <1>1, KeepsMake
<1>5. Keeps(TemplateParams(tok), k)
  BY TemplateParamsRun
<1> HIDE DEF k
<1>6. Runs(Class(tok), tok, k)
  BY <1>1, <1>2, <1>3, <1>4, <1>5, Combining, TextsNotEof, ReadsJoin DEF Class
<1>7. QED BY <1>1, <1>6, RunsWeaker

LEMMA MembersRun ==
  ASSUME NEW k \in Nat, NEW self \in {"members", "members_after_new"}, NEW new, Keeps(new, k)
  PROVE  Keeps(Members(self, new), k)
<1>1. /\ Keeps(Rule("method"), k) /\ Keeps(Rule("let"), k) /\ Keeps(Rule(self), k)
      /\ Keeps(Exit, k) /\ Keeps(Expect("}"), k)
  BY KeepsParts, TextsNotEof DEF FreshRules
<1>2. QED BY <1>1, Combining, TextsNotEof DEF Members

LEMMA ConstructorRuns == ASSUME NEW k \in Nat PROVE Keeps(Constructor, k)
<1>1. /\ Keeps(Type, k) /\ Keeps(Scope, k) /\ Keeps(ExpectIdent, k) /\ Keeps(Expect(":"), k)
      /\ Keeps(Expect(")"), k) /\ Keeps(Rule("members_after_new"), k)
      /\ Keeps(Throw("cannot_specify_return_type_of_constructor"), k)
  BY KeepsParts, TextsNotEof DEF FreshRules, Outcomes
<1>2. QED BY <1>1, Combining, TextsNotEof DEF Constructor, Params

LEMMA ModItemsRun == ASSUME NEW k \in Nat PROVE Keeps(ModItems, k)
<1>1. /\ Keeps(Rule("mod_item"), k) /\ Keeps(Rule("mod_items"), k)
      /\ Keeps(Throw("import_not_allowed_here"), k)
  BY KeepsParts DEF FreshRules, Outcomes
<1>2. QED BY <1>1, Combining, TextsNotEof DEF ModItems

LEMMA CatchesRun ==
  ASSUME NEW k \in Nat, NEW tok \in 1 .. k - 1
  PROVE  Keeps(Catches(tok), k)
<1>1. tok \in 1 .. k /\ tok < k
  OBVIOUS
<1>2. Keeps(Type, k) /\ Keeps(Scope, k) /\ Keeps(ExpectIdent, k) /\ Keeps(Expect(":"), k)
  BY KeepsParts, TextsNotEof
<1>3. Keeps(Again("catches", tok), k)
  BY <1>1, RunsAgain DEF Keeps, LoopRules
<1>4. \A kind : Keeps(Make(kind, tok, 0), k)
  BY KeepsMake
<1>5. QED BY <1>2, <1>3, <1>4, Combining, TextsNotEof DEF Catches

\* The nodes are made behind the token that is eaten.
LEMMA PostfixRuns ==
  ASSUME NEW n \in Nat, NEW tok \in 1 .. n
  PROVE  Keeps(Postfix(tok), n)
<1> DEFINE k == n + 1
<1>1. k \in Nat /\ tok \in 1 .. k - 1 /\ tok \in 1 .. k /\ k = n + 1
  OBVIOUS
<1>2. /\ Keeps(Expr, k) /\ Keeps(ExpectInt, k) /\ Keeps(Rule("factor"), k)
      /\ Keeps(Expect(")"), k) /\ Keeps(Expect("]"), k) /\ Keeps(Expect(">"), k)
  BY <1>1, KeepsParts, TextsNotEof DEF FreshRules
<1>3. Keeps(Again("postfix", tok), k)
  BY <1>1, RunsAgain DEF Keeps, LoopRules
<1>4. \A kind : Keeps(Make(kind, tok, 0), k)
  BY <1>1, KeepsMake
<1>5. Keeps(<<>>, n)
  BY KeepsNothing
<1> HIDE DEF k
<1> DEFINE more == Again("postfix", tok)
           f == "(" :> (Eat(")" :> <<>>, List(Expr \o Maybe(":", Expr)) \o Expect(")"))
                        \o Make("CallFunc", tok, 0) \o more)
                @@ "[" :> (Eat(":" :> Expr, Expr \o Maybe(":", Look("]" :> <<>>, Expr)))
                           \o Expect("]") \o Make("Subscript", tok, 0) \o more)
                @@ "." :> (Eat("<" :> (ExpectInt \o Expect(">") \o Make("GetTupleElement", tok, 0)),
                               Rule("factor") \o Make("MemberAccess", tok, 0)) \o more)
                @@ "++" :> Make("Inclement", tok, 0)
                @@ "--" :> Make("Declement", tok, 0)
<1>6. Entries(f, k) /\ NotEnd(f)
  BY <1>1, <1>2, <1>3, <1>4, Combining, TextsNotEof
<1> HIDE DEF f
<1>7. Keeps(Eat(f, <<>>), n)
  BY <1>1, <1>5, <1>6, KeepsEatNext
<1>8. QED BY <1>7 DEF Postfix, f

LEMMA KeepsMakeAt ==
  ASSUME NEW k \in Nat, NEW first \in 1 .. k - 1, NEW op \in first .. k - 1
  PROVE  \A kind : Keeps(Make(kind, first, op), k)
  BY RunsMake DEF Keeps

LEMMA AssignRuns ==
  ASSUME NEW n \in Nat, NEW tok \in 1 .. n
  PROVE  Keeps(Assign(tok, n), n)
<1> DEFINE k == n + 1
           f == [t \in Assignments |-> Expr \o Make("Assign", tok, n)]
<1>1. k \in Nat /\ tok \in 1 .. k - 1 /\ n \in tok .. k - 1 /\ k = n + 1
  OBVIOUS
<1>2. Keeps(Expr \o Make("Assign", tok, n), k)
  <2>1. Keeps(Expr, k) /\ \A kind : Keeps(Make(kind, tok, n), k)
    BY <1>1, KeepsParts, KeepsMakeAt
  <2> HIDE DEF k
  <2>2. QED BY <1>1, <2>1, Combining
<1>3. Entries(f, k)
  BY <1>2 DEF Entries
<1>4. NotEnd(f) /\ Keeps(<<>>, n)
  BY KeepsNothing DEF NotEnd, Assignments, Eof
<1> HIDE DEF f, k
<1>5. Keeps(Eat(f, <<>>), n)
  BY <1>1, <1>3, <1>4, KeepsEatNext
<1>6. QED BY <1>5 DEF Assign, f

LEMMA LevelsFacts ==
  /\ DOMAIN Levels = 1 .. 10 /\ Len(Levels) = 10
  /\ \A k \in DOMAIN Levels : NotEnd(Levels[k])
<1>1. DOMAIN Levels = 1 .. 10 /\ Len(Levels) = 10
  BY DEF Levels
<1>2. /\ NotEnd(Levels[1]) /\ NotEnd(Levels[2]) /\ NotEnd(Levels[3]) /\ NotEnd(Levels[4])
      /\ NotEnd(Levels[5]) /\ NotEnd(Levels[6]) /\ NotEnd(Levels[7]) /\ NotEnd(Levels[8])
      /\ NotEnd(Levels[9]) /\ NotEnd(Levels[10])
  BY DEF Levels, NotEnd, :>, @@, Eof
<1>3. QED BY <1>1, <1>2

LEMMA RoundRuns ==
  ASSUME NEW lev \in DOMAIN Levels, NEW n \in Nat, NEW tok \in 1 .. n
  PROVE  Keeps(Round(lev, tok, n), n)
<1> DEFINE k == n + 1
           f == [t \in DOMAIN Levels[lev] |->
                   Operand(lev) \o Make(Levels[lev][t], tok, n) \o Loop(lev, tok)]
<1>1. k \in Nat /\ tok \in 1 .. k - 1 /\ tok \in 1 .. k /\ n \in tok .. k - 1 /\ k = n + 1
  OBVIOUS
<1>2. Keeps(Operand(lev), k)
  <2>1. CASE lev = Len(Levels)
    BY <1>1, <2>1, KeepsParts DEF Operand, FreshRules
  <2>2. CASE lev # Len(Levels)
    <3>1. lev + 1 \in DOMAIN Levels /\ k + 1 \in Nat /\ k <= k + 1
      BY <2>2, LevelsFacts
    <3>2. Runs(Level(lev + 1), k, k + 1)
      BY <1>1, <3>1, RunsLevel
    <3>3. QED BY <1>1, <2>2, <3>1, <3>2, KeepsIfRuns DEF Operand
  <2>3. QED BY <2>1, <2>2
<1>3. Keeps(Loop(lev, tok), k) /\ \A kind : Keeps(Make(kind, tok, n), k)
  BY <1>1, RunsLoop, KeepsMakeAt DEF Keeps
<1>4. ASSUME NEW kind PROVE Keeps(Operand(lev) \o Make(kind, tok, n) \o Loop(lev, tok), k)
  <2> HIDE DEF k
  <2>1. QED BY <1>1, <1>2, <1>3, Combining
<1>5. Entries(f, k)
  BY <1>4 DEF Entries
<1>6. NotEnd(f) /\ Keeps(<<>>, n)
  BY KeepsNothing, LevelsFacts DEF NotEnd
<1> HIDE DEF f, k
<1>7. Keeps(Eat(f, <<>>), n)
  BY <1>1, <1>5, <1>6, KeepsEatNext
<1>8. QED BY <1>7 DEF Round, f

LEMMA UnaryRuns ==
  ASSUME NEW tok \in Nat \ {0}
  PROVE  Runs(Unary(tok), tok, tok + 1)
<1> DEFINE k == tok + 1
           f == [t \in DOMAIN PrefixKinds |-> Rule("subscript") \o Make(PrefixKinds[t], tok, tok)]
<1>1. k \in Nat /\ tok \in 1 .. k - 1 /\ tok \in tok .. k - 1 /\ k = tok + 1 /\ tok \in Nat
  OBVIOUS
<1>2. Keeps(Rule("subscript"), k) /\ Keeps(Exit, k) /\ \A kind : Keeps(Make(kind, tok, tok), k)
  BY <1>1, KeepsParts, KeepsMakeAt DEF FreshRules
<1>3. Runs(Rule("subscript"), tok, k)
  BY <1>1, ReadsParts DEF FreshRules, LoopRules, Least
<1>4. ASSUME NEW kind PROVE Keeps(Rule("subscript") \o Make(kind, tok, tok), k)
  <2> HIDE DEF k
  <2>1. QED BY <1>1, <1>2, Combining
<1>5. Entries(f, k)
  BY <1>4 DEF Entries
<1>6. NotEnd(f)
  BY DEF NotEnd, PrefixKinds, :>, @@, Eof
<1>7. Keeps(Skip("+"), tok)
  BY Combining, TextsNotEof
<1> HIDE DEF f, k
<1>8. Runs(Skip("+") \o Rule("subscript"), tok, k)
  BY <1>1, <1>3, <1>7, Reading
<1>9. Runs(Eat(f @@ "delete" :> Exit, Skip("+") \o Rule("subscript")), tok, k)
  BY <1>1, <1>2, <1>5, <1>6, <1>8, Combining, TextsNotEof, Reading
<1>10. QED BY <1>9 DEF Unary, f, k

\* What is to be done for a level is what is to be done for the next one and its loop.
LEMMA LevelUnfolds ==
  ASSUME NEW lev \in DOMAIN Levels, NEW tok
  PROVE  \E loops :
           /\ LevelBody(lev, tok) = loops[lev] \o IF lev = 1 THEN Again("assign", tok) ELSE <<>>
           /\ \A i \in lev .. Len(Levels) + 1 :
                loops[i] = IF i > Len(Levels) THEN Rule("unary") ELSE loops[i + 1] \o Loop(i, tok)
<1> DEFINE N == Len(Levels)
           D == lev .. N + 1
           At(F, i) == IF i > N THEN Rule("unary") ELSE F[i + 1] \o Loop(i, tok)
           Is(f) == f = [i \in lev .. Len(Levels) + 1 |->
                           IF i > Len(Levels) THEN Rule("unary") ELSE f[i + 1] \o Loop(i, tok)]
           loops == CHOOSE f : Is(f)
           V == Seq({[do |-> "rule", rule |-> "unary", first |-> 0]}
                    \cup {[do |-> "loop", level |-> i, first |-> tok] : i \in 1 .. 10})
<1>1. N = 10 /\ lev \in 1 .. 10 /\ DOMAIN Levels = 1 .. 10
  BY LevelsFacts
<1>2. Rule("unary") \in V /\ \A i \in 1 .. 10 : Loop(i, tok) \in V
  BY DEF Rule, Loop
<1>3. \A s, t \in V : s \o t \in V
  OBVIOUS
<1> HIDE DEF V, N
<1>4. \E f : Is(f)
  <2> DEFINE h == [q \in D |-> [F \in [D -> V] |-> At(F, q)]]
  <2>1. ASSUME NEW q \in D PROVE q \in Int /\ (~(q > N) => q + 1 \in q + 1 .. N + 1 /\ q + 1 \in D /\ q \in 1 .. 10)
    BY <1>1
  <2>2. ASSUME NEW q \in D, NEW F \in [D -> V] PROVE At(F, q) \in V
    BY <1>2, <1>3, <2>1
  <2>3. h \in [D -> [[D -> V] -> V]]
    BY <2>2, Zenon
  <2>4. \A q \in D : \A F \in [D -> V] : h[q][F] = At(F, q)
    BY Zenon
  <2>5. ASSUME NEW q \in D, NEW F \in [D -> V], NEW G \in [D -> V],
               \A r \in q + 1 .. N + 1 : F[r] = G[r]
        PROVE  h[q][F] = h[q][G]
    <3>1. At(F, q) = At(G, q)
      BY <2>1, <2>5
    <3> HIDE DEF h, At
    <3>2. QED BY <2>4, <3>1
  <2> HIDE DEF h
  <2>6. FromLarger(h, lev, N + 1, V)
    BY <2>3, <2>5, Zenon DEF FromLarger
  <2>7. lev \in Int /\ N + 1 \in Int
    BY <1>1
  <2>8. PICK f \in [D -> V] : IsFixed(f, h, lev, N + 1)
    BY <1>2, <2>6, <2>7, Descending
  <2>9. \A q \in D : f[q] = At(f, q)
    BY <2>4, <2>8, Zenon DEF IsFixed
  <2>10. Is(f)
    BY <2>9, Zenon DEF N
  <2>11. QED BY <2>10
<1>5. \A i \in D : loops[i] = At(loops, i)
  <2>1. Is(loops)
    <3> HIDE DEF Is
    <3>1. QED BY <1>4
  <2> HIDE DEF loops
  <2>2. QED BY <2>1, Zenon DEF N
<1>6. LevelBody(lev, tok) = loops[lev] \o IF lev = 1 THEN Again("assign", tok) ELSE <<>>
  BY Zenon DEF LevelBody
<1> HIDE DEF loops
<1>7. QED BY <1>5, <1>6 DEF N

\* A level: its first operand comes from the lowest, whose loops follow.
LEMMA LevelRuns ==
  ASSUME NEW lev \in DOMAIN Levels, NEW tok \in Nat \ {0}
  PROVE  Runs(LevelBody(lev, tok), tok, tok + 1)
<1> DEFINE N == Len(Levels)
           D == lev .. N + 1
           k == tok + 1
<1>1. N = 10 /\ lev \in 1 .. 10 /\ k \in Nat /\ tok \in Nat /\ tok \in 1 .. k /\ k = tok + 1
      /\ DOMAIN Levels = 1 .. 10
  BY LevelsFacts
<1>2. PICK loops :
         /\ LevelBody(lev, tok) = loops[lev] \o IF lev = 1 THEN Again("assign", tok) ELSE <<>>
         /\ \A i \in D : loops[i] = IF i > N THEN Rule("unary") ELSE loops[i + 1] \o Loop(i, tok)
  BY LevelUnfolds
<1> HIDE DEF N, k
<1> DEFINE T == {i \in D : Runs(loops[i], tok, k)}
<1>3. ASSUME NEW q \in D, \A r \in q + 1 .. N + 1 : r \in T PROVE q \in T
  <2>1. CASE q > N
    <3>1. Runs(Rule("unary"), tok, k)
      BY <1>1, ReadsParts DEF FreshRules, LoopRules, Least
    <3>2. QED BY <1>2, <2>1, <3>1
  <2>2. CASE ~(q > N)
    <3>1. q + 1 \in q + 1 .. N + 1 /\ q \in DOMAIN Levels
      BY <1>1, <2>2
    <3>2. Runs(loops[q + 1], tok, k)
      BY <1>3, <3>1
    <3>3. Runs(Loop(q, tok), k, k)
      BY <1>1, <3>1, RunsLoop
    <3>4. Runs(loops[q + 1] \o Loop(q, tok), tok, k)
      BY <1>1, <3>2, <3>3, RunsJoin
    <3>5. QED BY <1>2, <2>2, <3>4
  <2>3. QED BY <2>1, <2>2
<1>4. lev \in T
  <2> HIDE DEF T
  <2>1. lev \in Int /\ N + 1 \in Int /\ lev \in D
    BY <1>1
  <2>2. D \subseteq T
    BY <1>3, <2>1, FromAbove
  <2>3. QED BY <2>1, <2>2
<1>5. Keeps(Again("assign", tok), k) /\ Keeps(<<>>, k)
  BY <1>1, RunsAgain, KeepsNothing DEF Keeps, LoopRules
<1>6. Runs(loops[lev] \o IF lev = 1 THEN Again("assign", tok) ELSE <<>>, tok, k)
  BY <1>1, <1>4, <1>5, ReadsJoin
<1>7. QED BY <1>2, <1>6 DEF k

\* A rule that begins at the current token reads as many tokens as Least says.
LEMMA FreshRuns ==
  ASSUME NEW r \in FreshRules, NEW tok \in Nat \ {0}
  PROVE  Runs(Body(r, tok, tok), tok, tok + Least(r))
<1>1. tok \in Nat /\ tok + 1 \in Nat /\ tok + 0 = tok
  OBVIOUS
<1>2. CASE r \in {"symbol", "typename_symbol", "type_name", "factor", "subscript", "unary"}
  BY <1>1, <1>2, SymbolRuns, TypeNameRuns, FactorRuns, SubscriptRuns, UnaryRuns
     DEF Body, Least, LoopRules
<1>3. CASE r \in {"let", "let_in_condition"}
  <2>1. Keeps(Expect(";"), tok + 1) /\ Keeps(<<>>, tok + 1)
    BY <1>1, KeepsParts, KeepsNothing, TextsNotEof
  <2>2. QED BY <1>3, <2>1, LetRuns DEF Body, Least, LoopRules
<1>4. CASE r \in {"stmt", "scope", "statements", "enum", "namespace", "namespace_items", "mod_item"}
  BY <1>4, StmtRuns, ScopeRuns, StatementsRuns, EnumRuns, NamespaceRuns, NamespaceItemsRuns,
     ModItemRuns DEF Body, Least, LoopRules
<1>5. CASE r \in {"function", "method", "class"}
  BY <1>5, FunctionRuns, ClassRuns DEF Body, Least, LoopRules
<1>6. CASE r \in {"members", "members_after_new", "mod_items"}
  <2>1. Keeps(Constructor, tok) /\ Keeps(Throw("duplicate_of_definition"), tok)
    BY <1>1, ConstructorRuns, KeepsParts DEF Outcomes
  <2>2. Keeps(Body(r, tok, tok), tok)
    BY <1>1, <1>6, <2>1, MembersRun, ModItemsRun DEF Body
  <2>3. QED BY <1>1, <1>6, <2>2 DEF Keeps, Least
<1>7. QED BY <1>2, <1>3, <1>4, <1>5, <1>6 DEF FreshRules

\* A rule that goes on with what began at tok does not go back.
LEMMA LoopRuleRuns ==
  ASSUME NEW r \in LoopRules, NEW n \in Nat, NEW tok \in 1 .. n, r = "catches" => tok < n
  PROVE  Runs(Body(r, tok, n), n, n)
<1>1. CASE r = "postfix"
  BY <1>1, PostfixRuns DEF Body, Keeps
<1>2. CASE r = "assign"
  BY <1>2, AssignRuns DEF Body, Keeps
<1>3. CASE r = "catches"
  <2>1. tok \in 1 .. n - 1
    BY <1>3
  <2>2. QED BY <1>3, <2>1, CatchesRun DEF Body, Keeps
<1>4. QED BY <1>1, <1>2, <1>3 DEF LoopRules
-----------------------------------------------------------------------------
(* The invariant.                                                          *)

\* The tokens end with the end marker.
Ended == IsSeq(input) /\ Len(input) \in DOMAIN input /\ input[Len(input)] = Eof

NodesAreMade ==
  IsSeq(made) /\ \A i \in DOMAIN made : made[i].first \in Nat /\ made[i].op \in Nat /\ made[i].last \in Nat

\* What the attempts in t go back to: to a token, and to nodes ns of tokens
\* before it; an attempt around another one to fewer nodes.
Tries(t, ns) ==
  \A i \in DOMAIN t : t[i].do = "try" =>
    /\ t[i].save \in DOMAIN input
    /\ t[i].made \in 0 .. Len(ns)
    /\ \A j \in 1 .. t[i].made : ns[j].last <= t[i].save
    /\ \A j \in DOMAIN t : j < i /\ t[j].do = "try" => t[i].made <= t[j].made

IInv ==
  /\ TypeOK
  /\ Ended
  /\ NodesAreMade
  /\ Proceeds(todo, cur, 0)
  /\ Tries(todo, made)

LEMMA Initially == ASSUME Init, Inputs \subseteq Seq(STRING \ {Eof}) PROVE IInv
<1>1. PICK s \in Inputs : input = Append(s, Eof)
  BY DEF Init
<1>2. s \in Seq(STRING \ {Eof})
  BY <1>1
<1>3. input \in Seq(STRING \cup {Eof}) /\ Len(input) = Len(s) + 1 /\ Len(s) \in Nat /\ input[Len(s) + 1] = Eof
  BY <1>1, <1>2
<1>4. Ended /\ 1 \in DOMAIN input
  BY <1>3, IsSeqOf DEF Ended
<1>5. IsSeq(made) /\ DOMAIN made = {} /\ Nodes = {}
  <2>1. made = <<>>
    BY DEF Init
  <2>2. DOMAIN made = {} /\ IsSeq(<<>>)
    BY <2>1 DEF IsSeq
  <2>3. QED BY <2>1, <2>2 DEF Nodes
<1>6. Runs(Rule("mod_items"), 1, 0)
  <2>1. "mod_items" \in FreshRules /\ Least("mod_items") = 0
    BY DEF FreshRules, Least
  <2>2. Runs(Rule("mod_items"), 1, 1)
    BY <2>1, RunsRule
  <2>3. QED BY <2>2, RunsWeaker
<1>7. Proceeds(todo, cur, 0) /\ NoTry(todo)
  BY <1>6, RunsIs DEF Init
<1>8. Tries(todo, made)
  BY <1>7 DEF Tries, NoTry
<1>9. TypeOK
  BY <1>4, <1>5 DEF TypeOK, Init, Outcomes
<1>10. QED BY <1>4, <1>5, <1>7, <1>8, <1>9 DEF IInv, NodesAreMade

\* Behind a token that is not the end there is another one.
LEMMA NextToken ==
  ASSUME IInv, Text(cur) # Eof
  PROVE  cur + 1 \in DOMAIN input
<1>1. DOMAIN input = 1 .. Len(input) /\ Len(input) \in Nat
  BY SeqFacts DEF IInv, Ended
<1>2. cur \in DOMAIN input
  BY DEF IInv, TypeOK
<1>3. cur # Len(input)
  <2>1. SUFFICES ASSUME cur = Len(input) PROVE FALSE
    OBVIOUS
  <2>2. input[cur] = Eof
    BY <2>1 DEF IInv, Ended
  <2>3. cur \notin split
    BY <2>2 DEF IInv, TypeOK, Eof
  <2>4. QED BY <2>2, <2>3 DEF Text
<1>4. QED BY <1>1, <1>2, <1>3

\* What the invariant says of the first instruction.
LEMMA FirstFits ==
  ASSUME IInv, todo # <<>>
  PROVE  \E W : \E n, m \in Nat : /\ Sound(W) /\ Fits(W, Now, n, m) /\ n <= cur
                                  /\ Proceeds(Tail(todo), m, 0)
<1>1. PICK W : Sound(W) /\ Chain(W, todo, cur, 0)
  BY DEF IInv, Proceeds
<1>2. IsSeq(todo) /\ cur \in Nat
  <2>1. IsSeq(todo)
    BY <1>1 DEF Chain
  <2>2. DOMAIN input = 1 .. Len(input) /\ cur \in DOMAIN input
    BY SeqFacts DEF IInv, Ended, TypeOK
  <2>3. QED BY <2>1, <2>2
<1>3. 1 \in 1 .. Len(todo) /\ Head(todo) = todo[1] /\ Tail(todo) = SubSeq(todo, 1 + 1, Len(todo))
  BY <1>2, TailIsRest
<1>4. PICK j, k \in Nat : /\ Has(W, todo[1], j, k)
                          /\ Chain(W, Tail(todo), k, 0)
                          /\ j <= cur
  <2>1. \E j, k \in Nat : /\ Has(W, todo[1], j, k)
                          /\ Chain(W, SubSeq(todo, 1 + 1, Len(todo)), k, 0)
                          /\ 1 = 1 => j <= cur
    BY <1>1, <1>2, <1>3, ChainFrom
  <2>2. QED BY <1>3, <2>1
<1>5. PICK n, m \in Nat : <<todo[1], n, m>> \in W /\ n <= j /\ k <= m
  BY <1>4 DEF Has
<1>6. Fits(W, todo[1], n, m)
  BY <1>1, <1>5 DEF Sound
<1>7. Chain(W, Tail(todo), m, 0)
  BY <1>4, <1>5, ChainWeaker
<1>8. n <= cur
  BY <1>2, <1>4, <1>5
<1>9. Proceeds(Tail(todo), m, 0)
  BY <1>1, <1>7 DEF Proceeds
<1>10. QED BY <1>1, <1>3, <1>6, <1>8, <1>9 DEF Now

\* Attempts stay good when s is put in front of them, and nodes are added.
LEMMA TriesGo ==
  ASSUME NEW t, IsSeq(t), NEW ns, NEW ms, Tries(t, ns), t # <<>>,
         Len(ns) \in Nat, Len(ms) \in Nat, Len(ns) <= Len(ms),
         \A i \in 1 .. Len(ns) : ms[i] = ns[i],
         NEW s, IsSeq(s), NoTry(s)
  PROVE  Tries(s \o Tail(t), ms)
<1> DEFINE r == Tail(t)
           u == s \o r
           S == Len(s)
           L == Len(t)
<1>1. Len(s) \in Nat /\ Len(t) \in Nat /\ DOMAIN t = 1 .. L /\ DOMAIN s = 1 .. S
  BY SeqFacts
<1>2. IsSeq(r) /\ Len(r) = L - 1 /\ \A i \in 1 .. L - 1 : r[i] = t[1 + i]
  <2>1. 1 \in 1 .. Len(t) /\ r = SubSeq(t, 1 + 1, Len(t))
    BY TailIsRest
  <2> HIDE DEF r
  <2>2. IsSeq(SubSeq(t, 1 + 1, Len(t))) /\ Len(SubSeq(t, 1 + 1, Len(t))) = Len(t) - 1
        /\ \A i \in 1 .. Len(t) - 1 : SubSeq(t, 1 + 1, Len(t))[i] = t[1 + i]
    BY <2>1, RestIsSeq
  <2>3. QED BY <2>1, <2>2
<1> HIDE DEF r
<1>3. IsSeq(u) /\ Len(u) = S + (L - 1) /\ (\A i \in 1 .. S : u[i] = s[i])
      /\ \A i \in S + 1 .. S + (L - 1) : u[i] = r[i - S]
  <2>1. IsSeq(s \o r) /\ Len(s \o r) = Len(s) + Len(r)
        /\ (\A i \in 1 .. Len(s) : (s \o r)[i] = s[i])
        /\ \A i \in Len(s) + 1 .. Len(s) + Len(r) : (s \o r)[i] = r[i - Len(s)]
    BY <1>2, JoinIsSeq
  <2>2. QED BY <1>2, <2>1
<1>4. DOMAIN u = 1 .. S + (L - 1)
  BY <1>3, SeqFacts
<1> HIDE DEF u
<1>5. ASSUME NEW i \in DOMAIN u, u[i].do = "try"
      PROVE  i - S + 1 \in DOMAIN t /\ u[i] = t[i - S + 1]
  <2>1. i > S
    <3>1. SUFFICES ASSUME i \in 1 .. S PROVE FALSE
      BY <1>1, <1>4
    <3>2. QED BY <1>1, <1>3, <1>5, <3>1 DEF NoTry
  <2>2. i \in S + 1 .. S + (L - 1) /\ i - S \in 1 .. L - 1 /\ i - S + 1 \in 1 .. L /\ 1 + (i - S) = i - S + 1
    BY <1>1, <1>4, <2>1
  <2>3. QED BY <1>1, <1>2, <1>3, <2>2
<1>6. ASSUME NEW i \in DOMAIN u, u[i].do = "try"
      PROVE  /\ u[i].save \in DOMAIN input
             /\ u[i].made \in 0 .. Len(ms)
             /\ \A j \in 1 .. u[i].made : ms[j].last <= u[i].save
             /\ \A j \in DOMAIN u : j < i /\ u[j].do = "try" => u[i].made <= u[j].made
  <2> DEFINE a == i - S + 1
  <2>1. a \in DOMAIN t /\ u[i] = t[a]
    BY <1>5, <1>6
  <2> HIDE DEF a
  <2>2. /\ t[a].save \in DOMAIN input
        /\ t[a].made \in 0 .. Len(ns)
        /\ \A j \in 1 .. t[a].made : ns[j].last <= t[a].save
        /\ \A j \in DOMAIN t : j < a /\ t[j].do = "try" => t[a].made <= t[j].made
    BY <1>6, <2>1 DEF Tries
  <2>3. t[a].made \in 0 .. Len(ms)
    BY <2>2
  <2>4. ASSUME NEW j \in 1 .. t[a].made PROVE ms[j].last <= t[a].save
    <3>1. j \in 1 .. Len(ns)
      BY <2>2
    <3>2. QED BY <2>2, <3>1
  <2>5. ASSUME NEW j \in DOMAIN u, j < i, u[j].do = "try" PROVE t[a].made <= u[j].made
    <3>1. j - S + 1 \in DOMAIN t /\ u[j] = t[j - S + 1]
      BY <1>5, <2>5
    <3>2. j - S + 1 < a
      BY <1>1, <1>4, <2>5 DEF a
    <3>3. QED BY <2>2, <2>5, <3>1, <3>2
  <2>6. QED BY <2>1, <2>2, <2>3, <2>4, <2>5
<1>7. QED BY <1>6 DEF Tries, u, r

\* The invariant after a step that goes on with s.
LEMMA GoesOn ==
  ASSUME IInv, todo # <<>>, NEW s, NEW c, NEW m \in Nat, c \in DOMAIN input, cur <= c,
         Runs(s, c, m), Proceeds(Tail(todo), m, 0), GoOn(s, c)
  PROVE  IInv'
<1>1. /\ todo' = s \o Tail(todo) /\ cur' = c
      /\ input' = input /\ split' = split /\ lost' = lost /\ outcome' = outcome /\ made' = made
  BY DEF GoOn, Go
<1>2. DOMAIN input = 1 .. Len(input) /\ cur \in DOMAIN input /\ c \in Nat /\ cur \in Nat
  BY SeqFacts DEF IInv, Ended, TypeOK
<1>3. Proceeds(s, c, m) /\ NoTry(s) /\ IsSeq(s)
  BY RunsIs, ProceedsIsSeq
<1>4. Proceeds(todo', cur', 0)
  BY <1>1, <1>2, <1>3, ProceedsJoin
<1>5. Tries(todo, made)'
  <2>1. IsSeq(todo) /\ IsSeq(made)
    BY ProceedsIsSeq DEF IInv, NodesAreMade
  <2>2. Len(made) \in Nat /\ Len(made) <= Len(made)
    BY <2>1, SeqFacts
  <2>3. Tries(s \o Tail(todo), made)
    BY <1>3, <2>1, <2>2, TriesGo DEF IInv
  <2>4. QED BY <1>1, <2>3 DEF Tries
<1>6. TypeOK'
  <2>1. ASSUME NEW n \in Nodes PROVE n.last <= c
    <3>1. n.last <= cur
      BY DEF IInv, TypeOK
    <3>2. n.last \in Nat
      BY DEF IInv, NodesAreMade, Nodes
    <3>3. QED BY <1>2, <3>1, <3>2
  <2>2. Nodes' = Nodes
    BY <1>1 DEF Nodes
  <2>3. QED BY <1>1, <2>1, <2>2 DEF TypeOK, IInv
<1>7. Ended' /\ NodesAreMade'
  BY <1>1 DEF IInv, Ended, NodesAreMade, IsSeq
<1>8. QED BY <1>1, <1>4, <1>5, <1>6, <1>7 DEF IInv

\* What the invariant says of the variables' sequences and of the cursor.
LEMMA IsSeqParts ==
  ASSUME IInv
  PROVE  /\ IsSeq(todo) /\ DOMAIN todo = 1 .. Len(todo) /\ Len(todo) \in Nat
         /\ IsSeq(made) /\ DOMAIN made = 1 .. Len(made) /\ Len(made) \in Nat
         /\ DOMAIN input = 1 .. Len(input) /\ Len(input) \in Nat
         /\ cur \in DOMAIN input /\ cur \in Nat /\ cur # 0
<1>1. IsSeq(todo) /\ IsSeq(made) /\ IsSeq(input)
  BY ProceedsIsSeq DEF IInv, NodesAreMade, Ended
<1>2. DOMAIN input = 1 .. Len(input) /\ cur \in DOMAIN input
  BY <1>1, SeqFacts DEF IInv, TypeOK
<1>3. QED BY <1>1, <1>2, SeqFacts

LEMMA ProceedsNothing == ASSUME NEW n \in Nat PROVE Proceeds(<<>>, n, 0)
  BY RunsNothing, RunsIs

\* An exception takes the parser back to where an attempt began, or ends it.
LEMMA FailStep ==
  ASSUME IInv, todo # <<>>, NEW e \in Outcomes, Fail(e)
  PROVE  IInv'
<1>0. /\ IsSeq(todo) /\ DOMAIN todo = 1 .. Len(todo) /\ Len(todo) \in Nat
      /\ IsSeq(made) /\ DOMAIN made = 1 .. Len(made) /\ Len(made) \in Nat
      /\ DOMAIN input = 1 .. Len(input) /\ Len(input) \in Nat
      /\ cur \in DOMAIN input /\ cur \in Nat /\ cur # 0
  BY IsSeqParts
<1> DEFINE tries == {i \in DOMAIN todo : todo[i].do = "try"}
           i == CHOOSE j \in tries : \A m \in tries : j <= m
<1>1. input' = input /\ split' = split
  BY DEF Fail
<1>2. CASE tries = {}
  <2>1. outcome' = e /\ todo' = <<>> /\ lost' = lost /\ cur' = cur /\ made' = made
    BY <1>2 DEF Fail
  <2>2. Proceeds(todo', cur', 0)
    <3>1. Proceeds(<<>>, cur, 0)
      BY <1>0, ProceedsNothing
    <3>2. QED BY <2>1, <3>1
  <2>3. Tries(todo', made') /\ Tries(todo, made)'
    BY <2>1 DEF Tries
  <2>4. TypeOK'
    <3>1. Nodes' = Nodes
      BY <2>1 DEF Nodes
    <3>2. QED BY <1>1, <2>1, <3>1 DEF TypeOK, IInv
  <2>5. QED BY <1>1, <2>1, <2>2, <2>3, <2>4 DEF IInv, Ended, NodesAreMade, IsSeq
<1>3. CASE tries # {}
  <2>1. i \in tries /\ \A m \in tries : i <= m
    <3>1. tries \subseteq Nat
      <4>1. tries \subseteq 1 .. Len(todo)
        BY <1>0
      <4> HIDE DEF tries
      <4>2. QED BY <1>0, <4>1
    <3> HIDE DEF tries
    <3>2. \E j \in tries : \A m \in tries : j <= m
      BY <1>3, <3>1, LeastNumber
    <3>3. QED BY <3>2
  <2>2. /\ todo' = SubSeq(todo, i + 1, Len(todo)) /\ cur' = todo[i].save
        /\ made' = SubSeq(made, 1, todo[i].made)
        /\ lost' = lost \cup {p \in split : p > todo[i].save} /\ outcome' = outcome
    BY <1>3 DEF Fail
  <2>3. i \in 1 .. Len(todo) /\ todo[i].do = "try"
    BY <2>1, <1>0
  <2> HIDE DEF i, tries
  <2>4. /\ todo[i].save \in DOMAIN input
        /\ todo[i].made \in 0 .. Len(made)
        /\ \A j \in 1 .. todo[i].made : made[j].last <= todo[i].save
    BY <2>3, <1>0 DEF IInv, Tries
  <2>5. todo[i].save \in Nat /\ todo[i].made \in Nat /\ todo[i].made <= Len(made)
    BY <2>4, <1>0
  <2>6. Len(made') = todo[i].made /\ IsSeq(made') /\ \A j \in 1 .. todo[i].made : made'[j] = made[j]
    <3> DEFINE S == {made[j] : j \in DOMAIN made}
    <3>1. made \in Seq(S)
      BY <1>0 DEF IsSeq
    <3> HIDE DEF S
    <3>2. made' \in Seq(S)
      BY <2>2, <2>5, <3>1, <1>0
    <3>3. Len(made') = todo[i].made /\ \A j \in 1 .. todo[i].made : made'[j] = made[j]
      BY <2>2, <2>5, <3>1, <1>0
    <3>4. QED BY <3>2, <3>3, IsSeqOf
  <2>7. Proceeds(todo', cur', 0)
    <3>1. PICK W : Sound(W) /\ Chain(W, todo, cur, 0)
      BY DEF IInv, Proceeds
    <3>2. PICK j, k \in Nat : /\ Has(W, todo[i], j, k)
                              /\ Chain(W, SubSeq(todo, i + 1, Len(todo)), k, 0)
      BY <2>3, <3>1, <1>0, ChainFrom
    <3>3. PICK n, m \in Nat : <<todo[i], n, m>> \in W /\ k <= m
      BY <3>2 DEF Has
    <3>4. Fits(W, todo[i], n, m)
      BY <3>1, <3>3 DEF Sound
    <3>5. m <= todo[i].save
      BY <2>3, <3>4 DEF Fits, Simple
    <3>6. k <= todo[i].save
      BY <2>5, <3>3, <3>5
    <3>7. Chain(W, SubSeq(todo, i + 1, Len(todo)), todo[i].save, 0)
      BY <2>5, <3>2, <3>6, ChainWeaker
    <3>8. QED BY <2>2, <3>1, <3>7 DEF Proceeds
  <2>8. Tries(todo, made)'
    <3>1. IsSeq(todo') /\ Len(todo') = Len(todo) - i /\ \A j \in 1 .. Len(todo) - i : todo'[j] = todo[i + j]
      BY <2>2, <2>3, <1>0, RestIsSeq
    <3>2. DOMAIN todo' = 1 .. Len(todo) - i
      BY <3>1, SeqFacts
    <3>3. ASSUME NEW j \in DOMAIN todo'
          PROVE  i + j \in DOMAIN todo /\ todo'[j] = todo[i + j] /\ i < i + j /\ j \in Nat
      BY <2>3, <3>1, <3>2, <1>0
    <3>4. ASSUME NEW j \in DOMAIN todo', todo'[j].do = "try"
          PROVE  /\ todo'[j].save \in DOMAIN input
                 /\ todo'[j].made \in 0 .. Len(made')
                 /\ \A l \in 1 .. todo'[j].made : made'[l].last <= todo'[j].save
                 /\ \A l \in DOMAIN todo' : l < j /\ todo'[l].do = "try" => todo'[j].made <= todo'[l].made
      <4>1. i + j \in DOMAIN todo /\ todo'[j] = todo[i + j] /\ i < i + j
        BY <3>3
      <4>2. /\ todo[i + j].save \in DOMAIN input
            /\ todo[i + j].made \in 0 .. Len(made)
            /\ \A l \in 1 .. todo[i + j].made : made[l].last <= todo[i + j].save
            /\ \A l \in DOMAIN todo : l < i + j /\ todo[l].do = "try" => todo[i + j].made <= todo[l].made
        BY <3>4, <4>1 DEF IInv, Tries
      <4>3. todo[i + j].made <= todo[i].made
        BY <2>3, <4>1, <4>2, <1>0
      <4>4. todo'[j].made \in 0 .. Len(made')
        BY <2>5, <2>6, <4>1, <4>2, <4>3, <1>0
      <4>5. ASSUME NEW l \in 1 .. todo'[j].made PROVE made'[l].last <= todo'[j].save
        <5>1. l \in 1 .. todo[i].made /\ l \in 1 .. todo[i + j].made
          BY <2>5, <2>6, <4>1, <4>4
        <5>2. QED BY <2>6, <4>1, <4>2, <5>1
      <4>6. ASSUME NEW l \in DOMAIN todo', l < j, todo'[l].do = "try" PROVE todo'[j].made <= todo'[l].made
        <5>1. i + l \in DOMAIN todo /\ todo'[l] = todo[i + l] /\ i + l < i + j
          BY <2>3, <3>3, <4>6
        <5>2. QED BY <4>1, <4>2, <4>6, <5>1
      <4>7. QED BY <4>1, <4>2, <4>4, <4>5, <4>6
    <3>5. QED BY <1>1, <3>4 DEF Tries
  <2>9. NodesAreMade' /\ TypeOK'
    <3>1. DOMAIN made' = 1 .. todo[i].made
      BY <2>6, SeqFacts
    <3>2. ASSUME NEW j \in 1 .. todo[i].made
          PROVE  made'[j] = made[j] /\ j \in DOMAIN made /\ made[j] \in Nodes /\ made[j].last <= todo[i].save
      BY <2>4, <2>5, <2>6, <1>0 DEF Nodes
    <3>3. NodesAreMade'
      BY <2>6, <3>1, <3>2 DEF NodesAreMade, IInv
    <3>4. \A n \in Nodes' : n \in Nodes /\ n.last <= todo[i].save
      BY <3>1, <3>2 DEF Nodes
    <3>5. TypeOK'
      BY <1>1, <2>2, <2>4, <3>4 DEF TypeOK, IInv
    <3>6. QED BY <3>3, <3>5
  <2>10. Ended'
    BY <1>1 DEF IInv, Ended, IsSeq
  <2>11. QED BY <2>7, <2>8, <2>9, <2>10 DEF IInv
<1>4. QED BY <1>2, <1>3

\* A node of tokens that are read is added, and the parser goes on at token c.
LEMMA MakeStep ==
  ASSUME IInv, todo # <<>>, NEW c \in DOMAIN input, cur <= c, NEW m \in Nat, m <= c,
         Proceeds(Tail(todo), m, 0),
         NEW node, node.first \in Nat \ {0}, node.last \in Nat, node.op \in node.first .. node.last,
         node.first <= node.last, node.last <= c,
         made' = Append(made, node), todo' = Tail(todo), cur' = c, input' = input, outcome' = outcome,
         lost' = lost, split' \in {split, split \cup {cur}},
         split' # split => input[cur] = ">>"
  PROVE  IInv'
<1>0. /\ IsSeq(todo) /\ DOMAIN todo = 1 .. Len(todo) /\ Len(todo) \in Nat
      /\ IsSeq(made) /\ DOMAIN made = 1 .. Len(made) /\ Len(made) \in Nat
      /\ DOMAIN input = 1 .. Len(input) /\ Len(input) \in Nat
      /\ cur \in DOMAIN input /\ cur \in Nat /\ cur # 0
  BY IsSeqParts
<1>1. Len(made') = Len(made) + 1 /\ IsSeq(made') /\ made'[Len(made) + 1] = node
      /\ \A i \in 1 .. Len(made) : made'[i] = made[i]
  <2> DEFINE S == {made[j] : j \in DOMAIN made}
  <2>1. made \in Seq(S)
    BY <1>0 DEF IsSeq
  <2> HIDE DEF S
  <2>2. made \in Seq(S \cup {node}) /\ made' \in Seq(S \cup {node})
    BY <2>1
  <2>3. Len(made') = Len(made) + 1 /\ made'[Len(made) + 1] = node
        /\ \A i \in 1 .. Len(made) : made'[i] = made[i]
    BY <2>2
  <2>4. QED BY <2>2, <2>3, IsSeqOf
<1>2. DOMAIN made' = 1 .. Len(made) + 1 /\ DOMAIN made = 1 .. Len(made) /\ Len(made) \in Nat
  BY <1>1, SeqFacts, <1>0
<1>3. \A i \in DOMAIN made' : (i \in DOMAIN made /\ made'[i] = made[i]) \/ made'[i] = node
  BY <1>1, <1>2
<1>4. \A n \in Nodes' : n \in Nodes \/ n = node
  BY <1>3 DEF Nodes
<1>5. Proceeds(todo', cur', 0)
  <2>1. c \in Nat
    BY <1>0
  <2>2. Proceeds(Tail(todo), c, 0)
    BY <2>1, ProceedsWeaker
  <2>3. QED BY <2>2
<1>6. Tries(todo, made)'
  <2>1. IsSeq(<<>>) /\ NoTry(<<>>)
    BY DEF IsSeq, NoTry
  <2>2. Len(made') \in Nat /\ Len(made) <= Len(made')
    BY <1>1, <1>2
  <2>3. Tries(<<>> \o Tail(todo), made')
    BY <1>1, <1>2, <2>1, <2>2, TriesGo, <1>0 DEF IInv
  <2>4. <<>> \o Tail(todo) = Tail(todo)
    BY <1>0 DEF IsSeq
  <2>5. QED BY <2>3, <2>4 DEF Tries
<1>7. NodesAreMade'
  BY <1>1, <1>3 DEF NodesAreMade, IInv
<1>8. TypeOK'
  <2>1. ASSUME NEW n \in Nodes' PROVE 1 <= n.first /\ n.first <= n.last /\ n.last <= c /\ n.op \in n.first .. n.last
    <3>1. CASE n \in Nodes
      <4>1. n.last \in Nat /\ n.last <= cur /\ 1 <= n.first /\ n.first <= n.last /\ n.op \in n.first .. n.last
        BY <3>1 DEF IInv, TypeOK, NodesAreMade, Nodes
      <4>2. QED BY <4>1, <1>0
    <3>2. CASE n = node
      BY <3>2
    <3>3. QED BY <1>4, <2>1, <3>1, <3>2
  <2>2. split' \subseteq {p \in DOMAIN input : input[p] = ">>"} /\ lost \subseteq split'
    BY <1>0 DEF IInv, TypeOK
  <2>3. QED BY <2>1, <2>2 DEF TypeOK, IInv
<1>9. Ended'
  BY DEF IInv, Ended, IsSeq
<1>10. QED BY <1>5, <1>6, <1>7, <1>8, <1>9 DEF IInv
-----------------------------------------------------------------------------
(* The actions.                                                            *)

\* The first instruction, by what it is, and what the rest needs.
FirstIs(what, W, n, m) ==
  /\ todo # <<>> /\ Now.do = what
  /\ Sound(W) /\ Fits(W, Now, n, m) /\ n <= cur /\ Proceeds(Tail(todo), m, 0)

LEMMA Beginning ==
  ASSUME IInv, NEW what, Do(what)
  PROVE  \E W : \E n, m \in Nat : FirstIs(what, W, n, m)
  BY FirstFits DEF Do, FirstIs

LEMMA InnerRuns ==
  ASSUME NEW W, Sound(W), NEW s, NEW n, NEW m, Inner(W, s, n, m)
  PROVE  Runs(s, n, m)
  BY DEF Runs

\* A token that a rule asks for is not the end.
LEMMA ExpectStep ==
  ASSUME IInv, NEW what, NEW ok \in BOOLEAN, NEW e \in Outcomes, ExpectOr(what, ok, e),
         \A x, W : \A n, m \in Nat : x.do = what /\ Fits(W, x, n, m) => m <= n + 1,
         ok => Text(cur) # Eof
  PROVE  IInv'
<1>1. PICK W : \E n, m \in Nat : FirstIs(what, W, n, m)
  BY Beginning DEF ExpectOr
<1>2. PICK n, m \in Nat : FirstIs(what, W, n, m)
  BY <1>1
<1>3. m <= n + 1 /\ n <= cur /\ todo # <<>> /\ Proceeds(Tail(todo), m, 0)
  BY <1>2 DEF FirstIs
<1>4. CASE ok
  <2>1. cur + 1 \in DOMAIN input
    BY <1>4, NextToken
  <2>2. cur \in Nat /\ cur + 1 \in Nat /\ cur <= cur + 1 /\ m <= cur + 1
    BY <1>3, IsSeqParts
  <2>3. Runs(<<>>, cur + 1, m)
    BY <2>2, RunsNothing
  <2>4. GoOn(<<>>, cur + 1)
    BY <1>4 DEF ExpectOr
  <2>5. QED BY <1>3, <2>1, <2>2, <2>3, <2>4, GoesOn
<1>5. CASE ~ok
  <2>1. Fail(e)
    BY <1>5 DEF ExpectOr
  <2>2. QED BY <1>3, <2>1, FailStep
<1>6. QED BY <1>4, <1>5

LEMMA ExpectSteps == ASSUME IInv, DoExpect \/ DoIdent \/ DoInt PROVE IInv'
<1>1. "expected_but_found" \in Outcomes /\ "expected_identifier_tok" \in Outcomes
  BY DEF Outcomes
<1>2. \A x, W : \A n, m \in Nat : x.do \in {"expect", "ident", "int"} /\ Fits(W, x, n, m) => m <= n + 1
  BY DEF Fits, Simple
<1>3. CASE DoExpect
  <2>1. Text(cur) = Now.text => Text(cur) # Eof
    <3>1. Do("expect")
      BY <1>3 DEF DoExpect, ExpectOr
    <3>2. PICK W : \E n, m \in Nat : FirstIs("expect", W, n, m)
      BY <3>1, Beginning
    <3>3. PICK n, m \in Nat : FirstIs("expect", W, n, m)
      BY <3>2
    <3>4. Now.do = "expect" /\ Fits(W, Now, n, m)
      BY <3>3 DEF FirstIs
    <3>5. Now.text # Eof
      BY <3>4 DEF Fits, Simple
    <3>6. QED BY <3>5
  <2>2. (Text(cur) = Now.text) \in BOOLEAN /\ ExpectOr("expect", Text(cur) = Now.text, "expected_but_found")
    BY <1>3 DEF DoExpect
  <2>3. QED BY <1>1, <1>2, <2>1, <2>2, ExpectStep
<1>4. CASE DoIdent
  <2>1. IsIdentifier(Text(cur)) => Text(cur) # Eof
    BY DEF IsIdentifier
  <2>2. IsIdentifier(Text(cur)) \in BOOLEAN
        /\ ExpectOr("ident", IsIdentifier(Text(cur)), "expected_identifier_tok")
    BY <1>4 DEF DoIdent, IsIdentifier
  <2>3. QED BY <1>1, <1>2, <2>1, <2>2, ExpectStep
<1>5. CASE DoInt
  <2>1. Text(cur) \in IntLiterals => Text(cur) # Eof
    BY TextsAssumption
  <2>2. (Text(cur) \in IntLiterals) \in BOOLEAN
        /\ ExpectOr("int", Text(cur) \in IntLiterals, "expected_but_found")
    BY <1>5 DEF DoInt
  <2>3. QED BY <1>1, <1>2, <2>1, <2>2, ExpectStep
<1>6. QED BY <1>3, <1>4, <1>5

LEMMA EatStep == ASSUME IInv, DoEat PROVE IInv'
<1>1. PICK W : \E n, m \in Nat : FirstIs("eat", W, n, m)
  BY Beginning DEF DoEat
<1>2. PICK n, m \in Nat : FirstIs("eat", W, n, m)
  BY <1>1
<1>3. /\ n <= cur /\ todo # <<>> /\ Proceeds(Tail(todo), m, 0)
      /\ Now.do = "eat" /\ Sound(W) /\ Fits(W, Now, n, m)
  BY <1>2 DEF FirstIs
<1>4. cur \in DOMAIN input /\ cur \in Nat /\ cur # 0 /\ cur + 1 \in Nat /\ n + 1 \in Nat
      /\ cur <= cur /\ cur <= cur + 1 /\ n + 1 <= cur + 1 /\ m <= m
  BY <1>3, IsSeqParts
<1>5. /\ Eof \notin DOMAIN Now.table
      /\ \A t \in DOMAIN Now.table : Inner(W, Now.table[t], n + 1, m)
      /\ Inner(W, Now.no, n, m)
  BY <1>3 DEF Fits, Simple
<1>6. CASE Text(cur) \in DOMAIN Now.table
  <2>1. GoOn(Now.table[Text(cur)], cur + 1)
    BY <1>6 DEF DoEat
  <2>2. Runs(Now.table[Text(cur)], n + 1, m)
    BY <1>3, <1>5, <1>6, InnerRuns
  <2>3. Runs(Now.table[Text(cur)], cur + 1, m)
    BY <1>4, <2>2, RunsWeaker
  <2>4. cur + 1 \in DOMAIN input
    BY <1>5, <1>6, NextToken
  <2>5. QED BY <1>3, <1>4, <2>1, <2>3, <2>4, GoesOn
<1>7. CASE Text(cur) \notin DOMAIN Now.table
  <2>1. GoOn(Now.no, cur)
    BY <1>7 DEF DoEat
  <2>2. Runs(Now.no, n, m)
    BY <1>3, <1>5, InnerRuns
  <2>3. Runs(Now.no, cur, m)
    BY <1>3, <1>4, <2>2, RunsWeaker
  <2>4. QED BY <1>3, <1>4, <2>1, <2>3, GoesOn
<1>8. QED BY <1>6, <1>7

LEMMA LookStep == ASSUME IInv, DoLook PROVE IInv'
<1>1. PICK W : \E n, m \in Nat : FirstIs("look", W, n, m)
  BY Beginning DEF DoLook
<1>2. PICK n, m \in Nat : FirstIs("look", W, n, m)
  BY <1>1
<1>3. /\ n <= cur /\ todo # <<>> /\ Proceeds(Tail(todo), m, 0)
      /\ Now.do = "look" /\ Sound(W) /\ Fits(W, Now, n, m)
  BY <1>2 DEF FirstIs
<1>4. cur \in DOMAIN input /\ cur \in Nat /\ cur # 0 /\ cur + 1 \in Nat /\ n + 1 \in Nat
      /\ cur <= cur /\ cur <= cur + 1 /\ n + 1 <= cur + 1 /\ m <= m
  BY <1>3, IsSeqParts
<1>5. /\ \A t \in DOMAIN Now.table : Inner(W, Now.table[t], n, m)
      /\ Inner(W, Now.no, n, m)
  BY <1>3 DEF Fits, Simple
<1> DEFINE s == IF Text(cur) \in DOMAIN Now.table THEN Now.table[Text(cur)] ELSE Now.no
<1>6. GoOn(s, cur)
  BY DEF DoLook
<1>7. Runs(s, n, m)
  BY <1>3, <1>5, InnerRuns
<1> HIDE DEF s
<1>8. Runs(s, cur, m)
  BY <1>3, <1>4, <1>7, RunsWeaker
<1>9. QED BY <1>3, <1>4, <1>6, <1>8, GoesOn

LEMMA ListStep == ASSUME IInv, DoList PROVE IInv'
<1>1. PICK W : \E n, m \in Nat : FirstIs("list", W, n, m)
  BY Beginning DEF DoList
<1>2. PICK n, m \in Nat : FirstIs("list", W, n, m)
  BY <1>1
<1>3. /\ n <= cur /\ todo # <<>> /\ Proceeds(Tail(todo), m, 0)
      /\ Now.do = "list" /\ Sound(W) /\ Fits(W, Now, n, m)
  BY <1>2 DEF FirstIs
<1>4. cur \in DOMAIN input /\ cur \in Nat /\ cur # 0 /\ cur + 1 \in Nat /\ n + 1 \in Nat
      /\ cur <= cur /\ cur <= cur + 1 /\ n + 1 <= cur + 1 /\ m <= m
  BY <1>3, IsSeqParts
<1>5. Inner(W, Now.body, n, n) /\ m <= n
  BY <1>3 DEF Fits, Simple
<1>6. CASE Text(cur) = ","
  <2>1. GoOn(Now.body \o <<Now>>, cur + 1)
    BY <1>6 DEF DoList
  <2>2. Runs(Now.body, n, n) /\ n <= cur + 1
    BY <1>3, <1>4, <1>5, InnerRuns
  <2>3. Runs(Now.body, cur + 1, n)
    BY <1>4, <2>2, RunsWeaker
  <2>4. Runs(<<Now>>, n, m)
    BY <1>3, <1>5, <2>2, RunsBody
  <2>5. Runs(Now.body \o <<Now>>, cur + 1, m)
    BY <1>4, <2>3, <2>4, RunsJoin
  <2>6. cur + 1 \in DOMAIN input
    BY <1>6, NextToken, TextsNotEof
  <2>7. QED BY <1>3, <1>4, <2>1, <2>5, <2>6, GoesOn
<1>7. CASE Text(cur) # ","
  <2>1. GoOn(<<>>, cur)
    BY <1>7 DEF DoList
  <2>2. m <= cur
    BY <1>3, <1>4, <1>5
  <2>3. Runs(<<>>, cur, m)
    BY <1>4, <2>2, RunsNothing
  <2>4. QED BY <1>3, <1>4, <2>1, <2>3, GoesOn
<1>8. QED BY <1>6, <1>7

LEMMA RuleStep == ASSUME IInv, DoRule PROVE IInv'
<1>1. PICK W : \E n, m \in Nat : FirstIs("rule", W, n, m)
  BY Beginning DEF DoRule
<1>2. PICK n, m \in Nat : FirstIs("rule", W, n, m)
  BY <1>1
<1>3. /\ n <= cur /\ todo # <<>> /\ Proceeds(Tail(todo), m, 0)
      /\ Now.do = "rule" /\ Sound(W) /\ Fits(W, Now, n, m)
  BY <1>2 DEF FirstIs
<1>4. cur \in DOMAIN input /\ cur \in Nat /\ cur # 0 /\ cur + 1 \in Nat /\ n + 1 \in Nat
      /\ cur <= cur /\ cur <= cur + 1 /\ n + 1 <= cur + 1 /\ m <= m
  BY <1>3, IsSeqParts
<1>5. \/ Now.rule \in FreshRules /\ Now.first = 0 /\ m <= n + Least(Now.rule)
      \/ /\ Now.rule \in LoopRules /\ Now.first \in 1 .. n /\ m <= n
         /\ Now.rule = "catches" => Now.first < n
  BY <1>3 DEF Fits, Simple
<1>6. CASE Now.rule \in FreshRules /\ Now.first = 0 /\ m <= n + Least(Now.rule)
  <2>1. GoOn(Body(Now.rule, cur, cur), cur)
    BY <1>6 DEF DoRule
  <2>2. Runs(Body(Now.rule, cur, cur), cur, cur + Least(Now.rule))
    BY <1>4, <1>6, FreshRuns
  <2>3. Least(Now.rule) \in Nat
    BY DEF Least
  <2>4. cur + Least(Now.rule) \in Nat /\ m <= cur + Least(Now.rule)
    BY <1>3, <1>4, <1>6, <2>3
  <2>5. Runs(Body(Now.rule, cur, cur), cur, m)
    BY <1>4, <2>2, <2>4, RunsWeaker
  <2>6. QED BY <1>3, <1>4, <2>1, <2>5, GoesOn
<1>7. CASE /\ Now.rule \in LoopRules /\ Now.first \in 1 .. n /\ m <= n
           /\ Now.rule = "catches" => Now.first < n
  <2>1. Now.first # 0
    BY <1>7
  <2>2. GoOn(Body(Now.rule, Now.first, cur), cur)
    BY <2>1 DEF DoRule
  <2>3. Now.first \in 1 .. cur /\ m <= cur /\ (Now.rule = "catches" => Now.first < cur)
    BY <1>3, <1>4, <1>7
  <2>4. Runs(Body(Now.rule, Now.first, cur), cur, cur)
    BY <1>4, <1>7, <2>3, LoopRuleRuns
  <2>5. Runs(Body(Now.rule, Now.first, cur), cur, m)
    BY <1>4, <2>3, <2>4, RunsWeaker
  <2>6. QED BY <1>3, <1>4, <2>2, <2>5, GoesOn
<1>8. QED BY <1>5, <1>6, <1>7

LEMMA LevelStep == ASSUME IInv, DoLevel PROVE IInv'
<1>1. PICK W : \E n, m \in Nat : FirstIs("level", W, n, m)
  BY Beginning DEF DoLevel
<1>2. PICK n, m \in Nat : FirstIs("level", W, n, m)
  BY <1>1
<1>3. /\ n <= cur /\ todo # <<>> /\ Proceeds(Tail(todo), m, 0)
      /\ Now.do = "level" /\ Sound(W) /\ Fits(W, Now, n, m)
  BY <1>2 DEF FirstIs
<1>4. cur \in DOMAIN input /\ cur \in Nat /\ cur # 0 /\ cur + 1 \in Nat /\ n + 1 \in Nat
      /\ cur <= cur /\ cur <= cur + 1 /\ n + 1 <= cur + 1 /\ m <= m
  BY <1>3, IsSeqParts
<1>5. Now.level \in DOMAIN Levels /\ m <= n + 1
  BY <1>3 DEF Fits, Simple
<1>6. GoOn(LevelBody(Now.level, cur), cur)
  BY DEF DoLevel
<1>7. Runs(LevelBody(Now.level, cur), cur, cur + 1)
  BY <1>4, <1>5, LevelRuns
<1>8. m <= cur + 1
  BY <1>4, <1>5
<1>9. Runs(LevelBody(Now.level, cur), cur, m)
  BY <1>4, <1>7, <1>8, RunsWeaker
<1>10. QED BY <1>3, <1>4, <1>6, <1>9, GoesOn

LEMMA LoopStep == ASSUME IInv, DoLoop PROVE IInv'
<1>1. PICK W : \E n, m \in Nat : FirstIs("loop", W, n, m)
  BY Beginning DEF DoLoop
<1>2. PICK n, m \in Nat : FirstIs("loop", W, n, m)
  BY <1>1
<1>3. /\ n <= cur /\ todo # <<>> /\ Proceeds(Tail(todo), m, 0)
      /\ Now.do = "loop" /\ Sound(W) /\ Fits(W, Now, n, m)
  BY <1>2 DEF FirstIs
<1>4. cur \in DOMAIN input /\ cur \in Nat /\ cur # 0 /\ cur + 1 \in Nat /\ n + 1 \in Nat
      /\ cur <= cur /\ cur <= cur + 1 /\ n + 1 <= cur + 1 /\ m <= m
  BY <1>3, IsSeqParts
<1>5. Now.level \in DOMAIN Levels /\ Now.first \in 1 .. n /\ m <= n
  BY <1>3 DEF Fits, Simple
<1>6. GoOn(Round(Now.level, Now.first, cur), cur)
  BY DEF DoLoop
<1>7. Now.first \in 1 .. cur /\ m <= cur
  BY <1>3, <1>4, <1>5
<1>8. Runs(Round(Now.level, Now.first, cur), cur, cur)
  BY <1>4, <1>5, <1>7, RoundRuns DEF Keeps
<1>9. Runs(Round(Now.level, Now.first, cur), cur, m)
  BY <1>4, <1>7, <1>8, RunsWeaker
<1>10. QED BY <1>3, <1>4, <1>6, <1>9, GoesOn

LEMMA LiteralStep == ASSUME IInv, DoLiteral PROVE IInv'
<1>1. PICK W : \E n, m \in Nat : FirstIs("literal", W, n, m)
  BY Beginning DEF DoLiteral
<1>2. PICK n, m \in Nat : FirstIs("literal", W, n, m)
  BY <1>1
<1>3. /\ n <= cur /\ todo # <<>> /\ Proceeds(Tail(todo), m, 0)
      /\ Now.do = "literal" /\ Sound(W) /\ Fits(W, Now, n, m)
  BY <1>2 DEF FirstIs
<1>4. cur \in DOMAIN input /\ cur \in Nat /\ cur # 0 /\ cur + 1 \in Nat /\ n + 1 \in Nat
      /\ cur <= cur /\ cur <= cur + 1 /\ n + 1 <= cur + 1 /\ m <= m
  BY <1>3, IsSeqParts
<1>5. m <= n + 1
  BY <1>3 DEF Fits, Simple
<1>6. m <= cur + 1
  BY <1>4, <1>5
<1>7. CASE IsIdentifier(Text(cur))
  <2>1. GoOn(Rule("symbol"), cur)
    BY <1>7 DEF DoLiteral
  <2>2. Runs(Rule("symbol"), cur, cur + 1)
    BY <1>4, ReadsParts DEF FreshRules, LoopRules, Least
  <2>3. Runs(Rule("symbol"), cur, m)
    BY <1>4, <1>6, <2>2, RunsWeaker
  <2>4. QED BY <1>3, <1>4, <2>1, <2>3, GoesOn
<1>8. CASE Text(cur) \in Literals /\ GoOn(Make("Value", cur, 0), cur + 1)
  <2>1. cur + 1 \in DOMAIN input
    BY <1>8, TextsAssumption, NextToken
  <2>2. cur \in 1 .. (cur + 1) - 1
    BY <1>4
  <2>3. Runs(Make("Value", cur, 0), cur + 1, cur + 1)
    BY <1>4, <2>2, KeepsMake DEF Keeps
  <2>4. Runs(Make("Value", cur, 0), cur + 1, m)
    <3>1. cur + 1 <= cur + 1
      BY <1>4
    <3>2. QED BY <1>4, <1>6, <2>3, <3>1, RunsWeaker
  <2>5. QED BY <1>3, <1>4, <1>8, <2>1, <2>4, GoesOn
<1>9. CASE Fail("invalid_character_literal") \/ Fail("invalid_syntax")
  <2>1. "invalid_character_literal" \in Outcomes /\ "invalid_syntax" \in Outcomes
    BY DEF Outcomes
  <2>2. QED BY <1>3, <1>9, <2>1, FailStep
<1>10. QED BY <1>7, <1>8, <1>9 DEF DoLiteral

LEMMA FieldsStep == ASSUME IInv, DoFields PROVE IInv'
<1>1. PICK W : \E n, m \in Nat : FirstIs("fields", W, n, m)
  BY Beginning DEF DoFields
<1>2. PICK n, m \in Nat : FirstIs("fields", W, n, m)
  BY <1>1
<1>3. /\ n <= cur /\ todo # <<>> /\ Proceeds(Tail(todo), m, 0)
      /\ Now.do = "fields" /\ Sound(W) /\ Fits(W, Now, n, m)
  BY <1>2 DEF FirstIs
<1>4. cur \in DOMAIN input /\ cur \in Nat /\ cur # 0 /\ cur + 1 \in Nat /\ n + 1 \in Nat
      /\ cur <= cur /\ cur <= cur + 1 /\ n + 1 <= cur + 1 /\ m <= m
  BY <1>3, IsSeqParts
<1>5. m <= n
  BY <1>3 DEF Fits, Simple
<1>6. m <= cur
  BY <1>3, <1>4, <1>5
<1>7. GoOn(Params, cur) \/ GoOn(Type \o Maybe(",", List(Type)), cur)
  BY DEF DoFields
<1>8. Keeps(Params, cur) /\ Keeps(Type \o Maybe(",", List(Type)), cur)
  <2>1. Keeps(Type, cur) /\ Keeps(ExpectIdent, cur) /\ Keeps(Expect(":"), cur)
    BY <1>4, KeepsParts, TextsNotEof
  <2>2. QED BY <1>4, <2>1, Combining, TextsNotEof DEF Params
<1>9. Runs(Params, cur, m) /\ Runs(Type \o Maybe(",", List(Type)), cur, m)
  BY <1>4, <1>6, <1>8, RunsWeaker DEF Keeps
<1>10. QED BY <1>3, <1>4, <1>7, <1>9, GoesOn

LEMMA TryStep == ASSUME IInv, DoTry PROVE IInv'
<1>1. PICK W : \E n, m \in Nat : FirstIs("try", W, n, m)
  BY Beginning DEF DoTry
<1>2. PICK n, m \in Nat : FirstIs("try", W, n, m)
  BY <1>1
<1>3. /\ n <= cur /\ todo # <<>> /\ Proceeds(Tail(todo), m, 0)
      /\ Now.do = "try" /\ Sound(W) /\ Fits(W, Now, n, m)
  BY <1>2 DEF FirstIs
<1>4. cur \in DOMAIN input /\ cur \in Nat /\ cur # 0 /\ cur + 1 \in Nat /\ n + 1 \in Nat
      /\ cur <= cur /\ cur <= cur + 1 /\ n + 1 <= cur + 1 /\ m <= m
  BY <1>3, IsSeqParts
<1>5. m <= n
  BY <1>3 DEF Fits, Simple
<1>6. GoOn(<<>>, cur)
  BY DEF DoTry
<1>7. m <= cur
  BY <1>3, <1>4, <1>5
<1>8. Runs(<<>>, cur, m)
  BY <1>4, <1>7, RunsNothing
<1>9. QED BY <1>3, <1>4, <1>6, <1>8, GoesOn

LEMMA ThrowStep == ASSUME IInv, DoThrow PROVE IInv'
<1>1. PICK W : \E n, m \in Nat : FirstIs("throw", W, n, m)
  BY Beginning DEF DoThrow
<1>2. PICK n, m \in Nat : FirstIs("throw", W, n, m)
  BY <1>1
<1>3. /\ n <= cur /\ todo # <<>> /\ Proceeds(Tail(todo), m, 0)
      /\ Now.do = "throw" /\ Sound(W) /\ Fits(W, Now, n, m)
  BY <1>2 DEF FirstIs
<1>4. cur \in DOMAIN input /\ cur \in Nat /\ cur # 0 /\ cur + 1 \in Nat /\ n + 1 \in Nat
      /\ cur <= cur /\ cur <= cur + 1 /\ n + 1 <= cur + 1 /\ m <= m
  BY <1>3, IsSeqParts
<1>5. Now.error \in Outcomes
  BY <1>3 DEF Fits, Simple
<1>6. Fail(Now.error)
  BY DEF DoThrow
<1>7. QED BY <1>3, <1>5, <1>6, FailStep

LEMMA MakeNodeStep == ASSUME IInv, DoMake PROVE IInv'
<1>1. PICK W : \E n, m \in Nat : FirstIs("make", W, n, m)
  BY Beginning DEF DoMake
<1>2. PICK n, m \in Nat : FirstIs("make", W, n, m)
  BY <1>1
<1>3. /\ n <= cur /\ todo # <<>> /\ Proceeds(Tail(todo), m, 0)
      /\ Now.do = "make" /\ Sound(W) /\ Fits(W, Now, n, m)
  BY <1>2 DEF FirstIs
<1>4. cur \in DOMAIN input /\ cur \in Nat /\ cur # 0 /\ cur + 1 \in Nat /\ n + 1 \in Nat
      /\ cur <= cur /\ cur <= cur + 1 /\ n + 1 <= cur + 1 /\ m <= m
  BY <1>3, IsSeqParts
<1>5. Now.first \in 1 .. n - 1 /\ Now.op \in {0} \cup (Now.first .. n - 1) /\ m <= n
  BY <1>3 DEF Fits, Simple
<1> DEFINE node == [kind |-> Now.kind, first |-> Now.first, last |-> cur - 1,
                    op |-> IF Now.op = 0 THEN cur - 1 ELSE Now.op]
<1>6. node.first = Now.first /\ node.last = cur - 1 /\ node.op = IF Now.op = 0 THEN cur - 1 ELSE Now.op
  OBVIOUS
<1>7. /\ made' = Append(made, node)
      /\ todo' = <<>> \o Tail(todo) /\ cur' = cur
      /\ input' = input /\ split' = split /\ lost' = lost /\ outcome' = outcome
  BY DEF DoMake, Go
<1> HIDE DEF node
<1>8. m <= cur /\ Now.first \in Nat \ {0} /\ Now.first <= cur - 1 /\ cur - 1 \in Nat /\ cur - 1 <= cur
      /\ cur - 1 \in Now.first .. cur - 1 /\ (Now.op # 0 => Now.op \in Now.first .. cur - 1)
  BY <1>3, <1>4, <1>5
<1>9. node.first \in Nat \ {0} /\ node.last \in Nat /\ node.op \in node.first .. node.last
      /\ node.first <= node.last /\ node.last <= cur
  BY <1>6, <1>8
<1>10. todo' = Tail(todo)
  <2>1. IsSeq(todo)
    BY IsSeqParts
  <2>2. <<>> \o Tail(todo) = Tail(todo)
    BY <1>3, <2>1 DEF IsSeq
  <2>3. QED BY <1>7, <2>2
<1>11. QED BY <1>3, <1>4, <1>7, <1>8, <1>9, <1>10, MakeStep

LEMMA CloseStep == ASSUME IInv, DoClose PROVE IInv'
<1>1. PICK W : \E n, m \in Nat : FirstIs("close", W, n, m)
  BY Beginning DEF DoClose
<1>2. PICK n, m \in Nat : FirstIs("close", W, n, m)
  BY <1>1
<1>3. /\ n <= cur /\ todo # <<>> /\ Proceeds(Tail(todo), m, 0)
      /\ Now.do = "close" /\ Sound(W) /\ Fits(W, Now, n, m)
  BY <1>2 DEF FirstIs
<1>4. cur \in DOMAIN input /\ cur \in Nat /\ cur # 0 /\ cur + 1 \in Nat /\ n + 1 \in Nat
      /\ cur <= cur /\ cur <= cur + 1 /\ n + 1 <= cur + 1 /\ m <= m
  BY <1>3, IsSeqParts
<1>5. Now.first \in 1 .. n /\ m <= n
  BY <1>3 DEF Fits, Simple
<1> DEFINE node == [kind |-> "TypeArgs", first |-> Now.first, op |-> cur, last |-> cur]
<1>6. node.first = Now.first /\ node.last = cur /\ node.op = cur
  OBVIOUS
<1> HIDE DEF node
<1>7. m <= cur /\ m <= cur + 1 /\ Now.first \in Nat \ {0} /\ Now.first <= cur /\ cur \in Now.first .. cur
  BY <1>3, <1>4, <1>5
<1>8. node.first \in Nat \ {0} /\ node.last \in Nat /\ node.op \in node.first .. node.last
      /\ node.first <= node.last /\ node.last <= cur /\ node.last <= cur + 1
  BY <1>4, <1>6, <1>7
<1>9. ASSUME NEW c, Close(c)
      PROVE  /\ made' = Append(made, node) /\ todo' = Tail(todo) /\ cur' = c
             /\ input' = input /\ lost' = lost /\ outcome' = outcome
  BY <1>9 DEF Close, node
<1>10. CASE Text(cur) = ">>" /\ split' = split \cup {cur} /\ Close(cur)
  <2>1. input[cur] = ">>"
    BY <1>10 DEF Text
  <2>2. QED BY <1>3, <1>4, <1>7, <1>8, <1>9, <1>10, <2>1, MakeStep
<1>11. CASE Text(cur) = ">" /\ Close(cur + 1) /\ UNCHANGED split
  <2>1. cur + 1 \in DOMAIN input
    BY <1>11, NextToken, TextsNotEof
  <2>2. QED BY <1>3, <1>4, <1>7, <1>8, <1>9, <1>11, <2>1, MakeStep
<1>12. CASE Fail("expected_but_found")
  <2>1. "expected_but_found" \in Outcomes
    BY DEF Outcomes
  <2>2. QED BY <1>3, <1>12, <2>1, FailStep
<1>13. QED BY <1>10, <1>11, <1>12 DEF DoClose

\* An attempt begins: what to go back to is the current token and the nodes made.
LEMMA AttemptStep == ASSUME IInv, DoAttempt PROVE IInv'
<1>1. PICK W : \E n, m \in Nat : FirstIs("attempt", W, n, m)
  BY Beginning DEF DoAttempt
<1>2. PICK n, m \in Nat : FirstIs("attempt", W, n, m)
  BY <1>1
<1>3. /\ n <= cur /\ todo # <<>> /\ Proceeds(Tail(todo), m, 0)
      /\ Now.do = "attempt" /\ Sound(W) /\ Fits(W, Now, n, m)
  BY <1>2 DEF FirstIs
<1>4. /\ IsSeq(todo) /\ IsSeq(made) /\ DOMAIN made = 1 .. Len(made) /\ Len(made) \in Nat
      /\ cur \in DOMAIN input /\ cur \in Nat /\ cur <= cur /\ n <= n
  BY IsSeqParts
<1>5. Inner(W, Now.body, n, n) /\ m <= n
  BY <1>3 DEF Fits, Simple
<1> DEFINE t == [do |-> "try", save |-> cur, made |-> Len(made)]
           s == Now.body
<1>6. t.do = "try" /\ t.save = cur /\ t.made = Len(made)
  OBVIOUS
<1>7. /\ todo' = (s \o <<t>>) \o Tail(todo) /\ cur' = cur
      /\ input' = input /\ split' = split /\ lost' = lost /\ outcome' = outcome /\ made' = made
  BY DEF DoAttempt, GoOn, Go
<1> HIDE DEF t, s
<1>8. NoTry(s) /\ Proceeds(s, cur, n) /\ IsSeq(s)
  <2>1. Runs(s, n, n)
    BY <1>3, <1>5, InnerRuns DEF s
  <2>2. Runs(s, cur, n)
    BY <1>3, <1>4, <2>1, RunsWeaker
  <2>3. QED BY <2>2, RunsIs, ProceedsIsSeq
<1>9. Proceeds(<<t>>, n, m)
  <2>1. m <= cur
    BY <1>3, <1>4, <1>5
  <2>2. Fits({}, t, n, m)
    BY <1>4, <1>5, <1>6, <2>1 DEF Fits, Simple
  <2>3. Sound({})
    BY DEF Sound
  <2>4. QED BY <2>2, <2>3, SoundAdd
<1>10. Proceeds(todo', cur', 0)
  <2>1. Proceeds(s \o <<t>>, cur, m)
    BY <1>4, <1>8, <1>9, ProceedsJoin
  <2>2. QED BY <1>3, <1>4, <1>7, <2>1, ProceedsJoin
<1>11. Tries(todo, made)'
  <2> DEFINE r == Tail(todo)
             S == Len(s)
             u == todo'
  <2>1. IsSeq(r)
    BY <1>3, ProceedsIsSeq
  <2> HIDE DEF r
  <2>2. Tries(r, made)
    <3>1. IsSeq(<<>>) /\ NoTry(<<>>) /\ Len(made) <= Len(made)
      BY <1>4 DEF IsSeq, NoTry
    <3>2. Tries(<<>> \o Tail(todo), made)
      BY <1>3, <1>4, <3>1, TriesGo DEF IInv
    <3>3. <<>> \o Tail(todo) = Tail(todo)
      BY <2>1 DEF IsSeq, r
    <3>4. QED BY <3>2, <3>3 DEF r
  <2>3. IsSeq(<<t>>) /\ Len(<<t>>) = 1 /\ <<t>>[1] = t
    BY OneFacts
  <2>4. Len(s) \in Nat /\ DOMAIN s = 1 .. S /\ Len(r) \in Nat /\ DOMAIN r = 1 .. Len(r)
    BY <1>8, <2>1, SeqFacts
  <2>5. /\ IsSeq(s \o <<t>>) /\ Len(s \o <<t>>) = S + 1
        /\ \A i \in 1 .. S : (s \o <<t>>)[i] = s[i]
        /\ (s \o <<t>>)[S + 1] = t
    <3>1. /\ IsSeq(s \o <<t>>) /\ Len(s \o <<t>>) = Len(s) + 1
          /\ \A i \in 1 .. Len(s) : (s \o <<t>>)[i] = s[i]
          /\ \A i \in 1 .. 1 : (s \o <<t>>)[Len(s) + i] = <<t>>[i]
      BY <1>8, <2>3, JoinIsSeq
    <3>2. QED BY <2>3, <3>1
  <2>6. /\ IsSeq(u) /\ Len(u) = S + 1 + Len(r)
        /\ \A i \in 1 .. S + 1 : u[i] = (s \o <<t>>)[i]
        /\ \A i \in S + 2 .. S + 1 + Len(r) : u[i] = r[i - (S + 1)]
    <3> DEFINE w == s \o <<t>>
    <3>1. IsSeq(w) /\ Len(w) = S + 1
      BY <2>5
    <3>2. u = w \o r
      BY <1>7 DEF r
    <3> HIDE DEF w, u
    <3>3. /\ IsSeq(w \o r) /\ Len(w \o r) = Len(w) + Len(r)
          /\ \A i \in 1 .. Len(w) : (w \o r)[i] = w[i]
          /\ \A i \in Len(w) + 1 .. Len(w) + Len(r) : (w \o r)[i] = r[i - Len(w)]
      BY <2>1, <3>1, JoinIsSeq
    <3>4. S + 1 + 1 = S + 2
      BY <2>4
    <3>5. QED BY <3>1, <3>2, <3>3, <3>4 DEF w
  <2>7. DOMAIN u = 1 .. S + 1 + Len(r)
    BY <2>6, SeqFacts
  <2> HIDE DEF u
  <2>8. ASSUME NEW i \in DOMAIN u, u[i].do = "try"
        PROVE  \/ i = S + 1 /\ u[i] = t
               \/ i > S + 1 /\ i - (S + 1) \in DOMAIN r /\ u[i] = r[i - (S + 1)]
    <3>1. CASE i <= S
      <4>1. i \in 1 .. S /\ i \in 1 .. S + 1
        BY <2>4, <2>7, <3>1
      <4>2. u[i] = s[i]
        BY <2>5, <2>6, <4>1
      <4>3. QED BY <1>8, <2>4, <2>8, <4>1, <4>2 DEF NoTry
    <3>2. CASE i = S + 1
      <4>1. S + 1 \in 1 .. S + 1
        BY <2>4
      <4>2. QED BY <2>5, <2>6, <3>2, <4>1
    <3>3. CASE i > S + 1
      <4>1. i \in S + 2 .. S + 1 + Len(r) /\ i - (S + 1) \in 1 .. Len(r)
        BY <2>4, <2>7, <3>3
      <4>2. QED BY <2>4, <2>6, <3>3, <4>1
    <3>4. QED BY <2>4, <2>7, <3>1, <3>2, <3>3
  <2>9. ASSUME NEW i \in DOMAIN u, u[i].do = "try"
        PROVE  /\ u[i].save \in DOMAIN input
               /\ u[i].made \in 0 .. Len(made)
               /\ \A j \in 1 .. u[i].made : made[j].last <= u[i].save
               /\ \A j \in DOMAIN u : j < i /\ u[j].do = "try" => u[i].made <= u[j].made
    <3>1. CASE i = S + 1 /\ u[i] = t
      <4>1. u[i].save \in DOMAIN input /\ u[i].made \in 0 .. Len(made)
        BY <1>4, <1>6, <3>1
      <4>2. \A j \in 1 .. u[i].made : made[j].last <= u[i].save
        BY <1>4, <1>6, <3>1 DEF IInv, TypeOK, Nodes
      <4>3. ASSUME NEW j \in DOMAIN u, j < i, u[j].do = "try" PROVE FALSE
        <5>1. j = S + 1 \/ j > S + 1
          BY <2>8, <4>3
        <5>2. QED BY <2>4, <2>7, <3>1, <4>3, <5>1
      <4>4. QED BY <4>1, <4>2, <4>3
    <3>2. CASE i > S + 1 /\ i - (S + 1) \in DOMAIN r /\ u[i] = r[i - (S + 1)]
      <4> DEFINE a == i - (S + 1)
      <4>1. a \in DOMAIN r /\ u[i] = r[a]
        BY <3>2
      <4>2. /\ r[a].save \in DOMAIN input
            /\ r[a].made \in 0 .. Len(made)
            /\ \A j \in 1 .. r[a].made : made[j].last <= r[a].save
            /\ \A j \in DOMAIN r : j < a /\ r[j].do = "try" => r[a].made <= r[j].made
        BY <2>2, <2>9, <4>1 DEF Tries
      <4>3. ASSUME NEW j \in DOMAIN u, j < i, u[j].do = "try" PROVE r[a].made <= u[j].made
        <5>1. CASE j = S + 1 /\ u[j] = t
          BY <1>4, <1>6, <4>2, <5>1
        <5>2. CASE j > S + 1 /\ j - (S + 1) \in DOMAIN r /\ u[j] = r[j - (S + 1)]
          <6>1. j - (S + 1) < a
            BY <2>4, <2>7, <4>3
          <6>2. QED BY <4>2, <4>3, <5>2, <6>1
        <5>3. QED BY <2>8, <4>3, <5>1, <5>2
      <4>4. QED BY <4>1, <4>2, <4>3
    <3>3. QED BY <2>8, <2>9, <3>1, <3>2
  <2>10. QED BY <1>7, <2>9 DEF Tries, u
<1>12. TypeOK' /\ Ended' /\ NodesAreMade'
  <2>1. Nodes' = Nodes
    BY <1>7 DEF Nodes
  <2>2. QED BY <1>7, <2>1 DEF TypeOK, IInv, Ended, NodesAreMade, IsSeq
<1>13. QED BY <1>10, <1>11, <1>12 DEF IInv

\* The parser ends, or nothing happens.
LEMMA EndStep == ASSUME IInv, DoExit \/ Parsed \/ UNCHANGED vars PROVE IInv'
<1>1. /\ input' = input /\ split' = split /\ lost' = lost /\ cur' = cur /\ made' = made
      /\ (todo' = todo \/ todo' = <<>>) /\ outcome' \in Outcomes
  <2>1. outcome \in Outcomes /\ "exit" \in Outcomes /\ "parsed" \in Outcomes
    BY DEF IInv, TypeOK, Outcomes
  <2>2. CASE DoExit
    BY <2>1, <2>2 DEF DoExit
  <2>3. CASE Parsed
    BY <2>1, <2>3 DEF Parsed
  <2>4. CASE UNCHANGED vars
    BY <2>1, <2>4 DEF vars
  <2>5. QED BY <2>2, <2>3, <2>4
<1>2. Nodes' = Nodes
  BY <1>1 DEF Nodes
<1>3. TypeOK' /\ Ended' /\ NodesAreMade'
  BY <1>1, <1>2 DEF TypeOK, IInv, Ended, NodesAreMade, IsSeq
<1>4. Proceeds(<<>>, cur, 0)
  BY IsSeqParts, ProceedsNothing
<1>5. Proceeds(todo', cur', 0)
  BY <1>1, <1>4 DEF IInv
<1>6. Tries(todo, made)'
  BY <1>1 DEF IInv, Tries
<1>7. QED BY <1>3, <1>5, <1>6 DEF IInv

LEMMA Preserved == ASSUME IInv, [Next]_vars PROVE IInv'
  BY ExpectSteps, EatStep, LookStep, ListStep, RuleStep, LevelStep, LoopStep, LiteralStep,
     FieldsStep, AttemptStep, TryStep, CloseStep, MakeNodeStep, ThrowStep, EndStep DEF Next

\* For every program and every table of tokens, the parser never goes past the
\* end marker, splits only a >>, and makes nodes only of tokens it has read.
\* (Each rule reads as many tokens as those around it count on, so that no token
\* is looked at that is not there, and no node is empty.)
THEOREM StaysInTokens == Spec => []TypeOK
<1>1. Init => IInv
  BY Initially, TextsAssumption
<1>2. IInv /\ [Next]_vars => IInv'
  BY Preserved
<1>3. IInv => TypeOK
  BY DEF IInv
<1>4. QED BY <1>1, <1>2, <1>3, PTL DEF Spec

-----------------------------------------------------------------------------
(***************************************************************************)
(* Brackets.  Relation <<s, n, m, k>>: instructions s, begun with n        *)
(* brackets open, end with m open; k says how they may end at the end      *)
(* marker.  As above, there is a relation that explains itself.            *)
(***************************************************************************)

Opening == {"(", "[", "{"}
Closing == {")", "]", "}"}

\* What token t adds to the brackets that are open.
Bal(t) == IF t \in Opening THEN 1 ELSE IF t \in Closing THEN 0 - 1 ELSE 0

\* How an instruction may end at the end marker with one bracket less closed than
\* it is to close: never, as the members of a class do, or as a class does, and
\* what calls one; and the items of the program, which end there.
Kinds == {"plain", "members", "class", "top"}

LastItems == [do |-> "rule", rule |-> "mod_items", first |-> 0]
MoreItems == [do |-> "eat", table |-> "}" :> <<>>, no |-> Rule("namespace_items")]

\* What may come behind an instruction of kind h.
Follows(h, r) ==
  \/ h = "plain"
  \/ h = "members" /\ r # <<>> /\ Head(r).do = "make" /\ Head(r).kind = "Class"
  \/ h = "class" /\ r # <<>> /\ Head(r) \in {LastItems, MoreItems}

NetOf(r) == IF r \in {"statements", "namespace_items", "members", "members_after_new"}
            THEN 0 - 1 ELSE 0
KindOf(r) == IF r \in {"members", "members_after_new"} THEN "members"
             ELSE IF r \in {"class", "mod_item"} THEN "class"
             ELSE IF r = "mod_items" THEN "top" ELSE "plain"

Errors == Outcomes \ {"", "parsed"}

\* Instruction x without instructions inside leads from n open brackets to m.
Single(x, n, m, h) ==
  \/ x.do = "expect" /\ h = "plain" /\ m = n + Bal(x.text)
  \/ x.do \in {"ident", "int", "literal", "level", "loop", "fields", "try", "close"}
     /\ h = "plain" /\ m = n
  \/ x.do = "rule" /\ x.rule \in FreshRules \cup LoopRules
     /\ h = KindOf(x.rule) /\ m = n + NetOf(x.rule)
  \/ x.do = "make" /\ h = (IF x.kind = "Class" THEN "class" ELSE "plain") /\ m = n
  \/ x.do = "throw" /\ x.error \in Errors
  \/ x.do = "exit"

In(W, s, n, m, h) == NoTry(s) /\ <<s, n, m, h>> \in W

\* x does so if the sequences inside do what W says.
Does(W, x, n, m, h) ==
  \/ Single(x, n, m, h)
  \/ /\ x.do = "eat"
     /\ \A t \in DOMAIN x.table : In(W, x.table[t], n + Bal(t), m, h)
     /\ In(W, x.no, n, m, h)
  \/ /\ x.do = "look"
     /\ \A t \in DOMAIN x.table :
          \/ In(W, x.table[t], n, m, h)
          \/ /\ t = Eof /\ x.table[t] = <<>>
             /\ (h = "members" /\ m = n - 1) \/ (h = "top" /\ m = n)
     /\ In(W, x.no, n, m, h)
  \/ x.do \in {"list", "attempt"} /\ h = "plain" /\ m = n /\ In(W, x.body, n, n, "plain")

\* The last instruction of a sequence of kind k.
Last(h, k) == h = k \/ (h = "plain" /\ k # "top")

Steps(W, s, n, m, k) ==
  \E j \in Int, h \in Kinds :
    /\ Does(W, Head(s), n, j, h)
    /\ \/ Tail(s) = <<>> /\ j = m /\ Last(h, k)
       \/ Follows(h, Tail(s)) /\ <<Tail(s), j, m, k>> \in W

Explains(W, s, n, m, k) ==
  /\ IsSeq(s)
  /\ \/ s = <<>> /\ n = m /\ k # "top"
     \/ s # <<>> /\ Steps(W, s, n, m, k)

Consistent(W) ==
  \A s, k : \A n, m \in Int : <<s, n, m, k>> \in W => Explains(W, s, n, m, k)

Goes(s, n, m, k) == \E W : Consistent(W) /\ <<s, n, m, k>> \in W
-----------------------------------------------------------------------------
LEMMA DoesMore ==
  ASSUME NEW W, NEW V, W \subseteq V, NEW x, NEW n, NEW m, NEW h, Does(W, x, n, m, h)
  PROVE  Does(V, x, n, m, h)
<1>1. CASE Single(x, n, m, h)
  BY <1>1 DEF Does
<1>2. \A s, i, j, l : In(W, s, i, j, l) => In(V, s, i, j, l)
  BY DEF In
<1>3. QED BY <1>1, <1>2 DEF Does

LEMMA ExplainsMore ==
  ASSUME NEW W, NEW V, W \subseteq V, NEW s, NEW n, NEW m, NEW k, Explains(W, s, n, m, k)
  PROVE  Explains(V, s, n, m, k)
<1>1. CASE s = <<>>
  BY <1>1 DEF Explains
<1>2. CASE s # <<>>
  <2>1. PICK j \in Int, h \in Kinds :
          /\ Does(W, Head(s), n, j, h)
          /\ \/ Tail(s) = <<>> /\ j = m /\ Last(h, k)
             \/ Follows(h, Tail(s)) /\ <<Tail(s), j, m, k>> \in W
    BY <1>2 DEF Explains, Steps
  <2>2. Does(V, Head(s), n, j, h)
    BY <2>1, DoesMore
  <2>3. Steps(V, s, n, m, k)
    BY <2>1, <2>2 DEF Steps
  <2>4. QED BY <1>2, <2>3 DEF Explains
<1>3. QED BY <1>1, <1>2

LEMMA ConsistentUnion ==
  ASSUME NEW U, \A W \in U : Consistent(W)
  PROVE  Consistent(UNION U)
<1>1. SUFFICES ASSUME NEW s, NEW k, NEW n \in Int, NEW m \in Int, <<s, n, m, k>> \in UNION U
               PROVE  Explains(UNION U, s, n, m, k)
  BY DEF Consistent
<1>2. PICK W \in U : <<s, n, m, k>> \in W
  BY <1>1
<1>3. Explains(W, s, n, m, k)
  BY <1>2 DEF Consistent
<1>4. W \subseteq UNION U
  BY <1>2
<1>5. QED BY <1>3, <1>4, ExplainsMore

LEMMA ConsistentBoth ==
  ASSUME NEW W, NEW V, Consistent(W), Consistent(V)
  PROVE  \E X : Consistent(X) /\ W \subseteq X /\ V \subseteq X
<1>1. \A X \in {W, V} : Consistent(X)
  OBVIOUS
<1>2. Consistent(UNION {W, V})
  BY <1>1, ConsistentUnion
<1>3. W \subseteq UNION {W, V} /\ V \subseteq UNION {W, V}
  OBVIOUS
<1>4. QED BY <1>2, <1>3

LEMMA GoesNothing ==
  ASSUME NEW n \in Int, NEW k, k # "top"
  PROVE  Goes(<<>>, n, n, k)
<1> DEFINE W == {<< <<>>, n, n, k>>}
<1>1. IsSeq(<<>>)
  BY DEF IsSeq
<1>2. ASSUME NEW s, NEW l, NEW i \in Int, NEW j \in Int, <<s, i, j, l>> \in W
      PROVE  Explains(W, s, i, j, l)
  <2>1. s = <<>> /\ i = n /\ j = n /\ l = k
    BY <1>2
  <2>2. QED BY <1>1, <2>1 DEF Explains
<1>3. Consistent(W)
  <2> HIDE DEF W
  <2>1. QED BY <1>2 DEF Consistent
<1>4. << <<>>, n, n, k>> \in W
  OBVIOUS
<1> HIDE DEF W
<1>5. QED BY <1>3, <1>4 DEF Goes

LEMMA GoesOne ==
  ASSUME NEW W, Consistent(W), NEW x, NEW n \in Int, NEW m \in Int, NEW h \in Kinds, NEW k,
         Does(W, x, n, m, h), Last(h, k)
  PROVE  Goes(<<x>>, n, m, k)
<1> DEFINE V == W \cup {<< <<x>>, n, m, k>>}
<1>1. W \subseteq V /\ << <<x>>, n, m, k>> \in V
  OBVIOUS
<1>2. IsSeq(<<x>>) /\ Head(<<x>>) = x /\ Tail(<<x>>) = <<>> /\ <<x>> # <<>>
  BY OneFacts
<1>3. ASSUME NEW s, NEW l, NEW i \in Int, NEW j \in Int, <<s, i, j, l>> \in V
      PROVE  Explains(V, s, i, j, l)
  <2>1. CASE <<s, i, j, l>> \in W
    <3>1. Explains(W, s, i, j, l)
      BY <2>1 DEF Consistent
    <3> HIDE DEF V
    <3>2. QED BY <1>1, <3>1, ExplainsMore
  <2>2. CASE s = <<x>> /\ i = n /\ j = m /\ l = k
    <3> HIDE DEF V
    <3>1. Does(V, x, n, m, h)
      BY <1>1, DoesMore
    <3>2. Steps(V, <<x>>, n, m, k)
      BY <1>2, <3>1 DEF Steps
    <3>3. QED BY <1>2, <2>2, <3>2 DEF Explains
  <2>3. QED BY <1>3, <2>1, <2>2
<1> HIDE DEF V
<1>4. Consistent(V)
  BY <1>3 DEF Consistent
<1>5. QED BY <1>1, <1>4 DEF Goes

\* What ends like any other instruction may end a sequence of another kind.
LEMMA GoesAs ==
  ASSUME NEW s, NEW n \in Int, NEW m \in Int, Goes(s, n, m, "plain"), NEW k, k # "top"
  PROVE  Goes(s, n, m, k)
<1>1. PICK W : Consistent(W) /\ <<s, n, m, "plain">> \in W
  BY DEF Goes
<1> DEFINE New == {<<t[1], t[2], t[3], k>> : t \in {u \in W : u[4] = "plain" /\ u = <<u[1], u[2], u[3], u[4]>>}}
           V == W \cup New
<1>2. W \subseteq V /\ \A t, i, j : <<t, i, j, "plain">> \in W => <<t, i, j, k>> \in V
  <2>1. ASSUME NEW t, NEW i, NEW j, <<t, i, j, "plain">> \in W PROVE <<t, i, j, k>> \in New
    BY <2>1
  <2>2. QED BY <2>1
<1>3. \A t, i, j, l : <<t, i, j, l>> \in V => <<t, i, j, l>> \in W \/ (l = k /\ <<t, i, j, "plain">> \in W)
  OBVIOUS
<1> HIDE DEF V, New
<1>4. ASSUME NEW t, NEW l, NEW i \in Int, NEW j \in Int, <<t, i, j, l>> \in V
      PROVE  Explains(V, t, i, j, l)
  <2>1. CASE <<t, i, j, l>> \in W
    BY <1>1, <1>2, <2>1, ExplainsMore DEF Consistent
  <2>2. CASE l = k /\ <<t, i, j, "plain">> \in W
    <3>1. Explains(W, t, i, j, "plain")
      BY <1>1, <2>2 DEF Consistent
    <3>2. CASE t = <<>>
      BY <2>2, <3>1, <3>2 DEF Explains
    <3>3. CASE t # <<>>
      <4>1. PICK p \in Int, h \in Kinds :
              /\ Does(W, Head(t), i, p, h)
              /\ \/ Tail(t) = <<>> /\ p = j /\ Last(h, "plain")
                 \/ Follows(h, Tail(t)) /\ <<Tail(t), p, j, "plain">> \in W
        BY <3>1, <3>3 DEF Explains, Steps
      <4>2. Does(V, Head(t), i, p, h)
        BY <1>2, <4>1, DoesMore
      <4>3. \/ Tail(t) = <<>> /\ p = j /\ Last(h, k)
            \/ Follows(h, Tail(t)) /\ <<Tail(t), p, j, k>> \in V
        BY <1>2, <4>1 DEF Last
      <4>4. Steps(V, t, i, j, k)
        BY <4>2, <4>3 DEF Steps
      <4>5. QED BY <2>2, <3>1, <3>3, <4>4 DEF Explains
    <3>4. QED BY <3>2, <3>3
  <2>3. QED BY <1>3, <1>4, <2>1, <2>2
<1>5. Consistent(V)
  BY <1>4 DEF Consistent
<1>6. QED BY <1>1, <1>2, <1>5 DEF Goes

LEMMA JoinParts ==
  ASSUME NEW s, NEW t, IsSeq(s), IsSeq(t)
  PROVE  /\ <<>> \o t = t /\ s \o <<>> = s /\ IsSeq(s \o t)
         /\ s # <<>> => /\ s \o t # <<>> /\ Head(s \o t) = Head(s)
                        /\ Tail(s \o t) = Tail(s) \o t /\ IsSeq(Tail(s))
<1> DEFINE S == {s[i] : i \in DOMAIN s} \cup {t[i] : i \in DOMAIN t}
<1>1. s \in Seq(S) /\ t \in Seq(S)
  BY DEF IsSeq
<1> HIDE DEF S
<1>2. s \o t \in Seq(S)
  BY <1>1
<1>3. IsSeq(s \o t)
  BY <1>2, IsSeqOf
<1>4. <<>> \o t = t /\ s \o <<>> = s
  BY <1>1
<1>5. ASSUME s # <<>> PROVE s \o t # <<>> /\ Head(s \o t) = Head(s) /\ Tail(s) \in Seq(S)
                            /\ Tail(s \o t) = Tail(s) \o t
  BY <1>1, <1>5
<1>6. s # <<>> => IsSeq(Tail(s))
  BY <1>5, IsSeqOf
<1>7. QED BY <1>3, <1>4, <1>5, <1>6

LEMMA FollowsSame ==
  ASSUME NEW h, NEW r, NEW t, Follows(h, r), r # <<>>, t # <<>>, Head(t) = Head(r)
  PROVE  Follows(h, t)
  BY DEF Follows

\* One after the other.
LEMMA GoesJoin ==
  ASSUME NEW s, NEW t, NEW n \in Int, NEW i \in Int, NEW m \in Int, NEW h \in Kinds, NEW k,
         Goes(s, n, i, h), Goes(t, i, m, k), Follows(h, t)
  PROVE  Goes(s \o t, n, m, k)
<1>1. PICK W : Consistent(W) /\ <<s, n, i, h>> \in W
  BY DEF Goes
<1>2. PICK V : Consistent(V) /\ <<t, i, m, k>> \in V
  BY DEF Goes
<1> DEFINE New == {<<u[1] \o t, u[2], m, k>> :
                     u \in {w \in W : w = <<w[1], w[2], i, h>> /\ w[2] \in Int /\ IsSeq(w[1])}}
           X == (W \cup V) \cup New
<1>3. IsSeq(s) /\ IsSeq(t)
  BY <1>1, <1>2 DEF Consistent, Explains
<1>4. W \subseteq X /\ V \subseteq X
  OBVIOUS
<1>5. \A u : \A j \in Int : <<u, j, i, h>> \in W => <<u \o t, j, m, k>> \in X
  <2>1. ASSUME NEW u, NEW j \in Int, <<u, j, i, h>> \in W PROVE <<u \o t, j, m, k>> \in New
    <3>1. IsSeq(u)
      BY <1>1, <2>1 DEF Consistent, Explains
    <3>2. QED BY <2>1, <3>1
  <2>2. QED BY <2>1
<1>6. ASSUME NEW y \in New
      PROVE  \E u : \E j \in Int : y = <<u \o t, j, m, k>> /\ <<u, j, i, h>> \in W /\ IsSeq(u)
  OBVIOUS
<1>7. \A y \in X : y \in W \/ y \in V \/ y \in New
  OBVIOUS
<1> HIDE DEF X, New
<1>8. ASSUME NEW u, NEW j \in Int, <<u, j, i, h>> \in W, IsSeq(u)
      PROVE  Explains(X, u \o t, j, m, k)
  <2>1. Explains(W, u, j, i, h)
    BY <1>1, <1>8 DEF Consistent
  <2>2. CASE u = <<>>
    <3>1. j = i /\ u \o t = t
      BY <1>3, <2>1, <2>2, JoinParts DEF Explains
    <3>2. Explains(V, t, i, m, k)
      BY <1>2 DEF Consistent
    <3>3. QED BY <1>4, <3>1, <3>2, ExplainsMore
  <2>3. CASE u # <<>>
    <3>1. PICK p \in Int, g \in Kinds :
            /\ Does(W, Head(u), j, p, g)
            /\ \/ Tail(u) = <<>> /\ p = i /\ Last(g, h)
               \/ Follows(g, Tail(u)) /\ <<Tail(u), p, i, h>> \in W
      BY <2>1, <2>3 DEF Explains, Steps
    <3>2. /\ u \o t # <<>> /\ Head(u \o t) = Head(u) /\ IsSeq(u \o t)
          /\ Tail(u \o t) = Tail(u) \o t /\ IsSeq(Tail(u))
      BY <1>3, <1>8, <2>3, JoinParts
    <3>3. Does(X, Head(u \o t), j, p, g)
      BY <1>4, <3>1, <3>2, DoesMore
    <3>4. CASE Tail(u) = <<>> /\ p = i /\ Last(g, h)
      <4>1. Tail(u \o t) = t
        BY <1>3, <3>2, <3>4, JoinParts
      <4>2. Follows(g, t)
        BY <3>4 DEF Last, Follows
      <4>3. <<t, p, m, k>> \in X
        BY <1>2, <1>4, <3>4
      <4>4. Steps(X, u \o t, j, m, k)
        BY <3>3, <4>1, <4>2, <4>3 DEF Steps
      <4>5. QED BY <3>2, <4>4 DEF Explains
    <3>5. CASE Follows(g, Tail(u)) /\ <<Tail(u), p, i, h>> \in W
      <4>1. <<Tail(u) \o t, p, m, k>> \in X
        BY <1>5, <3>5
      <4>2. Follows(g, Tail(u) \o t)
        <5>1. CASE Tail(u) = <<>>
          BY <3>5, <5>1 DEF Follows
        <5>2. CASE Tail(u) # <<>>
          <6>1. Tail(u) \o t # <<>> /\ Head(Tail(u) \o t) = Head(Tail(u))
            BY <1>3, <3>2, <5>2, JoinParts
          <6>2. QED BY <3>5, <5>2, <6>1, FollowsSame
        <5>3. QED BY <5>1, <5>2
      <4>3. Steps(X, u \o t, j, m, k)
        BY <3>2, <3>3, <4>1, <4>2 DEF Steps
      <4>4. QED BY <3>2, <4>3 DEF Explains
    <3>6. QED BY <3>1, <3>4, <3>5
  <2>4. QED BY <2>2, <2>3
<1>9. ASSUME NEW u, NEW l, NEW j \in Int, NEW p \in Int, <<u, j, p, l>> \in X
      PROVE  Explains(X, u, j, p, l)
  <2>1. CASE <<u, j, p, l>> \in W
    BY <1>1, <1>4, <2>1, ExplainsMore DEF Consistent
  <2>2. CASE <<u, j, p, l>> \in V
    BY <1>2, <1>4, <2>2, ExplainsMore DEF Consistent
  <2>3. CASE <<u, j, p, l>> \in New
    <3>1. PICK v : \E q \in Int : <<u, j, p, l>> = <<v \o t, q, m, k>> /\ <<v, q, i, h>> \in W /\ IsSeq(v)
      BY <1>6, <2>3
    <3>2. u = v \o t /\ p = m /\ l = k /\ <<v, j, i, h>> \in W /\ IsSeq(v)
      BY <3>1
    <3>3. QED BY <1>8, <3>2
  <2>4. QED BY <1>7, <1>9, <2>1, <2>2, <2>3
<1>10. Consistent(X)
  BY <1>9 DEF Consistent
<1>11. <<s \o t, n, m, k>> \in X
  BY <1>1, <1>5
<1>12. QED BY <1>10, <1>11 DEF Goes
-----------------------------------------------------------------------------
\* From n to n + d open brackets, wherever it is begun.
Net(s, d, k) == NoTry(s) /\ \A n \in Int : Goes(s, n, n + d, k)

LEMMA GoesIsSeq ==
  ASSUME NEW s, NEW n \in Int, NEW m \in Int, NEW k, Goes(s, n, m, k)
  PROVE  IsSeq(s)
  BY DEF Goes, Consistent, Explains

LEMMA NetIsSeq == ASSUME NEW s, NEW d \in Int, NEW k, Net(s, d, k) PROVE IsSeq(s)
<1>1. Goes(s, 0, 0 + d, k) /\ 0 + d \in Int
  BY DEF Net
<1>2. QED BY <1>1, GoesIsSeq

LEMMA NetJoin ==
  ASSUME NEW s, NEW t, NEW d \in Int, NEW e \in Int, NEW h \in Kinds, NEW k,
         Net(s, d, h), Net(t, e, k), Follows(h, t)
  PROVE  Net(s \o t, d + e, k)
<1>1. ASSUME NEW n \in Int PROVE Goes(s \o t, n, n + (d + e), k)
  <2>1. n + d \in Int /\ (n + d) + e = n + (d + e) /\ n + (d + e) \in Int
    OBVIOUS
  <2>2. Goes(s, n, n + d, h) /\ Goes(t, n + d, (n + d) + e, k)
    BY <2>1 DEF Net
  <2>3. QED BY <2>1, <2>2, GoesJoin
<1>2. NoTry(s \o t)
  BY NetIsSeq, NoTryJoin DEF Net
<1>3. QED BY <1>1, <1>2 DEF Net

\* An instruction by itself.
LEMMA NetOne ==
  ASSUME NEW x, x.do # "try", NEW d \in Int, NEW h \in Kinds, NEW k, Last(h, k),
         \A n \in Int : \E W : Consistent(W) /\ Does(W, x, n, n + d, h)
  PROVE  Net(<<x>>, d, k)
<1>1. ASSUME NEW n \in Int PROVE Goes(<<x>>, n, n + d, k)
  <2>1. PICK W : Consistent(W) /\ Does(W, x, n, n + d, h)
    OBVIOUS
  <2>2. n + d \in Int
    OBVIOUS
  <2>3. QED BY <2>1, <2>2, GoesOne
<1>2. QED BY <1>1, NoTryOne DEF Net

LEMMA NetSingle ==
  ASSUME NEW x, x.do # "try", NEW d \in Int, NEW h \in Kinds, NEW k, Last(h, k),
         \A n \in Int : Single(x, n, n + d, h)
  PROVE  Net(<<x>>, d, k)
<1>1. Consistent({})
  BY DEF Consistent
<1>2. \A n \in Int : Does({}, x, n, n + d, h)
  BY DEF Does
<1>3. QED BY <1>1, <1>2, NetOne

LEMMA NetAs ==
  ASSUME NEW s, NEW d \in Int, NEW k, Net(s, d, "plain"), k # "top"
  PROVE  Net(s, d, k)
<1>1. ASSUME NEW n \in Int PROVE Goes(s, n, n + d, k)
  <2>1. n + d \in Int /\ Goes(s, n, n + d, "plain")
    BY DEF Net
  <2>2. QED BY <2>1, GoesAs
<1>2. QED BY <1>1 DEF Net

LEMMA NetNothing == ASSUME NEW k, k # "top" PROVE Net(<<>>, 0, k)
<1>1. \A n \in Int : n + 0 = n
  OBVIOUS
<1>2. NoTry(<<>>)
  BY DEF NoTry
<1>3. QED BY <1>1, <1>2, GoesNothing DEF Net
-----------------------------------------------------------------------------
(* Tables.                                                                 *)

LEMMA Together ==
  ASSUME NEW D, NEW f, NEW a, NEW m, NEW k, \A t \in D : Goes(f[t], a[t], m, k)
  PROVE  \E W : Consistent(W) /\ \A t \in D : <<f[t], a[t], m, k>> \in W
<1> DEFINE Why(t) == CHOOSE W : Consistent(W) /\ <<f[t], a[t], m, k>> \in W
           U == {Why(t) : t \in D}
<1>1. ASSUME NEW t \in D PROVE Consistent(Why(t)) /\ <<f[t], a[t], m, k>> \in Why(t)
  <2>1. \E W : Consistent(W) /\ <<f[t], a[t], m, k>> \in W
    BY DEF Goes
  <2>2. QED BY <2>1
<1> HIDE DEF Why
<1>2. Consistent(UNION U)
  <2>1. \A W \in U : Consistent(W)
    BY <1>1
  <2> HIDE DEF U
  <2>2. QED BY <2>1, ConsistentUnion
<1>3. \A t \in D : <<f[t], a[t], m, k>> \in UNION U
  BY <1>1
<1>4. QED BY <1>2, <1>3

\* What the entries of a table do, behind the token that is eaten, or before it.
Eaten(f, d, k)  == \A t \in DOMAIN f : Net(f[t], d - Bal(t), k)
Looked(f, d, k) == \A t \in DOMAIN f : Net(f[t], d, k)

LEMMA BalType == ASSUME NEW t PROVE Bal(t) \in Int
  BY DEF Bal

LEMMA NetEat ==
  ASSUME NEW f, NEW no, NEW d \in Int, NEW k \in Kinds, Eaten(f, d, k), Net(no, d, k)
  PROVE  Net(Eat(f, no), d, k)
<1> DEFINE x == [do |-> "eat", table |-> f, no |-> no]
<1>1. x.do = "eat" /\ x.table = f /\ x.no = no
  OBVIOUS
<1> HIDE DEF x
<1>2. ASSUME NEW n \in Int PROVE \E W : Consistent(W) /\ Does(W, x, n, n + d, k)
  <2> DEFINE a == [t \in DOMAIN f |-> n + Bal(t)]
  <2>1. ASSUME NEW t \in DOMAIN f PROVE a[t] = n + Bal(t) /\ Goes(f[t], a[t], n + d, k)
    <3>1. n + Bal(t) \in Int /\ (n + Bal(t)) + (d - Bal(t)) = n + d
      BY BalType
    <3>2. Goes(f[t], n + Bal(t), (n + Bal(t)) + (d - Bal(t)), k)
      BY <3>1 DEF Eaten, Net
    <3>3. QED BY <3>1, <3>2
  <2> HIDE DEF a
  <2>2. PICK W : Consistent(W) /\ \A t \in DOMAIN f : <<f[t], a[t], n + d, k>> \in W
    BY <2>1, Together
  <2>3. PICK V : Consistent(V) /\ <<no, n, n + d, k>> \in V
    BY DEF Net, Goes
  <2>4. PICK X : Consistent(X) /\ W \subseteq X /\ V \subseteq X
    BY <2>2, <2>3, ConsistentBoth
  <2>5. \A t \in DOMAIN f : In(X, f[t], n + Bal(t), n + d, k)
    BY <2>1, <2>2, <2>4 DEF In, Eaten, Net
  <2>6. In(X, no, n, n + d, k)
    BY <2>3, <2>4 DEF In, Net
  <2>7. QED BY <1>1, <2>4, <2>5, <2>6 DEF Does
<1>3. Last(k, k) /\ x.do # "try"
  BY <1>1 DEF Last
<1>4. Net(<<x>>, d, k)
  BY <1>2, <1>3, NetOne
<1>5. QED BY <1>4 DEF Eat, x

\* At the end marker the members of a class may end without their bracket, and
\* the items of a program end.
EndEntry(f, t, d, k) ==
  t = Eof /\ f[t] = <<>> /\ ((k = "members" /\ d = 0 - 1) \/ (k = "top" /\ d = 0))

LEMMA NetLookEnd ==
  ASSUME NEW f, NEW no, NEW d \in Int, NEW k \in Kinds, Net(no, d, k),
         \A t \in DOMAIN f : Net(f[t], d, k) \/ EndEntry(f, t, d, k)
  PROVE  Net(Look(f, no), d, k)
<1> DEFINE x == [do |-> "look", table |-> f, no |-> no]
<1>1. x.do = "look" /\ x.table = f /\ x.no = no
  OBVIOUS
<1> HIDE DEF x
<1>2. ASSUME NEW n \in Int PROVE \E W : Consistent(W) /\ Does(W, x, n, n + d, k)
  <2> DEFINE D == {t \in DOMAIN f : Net(f[t], d, k)}
             a == [t \in D |-> n]
  <2>1. \A t \in D : a[t] = n /\ Goes(f[t], a[t], n + d, k)
    BY DEF Net
  <2> HIDE DEF a
  <2>2. PICK W : Consistent(W) /\ \A t \in D : <<f[t], a[t], n + d, k>> \in W
    BY <2>1, Together
  <2>3. PICK V : Consistent(V) /\ <<no, n, n + d, k>> \in V
    BY DEF Net, Goes
  <2>4. PICK X : Consistent(X) /\ W \subseteq X /\ V \subseteq X
    BY <2>2, <2>3, ConsistentBoth
  <2>5. ASSUME NEW t \in DOMAIN f
        PROVE  \/ In(X, f[t], n, n + d, k)
               \/ t = Eof /\ f[t] = <<>> /\ ((k = "members" /\ n + d = n - 1) \/ (k = "top" /\ n + d = n))
    <3>1. CASE Net(f[t], d, k)
      <4>1. NoTry(f[t]) /\ t \in D
        BY <3>1 DEF Net
      <4>2. QED BY <2>1, <2>2, <2>4, <4>1 DEF In
    <3>2. CASE EndEntry(f, t, d, k)
      <4>1. (d = 0 - 1 => n + d = n - 1) /\ (d = 0 => n + d = n)
        OBVIOUS
      <4>2. QED BY <3>2, <4>1 DEF EndEntry
    <3>3. QED BY <3>1, <3>2
  <2>6. In(X, no, n, n + d, k)
    BY <2>3, <2>4 DEF In, Net
  <2>7. QED BY <1>1, <2>4, <2>5, <2>6 DEF Does
<1>3. Last(k, k) /\ x.do # "try"
  BY <1>1 DEF Last
<1>4. Net(<<x>>, d, k)
  BY <1>2, <1>3, NetOne
<1>5. QED BY <1>4 DEF Look, x

LEMMA NetLook ==
  ASSUME NEW f, NEW no, NEW d \in Int, NEW k \in Kinds, Looked(f, d, k), Net(no, d, k)
  PROVE  Net(Look(f, no), d, k)
  BY NetLookEnd DEF Looked

LEMMA NetBody ==
  ASSUME NEW body, Net(body, 0, "plain"), NEW x, x.do \in {"list", "attempt"}, x.body = body
  PROVE  Net(<<x>>, 0, "plain")
<1>1. ASSUME NEW n \in Int PROVE \E W : Consistent(W) /\ Does(W, x, n, n + 0, "plain")
  <2>1. n + 0 = n
    OBVIOUS
  <2>2. PICK W : Consistent(W) /\ <<body, n, n, "plain">> \in W
    BY <2>1 DEF Net, Goes
  <2>3. In(W, x.body, n, n, "plain")
    BY <2>2 DEF In, Net
  <2>4. QED BY <2>1, <2>2, <2>3 DEF Does
<1>2. "plain" \in Kinds /\ Last("plain", "plain")
  BY DEF Kinds, Last
<1>3. QED BY <1>1, <1>2, NetOne
-----------------------------------------------------------------------------
(* What goes with one bracket or with none.                                *)

Opens(s)  == Net(s, 1, "plain")
Flat(s)   == Net(s, 0, "plain")
Closes(s) == Net(s, 0 - 1, "plain")

Neutral(t) == t \notin Opening \cup Closing

LEMMA FlatParts ==
  /\ Flat(<<>>)
  /\ \A s : Flat(s) => Flat(List(s)) /\ Flat(Attempt(s))
<1>1. Flat(<<>>)
  BY NetNothing DEF Flat
<1>2. "plain" \in Kinds /\ \A r : Follows("plain", r)
  BY DEF Kinds, Follows
<1>3. ASSUME NEW s, Flat(s) PROVE Flat(List(s))
  <2> DEFINE x == [do |-> "list", body |-> s]
  <2>1. x.do = "list" /\ x.body = s
    OBVIOUS
  <2> HIDE DEF x
  <2>2. Net(<<x>>, 0, "plain")
    BY <1>3, <2>1, NetBody DEF Flat
  <2>3. Net(s \o <<x>>, 0 + 0, "plain")
    BY <1>2, <1>3, <2>2, NetJoin DEF Flat
  <2>4. QED BY <2>3 DEF Flat, List, x
<1>4. ASSUME NEW s, Flat(s) PROVE Flat(Attempt(s))
  <2> DEFINE x == [do |-> "attempt", body |-> s]
  <2>1. x.do = "attempt" /\ x.body = s
    OBVIOUS
  <2> HIDE DEF x
  <2>2. Net(<<x>>, 0, "plain")
    BY <1>4, <2>1, NetBody DEF Flat
  <2>3. QED BY <2>2 DEF Flat, Attempt, x
<1>5. QED BY <1>1, <1>3, <1>4

LEMMA PlainJoin ==
  /\ \A s, t : Flat(s) /\ Flat(t) => Flat(s \o t)
  /\ \A s, t : Flat(s) /\ Closes(t) => Closes(s \o t)
  /\ \A s, t : Closes(s) /\ Flat(t) => Closes(s \o t)
  /\ \A s, t : Opens(s) /\ Flat(t) => Opens(s \o t)
  /\ \A s, t : Flat(s) /\ Opens(t) => Opens(s \o t)
  /\ \A s, t : Opens(s) /\ Closes(t) => Flat(s \o t)
<1>1. "plain" \in Kinds /\ \A r : Follows("plain", r)
  BY DEF Kinds, Follows
<1>2. ASSUME NEW d \in {1, 0, 0 - 1}, NEW e \in {1, 0, 0 - 1}, NEW s, NEW t,
             Net(s, d, "plain"), Net(t, e, "plain")
      PROVE  Net(s \o t, d + e, "plain")
  BY <1>1, <1>2, NetJoin
<1>3. 0 + 0 = 0 /\ 0 + (0 - 1) = 0 - 1 /\ (0 - 1) + 0 = 0 - 1 /\ 1 + 0 = 1 /\ 0 + 1 = 1 /\ 1 + (0 - 1) = 0
  OBVIOUS
<1>4. QED BY <1>2, <1>3 DEF Flat, Closes, Opens

\* The entries of a table that is eaten: nothing more is open behind the token and
\* the entry, or one bracket less.
FlatTable(f)    == Eaten(f, 0, "plain")
ClosingTable(f) == Eaten(f, 0 - 1, "plain")
\* The entries of a table that is looked at.
FlatLook(f)    == Looked(f, 0, "plain")
ClosingLook(f) == Looked(f, 0 - 1, "plain")

LEMMA BalOf ==
  /\ \A t : Neutral(t) => Bal(t) = 0
  /\ \A t \in Opening : Bal(t) = 1
  /\ \A t \in Closing : Bal(t) = 0 - 1
  BY DEF Bal, Opening, Closing, Neutral

LEMMA EatenOne ==
  ASSUME NEW t, NEW s, NEW d \in Int, NEW k, Net(s, d - Bal(t), k)
  PROVE  Eaten(t :> s, d, k)
  BY DEF Eaten, :>

LEMMA LookedOne ==
  ASSUME NEW t, NEW s, NEW d, NEW k, Net(s, d, k)
  PROVE  Looked(t :> s, d, k)
  BY DEF Looked, :>

\* How the entries of a table go with its tokens.
LEMMA Balancing ==
  /\ \A t, s : Neutral(t) /\ Flat(s) => FlatTable(t :> s)
  /\ \A t, s : t \in Opening /\ Closes(s) => FlatTable(t :> s)
  /\ \A t, s : Neutral(t) /\ Closes(s) => ClosingTable(t :> s)
  /\ \A t, s : t \in Closing /\ Flat(s) => ClosingTable(t :> s)
  /\ \A t, s : Flat(s) => FlatLook(t :> s)
  /\ \A t, s : Closes(s) => ClosingLook(t :> s)
  /\ \A f, g : FlatTable(f) /\ FlatTable(g) => FlatTable(f @@ g)
  /\ \A f, g : ClosingTable(f) /\ ClosingTable(g) => ClosingTable(f @@ g)
  /\ \A f, g : FlatLook(f) /\ FlatLook(g) => FlatLook(f @@ g)
  /\ \A f, no : FlatTable(f) /\ Flat(no) => Flat(Eat(f, no))
  /\ \A f, no : ClosingTable(f) /\ Closes(no) => Closes(Eat(f, no))
  /\ \A f, no : FlatLook(f) /\ Flat(no) => Flat(Look(f, no))
  /\ \A f, no : ClosingLook(f) /\ Closes(no) => Closes(Look(f, no))
<1>1. "plain" \in Kinds /\ 0 \in Int /\ 0 - 1 \in Int
  BY DEF Kinds
<1>2. 0 - 0 = 0 /\ (0 - 1) - 0 = 0 - 1 /\ 0 - 1 = 0 - 1 /\ (0 - 1) - (0 - 1) = 0
  OBVIOUS
<1>3. ASSUME NEW t, NEW s
      PROVE  /\ Neutral(t) /\ Flat(s) => FlatTable(t :> s)
             /\ t \in Opening /\ Closes(s) => FlatTable(t :> s)
             /\ Neutral(t) /\ Closes(s) => ClosingTable(t :> s)
             /\ t \in Closing /\ Flat(s) => ClosingTable(t :> s)
             /\ Flat(s) => FlatLook(t :> s)
             /\ Closes(s) => ClosingLook(t :> s)
  <2>1. Neutral(t) => 0 - Bal(t) = 0 /\ (0 - 1) - Bal(t) = 0 - 1
    BY <1>2, BalOf
  <2>2. (t \in Opening => 0 - Bal(t) = 0 - 1) /\ (t \in Closing => (0 - 1) - Bal(t) = 0)
    BY <1>2, BalOf
  <2>3. QED BY <1>1, <2>1, <2>2, EatenOne, LookedOne
               DEF Flat, Closes, FlatTable, ClosingTable, FlatLook, ClosingLook
<1>4. ASSUME NEW f, NEW g
      PROVE  /\ FlatTable(f) /\ FlatTable(g) => FlatTable(f @@ g)
             /\ ClosingTable(f) /\ ClosingTable(g) => ClosingTable(f @@ g)
             /\ FlatLook(f) /\ FlatLook(g) => FlatLook(f @@ g)
  BY DEF FlatTable, ClosingTable, FlatLook, Eaten, Looked, @@
<1>5. ASSUME NEW f, NEW no
      PROVE  /\ FlatTable(f) /\ Flat(no) => Flat(Eat(f, no))
             /\ ClosingTable(f) /\ Closes(no) => Closes(Eat(f, no))
             /\ FlatLook(f) /\ Flat(no) => Flat(Look(f, no))
             /\ ClosingLook(f) /\ Closes(no) => Closes(Look(f, no))
  BY <1>1, NetEat, NetLook DEF Flat, Closes, FlatTable, ClosingTable, FlatLook, ClosingLook
<1>6. QED BY <1>3, <1>4, <1>5

LEMMA SkipsAndMaybes ==
  /\ \A t : Neutral(t) => Flat(Skip(t))
  /\ \A t, s : Neutral(t) /\ Flat(s) => Flat(Maybe(t, s))
  /\ \A t, s : t \in Opening /\ Closes(s) => Flat(Maybe(t, s))
<1>1. Flat(<<>>)
  BY FlatParts
<1>2. QED BY <1>1, Balancing DEF Skip, Maybe
-----------------------------------------------------------------------------
(* The single instructions and the rules.                                  *)

LEMMA NetExpect == ASSUME NEW t PROVE Net(Expect(t), Bal(t), "plain")
<1> DEFINE x == [do |-> "expect", text |-> t]
<1>1. x.do = "expect" /\ x.text = t
  OBVIOUS
<1> HIDE DEF x
<1>2. \A n \in Int : Single(x, n, n + Bal(t), "plain")
  BY <1>1 DEF Single
<1>3. Net(<<x>>, Bal(t), "plain")
  BY <1>1, <1>2, BalType, NetSingle DEF Kinds, Last
<1>4. QED BY <1>3 DEF Expect, x

LEMMA FlatSingles ==
  ASSUME NEW x, x.do \in {"ident", "int", "literal", "level", "loop", "fields", "close"}
  PROVE  Flat(<<x>>)
<1>1. \A n \in Int : n + 0 = n
  OBVIOUS
<1>2. \A n \in Int : Single(x, n, n + 0, "plain")
  BY <1>1 DEF Single
<1>3. QED BY <1>2, NetSingle DEF Kinds, Last, Flat

LEMMA NetRule ==
  ASSUME NEW r \in FreshRules \cup LoopRules, NEW first
  PROVE  Net(Again(r, first), NetOf(r), KindOf(r))
<1> DEFINE x == [do |-> "rule", rule |-> r, first |-> first]
<1>1. x.do = "rule" /\ x.rule = r
  OBVIOUS
<1> HIDE DEF x
<1>2. \A n \in Int : Single(x, n, n + NetOf(r), KindOf(r))
  BY <1>1 DEF Single
<1>3. NetOf(r) \in Int /\ KindOf(r) \in Kinds /\ Last(KindOf(r), KindOf(r))
  BY DEF NetOf, KindOf, Kinds, Last
<1>4. Net(<<x>>, NetOf(r), KindOf(r))
  BY <1>1, <1>2, <1>3, NetSingle
<1>5. QED BY <1>4 DEF Again, x

LEMMA NetMake ==
  ASSUME NEW k, NEW first, NEW op
  PROVE  Net(Make(k, first, op), 0, IF k = "Class" THEN "class" ELSE "plain")
<1> DEFINE x == [do |-> "make", kind |-> k, first |-> first, op |-> op]
           h == IF k = "Class" THEN "class" ELSE "plain"
<1>1. x.do = "make" /\ x.kind = k /\ \A n \in Int : n + 0 = n
  OBVIOUS
<1>2. h \in Kinds /\ Last(h, h)
  BY DEF Kinds, Last
<1> HIDE DEF x
<1>3. \A n \in Int : Single(x, n, n + 0, h)
  BY <1>1 DEF Single
<1>4. Net(<<x>>, 0, h)
  BY <1>1, <1>2, <1>3, NetSingle
<1>5. QED BY <1>4 DEF Make, x

\* What never goes on may be said to leave any brackets open.
LEMMA NetNever ==
  ASSUME NEW d \in Int, NEW k \in Kinds
  PROVE  Net(Exit, d, k) /\ \A e \in Errors : Net(Throw(e), d, k)
<1>1. Last(k, k)
  BY DEF Last
<1>2. Net(Exit, d, k)
  <2> DEFINE x == [do |-> "exit"]
  <2>1. x.do = "exit"
    OBVIOUS
  <2> HIDE DEF x
  <2>2. \A n \in Int : Single(x, n, n + d, k)
    BY <2>1 DEF Single
  <2>3. Net(<<x>>, d, k)
    BY <1>1, <2>1, <2>2, NetSingle
  <2>4. QED BY <2>3 DEF Exit, x
<1>3. ASSUME NEW e \in Errors PROVE Net(Throw(e), d, k)
  <2> DEFINE x == [do |-> "throw", error |-> e]
  <2>1. x.do = "throw" /\ x.error = e
    OBVIOUS
  <2> HIDE DEF x
  <2>2. \A n \in Int : Single(x, n, n + d, k)
    BY <2>1 DEF Single
  <2>3. Net(<<x>>, d, k)
    BY <1>1, <2>1, <2>2, NetSingle
  <2>4. QED BY <2>3 DEF Throw, x
<1>4. QED BY <1>2, <1>3

LEMMA NeutralTexts ==
  /\ Neutral("<") /\ Neutral(">") /\ Neutral("::") /\ Neutral(":") /\ Neutral("ref") /\ Neutral("const")
  /\ Neutral(",") /\ Neutral(";") /\ Neutral(".") /\ Neutral("++") /\ Neutral("--") /\ Neutral("+")
  /\ Neutral("=") /\ Neutral("->") /\ Neutral("decltype") /\ Neutral("self") /\ Neutral("true")
  /\ Neutral("false") /\ Neutral("delete") /\ Neutral("new") /\ Neutral("pub") /\ Neutral("var")
  /\ Neutral("static") /\ Neutral("fn") /\ Neutral("class") /\ Neutral("enum") /\ Neutral("namespace")
  /\ Neutral("try") /\ Neutral("catch") /\ Neutral("finally") /\ Neutral("if") /\ Neutral("else")
  /\ Neutral("while") /\ Neutral("for") /\ Neutral("in") /\ Neutral("return") /\ Neutral("break")
  /\ Neutral("continue")
  BY DEF Neutral, Opening, Closing

LEMMA BracketTexts ==
  /\ "(" \in Opening /\ "[" \in Opening /\ "{" \in Opening
  /\ ")" \in Closing /\ "]" \in Closing /\ "}" \in Closing
  BY DEF Opening, Closing

LEMMA ExpectParts ==
  /\ \A t : Neutral(t) => Flat(Expect(t))
  /\ \A t \in Opening : Opens(Expect(t))
  /\ \A t \in Closing : Closes(Expect(t))
  BY NetExpect, BalOf DEF Flat, Opens, Closes

\* The rules that close what they open, and the loop of a scope.
FlatRules == (FreshRules \cup LoopRules)
             \ {"statements", "namespace_items", "members", "members_after_new", "class",
                "mod_item", "mod_items"}

LEMMA RuleParts ==
  /\ \A r \in FlatRules : Flat(Rule(r)) /\ \A first : Flat(Again(r, first))
  /\ Closes(Rule("statements"))
<1>1. \A r : Rule(r) = Again(r, 0)
  BY DEF Rule, Again
<1>2. ASSUME NEW r \in FlatRules, NEW first PROVE Flat(Again(r, first))
  <2>1. r \in FreshRules \cup LoopRules /\ NetOf(r) = 0 /\ KindOf(r) = "plain"
    BY DEF FlatRules, NetOf, KindOf
  <2>2. Net(Again(r, first), NetOf(r), KindOf(r))
    BY <2>1, NetRule
  <2>3. QED BY <2>1, <2>2 DEF Flat
<1>3. "statements" \in FreshRules /\ NetOf("statements") = 0 - 1 /\ KindOf("statements") = "plain"
  BY DEF FreshRules, NetOf, KindOf
<1>4. Net(Again("statements", 0), NetOf("statements"), KindOf("statements"))
  BY <1>3, NetRule
<1>5. QED BY <1>1, <1>2, <1>3, <1>4 DEF Closes

LEMMA FlatRuleNames ==
  /\ "symbol" \in FlatRules /\ "typename_symbol" \in FlatRules /\ "type_name" \in FlatRules
  /\ "factor" \in FlatRules /\ "subscript" \in FlatRules /\ "unary" \in FlatRules
  /\ "let" \in FlatRules /\ "let_in_condition" \in FlatRules /\ "stmt" \in FlatRules
  /\ "scope" \in FlatRules /\ "function" \in FlatRules /\ "method" \in FlatRules
  /\ "enum" \in FlatRules /\ "namespace" \in FlatRules
  /\ "postfix" \in FlatRules /\ "assign" \in FlatRules /\ "catches" \in FlatRules
  BY DEF FlatRules, FreshRules, LoopRules

LEMMA Parts ==
  /\ Flat(ExpectIdent) /\ Flat(ExpectInt) /\ Flat(Literal) /\ Flat(FieldsOrTypes)
  /\ Flat(Type) /\ Flat(Expr) /\ Flat(Scope)
  /\ \A k : Flat(Level(k)) /\ \A first : Flat(Loop(k, first))
  /\ \A first : Flat(CloseTypes(first))
  /\ \A k, first, op : k # "Class" => Flat(Make(k, first, op))
  /\ Flat(Exit) /\ Closes(Exit)
  /\ \A e \in Errors : Flat(Throw(e)) /\ Closes(Throw(e))
<1>1. Flat(ExpectIdent) /\ Flat(ExpectInt) /\ Flat(Literal) /\ Flat(FieldsOrTypes)
  <2>1. ASSUME NEW x, x.do \in {"ident", "int", "literal", "fields"} PROVE Flat(<<x>>)
    BY <2>1, FlatSingles
  <2>2. QED BY <2>1 DEF ExpectIdent, ExpectInt, Literal, FieldsOrTypes
<1>2. ASSUME NEW k PROVE Flat(Level(k)) /\ \A first : Flat(Loop(k, first))
  <2>1. ASSUME NEW x, x.do \in {"level", "loop"} PROVE Flat(<<x>>)
    BY <2>1, FlatSingles
  <2>2. QED BY <2>1 DEF Level, Loop
<1>3. ASSUME NEW first PROVE Flat(CloseTypes(first))
  <2>1. ASSUME NEW x, x.do = "close" PROVE Flat(<<x>>)
    BY <2>1, FlatSingles
  <2>2. QED BY <2>1 DEF CloseTypes
<1>4. Flat(Type) /\ Flat(Expr) /\ Flat(Scope)
  BY <1>2, RuleParts, FlatRuleNames DEF Type, Expr, Scope
<1>5. \A k, first, op : k # "Class" => Flat(Make(k, first, op))
  <2>1. ASSUME NEW k, NEW first, NEW op, k # "Class" PROVE Flat(Make(k, first, op))
    <3>1. Net(Make(k, first, op), 0, IF k = "Class" THEN "class" ELSE "plain")
      BY NetMake
    <3>2. QED BY <2>1, <3>1 DEF Flat
  <2>2. QED BY <2>1
<1>6. Flat(Exit) /\ Closes(Exit) /\ \A e \in Errors : Flat(Throw(e)) /\ Closes(Throw(e))
  <2>1. "plain" \in Kinds /\ 0 \in Int /\ 0 - 1 \in Int
    BY DEF Kinds
  <2>2. QED BY <2>1, NetNever DEF Flat, Closes
<1>7. QED BY <1>1, <1>2, <1>3, <1>4, <1>5, <1>6

LEMMA FlatSymbol == ASSUME NEW tok, NEW asTypename \in BOOLEAN PROVE Flat(Symbol(asTypename, tok))
<1>1. Flat(Rule("symbol"))
  BY RuleParts, FlatRuleNames
<1>2. QED BY <1>1, FlatParts, PlainJoin, Balancing, SkipsAndMaybes, ExpectParts, Parts, NeutralTexts
          DEF Symbol

LEMMA FlatTypeName == Flat(TypeName)
<1>1. Flat(Rule("typename_symbol"))
  BY RuleParts, FlatRuleNames
<1>2. QED BY <1>1, FlatParts, PlainJoin, Balancing, ExpectParts, Parts, NeutralTexts, BracketTexts
          DEF TypeName

LEMMA FlatFactor == ASSUME NEW tok PROVE Flat(Factor(tok))
<1>1. "cannot_use_decltype_here" \in Errors
  BY DEF Errors, Outcomes
<1>2. \A first, op : Flat(Make("Tuple", first, op)) /\ Flat(Make("Array", first, op))
                  /\ Flat(Make("Self", first, op)) /\ Flat(Make("Value", first, op))
  BY Parts
<1>3. Flat(Expr) /\ Flat(Literal) /\ Flat(Throw("cannot_use_decltype_here"))
  BY <1>1, Parts
<1>4. QED BY <1>2, <1>3, FlatParts, PlainJoin, Balancing, SkipsAndMaybes, ExpectParts, NeutralTexts,
             BracketTexts
          DEF Factor

LEMMA FlatPostfix == ASSUME NEW tok PROVE Flat(Postfix(tok))
<1>1. \A first, op : Flat(Make("CallFunc", first, op)) /\ Flat(Make("Subscript", first, op))
                  /\ Flat(Make("GetTupleElement", first, op)) /\ Flat(Make("MemberAccess", first, op))
                  /\ Flat(Make("Inclement", first, op)) /\ Flat(Make("Declement", first, op))
  BY Parts
<1>2. Flat(Rule("factor")) /\ Flat(Again("postfix", tok)) /\ Flat(Expr) /\ Flat(ExpectInt)
  BY RuleParts, FlatRuleNames, Parts
<1>3. QED BY <1>1, <1>2, FlatParts, PlainJoin, Balancing, SkipsAndMaybes, ExpectParts, NeutralTexts,
             BracketTexts
          DEF Postfix

LEMMA FlatLet == ASSUME NEW tok, NEW end, Flat(end) PROVE Flat(Let(tok, end))
<1>1. \A first, op : Flat(Make("Let", first, op))
  BY Parts
<1>2. QED BY <1>1, FlatParts, PlainJoin, Balancing, SkipsAndMaybes, ExpectParts, Parts, NeutralTexts,
             BracketTexts
          DEF Let

LEMMA FlatStmt == ASSUME NEW tok PROVE Flat(Stmt(tok))
<1>1. "expected_catch_block" \in Errors
  BY DEF Errors, Outcomes
<1>2. \A first, op : Flat(Make("If", first, op)) /\ Flat(Make("While", first, op))
                  /\ Flat(Make("For", first, op)) /\ Flat(Make("Return", first, op))
                  /\ Flat(Make("Break", first, op)) /\ Flat(Make("Continue", first, op))
  BY Parts
<1>3. /\ Flat(Rule("let")) /\ Flat(Rule("let_in_condition")) /\ Flat(Rule("stmt"))
      /\ Flat(Again("catches", tok)) /\ Flat(Throw("expected_catch_block"))
      /\ Flat(Expr) /\ Flat(Scope) /\ Flat(ExpectIdent)
  BY <1>1, RuleParts, FlatRuleNames, Parts
<1>4. Flat(Condition)
  BY <1>3, FlatParts, PlainJoin, Balancing, SkipsAndMaybes, ExpectParts, NeutralTexts
     DEF Condition
<1>5. QED BY <1>2, <1>3, <1>4, FlatParts, PlainJoin, Balancing, SkipsAndMaybes, ExpectParts,
             NeutralTexts, BracketTexts
          DEF Stmt

LEMMA FlatCatches == ASSUME NEW tok PROVE Flat(Catches(tok))
<1>1. Flat(Again("catches", tok)) /\ Flat(Make("Try", tok, 0))
  BY RuleParts, FlatRuleNames, Parts
<1>2. QED BY <1>1, FlatParts, PlainJoin, Balancing, SkipsAndMaybes, ExpectParts, Parts, NeutralTexts
          DEF Catches

LEMMA FlatScope == ASSUME NEW tok PROVE Flat(ScopeBody(tok))
<1>1. Flat(Make("Scope", tok, 0)) /\ Closes(Rule("statements"))
  BY RuleParts, Parts
<1>2. QED BY <1>1, FlatParts, PlainJoin, Balancing, ExpectParts, BracketTexts
          DEF ScopeBody

LEMMA ClosesStatements == Closes(Statements)
<1>1. "scope_not_terminated" \in Errors
  BY DEF Errors, Outcomes
<1>2. Closes(Throw("scope_not_terminated")) /\ Flat(Rule("stmt")) /\ Closes(Rule("statements"))
  BY <1>1, RuleParts, FlatRuleNames, Parts
<1>3. QED BY <1>2, FlatParts, PlainJoin, Balancing, BracketTexts DEF Statements

LEMMA FlatParams == Flat(Params)
  BY FlatParts, PlainJoin, ExpectParts, Parts, NeutralTexts DEF Params

LEMMA FlatTemplateParams == ASSUME NEW tok PROVE Flat(TemplateParams(tok))
<1>1. \A first, op : Flat(Make("TypeArgs", first, op))
  BY Parts
<1>2. QED BY <1>1, FlatParts, PlainJoin, SkipsAndMaybes, ExpectParts, Parts, NeutralTexts
          DEF TemplateParams

LEMMA FlatFunction == ASSUME NEW tok, NEW isMethod \in BOOLEAN PROVE Flat(Function(tok, isMethod))
<1>1. Flat(Make("Function", tok, 0)) /\ Flat(Params) /\ Flat(TemplateParams(tok))
  BY Parts, FlatParams, FlatTemplateParams
<1>2. CASE isMethod
  BY <1>1, <1>2, FlatParts, PlainJoin, Balancing, SkipsAndMaybes, ExpectParts, Parts, NeutralTexts,
     BracketTexts DEF Function
<1>3. CASE ~isMethod
  BY <1>1, <1>3, FlatParts, PlainJoin, Balancing, SkipsAndMaybes, ExpectParts, Parts, NeutralTexts,
     BracketTexts DEF Function
<1>4. QED BY <1>2, <1>3

\* An exception in the place of what a bracket closes.
LEMMA MaybeThrow == ASSUME NEW t, NEW e \in Errors PROVE Flat(Maybe(t, Throw(e)))
<1>1. "plain" \in Kinds /\ 0 - Bal(t) \in Int
  BY BalType DEF Kinds
<1>2. Net(Throw(e), 0 - Bal(t), "plain")
  BY <1>1, NetNever
<1>3. FlatTable(t :> Throw(e))
  BY <1>2, EatenOne DEF FlatTable
<1>4. QED BY <1>3, FlatParts, Balancing DEF Maybe

LEMMA FlatEnum == ASSUME NEW tok PROVE Flat(Enum(tok))
<1>1. "empty_class_or_enum_is_not_valid" \in Errors
  BY DEF Errors, Outcomes
<1>2. Flat(Maybe("}", Throw("empty_class_or_enum_is_not_valid"))) /\ Flat(Make("Enum", tok, 0))
  BY <1>1, MaybeThrow, Parts
<1>3. Flat(EnumeratorDef)
  BY FlatParts, PlainJoin, SkipsAndMaybes, ExpectParts, Parts, BracketTexts DEF EnumeratorDef
<1>4. QED BY <1>2, <1>3, FlatParts, PlainJoin, ExpectParts, Parts, NeutralTexts, BracketTexts
          DEF Enum

\* The texts of the operators are no brackets.
LEMMA OperatorsNeutral ==
  /\ \A k \in DOMAIN Levels : \A t \in DOMAIN Levels[k] : Neutral(t)
  /\ \A t \in Assignments \cup DOMAIN PrefixKinds : Neutral(t)
<1> DEFINE Clear(f) == \A t \in DOMAIN f : Neutral(t)
<1>1. /\ Clear(Levels[1]) /\ Clear(Levels[2]) /\ Clear(Levels[3]) /\ Clear(Levels[4])
      /\ Clear(Levels[5]) /\ Clear(Levels[6]) /\ Clear(Levels[7]) /\ Clear(Levels[8])
      /\ Clear(Levels[9]) /\ Clear(Levels[10])
  BY DEF Levels, :>, @@, Neutral, Opening, Closing
<1>2. \A k \in DOMAIN Levels : Clear(Levels[k])
  BY <1>1, LevelsFacts
<1>3. \A t \in Assignments : Neutral(t)
  BY DEF Assignments, Neutral, Opening, Closing
<1>4. Clear(PrefixKinds)
  BY DEF PrefixKinds, :>, @@, Neutral, Opening, Closing
<1>5. QED BY <1>2, <1>3, <1>4

LEMMA FlatEntries ==
  ASSUME NEW f, \A t \in DOMAIN f : Neutral(t) /\ Flat(f[t])
  PROVE  FlatTable(f)
<1>1. ASSUME NEW t \in DOMAIN f PROVE Net(f[t], 0 - Bal(t), "plain")
  <2>1. 0 - Bal(t) = 0
    BY BalOf
  <2>2. QED BY <2>1 DEF Flat
<1>2. QED BY <1>1 DEF FlatTable, Eaten

LEMMA FlatAssign == ASSUME NEW first, NEW at PROVE Flat(Assign(first, at))
<1> DEFINE f == [t \in Assignments |-> Expr \o Make("Assign", first, at)]
<1>1. Flat(Expr \o Make("Assign", first, at))
  BY PlainJoin, Parts
<1>2. \A t \in DOMAIN f : Neutral(t) /\ Flat(f[t])
  BY <1>1, OperatorsNeutral
<1> HIDE DEF f
<1>3. Flat(Eat(f, <<>>))
  BY <1>2, FlatEntries, FlatParts, Balancing
<1>4. QED BY <1>3 DEF Assign, f

\* No operator makes a class.
LEMMA KindsOfOperators ==
  /\ \A k \in DOMAIN Levels : \A t \in DOMAIN Levels[k] : Levels[k][t] # "Class"
  /\ \A t \in DOMAIN PrefixKinds : PrefixKinds[t] # "Class"
<1> DEFINE Clear(f) == \A t \in DOMAIN f : f[t] # "Class"
<1>1. /\ Clear(Levels[1]) /\ Clear(Levels[2]) /\ Clear(Levels[3]) /\ Clear(Levels[4])
      /\ Clear(Levels[5]) /\ Clear(Levels[6]) /\ Clear(Levels[7]) /\ Clear(Levels[8])
      /\ Clear(Levels[9]) /\ Clear(Levels[10])
  BY DEF Levels, :>, @@
<1>2. \A k \in DOMAIN Levels : Clear(Levels[k])
  BY <1>1, LevelsFacts
<1>3. \A t, s : s # "Class" => Clear(t :> s)
  BY DEF :>
<1>4. \A f, g : Clear(f) /\ Clear(g) => Clear(f @@ g)
  BY DEF @@
<1>5. Clear(PrefixKinds)
  <2> HIDE DEF Clear
  <2>1. QED BY <1>3, <1>4 DEF PrefixKinds
<1>6. QED BY <1>2, <1>5

LEMMA FlatRound ==
  ASSUME NEW lev \in DOMAIN Levels, NEW first, NEW at
  PROVE  Flat(Round(lev, first, at))
<1> DEFINE f == [t \in DOMAIN Levels[lev] |->
                   Operand(lev) \o Make(Levels[lev][t], first, at) \o Loop(lev, first)]
<1>1. Flat(Operand(lev))
  BY RuleParts, FlatRuleNames, Parts DEF Operand
<1>2. ASSUME NEW kind, kind # "Class"
      PROVE  Flat(Operand(lev) \o Make(kind, first, at) \o Loop(lev, first))
  BY <1>1, <1>2, PlainJoin, Parts
<1>3. \A t \in DOMAIN f : Neutral(t) /\ Flat(f[t])
  BY <1>2, OperatorsNeutral, KindsOfOperators
<1> HIDE DEF f
<1>4. Flat(Eat(f, <<>>))
  BY <1>3, FlatEntries, FlatParts, Balancing
<1>5. QED BY <1>4 DEF Round, f

LEMMA FlatUnary == ASSUME NEW tok PROVE Flat(Unary(tok))
<1> DEFINE f == [t \in DOMAIN PrefixKinds |-> Rule("subscript") \o Make(PrefixKinds[t], tok, tok)]
<1>1. Flat(Rule("subscript")) /\ Flat(Exit)
  BY RuleParts, FlatRuleNames, Parts
<1>2. ASSUME NEW kind, kind # "Class" PROVE Flat(Rule("subscript") \o Make(kind, tok, tok))
  BY <1>1, <1>2, PlainJoin, Parts
<1>3. \A t \in DOMAIN f : Neutral(t) /\ Flat(f[t])
  BY <1>2, OperatorsNeutral, KindsOfOperators
<1> HIDE DEF f
<1>4. FlatTable(f) /\ FlatTable("delete" :> Exit)
  BY <1>1, <1>3, FlatEntries, Balancing, NeutralTexts
<1>5. Flat(Skip("+") \o Rule("subscript"))
  BY <1>1, PlainJoin, SkipsAndMaybes, NeutralTexts
<1>6. Flat(Eat(f @@ "delete" :> Exit, Skip("+") \o Rule("subscript")))
  BY <1>4, <1>5, Balancing
<1>7. QED BY <1>6 DEF Unary, f

LEMMA FlatLevel ==
  ASSUME NEW lev \in DOMAIN Levels, NEW tok
  PROVE  Flat(LevelBody(lev, tok))
<1> DEFINE N == Len(Levels)
           D == lev .. N + 1
<1>1. N = 10 /\ lev \in 1 .. 10 /\ DOMAIN Levels = 1 .. 10
  BY LevelsFacts
<1>2. PICK loops :
         /\ LevelBody(lev, tok) = loops[lev] \o IF lev = 1 THEN Again("assign", tok) ELSE <<>>
         /\ \A i \in D : loops[i] = IF i > N THEN Rule("unary") ELSE loops[i + 1] \o Loop(i, tok)
  BY LevelUnfolds
<1> HIDE DEF N
<1> DEFINE T == {i \in D : Flat(loops[i])}
<1>3. ASSUME NEW q \in D, \A r \in q + 1 .. N + 1 : r \in T PROVE q \in T
  <2>1. CASE q > N
    <3>1. Flat(Rule("unary"))
      BY RuleParts, FlatRuleNames
    <3>2. QED BY <1>2, <2>1, <3>1
  <2>2. CASE ~(q > N)
    <3>1. q + 1 \in q + 1 .. N + 1
      BY <1>1, <2>2
    <3>2. Flat(loops[q + 1])
      BY <1>3, <3>1
    <3>3. Flat(loops[q + 1] \o Loop(q, tok))
      BY <3>2, PlainJoin, Parts
    <3>4. QED BY <1>2, <2>2, <3>3
  <2>3. QED BY <2>1, <2>2
<1>4. lev \in T
  <2> HIDE DEF T
  <2>1. lev \in Int /\ N + 1 \in Int /\ lev \in D
    BY <1>1
  <2>2. D \subseteq T
    BY <1>3, <2>1, FromAbove
  <2>3. QED BY <2>1, <2>2
<1>5. Flat(IF lev = 1 THEN Again("assign", tok) ELSE <<>>)
  BY RuleParts, FlatRuleNames, FlatParts
<1>6. Flat(loops[lev] \o IF lev = 1 THEN Again("assign", tok) ELSE <<>>)
  BY <1>4, <1>5, PlainJoin
<1>7. QED BY <1>2, <1>6
-----------------------------------------------------------------------------
(* The rules that may end at the end marker.                               *)

LEMMA Numbers ==
  /\ 0 \in Int /\ 0 - 1 \in Int /\ 1 \in Int
  /\ 0 + 0 = 0 /\ 0 + (0 - 1) = 0 - 1 /\ (0 - 1) + 0 = 0 - 1 /\ 1 + (0 - 1) = 0
  /\ 0 - 0 = 0 /\ (0 - 1) - 0 = 0 - 1
  /\ "plain" \in Kinds /\ "members" \in Kinds /\ "class" \in Kinds /\ "top" \in Kinds
  /\ \A r : Follows("plain", r)
  BY DEF Kinds, Follows

\* What goes before the members of a class, or before the class.
LEMMA BeforeMembers ==
  ASSUME NEW s, NEW t, NEW k \in Kinds
  PROVE  /\ Flat(s) /\ Net(t, 0 - 1, k) => Net(s \o t, 0 - 1, k)
         /\ Opens(s) /\ Net(t, 0 - 1, k) => Net(s \o t, 0, k)
         /\ Flat(s) /\ Net(t, 0, k) => Net(s \o t, 0, k)
<1>1. ASSUME Flat(s), Net(t, 0 - 1, k) PROVE Net(s \o t, 0 - 1, k)
  <2>1. Net(s \o t, 0 + (0 - 1), k)
    BY <1>1, Numbers, NetJoin DEF Flat
  <2>2. QED BY <2>1, Numbers
<1>2. ASSUME Opens(s), Net(t, 0 - 1, k) PROVE Net(s \o t, 0, k)
  <2>1. Net(s \o t, 1 + (0 - 1), k)
    BY <1>2, Numbers, NetJoin DEF Opens
  <2>2. QED BY <2>1, Numbers
<1>3. ASSUME Flat(s), Net(t, 0, k) PROVE Net(s \o t, 0, k)
  <2>1. Net(s \o t, 0 + 0, k)
    BY <1>3, Numbers, NetJoin DEF Flat
  <2>2. QED BY <2>1, Numbers
<1>4. QED BY <1>1, <1>2, <1>3

LEMMA RuleNets ==
  /\ Net(Rule("members"), 0 - 1, "members") /\ Net(Rule("members_after_new"), 0 - 1, "members")
  /\ Net(Rule("class"), 0, "class") /\ Net(Rule("mod_item"), 0, "class")
  /\ Net(Rule("mod_items"), 0, "top") /\ Closes(Rule("namespace_items"))
<1>1. \A r : Rule(r) = Again(r, 0)
  BY DEF Rule, Again
<1>2. \A r \in FreshRules : Net(Rule(r), NetOf(r), KindOf(r))
  BY <1>1, NetRule
<1>3. {"members", "members_after_new", "class", "mod_item", "mod_items", "namespace_items"} \subseteq FreshRules
  BY DEF FreshRules
<1>4. QED BY <1>2, <1>3 DEF NetOf, KindOf, Closes

LEMMA ConstructorNet == Net(Constructor, 0 - 1, "members")
<1>1. "cannot_specify_return_type_of_constructor" \in Errors
  BY DEF Errors, Outcomes
<1>2. Flat(Throw("cannot_specify_return_type_of_constructor")) /\ Flat(Params)
  BY <1>1, Parts, FlatParams
<1>3. Flat(Maybe("(", Eat(")" :> <<>>, Params \o Expect(")")))
           \o Maybe("->", Throw("cannot_specify_return_type_of_constructor")) \o Scope)
  BY <1>2, FlatParts, PlainJoin, Balancing, SkipsAndMaybes, ExpectParts, Parts, NeutralTexts,
     BracketTexts
<1>4. QED BY <1>3, RuleNets, BeforeMembers, Numbers DEF Constructor

LEMMA MembersNet ==
  ASSUME NEW self \in {"members", "members_after_new"}, NEW new, Net(new, 0 - 1, "members")
  PROVE  Net(Members(self, new), 0 - 1, "members")
<1>1. Net(Rule(self), 0 - 1, "members")
  BY RuleNets
<1>2. Flat(Rule("method")) /\ Flat(Rule("let")) /\ Flat(Skip("pub"))
  BY RuleParts, FlatRuleNames, SkipsAndMaybes, NeutralTexts
<1>3. Net(Rule("method") \o Rule(self), 0 - 1, "members") /\ Net(Rule("let") \o Rule(self), 0 - 1, "members")
  BY <1>1, <1>2, BeforeMembers, Numbers
<1> DEFINE f == "fn" :> (Rule("method") \o Rule(self)) @@ "var" :> (Rule("let") \o Rule(self))
           g == "new" :> new @@ "delete" :> Exit
<1>4. Looked(f, 0 - 1, "members")
  BY <1>3 DEF Looked, :>, @@
<1>5. Net(Exit, 0 - 1, "members")
  BY NetNever, Numbers
<1>6. Eaten(g, 0 - 1, "members")
  <2>1. \A t \in DOMAIN g : Net(g[t], 0 - 1, "members") /\ Neutral(t)
    BY <1>5, NeutralTexts DEF :>, @@
  <2> HIDE DEF g
  <2>2. \A t \in DOMAIN g : (0 - 1) - Bal(t) = 0 - 1
    BY <2>1, BalOf, Numbers
  <2>3. QED BY <2>1, <2>2 DEF Eaten
<1> HIDE DEF f, g
<1>7. Net(Expect("}"), 0 - 1, "members")
  <2>1. Net(Expect("}"), 0 - 1, "plain")
    BY ExpectParts, BracketTexts DEF Closes
  <2>2. QED BY <2>1, Numbers, NetAs
<1>8. Net(Eat(g, Expect("}")), 0 - 1, "members")
  BY <1>6, <1>7, NetEat, Numbers
<1>9. Net(Look(f, Eat(g, Expect("}"))), 0 - 1, "members")
  BY <1>4, <1>8, NetLook, Numbers
<1>10. Net(Skip("pub") \o Look(f, Eat(g, Expect("}"))), 0 - 1, "members")
  BY <1>2, <1>9, BeforeMembers, Numbers
<1> DEFINE e == Eof :> <<>>
<1>11. ASSUME NEW t \in DOMAIN e PROVE EndEntry(e, t, 0 - 1, "members")
  BY DEF EndEntry, :>
<1> HIDE DEF e
<1>12. Net(Look(e, Skip("pub") \o Look(f, Eat(g, Expect("}")))), 0 - 1, "members")
  BY <1>10, <1>11, NetLookEnd, Numbers
<1>13. QED BY <1>12 DEF Members, e, f, g

LEMMA ClassNet == ASSUME NEW tok PROVE Net(Class(tok), 0, "class")
<1>1. "empty_class_or_enum_is_not_valid" \in Errors
  BY DEF Errors, Outcomes
<1>2. Flat(Maybe("}", Throw("empty_class_or_enum_is_not_valid"))) /\ Flat(TemplateParams(tok))
  BY <1>1, MaybeThrow, FlatTemplateParams
<1> DEFINE s == Expect("class") \o ExpectIdent \o TemplateParams(tok) \o Maybe(":", Type)
                \o Expect("{") \o Maybe("}", Throw("empty_class_or_enum_is_not_valid"))
<1>3. Opens(s)
  BY <1>2, PlainJoin, SkipsAndMaybes, ExpectParts, Parts, NeutralTexts, BracketTexts
<1> HIDE DEF s
<1>4. Net(s \o Rule("members"), 0, "members")
  BY <1>3, RuleNets, BeforeMembers, Numbers
<1>5. Net(Make("Class", tok, 0), 0, "class")
  <2>1. Net(Make("Class", tok, 0), 0, IF "Class" = "Class" THEN "class" ELSE "plain")
    BY NetMake
  <2>2. QED BY <2>1
<1>6. Follows("members", Make("Class", tok, 0))
  <2> DEFINE x == [do |-> "make", kind |-> "Class", first |-> tok, op |-> 0]
  <2>1. x.do = "make" /\ x.kind = "Class"
    OBVIOUS
  <2> HIDE DEF x
  <2>2. <<x>> # <<>> /\ Head(<<x>>) = x
    OBVIOUS
  <2>3. Follows("members", <<x>>)
    BY <2>1, <2>2 DEF Follows
  <2>4. QED BY <2>3 DEF Make, x
<1>7. Net((s \o Rule("members")) \o Make("Class", tok, 0), 0 + 0, "class")
  BY <1>4, <1>5, <1>6, NetJoin, Numbers
<1>8. QED BY <1>7, Numbers DEF Class, s

LEMMA ModItemNet == Net(ModItem, 0, "class")
<1>1. "expected_item_of_module" \in Errors
  BY DEF Errors, Outcomes
<1>2. Net(Throw("expected_item_of_module"), 0, "class")
  BY <1>1, NetNever, Numbers
<1>3. ASSUME NEW s, Flat(s) PROVE Net(s, 0, "class")
  BY <1>3, NetAs, Numbers DEF Flat
<1>4. /\ Net(Rule("let"), 0, "class") /\ Net(Rule("function"), 0, "class")
      /\ Net(Rule("class"), 0, "class") /\ Net(Rule("enum"), 0, "class")
      /\ Net(Rule("namespace"), 0, "class")
  BY <1>3, RuleParts, RuleNets, FlatRuleNames
<1> DEFINE f == "var" :> Rule("let") @@ "fn" :> Rule("function") @@ "class" :> Rule("class")
                @@ "enum" :> Rule("enum") @@ "namespace" :> Rule("namespace")
<1>5. Looked(f, 0, "class")
  BY <1>4 DEF Looked, :>, @@
<1> HIDE DEF f
<1>6. Net(Look(f, Throw("expected_item_of_module")), 0, "class")
  BY <1>2, <1>5, NetLook, Numbers
<1>7. QED BY <1>6 DEF ModItem, f

\* What follows an item.
LEMMA BehindItems ==
  /\ Follows("class", Eat("}" :> <<>>, Rule("namespace_items")))
  /\ Follows("class", Rule("mod_items"))
<1>1. Eat("}" :> <<>>, Rule("namespace_items")) = <<MoreItems>> /\ Rule("mod_items") = <<LastItems>>
  BY DEF Eat, Rule, MoreItems, LastItems
<1>2. \A x : <<x>> # <<>> /\ Head(<<x>>) = x
  OBVIOUS
<1>3. QED BY <1>1, <1>2 DEF Follows

LEMMA ClosesNamespaceItems == Closes(NamespaceItems)
<1>1. "scope_not_terminated" \in Errors
  BY DEF Errors, Outcomes
<1>2. Closes(Throw("scope_not_terminated")) /\ Closes(Rule("namespace_items"))
  BY <1>1, Parts, RuleNets
<1>3. Closes(Eat("}" :> <<>>, Rule("namespace_items")))
  BY <1>2, FlatParts, Balancing, BracketTexts
<1>4. Closes(Rule("mod_item") \o Eat("}" :> <<>>, Rule("namespace_items")))
  <2>1. Net(Rule("mod_item") \o Eat("}" :> <<>>, Rule("namespace_items")), 0 + (0 - 1), "plain")
    BY <1>3, RuleNets, BehindItems, NetJoin, Numbers DEF Closes
  <2>2. QED BY <2>1, Numbers DEF Closes
<1>5. QED BY <1>2, <1>4, Balancing DEF NamespaceItems

LEMMA FlatNamespace == ASSUME NEW tok PROVE Flat(Namespace(tok))
<1>1. Flat(Make("Namespace", tok, 0)) /\ Closes(Rule("namespace_items"))
  BY Parts, RuleNets
<1>2. QED BY <1>1, FlatParts, PlainJoin, Balancing, ExpectParts, Parts, NeutralTexts, BracketTexts
          DEF Namespace

LEMMA ModItemsNet == Net(ModItems, 0, "top")
<1>1. "import_not_allowed_here" \in Errors
  BY DEF Errors, Outcomes
<1>2. Net(Throw("import_not_allowed_here"), 0, "top")
  BY <1>1, NetNever, Numbers
<1> DEFINE f == Eof :> <<>> @@ "import" :> Throw("import_not_allowed_here")
<1>3. ASSUME NEW t \in DOMAIN f PROVE Net(f[t], 0, "top") \/ EndEntry(f, t, 0, "top")
  <2>1. (t = Eof /\ f[t] = <<>>) \/ f[t] = Throw("import_not_allowed_here")
    BY DEF :>, @@
  <2> HIDE DEF f
  <2>2. QED BY <1>2, <2>1 DEF EndEntry
<1> HIDE DEF f
<1>4. Net(Rule("mod_item") \o Rule("mod_items"), 0, "top")
  <2>1. Net(Rule("mod_item") \o Rule("mod_items"), 0 + 0, "top")
    BY RuleNets, BehindItems, NetJoin, Numbers
  <2>2. QED BY <2>1, Numbers
<1>5. Net(Look(f, Rule("mod_item") \o Rule("mod_items")), 0, "top")
  BY <1>3, <1>4, NetLookEnd, Numbers
<1>6. QED BY <1>5 DEF ModItems, f

\* Every rule closes the brackets it opens, and those it is to close, up to the
\* end marker.
LEMMA BodyNet ==
  ASSUME NEW r \in FreshRules \cup LoopRules, NEW tok, NEW at
  PROVE  Net(Body(r, tok, at), NetOf(r), KindOf(r))
<1>1. CASE r \in {"symbol", "typename_symbol", "type_name", "factor", "subscript", "postfix",
                  "unary", "assign"}
  <2>1. NetOf(r) = 0 /\ KindOf(r) = "plain"
    BY <1>1 DEF NetOf, KindOf
  <2>2. Flat(Rule("factor") \o Again("postfix", tok))
    BY RuleParts, FlatRuleNames, PlainJoin
  <2>3. Flat(Body(r, tok, at))
    BY <1>1, <2>2, FlatSymbol, FlatTypeName, FlatFactor, FlatPostfix, FlatUnary, FlatAssign DEF Body
  <2>4. QED BY <2>1, <2>3 DEF Flat
<1>2. CASE r \in {"let", "let_in_condition", "stmt", "catches", "scope", "function", "method",
                  "enum", "namespace"}
  <2>1. NetOf(r) = 0 /\ KindOf(r) = "plain"
    BY <1>2 DEF NetOf, KindOf
  <2>2. Flat(Expect(";")) /\ Flat(<<>>)
    BY ExpectParts, FlatParts, NeutralTexts
  <2>3. Flat(Body(r, tok, at))
    BY <1>2, <2>2, FlatLet, FlatStmt, FlatCatches, FlatScope, FlatFunction, FlatEnum, FlatNamespace
       DEF Body
  <2>4. QED BY <2>1, <2>3 DEF Flat
<1>3. CASE r \in {"statements", "namespace_items"}
  <2>1. NetOf(r) = 0 - 1 /\ KindOf(r) = "plain"
    BY <1>3 DEF NetOf, KindOf
  <2>2. Closes(Body(r, tok, at))
    BY <1>3, ClosesStatements, ClosesNamespaceItems DEF Body
  <2>3. QED BY <2>1, <2>2 DEF Closes
<1>4. CASE r \in {"members", "members_after_new"}
  <2>1. NetOf(r) = 0 - 1 /\ KindOf(r) = "members"
    BY <1>4 DEF NetOf, KindOf
  <2>2. Net(Throw("duplicate_of_definition"), 0 - 1, "members")
    BY NetNever, Numbers DEF Errors, Outcomes
  <2>3. QED BY <1>4, <2>1, <2>2, MembersNet, ConstructorNet DEF Body
<1>5. CASE r \in {"class", "mod_item", "mod_items"}
  <2>1. NetOf(r) = 0 /\ KindOf(r) = IF r = "mod_items" THEN "top" ELSE "class"
    BY <1>5 DEF NetOf, KindOf
  <2>2. QED BY <1>5, <2>1, ClassNet, ModItemNet, ModItemsNet DEF Body
<1>6. QED BY <1>1, <1>2, <1>3, <1>4, <1>5 DEF FreshRules, LoopRules
-----------------------------------------------------------------------------
(* The brackets that are open at a token.                                  *)

LEMMA CountNext ==
  ASSUME NEW t, NEW c \in Nat
  PROVE  /\ Count(t, c) \in Nat
         /\ Count(t, c + 1) = Count(t, c) + IF input[c + 1] \in t THEN 1 ELSE 0
<1> DEFINE S(p) == {i \in 1 .. p : input[i] \in t}
<1>1. IsFiniteSet(S(c))
  <2>1. IsFiniteSet(1 .. c)
    BY FS_Interval
  <2>2. S(c) \in SUBSET (1 .. c)
    OBVIOUS
  <2> HIDE DEF S
  <2>3. QED BY <2>1, <2>2, FS_Subset
<1>2. c + 1 \notin S(c)
  OBVIOUS
<1>3. S(c + 1) = IF input[c + 1] \in t THEN S(c) \cup {c + 1} ELSE S(c)
  <2>1. 1 .. c + 1 = (1 .. c) \cup {c + 1}
    OBVIOUS
  <2>2. QED BY <2>1
<1>4. Count(t, c) = Cardinality(S(c)) /\ Count(t, c + 1) = Cardinality(S(c + 1))
  BY DEF Count
<1> HIDE DEF S
<1>5. Cardinality(S(c)) \in Nat
  BY <1>1, FS_CardinalityType
<1>6. Cardinality(S(c) \cup {c + 1}) = Cardinality(S(c)) + 1
  BY <1>1, <1>2, FS_AddElement
<1>7. QED BY <1>3, <1>4, <1>5, <1>6

LEMMA DepthIs == \A p : Depth(p) = Count(Opening, p - 1) - Count(Closing, p - 1)
  BY DEF Depth, Opening, Closing

LEMMA DepthFirst == Depth(1) = 0
<1>1. \A t : Count(t, 0) = 0
  <2>1. ASSUME NEW t PROVE Count(t, 0) = 0
    <3>1. {i \in 1 .. 0 : input[i] \in t} = {}
      OBVIOUS
    <3>2. QED BY <3>1, FS_EmptySet DEF Count
  <2>2. QED BY <2>1
<1>2. 1 - 1 = 0 /\ 0 - 0 = 0
  OBVIOUS
<1>3. QED BY <1>1, <1>2, DepthIs

LEMMA DepthNext ==
  ASSUME NEW c \in Nat, c # 0
  PROVE  Depth(c) \in Int /\ Depth(c + 1) = Depth(c) + Bal(input[c])
<1> DEFINE o == Count(Opening, c - 1)
           l == Count(Closing, c - 1)
<1>1. c - 1 \in Nat /\ (c - 1) + 1 = c /\ (c + 1) - 1 = c
  OBVIOUS
<1>2. o \in Nat /\ Count(Opening, c) = o + IF input[c] \in Opening THEN 1 ELSE 0
  BY <1>1, CountNext
<1>3. l \in Nat /\ Count(Closing, c) = l + IF input[c] \in Closing THEN 1 ELSE 0
  BY <1>1, CountNext
<1>4. Depth(c) = o - l /\ Depth(c + 1) = Count(Opening, c) - Count(Closing, c)
  BY <1>1, DepthIs
<1> HIDE DEF o, l
<1>5. input[c] \in Opening => input[c] \notin Closing
  BY DEF Opening, Closing
<1>6. CASE input[c] \in Opening
  BY <1>2, <1>3, <1>4, <1>5, <1>6 DEF Bal
<1>7. CASE input[c] \notin Opening
  BY <1>2, <1>3, <1>4, <1>7 DEF Bal
<1>8. QED BY <1>6, <1>7

\* What is split is no bracket.
LEMMA DepthGoes ==
  ASSUME IInv
  PROVE  /\ Depth(cur) \in Int
         /\ Depth(cur + 1) = Depth(cur) + Bal(Text(cur))
         /\ Neutral(Text(cur)) => Depth(cur + 1) = Depth(cur)
<1>1. cur \in Nat /\ cur # 0
  BY IsSeqParts
<1>2. Depth(cur) \in Int /\ Depth(cur + 1) = Depth(cur) + Bal(input[cur])
  BY <1>1, DepthNext
<1>3. Bal(Text(cur)) = Bal(input[cur])
  <2>1. cur \in split => input[cur] = ">>"
    BY DEF IInv, TypeOK
  <2>2. Bal(">>") = 0 /\ Bal(">") = 0
    BY DEF Bal, Opening, Closing
  <2>3. QED BY <2>1, <2>2 DEF Text
<1>4. Neutral(Text(cur)) => Bal(Text(cur)) = 0
  BY BalOf
<1>5. QED BY <1>2, <1>3, <1>4

\* Names, literals and the end marker are no brackets.
LEMMA NoBrackets ==
  /\ \A t : IsIdentifier(t) => Neutral(t)
  /\ \A t \in Literals : Neutral(t)
  /\ \A t \in IntLiterals : Neutral(t)
  BY TextsAssumption DEF IsIdentifier, Neutral, Opening, Closing
-----------------------------------------------------------------------------
(* Where the parser can be.                                                *)

\* What is left of t behind its i-th instruction.
Behind(t, i) == SubSeq(t, i + 1, Len(t))

LEMMA BehindFacts ==
  ASSUME NEW S, NEW t \in Seq(S), NEW i \in 1 .. Len(t)
  PROVE  /\ Behind(t, i) \in Seq(S) /\ Len(Behind(t, i)) = Len(t) - i
         /\ \A j \in 1 .. Len(t) - i : Behind(t, i)[j] = t[i + j]
  BY DEF Behind

LEMMA BehindJoin ==
  ASSUME NEW s, NEW t, IsSeq(s), IsSeq(t), NEW i \in Len(s) + 1 .. Len(s) + Len(t)
  PROVE  Behind(s \o t, i) = Behind(t, i - Len(s)) /\ (s \o t)[i] = t[i - Len(s)]
<1> DEFINE S == {s[j] : j \in DOMAIN s} \cup {t[j] : j \in DOMAIN t}
<1>1. s \in Seq(S) /\ t \in Seq(S)
  BY DEF IsSeq
<1> HIDE DEF S
<1>2. Len(s) \in Nat /\ Len(t) \in Nat /\ i - Len(s) \in 1 .. Len(t) /\ i \in 1 .. Len(s) + Len(t)
  BY <1>1
<1> DEFINE u == s \o t
           p == Behind(u, i)
           q == Behind(t, i - Len(s))
<1>3. u \in Seq(S) /\ Len(u) = Len(s) + Len(t) /\ \A j \in Len(s) + 1 .. Len(u) : u[j] = t[j - Len(s)]
  BY <1>1
<1> HIDE DEF u
<1>4. p \in Seq(S) /\ Len(p) = Len(u) - i /\ \A j \in 1 .. Len(u) - i : p[j] = u[i + j]
  BY <1>2, <1>3 DEF Behind
<1>5. q \in Seq(S) /\ Len(q) = Len(t) - (i - Len(s))
      /\ \A j \in 1 .. Len(t) - (i - Len(s)) : q[j] = t[(i - Len(s)) + j]
  BY <1>1, <1>2 DEF Behind
<1> HIDE DEF p, q
<1>6. Len(p) = Len(q)
  BY <1>2, <1>3, <1>4, <1>5
<1>7. ASSUME NEW j \in 1 .. Len(p) PROVE p[j] = q[j]
  <2>1. j \in 1 .. Len(u) - i /\ j \in 1 .. Len(t) - (i - Len(s))
    BY <1>4, <1>5, <1>6
  <2>2. i + j \in Len(s) + 1 .. Len(u) /\ (i + j) - Len(s) = (i - Len(s)) + j
    BY <1>2, <1>3, <2>1
  <2>3. QED BY <1>3, <1>4, <1>5, <2>1, <2>2
<1>8. p = q
  BY <1>4, <1>5, <1>6, <1>7, SeqEqual
<1>9. u[i] = t[i - Len(s)]
  BY <1>3
<1>10. QED BY <1>8, <1>9 DEF p, q, u

LEMMA BehindBehind ==
  ASSUME NEW t, IsSeq(t), NEW i \in 1 .. Len(t), NEW j \in 1 .. Len(t) - i
  PROVE  Behind(Behind(t, i), j) = Behind(t, i + j) /\ Behind(t, i)[j] = t[i + j]
<1> DEFINE S == {t[m] : m \in DOMAIN t}
<1>1. t \in Seq(S)
  BY DEF IsSeq
<1> HIDE DEF S
<1>2. Len(t) \in Nat /\ i + j \in 1 .. Len(t)
  BY <1>1
<1> DEFINE u == Behind(t, i)
           p == Behind(u, j)
           q == Behind(t, i + j)
<1>3. u \in Seq(S) /\ Len(u) = Len(t) - i /\ \A m \in 1 .. Len(t) - i : u[m] = t[i + m]
  BY <1>1, <1>2 DEF Behind
<1> HIDE DEF u
<1>4. p \in Seq(S) /\ Len(p) = Len(u) - j /\ \A m \in 1 .. Len(u) - j : p[m] = u[j + m]
  <2>1. Len(u) \in Nat /\ j \in 1 .. Len(u)
    BY <1>2, <1>3
  <2>2. QED BY <1>3, <2>1, BehindFacts
<1>5. q \in Seq(S) /\ Len(q) = Len(t) - (i + j) /\ \A m \in 1 .. Len(t) - (i + j) : q[m] = t[(i + j) + m]
  BY <1>1, <1>2 DEF Behind
<1> HIDE DEF p, q
<1>6. Len(p) = Len(q)
  BY <1>2, <1>3, <1>4, <1>5
<1>7. ASSUME NEW m \in 1 .. Len(p) PROVE p[m] = q[m]
  <2>1. m \in 1 .. Len(u) - j /\ m \in 1 .. Len(t) - (i + j)
    BY <1>4, <1>5, <1>6
  <2>2. j + m \in 1 .. Len(t) - i /\ i + (j + m) = (i + j) + m
    BY <1>2, <1>3, <2>1
  <2>3. QED BY <1>3, <1>4, <1>5, <2>1, <2>2
<1>8. p = q
  BY <1>4, <1>5, <1>6, <1>7, SeqEqual
<1>9. QED BY <1>3, <1>8 DEF p, q, u

LEMMA BehindFirst ==
  ASSUME NEW t, IsSeq(t), t # <<>>
  PROVE  Tail(t) = Behind(t, 1) /\ IsSeq(Tail(t)) /\ Len(Tail(t)) = Len(t) - 1
<1>1. 1 \in 1 .. Len(t) /\ Tail(t) = SubSeq(t, 1 + 1, Len(t))
  BY TailIsRest
<1>2. IsSeq(SubSeq(t, 1 + 1, Len(t))) /\ Len(SubSeq(t, 1 + 1, Len(t))) = Len(t) - 1
  BY <1>1, RestIsSeq
<1>3. QED BY <1>1, <1>2 DEF Behind

\* Behind each attempt that has begun, brackets go as from the token to go back to.
TriesBalanced(t) ==
  \A i \in DOMAIN t : t[i].do = "try" => Goes(Behind(t, i), Depth(t[i].save), 0, "top")

AtEnd       == Text(cur) = Eof
LastIsClass == made # <<>> /\ made[Len(made)].kind = "Class"

\* What is left to do closes exactly what is open ...
Balanced == Goes(todo, Depth(cur), 0, "top")
\* ... or all is done; ...
Finished == AtEnd /\ todo = <<>> /\ Depth(cur) = 0
\* ... or the members of a class have just ended at the end marker, one bracket
\* still open, ...
ClassLeft == /\ AtEnd /\ Goes(todo, Depth(cur) - 1, 0, "top")
             /\ todo # <<>> /\ Now.do = "make" /\ Now.kind = "Class"
\* ... and the class is made, as the last item of the program ...
TopLeft == AtEnd /\ Depth(cur) = 1 /\ LastIsClass /\ todo \in {<<LastItems>>, ModItems, <<>>}
\* ... or in a namespace, which is not closed either.
NamespaceEnds == {MoreItems, Head(Rule("namespace_items")), Head(NamespaceItems),
                  Head(Throw("scope_not_terminated"))}
NamespaceLeft == AtEnd /\ todo # <<>> /\ Now \in NamespaceEnds

Position == Balanced \/ Finished \/ ClassLeft \/ TopLeft \/ NamespaceLeft

ParsedWell == AtEnd /\ (Depth(cur) = 0 \/ (Depth(cur) = 1 /\ LastIsClass))

Underway == outcome = ""
OneEnd   == \A c \in DOMAIN input : input[c] = Eof => c = Len(input)

BInv ==
  /\ OneEnd
  /\ TriesBalanced(todo)
  /\ Underway => Position
  /\ outcome = "parsed" => ParsedWell

\* What is behind the first instruction, if it leads to j open brackets as h.
After(j, h) == \/ Tail(todo) = <<>> /\ j = 0 /\ h = "top"
               \/ Follows(h, Tail(todo)) /\ Goes(Tail(todo), j, 0, "top")

LEMMA GoesFirst ==
  ASSUME todo # <<>>, NEW n \in Int, Goes(todo, n, 0, "top")
  PROVE  \E W : \E j \in Int, h \in Kinds : Consistent(W) /\ Does(W, Now, n, j, h) /\ After(j, h)
<1>1. PICK W : Consistent(W) /\ <<todo, n, 0, "top">> \in W
  BY DEF Goes
<1>2. Explains(W, todo, n, 0, "top")
  BY <1>1 DEF Consistent
<1>3. PICK j \in Int, h \in Kinds :
        /\ Does(W, Head(todo), n, j, h)
        /\ \/ Tail(todo) = <<>> /\ j = 0 /\ Last(h, "top")
           \/ Follows(h, Tail(todo)) /\ <<Tail(todo), j, 0, "top">> \in W
  BY <1>2 DEF Explains, Steps
<1>4. After(j, h)
  BY <1>1, <1>3 DEF After, Last, Goes
<1>5. QED BY <1>1, <1>3, <1>4 DEF Now

LEMMA AfterPlain ==
  ASSUME NEW j, NEW h, After(j, h)
  PROVE  /\ h # "top" => Follows(h, Tail(todo)) /\ Goes(Tail(todo), j, 0, "top")
         /\ h = "top" => Tail(todo) = <<>> /\ j = 0
  BY DEF After, Follows

LEMMA TriesStay ==
  ASSUME NEW t, IsSeq(t), t # <<>>, NEW s, IsSeq(s), NoTry(s), TriesBalanced(t)
  PROVE  TriesBalanced(s \o Tail(t))
<1> DEFINE r == Tail(t)
           S == Len(s)
           L == Len(t)
<1>1. S \in Nat /\ L \in Nat /\ DOMAIN t = 1 .. L /\ DOMAIN s = 1 .. S
  BY SeqFacts
<1>2. IsSeq(r) /\ Len(r) = L - 1 /\ r = Behind(t, 1) /\ 1 \in 1 .. L
  BY BehindFirst, TailIsRest
<1> HIDE DEF r
<1>3. DOMAIN (s \o r) = 1 .. S + (L - 1) /\ \A i \in 1 .. S : (s \o r)[i] = s[i]
  <2>1. IsSeq(s \o r) /\ Len(s \o r) = S + (L - 1) /\ \A i \in 1 .. S : (s \o r)[i] = s[i]
    BY <1>2, JoinIsSeq
  <2>2. QED BY <2>1, SeqFacts
<1>4. ASSUME NEW i \in DOMAIN (s \o r), (s \o r)[i].do = "try"
      PROVE  Goes(Behind(s \o r, i), Depth((s \o r)[i].save), 0, "top")
  <2>1. i > S
    <3>1. SUFFICES ASSUME i \in 1 .. S PROVE FALSE
      BY <1>1, <1>3
    <3>2. QED BY <1>1, <1>3, <1>4, <3>1 DEF NoTry
  <2> DEFINE j == i - S
  <2>2. i \in Len(s) + 1 .. Len(s) + Len(r) /\ j \in 1 .. Len(t) - 1 /\ 1 + j \in 1 .. L
    BY <1>1, <1>2, <1>3, <2>1
  <2>3. Behind(s \o r, i) = Behind(r, j) /\ (s \o r)[i] = r[j]
    BY <1>2, <2>2, BehindJoin
  <2> HIDE DEF j
  <2>4. Behind(r, j) = Behind(t, 1 + j) /\ r[j] = t[1 + j]
    BY <1>2, <2>2, BehindBehind
  <2>5. QED BY <1>1, <1>4, <2>2, <2>3, <2>4 DEF TriesBalanced
<1>5. QED BY <1>4 DEF TriesBalanced, r

\* Depths depend on the program only.
LEMMA SameDepth ==
  ASSUME input' = input
  PROVE  /\ Depth(cur)' = Depth(cur')
         /\ TriesBalanced(todo') => TriesBalanced(todo)'
         /\ OneEnd => OneEnd'
<1>1. Depth(cur)' = Depth(cur')
  BY DEF Depth, Count
<1>2. TriesBalanced(todo') => TriesBalanced(todo)'
  BY DEF TriesBalanced, Depth, Count
<1>3. OneEnd => OneEnd'
  BY DEF OneEnd
<1>4. QED BY <1>1, <1>2, <1>3

LEMMA Continues ==
  ASSUME IInv, TriesBalanced(todo), todo # <<>>,
         NEW s, NoTry(s), NEW n \in Int, NEW j \in Int, NEW h \in Kinds,
         Goes(s, n, j, h), After(j, h), todo' = s \o Tail(todo), input' = input
  PROVE  Goes(todo', n, 0, "top") /\ TriesBalanced(todo)'
<1>1. IsSeq(todo) /\ IsSeq(s) /\ IsSeq(Tail(todo))
  BY IsSeqParts, GoesIsSeq, BehindFirst
<1>2. Goes(s \o Tail(todo), n, 0, "top")
  <2>1. CASE Tail(todo) = <<>> /\ j = 0 /\ h = "top"
    <3>1. s \o Tail(todo) = s
      BY <1>1, <2>1, JoinParts
    <3>2. QED BY <2>1, <3>1
  <2>2. CASE Follows(h, Tail(todo)) /\ Goes(Tail(todo), j, 0, "top")
    BY <2>2, GoesJoin
  <2>3. QED BY <2>1, <2>2 DEF After
<1>3. TriesBalanced(s \o Tail(todo))
  BY <1>1, TriesStay
<1>4. QED BY <1>2, <1>3, SameDepth

\* A step after which the parser is at a position of the invariant.
LEMMA Arrives ==
  ASSUME BInv, Underway, input' = input, outcome' = outcome, TriesBalanced(todo)', Position'
  PROVE  BInv'
<1>1. OneEnd'
  BY SameDepth DEF BInv
<1>2. outcome' # "parsed"
  BY DEF Underway
<1>3. QED BY <1>1, <1>2 DEF BInv

LEMMA FailBalanced ==
  ASSUME IInv, BInv, todo # <<>>, Underway, NEW e \in Errors, Fail(e)
  PROVE  BInv'
<1>0. IsSeq(todo) /\ DOMAIN todo = 1 .. Len(todo) /\ Len(todo) \in Nat
  BY IsSeqParts
<1> DEFINE tries == {i \in DOMAIN todo : todo[i].do = "try"}
           i == CHOOSE j \in tries : \A m \in tries : j <= m
<1>1. input' = input /\ split' = split
  BY DEF Fail
<1>2. CASE tries = {}
  <2>1. outcome' = e /\ todo' = <<>>
    BY <1>2 DEF Fail
  <2>2. TriesBalanced(todo)'
    BY <2>1 DEF TriesBalanced
  <2>3. outcome' # "parsed" /\ ~Underway'
    BY <2>1 DEF Errors, Underway
  <2>4. OneEnd'
    BY <1>1, SameDepth DEF BInv
  <2>5. QED BY <2>2, <2>3, <2>4 DEF BInv
<1>3. CASE tries # {}
  <2>1. i \in tries
    <3>1. tries \subseteq Nat
      <4>1. tries \subseteq 1 .. Len(todo)
        BY <1>0
      <4> HIDE DEF tries
      <4>2. QED BY <1>0, <4>1
    <3> HIDE DEF tries
    <3>2. \E j \in tries : \A m \in tries : j <= m
      BY <1>3, <3>1, LeastNumber
    <3>3. QED BY <3>2
  <2>2. todo' = Behind(todo, i) /\ cur' = todo[i].save /\ outcome' = outcome
    BY <1>3 DEF Fail, Behind
  <2>3. i \in 1 .. Len(todo) /\ i \in DOMAIN todo /\ todo[i].do = "try"
    BY <2>1, <1>0
  <2> HIDE DEF i, tries
  <2>4. Goes(todo', Depth(cur'), 0, "top")
    BY <2>2, <2>3 DEF BInv, TriesBalanced
  <2>5. Balanced'
    BY <1>1, <2>4, SameDepth DEF Balanced
  <2>6. IsSeq(todo') /\ Len(todo') = Len(todo) - i
    BY <1>0, <2>2, <2>3, RestIsSeq DEF Behind
  <2>7. ASSUME NEW j \in DOMAIN todo', todo'[j].do = "try"
        PROVE  Goes(Behind(todo', j), Depth(todo'[j].save), 0, "top")
    <3>1. j \in 1 .. Len(todo) - i
      BY <2>6, <2>7, SeqFacts
    <3>2. Behind(todo', j) = Behind(todo, i + j) /\ todo'[j] = todo[i + j] /\ i + j \in DOMAIN todo
      BY <1>0, <2>2, <2>3, <3>1, BehindBehind
    <3>3. QED BY <2>7, <3>2 DEF BInv, TriesBalanced
  <2>8. TriesBalanced(todo)'
    <3>1. TriesBalanced(todo')
      BY <2>7 DEF TriesBalanced
    <3>2. QED BY <1>1, <3>1, SameDepth
  <2>9. QED BY <1>1, <2>2, <2>5, <2>8, Arrives DEF Position
<1>4. QED BY <1>2, <1>3

\* A step that goes on with s at token c from a balanced position.
LEMMA GoesOnBalanced ==
  ASSUME IInv, BInv, Underway, todo # <<>>, NEW s, NoTry(s), NEW c, Depth(c) \in Int,
         NEW j \in Int, NEW h \in Kinds, Goes(s, Depth(c), j, h), After(j, h),
         todo' = s \o Tail(todo), cur' = c, input' = input, outcome' = outcome
  PROVE  BInv'
<1>1. Goes(todo', Depth(c), 0, "top") /\ TriesBalanced(todo)'
  BY Continues DEF BInv
<1>2. Depth(cur)' = Depth(c)
  BY SameDepth
<1>3. Balanced'
  BY <1>1, <1>2 DEF Balanced
<1>4. QED BY <1>1, <1>3, Arrives DEF Position
-----------------------------------------------------------------------------
(* The actions, and the brackets.                                          *)

LEMMA HeadsAtEnd ==
  /\ MoreItems.do = "eat" /\ MoreItems.no = Rule("namespace_items") /\ Eof \notin DOMAIN MoreItems.table
  /\ Head(Rule("namespace_items")).do = "rule" /\ Head(Rule("namespace_items")).rule = "namespace_items"
  /\ Head(NamespaceItems).do = "look" /\ Eof \in DOMAIN Head(NamespaceItems).table
  /\ Head(NamespaceItems).table[Eof] = Throw("scope_not_terminated")
  /\ Head(Throw("scope_not_terminated")).do = "throw"
  /\ Head(Throw("scope_not_terminated")).error = "scope_not_terminated"
  /\ Head(<<LastItems>>) = LastItems /\ LastItems.do = "rule" /\ LastItems.rule = "mod_items"
  /\ ModItems # <<>> /\ Tail(ModItems) = <<>> /\ IsSeq(ModItems)
  /\ Head(ModItems).do = "look" /\ Eof \in DOMAIN Head(ModItems).table
  /\ Head(ModItems).table[Eof] = <<>>
<1>1. ASSUME NEW x PROVE Head(<<x>>) = x /\ Tail(<<x>>) = <<>> /\ <<x>> # <<>> /\ IsSeq(<<x>>)
  BY OneFacts
<1>2. "}" # Eof
  BY TextsNotEof
<1>3. MoreItems.do = "eat" /\ MoreItems.no = Rule("namespace_items") /\ MoreItems.table = "}" :> <<>>
  BY DEF MoreItems
<1>4. DOMAIN ("}" :> <<>>) = {"}"}
  BY DEF :>
<1>5. /\ Head(Rule("namespace_items")).do = "rule"
      /\ Head(Rule("namespace_items")).rule = "namespace_items"
  BY <1>1 DEF Rule
<1>6. ASSUME NEW f, NEW no
      PROVE  /\ Head(Look(f, no)).do = "look" /\ Head(Look(f, no)).table = f
             /\ Look(f, no) # <<>> /\ Tail(Look(f, no)) = <<>> /\ IsSeq(Look(f, no))
  BY <1>1 DEF Look
<1>7. ASSUME NEW s PROVE Eof \in DOMAIN (Eof :> s) /\ (Eof :> s)[Eof] = s
  BY DEF :>
<1>8. ASSUME NEW s, NEW g PROVE Eof \in DOMAIN (Eof :> s @@ g) /\ (Eof :> s @@ g)[Eof] = s
  BY <1>7 DEF @@
<1>9. /\ Head(Throw("scope_not_terminated")).do = "throw"
      /\ Head(Throw("scope_not_terminated")).error = "scope_not_terminated"
  BY <1>1 DEF Throw
<1>10. LastItems.do = "rule" /\ LastItems.rule = "mod_items"
  BY DEF LastItems
<1>11. Head(NamespaceItems).do = "look" /\ Head(NamespaceItems).table = Eof :> Throw("scope_not_terminated")
  BY <1>6 DEF NamespaceItems
<1>12. /\ Head(ModItems).do = "look"
       /\ Head(ModItems).table = (Eof :> <<>> @@ "import" :> Throw("import_not_allowed_here"))
       /\ ModItems # <<>> /\ Tail(ModItems) = <<>> /\ IsSeq(ModItems)
  BY <1>6 DEF ModItems
<1>13. Eof \notin DOMAIN MoreItems.table
  BY <1>2, <1>3, <1>4
<1>14. /\ Head(NamespaceItems).do = "look" /\ Eof \in DOMAIN Head(NamespaceItems).table
       /\ Head(NamespaceItems).table[Eof] = Throw("scope_not_terminated")
  BY <1>7, <1>11
<1>15. /\ Head(ModItems).do = "look" /\ Eof \in DOMAIN Head(ModItems).table
       /\ Head(ModItems).table[Eof] = <<>>
  BY <1>8, <1>12
<1>16. Head(<<LastItems>>) = LastItems
  BY <1>1
<1>17. QED BY <1>3, <1>5, <1>9, <1>10, <1>12, <1>13, <1>14, <1>15, <1>16

\* Only few instructions come first at a position that is not balanced.
LEMMA NotTopLeft == ASSUME todo # <<>>, Now.do \notin {"rule", "look"} PROVE ~TopLeft
<1>1. SUFFICES ASSUME todo \in {<<LastItems>>, ModItems} PROVE FALSE
  BY DEF TopLeft
<1>2. Now.do \in {"rule", "look"}
  BY <1>1, HeadsAtEnd DEF Now
<1>3. QED BY <1>2

LEMMA OnlyBalanced ==
  ASSUME BInv, Underway, todo # <<>>, Now.do \notin {"make", "rule", "look", "eat", "throw"}
  PROVE  Balanced
<1>1. ~Finished /\ ~ClassLeft
  BY DEF Finished, ClassLeft
<1>2. ~TopLeft
  BY NotTopLeft
<1>3. ~NamespaceLeft
  <2>1. SUFFICES ASSUME Now \in NamespaceEnds PROVE FALSE
    BY DEF NamespaceLeft
  <2>2. Now.do \in {"eat", "rule", "look", "throw"}
    BY <2>1, HeadsAtEnd DEF NamespaceEnds
  <2>3. QED BY <2>2
<1>4. QED BY <1>1, <1>2, <1>3 DEF BInv, Position

\* What the first instruction does at a balanced position.
Explained(W, j, h) ==
  /\ j \in Int /\ h \in Kinds /\ Consistent(W)
  /\ Does(W, Now, Depth(cur), j, h) /\ After(j, h)

LEMMA FirstDoes ==
  ASSUME IInv, Balanced, todo # <<>>
  PROVE  \E W, j, h : Explained(W, j, h)
<1>1. Depth(cur) \in Int
  BY DepthGoes
<1>2. QED BY <1>1, GoesFirst DEF Balanced, Explained

LEMMA StartsPlain ==
  ASSUME IInv, BInv, NEW what, Do(what), what \notin {"make", "rule", "look", "eat", "throw"}
  PROVE  /\ Underway /\ todo # <<>> /\ Now.do = what
         /\ \E W, j, h : Explained(W, j, h)
<1>1. Underway /\ todo # <<>> /\ Now.do = what
  BY DEF Do, Underway
<1>2. Balanced
  BY <1>1, OnlyBalanced
<1>3. QED BY <1>1, <1>2, FirstDoes

LEMMA GoesOnFlat ==
  ASSUME IInv, BInv, Underway, todo # <<>>, After(Depth(cur), "plain"),
         NEW s, Flat(s), NEW c, Depth(c) = Depth(cur),
         todo' = s \o Tail(todo), cur' = c, input' = input, outcome' = outcome
  PROVE  BInv'
<1>1. Depth(c) \in Int /\ Depth(c) + 0 = Depth(c)
  BY DepthGoes
<1>2. NoTry(s) /\ Goes(s, Depth(c), Depth(c), "plain")
  BY <1>1 DEF Flat, Net
<1>3. "plain" \in Kinds
  BY DEF Kinds
<1>4. QED BY <1>1, <1>2, <1>3, GoesOnBalanced

LEMMA GoOnIs ==
  ASSUME NEW s, NEW c, GoOn(s, c)
  PROVE  todo' = s \o Tail(todo) /\ cur' = c /\ input' = input /\ outcome' = outcome
         /\ split' = split /\ made' = made
  BY DEF GoOn, Go

LEMMA ErrorNames ==
  /\ "expected_but_found" \in Errors /\ "expected_identifier_tok" \in Errors
  /\ "invalid_syntax" \in Errors /\ "invalid_character_literal" \in Errors
  BY DEF Errors, Outcomes

LEMMA ExpectBalanced == ASSUME IInv, BInv, DoExpect PROVE BInv'
<1>1. Do("expect")
  BY DEF DoExpect, ExpectOr
<1>2. Underway /\ todo # <<>> /\ Now.do = "expect" /\ \E W, j, h : Explained(W, j, h)
  BY <1>1, StartsPlain
<1>3. PICK W, j, h : Explained(W, j, h)
  BY <1>2
<1>4. h = "plain" /\ j = Depth(cur) + Bal(Now.text) /\ After(j, h) /\ j \in Int
  BY <1>2, <1>3 DEF Explained, Does, Single
<1>5. CASE Text(cur) = Now.text
  <2>1. GoOn(<<>>, cur + 1)
    BY <1>5 DEF DoExpect, ExpectOr
  <2>2. Depth(cur + 1) = j
    BY <1>4, <1>5, DepthGoes
  <2>3. NoTry(<<>>) /\ Goes(<<>>, j, j, "plain") /\ "plain" \in Kinds
    BY <1>4, GoesNothing DEF NoTry, Kinds
  <2>4. QED BY <1>2, <1>4, <2>1, <2>2, <2>3, GoOnIs, GoesOnBalanced
<1>6. CASE Text(cur) # Now.text
  <2>1. Fail("expected_but_found")
    BY <1>6 DEF DoExpect, ExpectOr
  <2>2. QED BY <1>2, <2>1, FailBalanced, ErrorNames
<1>7. QED BY <1>5, <1>6

\* What a plain instruction other than these needs of what is behind it.
LEMMA PlainAfter ==
  ASSUME IInv, NEW W, NEW j, NEW h, Explained(W, j, h),
         Now.do \in {"ident", "int", "literal", "level", "loop", "fields", "try", "close", "list", "attempt"}
  PROVE  After(Depth(cur), "plain")
<1>1. h = "plain" /\ j = Depth(cur)
  BY DEF Explained, Does, Single
<1>2. QED BY <1>1 DEF Explained

LEMMA TokenBalanced == ASSUME IInv, BInv, DoIdent \/ DoInt PROVE BInv'
<1>1. ASSUME NEW what \in {"ident", "int"}, NEW ok, NEW e \in Errors, ExpectOr(what, ok, e),
             ok \in BOOLEAN, ok => Neutral(Text(cur))
      PROVE  BInv'
  <2>1. Do(what)
    BY <1>1 DEF ExpectOr
  <2>2. Underway /\ todo # <<>> /\ Now.do = what /\ \E W, j, h : Explained(W, j, h)
    BY <2>1, StartsPlain
  <2>3. After(Depth(cur), "plain")
    BY <2>2, PlainAfter
  <2>4. CASE ok
    <3>1. GoOn(<<>>, cur + 1)
      BY <1>1, <2>4 DEF ExpectOr
    <3>2. Depth(cur + 1) = Depth(cur)
      BY <1>1, <2>4, DepthGoes
    <3>3. QED BY <2>2, <2>3, <3>1, <3>2, GoOnIs, GoesOnFlat, FlatParts
  <2>5. CASE ~ok
    <3>1. Fail(e)
      BY <1>1, <2>5 DEF ExpectOr
    <3>2. QED BY <2>2, <3>1, FailBalanced
  <2>6. QED BY <1>1, <2>4, <2>5
<1>2. CASE DoIdent
  <2>1. ExpectOr("ident", IsIdentifier(Text(cur)), "expected_identifier_tok")
        /\ IsIdentifier(Text(cur)) \in BOOLEAN /\ (IsIdentifier(Text(cur)) => Neutral(Text(cur)))
    BY <1>2, NoBrackets DEF DoIdent, IsIdentifier
  <2>2. QED BY <1>1, <2>1, ErrorNames
<1>3. CASE DoInt
  <2>1. ExpectOr("int", Text(cur) \in IntLiterals, "expected_but_found")
        /\ (Text(cur) \in IntLiterals) \in BOOLEAN /\ (Text(cur) \in IntLiterals => Neutral(Text(cur)))
    BY <1>3, NoBrackets DEF DoInt
  <2>2. QED BY <1>1, <2>1, ErrorNames
<1>4. QED BY <1>2, <1>3

LEMMA ListBalanced == ASSUME IInv, BInv, DoList PROVE BInv'
<1>1. Underway /\ todo # <<>> /\ Now.do = "list" /\ \E W, j, h : Explained(W, j, h)
  BY StartsPlain DEF DoList
<1>2. PICK W, j, h : Explained(W, j, h)
  BY <1>1
<1>3. After(Depth(cur), "plain")
  BY <1>1, <1>2, PlainAfter
<1>4. CASE Text(cur) = ","
  <2>1. GoOn(Now.body \o <<Now>>, cur + 1)
    BY <1>4 DEF DoList
  <2>2. Depth(cur + 1) = Depth(cur) /\ Depth(cur) \in Int
    BY <1>4, DepthGoes, NeutralTexts
  <2>3. Consistent(W) /\ Does(W, Now, Depth(cur), Depth(cur), "plain")
        /\ In(W, Now.body, Depth(cur), Depth(cur), "plain")
    BY <1>1, <1>2 DEF Explained, Does, Single
  <2>4. NoTry(Now.body) /\ Goes(Now.body, Depth(cur), Depth(cur), "plain")
    BY <2>3 DEF In, Goes
  <2>5. "plain" \in Kinds /\ Last("plain", "plain") /\ Follows("plain", <<Now>>)
    BY DEF Kinds, Last, Follows
  <2>6. NoTry(<<Now>>) /\ Goes(<<Now>>, Depth(cur), Depth(cur), "plain")
    BY <1>1, <2>2, <2>3, <2>5, GoesOne, NoTryOne
  <2>7. Goes(Now.body \o <<Now>>, Depth(cur), Depth(cur), "plain")
    BY <2>2, <2>4, <2>5, <2>6, GoesJoin
  <2>8. NoTry(Now.body \o <<Now>>)
    BY <2>2, <2>4, <2>6, GoesIsSeq, NoTryJoin
  <2>9. QED BY <1>1, <1>3, <2>1, <2>2, <2>5, <2>7, <2>8, GoOnIs, GoesOnBalanced
<1>5. CASE Text(cur) # ","
  <2>1. GoOn(<<>>, cur)
    BY <1>5 DEF DoList
  <2>2. QED BY <1>1, <1>3, <2>1, GoOnIs, GoesOnFlat, FlatParts
<1>6. QED BY <1>4, <1>5

LEMMA LevelBalanced == ASSUME IInv, BInv, DoLevel \/ DoLoop PROVE BInv'
<1>1. CASE DoLevel
  <2>1. Underway /\ todo # <<>> /\ Now.do = "level" /\ \E W, j, h : Explained(W, j, h)
    BY <1>1, StartsPlain DEF DoLevel
  <2>2. After(Depth(cur), "plain")
    BY <2>1, PlainAfter
  <2>3. Now.level \in DOMAIN Levels
    <3>1. PICK W : \E n, m \in Nat : FirstIs("level", W, n, m)
      BY <1>1, Beginning DEF DoLevel
    <3>2. QED BY <3>1 DEF FirstIs, Fits, Simple
  <2>4. GoOn(LevelBody(Now.level, cur), cur)
    BY <1>1 DEF DoLevel
  <2>5. QED BY <2>1, <2>2, <2>3, <2>4, GoOnIs, GoesOnFlat, FlatLevel
<1>2. CASE DoLoop
  <2>1. Underway /\ todo # <<>> /\ Now.do = "loop" /\ \E W, j, h : Explained(W, j, h)
    BY <1>2, StartsPlain DEF DoLoop
  <2>2. After(Depth(cur), "plain")
    BY <2>1, PlainAfter
  <2>3. Now.level \in DOMAIN Levels
    <3>1. PICK W : \E n, m \in Nat : FirstIs("loop", W, n, m)
      BY <1>2, Beginning DEF DoLoop
    <3>2. QED BY <3>1 DEF FirstIs, Fits, Simple
  <2>4. GoOn(Round(Now.level, Now.first, cur), cur)
    BY <1>2 DEF DoLoop
  <2>5. QED BY <2>1, <2>2, <2>3, <2>4, GoOnIs, GoesOnFlat, FlatRound
<1>3. QED BY <1>1, <1>2

LEMMA LiteralBalanced == ASSUME IInv, BInv, DoLiteral PROVE BInv'
<1>1. Underway /\ todo # <<>> /\ Now.do = "literal" /\ \E W, j, h : Explained(W, j, h)
  BY StartsPlain DEF DoLiteral
<1>2. After(Depth(cur), "plain")
  BY <1>1, PlainAfter
<1>3. CASE GoOn(Rule("symbol"), cur)
  BY <1>1, <1>2, <1>3, GoOnIs, GoesOnFlat, RuleParts, FlatRuleNames
<1>4. CASE Text(cur) \in Literals /\ GoOn(Make("Value", cur, 0), cur + 1)
  <2>1. Depth(cur + 1) = Depth(cur)
    BY <1>4, DepthGoes, NoBrackets
  <2>2. Flat(Make("Value", cur, 0))
    BY Parts
  <2>3. QED BY <1>1, <1>2, <1>4, <2>1, <2>2, GoOnIs, GoesOnFlat
<1>5. CASE Fail("invalid_character_literal") \/ Fail("invalid_syntax")
  BY <1>1, <1>5, FailBalanced, ErrorNames
<1>6. QED BY <1>3, <1>4, <1>5 DEF DoLiteral

LEMMA FieldsBalanced == ASSUME IInv, BInv, DoFields PROVE BInv'
<1>1. Underway /\ todo # <<>> /\ Now.do = "fields" /\ \E W, j, h : Explained(W, j, h)
  BY StartsPlain DEF DoFields
<1>2. After(Depth(cur), "plain")
  BY <1>1, PlainAfter
<1>3. GoOn(Params, cur) \/ GoOn(Type \o Maybe(",", List(Type)), cur)
  BY DEF DoFields
<1>4. Flat(Params) /\ Flat(Type \o Maybe(",", List(Type)))
  BY FlatParams, FlatParts, PlainJoin, SkipsAndMaybes, Parts, NeutralTexts
<1>5. QED BY <1>1, <1>2, <1>3, <1>4, GoOnIs, GoesOnFlat

LEMMA TryBalanced == ASSUME IInv, BInv, DoTry PROVE BInv'
<1>1. Underway /\ todo # <<>> /\ Now.do = "try" /\ \E W, j, h : Explained(W, j, h)
  BY StartsPlain DEF DoTry
<1>2. After(Depth(cur), "plain") /\ GoOn(<<>>, cur)
  BY <1>1, PlainAfter DEF DoTry
<1>3. QED BY <1>1, <1>2, GoOnIs, GoesOnFlat, FlatParts

LEMMA CloseBalanced == ASSUME IInv, BInv, DoClose PROVE BInv'
<1>1. Underway /\ todo # <<>> /\ Now.do = "close" /\ \E W, j, h : Explained(W, j, h)
  BY StartsPlain DEF DoClose
<1>2. After(Depth(cur), "plain")
  BY <1>1, PlainAfter
<1>3. ASSUME NEW c, Close(c), Depth(c) = Depth(cur) PROVE BInv'
  <2>1. todo' = Tail(todo) /\ cur' = c /\ input' = input /\ outcome' = outcome
    BY <1>3 DEF Close
  <2>2. <<>> \o Tail(todo) = Tail(todo)
    BY <1>1, IsSeqParts, BehindFirst, JoinParts
  <2>3. QED BY <1>1, <1>2, <1>3, <2>1, <2>2, GoesOnFlat, FlatParts
<1>4. CASE Close(cur)
  BY <1>3, <1>4
<1>5. CASE Text(cur) = ">" /\ Close(cur + 1)
  BY <1>3, <1>5, DepthGoes, NeutralTexts
<1>6. CASE Fail("expected_but_found")
  BY <1>1, <1>6, FailBalanced, ErrorNames
<1>7. QED BY <1>4, <1>5, <1>6 DEF DoClose

LEMMA ExitBalanced == ASSUME BInv, DoExit PROVE BInv'
<1>1. input' = input /\ outcome' = "exit" /\ todo' = <<>>
  BY DEF DoExit
<1>2. TriesBalanced(todo)'
  BY <1>1 DEF TriesBalanced
<1>3. OneEnd' /\ ~Underway' /\ outcome' # "parsed"
  BY <1>1, SameDepth DEF BInv, Underway
<1>4. QED BY <1>2, <1>3 DEF BInv

LEMMA TriesTail ==
  ASSUME NEW t, IsSeq(t), t # <<>>, TriesBalanced(t)
  PROVE  TriesBalanced(Tail(t))
<1>1. IsSeq(<<>>) /\ NoTry(<<>>)
  BY DEF IsSeq, NoTry
<1>2. TriesBalanced(<<>> \o Tail(t))
  BY <1>1, TriesStay
<1>3. <<>> \o Tail(t) = Tail(t)
  BY BehindFirst, <1>1, JoinParts
<1>4. QED BY <1>2, <1>3

LEMMA JoinThree ==
  ASSUME NEW s, NEW t, NEW u, IsSeq(s), IsSeq(t), IsSeq(u)
  PROVE  (s \o t) \o u = s \o (t \o u)
<1> DEFINE S == ({s[j] : j \in DOMAIN s} \cup {t[j] : j \in DOMAIN t}) \cup {u[j] : j \in DOMAIN u}
<1>1. s \in Seq(S) /\ t \in Seq(S) /\ u \in Seq(S)
  BY DEF IsSeq
<1> HIDE DEF S
<1>2. QED BY <1>1, ConcatAssociative

\* An attempt begins with brackets as they are for what is behind it.
LEMMA TriesPut ==
  ASSUME NEW r, IsSeq(r), TriesBalanced(r), NEW x, Goes(r, Depth(x.save), 0, "top")
  PROVE  TriesBalanced(<<x>> \o r)
<1> DEFINE u == <<x>> \o r
<1>1. IsSeq(<<x>>) /\ Len(<<x>>) = 1 /\ <<x>>[1] = x
  BY OneFacts
<1>2. Len(r) \in Nat /\ DOMAIN r = 1 .. Len(r)
  BY SeqFacts
<1>3. IsSeq(u) /\ Len(u) = 1 + Len(r) /\ u[1] = x
  BY <1>1, <1>2, JoinIsSeq
<1>4. Tail(u) = r /\ u # <<>>
  <2>1. <<x>> # <<>> /\ Tail(<<x>>) = <<>>
    OBVIOUS
  <2>2. u # <<>> /\ Tail(u) = Tail(<<x>>) \o r
    BY <1>1, <2>1, JoinParts
  <2>3. <<>> \o r = r
    BY <1>1, JoinParts
  <2>4. QED BY <2>1, <2>2, <2>3
<1>5. ASSUME NEW i \in DOMAIN u, u[i].do = "try"
      PROVE  Goes(Behind(u, i), Depth(u[i].save), 0, "top")
  <2>1. i \in 1 .. 1 + Len(r)
    BY <1>3, <1>5, SeqFacts
  <2>2. CASE i = 1
    <3>1. Behind(u, 1) = r
      BY <1>3, <1>4, BehindFirst
    <3>2. QED BY <1>3, <2>2, <3>1
  <2>3. CASE i # 1
    <3>1. i \in Len(<<x>>) + 1 .. Len(<<x>>) + Len(r) /\ i - 1 \in 1 .. Len(r) /\ i - Len(<<x>>) = i - 1
      BY <1>1, <1>2, <2>1, <2>3
    <3>2. Behind(u, i) = Behind(r, i - 1) /\ u[i] = r[i - 1]
      BY <1>1, <3>1, BehindJoin
    <3>3. QED BY <1>2, <1>5, <3>1, <3>2 DEF TriesBalanced
  <2>4. QED BY <2>2, <2>3
<1>6. QED BY <1>5 DEF TriesBalanced

LEMMA TriesJoin ==
  ASSUME NEW s, IsSeq(s), NoTry(s), NEW r, IsSeq(r), TriesBalanced(r)
  PROVE  TriesBalanced(s \o r)
<1> DEFINE u == s \o r
<1>1. Len(s) \in Nat /\ DOMAIN s = 1 .. Len(s) /\ Len(r) \in Nat /\ DOMAIN r = 1 .. Len(r)
  BY SeqFacts
<1>2. IsSeq(u) /\ Len(u) = Len(s) + Len(r) /\ \A i \in 1 .. Len(s) : u[i] = s[i]
  BY JoinIsSeq
<1>3. ASSUME NEW i \in DOMAIN u, u[i].do = "try"
      PROVE  Goes(Behind(u, i), Depth(u[i].save), 0, "top")
  <2>1. i \in 1 .. Len(s) + Len(r)
    BY <1>2, <1>3, SeqFacts
  <2>2. i \notin 1 .. Len(s)
    BY <1>1, <1>2, <1>3 DEF NoTry
  <2>3. i \in Len(s) + 1 .. Len(s) + Len(r) /\ i - Len(s) \in 1 .. Len(r)
    BY <1>1, <2>1, <2>2
  <2>4. Behind(u, i) = Behind(r, i - Len(s)) /\ u[i] = r[i - Len(s)]
    BY <2>3, BehindJoin
  <2>5. QED BY <1>1, <1>3, <2>3, <2>4 DEF TriesBalanced
<1>4. QED BY <1>3 DEF TriesBalanced

LEMMA AttemptBalanced == ASSUME IInv, BInv, DoAttempt PROVE BInv'
<1>1. Underway /\ todo # <<>> /\ Now.do = "attempt" /\ \E W, j, h : Explained(W, j, h)
  BY StartsPlain DEF DoAttempt
<1>2. PICK W, j, h : Explained(W, j, h)
  BY <1>1
<1>3. After(Depth(cur), "plain")
  BY <1>1, <1>2, PlainAfter
<1> DEFINE n == Depth(cur)
           t == [do |-> "try", save |-> cur, made |-> Len(made)]
           s == Now.body
           r == Tail(todo)
<1>4. t.do = "try" /\ t.save = cur
  OBVIOUS
<1>5. GoOn(s \o <<t>>, cur)
  BY DEF DoAttempt
<1>6. n \in Int
  BY DepthGoes
<1>7. Consistent(W) /\ In(W, s, n, n, "plain")
  BY <1>1, <1>2 DEF Explained, Does, Single
<1>8. IsSeq(r) /\ TriesBalanced(r)
  BY <1>1, IsSeqParts, BehindFirst, TriesTail DEF BInv
<1>9. Goes(r, n, 0, "top")
  BY <1>3, AfterPlain
<1> HIDE DEF t, s, r, n
<1>10. NoTry(s) /\ Goes(s, n, n, "plain") /\ IsSeq(s)
  BY <1>6, <1>7, GoesIsSeq DEF In, Goes
<1>11. "plain" \in Kinds /\ Last("plain", "plain") /\ \A u : Follows("plain", u)
  BY DEF Kinds, Last, Follows
<1>12. Goes(<<t>>, n, n, "plain") /\ IsSeq(<<t>>)
  <2>1. Does(W, t, n, n, "plain")
    BY <1>4 DEF Does, Single
  <2>2. QED BY <1>6, <1>7, <1>11, <2>1, GoesOne, OneFacts
<1>13. Goes(<<t>> \o r, n, 0, "top")
  BY <1>6, <1>9, <1>11, <1>12, GoesJoin
<1>14. Goes(s \o (<<t>> \o r), n, 0, "top")
  BY <1>6, <1>10, <1>11, <1>13, GoesJoin
<1>15. TriesBalanced(s \o (<<t>> \o r)) /\ IsSeq(<<t>> \o r)
  <2>1. Goes(r, Depth(t.save), 0, "top")
    BY <1>4, <1>9 DEF n
  <2>2. TriesBalanced(<<t>> \o r) /\ IsSeq(<<t>> \o r)
    BY <1>8, <1>12, <2>1, TriesPut, JoinIsSeq
  <2>3. QED BY <1>10, <2>2, TriesJoin
<1>16. todo' = s \o (<<t>> \o r)
  <2>1. todo' = (s \o <<t>>) \o Tail(todo)
    BY <1>5, GoOnIs
  <2>2. (s \o <<t>>) \o r = s \o (<<t>> \o r)
    BY <1>8, <1>10, <1>12, JoinThree
  <2>3. todo' = (s \o <<t>>) \o r
    BY <2>1 DEF r
  <2>4. QED BY <2>2, <2>3
<1>17. cur' = cur /\ input' = input /\ outcome' = outcome
  BY <1>5, GoOnIs
<1>18. Balanced' /\ TriesBalanced(todo)'
  <2>1. Depth(cur)' = n
    BY <1>17, SameDepth DEF n
  <2>2. QED BY <1>14, <1>15, <1>16, <1>17, <2>1, SameDepth DEF Balanced
<1>19. QED BY <1>1, <1>17, <1>18, Arrives DEF Position

\* At the end marker, inside a namespace that is not closed.
LEMMA StaysLeft ==
  ASSUME IInv, BInv, Underway, todo # <<>>, AtEnd,
         NEW s, IsSeq(s), NoTry(s), s # <<>>, Head(s) \in NamespaceEnds, GoOn(s, cur)
  PROVE  BInv'
<1>1. /\ todo' = s \o Tail(todo) /\ cur' = cur /\ input' = input /\ outcome' = outcome
      /\ split' = split
  BY GoOnIs
<1>2. IsSeq(Tail(todo)) /\ TriesBalanced(Tail(todo))
  BY IsSeqParts, BehindFirst, TriesTail DEF BInv
<1>3. TriesBalanced(todo)'
  BY <1>1, <1>2, TriesJoin, SameDepth
<1>4. todo' # <<>> /\ Head(todo') = Head(s)
  BY <1>1, <1>2, JoinParts
<1>5. AtEnd'
  BY <1>1 DEF AtEnd, Text
<1>6. NamespaceLeft'
  BY <1>4, <1>5 DEF NamespaceLeft, Now
<1>7. QED BY <1>1, <1>3, <1>6, Arrives DEF Position

LEMMA NotEmpty ==
  /\ Rule("namespace_items") # <<>> /\ NamespaceItems # <<>>
  /\ Throw("scope_not_terminated") # <<>>
  BY DEF Rule, NamespaceItems, Look, Throw

\* Nothing is done at the end marker, and what is behind it is as good.
LEMMA SkipsAtEnd ==
  ASSUME IInv, BInv, Underway, todo # <<>>, AtEnd, GoOn(<<>>, cur)
  PROVE  /\ todo' = Tail(todo) /\ cur' = cur /\ input' = input /\ outcome' = outcome
         /\ made' = made /\ AtEnd' /\ TriesBalanced(todo)' /\ Depth(cur)' = Depth(cur)
<1>1. /\ todo' = <<>> \o Tail(todo) /\ cur' = cur /\ input' = input /\ outcome' = outcome
      /\ split' = split /\ made' = made
  BY GoOnIs
<1>2. IsSeq(Tail(todo)) /\ TriesBalanced(Tail(todo))
  BY IsSeqParts, BehindFirst, TriesTail DEF BInv
<1>3. todo' = Tail(todo)
  BY <1>1, <1>2, JoinParts
<1>4. AtEnd'
  BY <1>1 DEF AtEnd, Text
<1>5. TriesBalanced(todo)'
  BY <1>1, <1>2, <1>3, SameDepth
<1>6. Depth(cur)' = Depth(cur)
  BY <1>1, SameDepth
<1>7. QED BY <1>1, <1>3, <1>4, <1>5, <1>6

LEMMA EatBalanced == ASSUME IInv, BInv, DoEat PROVE BInv'
<1>1. Underway /\ todo # <<>> /\ Now.do = "eat"
  BY DEF DoEat, Do, Underway
<1>2. CASE Balanced
  <2>1. PICK W, j, h : Explained(W, j, h)
    BY <1>1, <1>2, FirstDoes
  <2>2. /\ j \in Int /\ h \in Kinds /\ Consistent(W) /\ After(j, h)
        /\ Does(W, Now, Depth(cur), j, h)
    BY <2>1 DEF Explained
  <2>3. /\ \A t \in DOMAIN Now.table : In(W, Now.table[t], Depth(cur) + Bal(t), j, h)
        /\ In(W, Now.no, Depth(cur), j, h)
    BY <1>1, <2>2 DEF Does, Single
  <2>4. CASE Text(cur) \in DOMAIN Now.table
    <3>1. GoOn(Now.table[Text(cur)], cur + 1)
      BY <2>4 DEF DoEat
    <3>2. Depth(cur + 1) = Depth(cur) + Bal(Text(cur)) /\ Depth(cur + 1) \in Int
      BY DepthGoes, BalType
    <3>3. NoTry(Now.table[Text(cur)]) /\ Goes(Now.table[Text(cur)], Depth(cur + 1), j, h)
      BY <2>2, <2>3, <2>4, <3>2 DEF In, Goes
    <3>4. QED BY <1>1, <2>2, <3>1, <3>2, <3>3, GoOnIs, GoesOnBalanced
  <2>5. CASE Text(cur) \notin DOMAIN Now.table
    <3>1. GoOn(Now.no, cur)
      BY <2>5 DEF DoEat
    <3>2. NoTry(Now.no) /\ Goes(Now.no, Depth(cur), j, h)
      BY <2>2, <2>3 DEF In, Goes
    <3>3. QED BY <1>1, <2>2, <3>1, <3>2, DepthGoes, GoOnIs, GoesOnBalanced
  <2>6. QED BY <2>4, <2>5
<1>3. CASE ~Balanced
  <2>1. NamespaceLeft
    <3>1. ~Finished /\ ~ClassLeft
      BY <1>1 DEF Finished, ClassLeft
    <3>2. ~TopLeft
      BY <1>1, NotTopLeft
    <3>3. QED BY <1>1, <1>3, <3>1, <3>2 DEF BInv, Position
  <2>2. Now = MoreItems /\ AtEnd
    BY <1>1, <2>1, HeadsAtEnd DEF NamespaceLeft, NamespaceEnds
  <2>3. GoOn(Rule("namespace_items"), cur)
    BY <2>2, HeadsAtEnd DEF DoEat, AtEnd
  <2>4. IsSeq(Rule("namespace_items")) /\ NoTry(Rule("namespace_items"))
    BY RuleNets, Numbers, NetIsSeq DEF Closes, Net
  <2>5. QED BY <1>1, <2>2, <2>3, <2>4, NotEmpty, StaysLeft DEF NamespaceEnds
<1>4. QED BY <1>2, <1>3

LEMMA LookBalanced == ASSUME IInv, BInv, DoLook PROVE BInv'
<1>1. Underway /\ todo # <<>> /\ Now.do = "look"
  BY DEF DoLook, Do, Underway
<1>2. /\ Text(cur) \in DOMAIN Now.table => GoOn(Now.table[Text(cur)], cur)
      /\ Text(cur) \notin DOMAIN Now.table => GoOn(Now.no, cur)
  BY DEF DoLook
<1>3. CASE Balanced
  <2>1. PICK W, j, h : Explained(W, j, h)
    BY <1>1, <1>3, FirstDoes
  <2>2. /\ j \in Int /\ h \in Kinds /\ Consistent(W) /\ After(j, h)
        /\ Does(W, Now, Depth(cur), j, h) /\ Depth(cur) \in Int
    BY <2>1, DepthGoes DEF Explained
  <2>3. /\ \A t \in DOMAIN Now.table :
             \/ In(W, Now.table[t], Depth(cur), j, h)
             \/ /\ t = Eof /\ Now.table[t] = <<>>
                /\ (h = "members" /\ j = Depth(cur) - 1) \/ (h = "top" /\ j = Depth(cur))
        /\ In(W, Now.no, Depth(cur), j, h)
    BY <1>1, <2>2 DEF Does, Single
  <2>4. ASSUME NEW s, In(W, s, Depth(cur), j, h), GoOn(s, cur) PROVE BInv'
    <3>1. NoTry(s) /\ Goes(s, Depth(cur), j, h)
      BY <2>2, <2>4 DEF In, Goes
    <3>2. QED BY <1>1, <2>2, <2>4, <3>1, GoOnIs, GoesOnBalanced
  <2>5. CASE /\ Text(cur) = Eof /\ GoOn(<<>>, cur)
             /\ h = "members" /\ j = Depth(cur) - 1
    <3>1. Follows("members", Tail(todo)) /\ Goes(Tail(todo), j, 0, "top")
      BY <2>2, <2>5, AfterPlain
    <3>2. AtEnd
      BY <2>5 DEF AtEnd
    <3>3. /\ todo' = Tail(todo) /\ input' = input /\ outcome' = outcome
          /\ AtEnd' /\ TriesBalanced(todo)' /\ Depth(cur)' = Depth(cur)
      BY <1>1, <2>5, <3>2, SkipsAtEnd
    <3>4. ClassLeft'
      BY <2>5, <3>1, <3>3 DEF ClassLeft, Follows, Now
    <3>5. QED BY <1>1, <3>3, <3>4, Arrives DEF Position
  <2>6. CASE /\ Text(cur) = Eof /\ GoOn(<<>>, cur)
             /\ h = "top" /\ j = Depth(cur)
    <3>1. Tail(todo) = <<>> /\ Depth(cur) = 0
      BY <2>2, <2>6, AfterPlain
    <3>2. AtEnd
      BY <2>6 DEF AtEnd
    <3>3. /\ todo' = Tail(todo) /\ input' = input /\ outcome' = outcome
          /\ AtEnd' /\ TriesBalanced(todo)' /\ Depth(cur)' = Depth(cur)
      BY <1>1, <2>6, <3>2, SkipsAtEnd
    <3>4. Finished'
      BY <3>1, <3>3 DEF Finished
    <3>5. QED BY <1>1, <3>3, <3>4, Arrives DEF Position
  <2>7. QED BY <1>2, <2>3, <2>4, <2>5, <2>6
<1>4. CASE NamespaceLeft
  <2>1. Now = Head(NamespaceItems) /\ AtEnd
    BY <1>1, <1>4, HeadsAtEnd DEF NamespaceLeft, NamespaceEnds
  <2>2. GoOn(Throw("scope_not_terminated"), cur)
    BY <1>2, <2>1, HeadsAtEnd DEF AtEnd
  <2>3. "scope_not_terminated" \in Errors
    BY DEF Errors, Outcomes
  <2>4. IsSeq(Throw("scope_not_terminated")) /\ NoTry(Throw("scope_not_terminated"))
    BY <2>3, Parts, Numbers, NetIsSeq DEF Closes, Net
  <2>5. QED BY <1>1, <2>1, <2>2, <2>4, NotEmpty, StaysLeft DEF NamespaceEnds
<1>5. CASE TopLeft
  <2>1. todo = ModItems /\ Now = Head(ModItems) /\ AtEnd
    <3>1. todo # <<LastItems>>
      BY <1>1, HeadsAtEnd DEF Now
    <3>2. QED BY <1>1, <1>5, <3>1 DEF TopLeft, Now
  <2>2. GoOn(<<>>, cur)
    BY <1>2, <2>1, HeadsAtEnd DEF AtEnd
  <2>3. /\ todo' = Tail(todo) /\ input' = input /\ outcome' = outcome /\ made' = made
        /\ AtEnd' /\ TriesBalanced(todo)' /\ Depth(cur)' = Depth(cur)
    BY <1>1, <2>1, <2>2, SkipsAtEnd
  <2>4. todo' = <<>>
    BY <2>1, <2>3, HeadsAtEnd
  <2>5. TopLeft'
    BY <1>5, <2>3, <2>4 DEF TopLeft, LastIsClass
  <2>6. QED BY <1>1, <2>3, <2>5, Arrives DEF Position
<1>6. ~Finished /\ ~ClassLeft
  BY <1>1 DEF Finished, ClassLeft
<1>7. QED BY <1>1, <1>3, <1>4, <1>5, <1>6 DEF BInv, Position

LEMMA RuleBalanced == ASSUME IInv, BInv, DoRule PROVE BInv'
<1>1. Underway /\ todo # <<>> /\ Now.do = "rule"
  BY DEF DoRule, Do, Underway
<1>2. PICK tok : GoOn(Body(Now.rule, tok, cur), cur)
  BY DEF DoRule
<1>3. CASE Balanced
  <2>1. PICK W, j, h : Explained(W, j, h)
    BY <1>1, <1>3, FirstDoes
  <2>2. j \in Int /\ h \in Kinds /\ After(j, h) /\ Does(W, Now, Depth(cur), j, h)
    BY <2>1 DEF Explained
  <2>3. /\ Now.rule \in FreshRules \cup LoopRules
        /\ h = KindOf(Now.rule) /\ j = Depth(cur) + NetOf(Now.rule)
    BY <1>1, <2>2 DEF Does, Single
  <2>4. Net(Body(Now.rule, tok, cur), NetOf(Now.rule), KindOf(Now.rule))
    BY <2>3, BodyNet
  <2>5. NoTry(Body(Now.rule, tok, cur)) /\ Goes(Body(Now.rule, tok, cur), Depth(cur), j, h)
    BY <2>3, <2>4, DepthGoes DEF Net
  <2>6. QED BY <1>1, <1>2, <2>2, <2>5, DepthGoes, GoOnIs, GoesOnBalanced
<1>4. CASE NamespaceLeft
  <2>1. Now = Head(Rule("namespace_items")) /\ AtEnd
    BY <1>1, <1>4, HeadsAtEnd DEF NamespaceLeft, NamespaceEnds
  <2>2. Now.rule = "namespace_items"
    BY <2>1, HeadsAtEnd
  <2>3. GoOn(NamespaceItems, cur)
    BY <1>2, <2>2 DEF Body
  <2>4. IsSeq(NamespaceItems) /\ NoTry(NamespaceItems)
    BY ClosesNamespaceItems, Numbers, NetIsSeq DEF Closes, Net
  <2>5. QED BY <1>1, <2>1, <2>3, <2>4, NotEmpty, StaysLeft DEF NamespaceEnds
<1>5. CASE TopLeft
  <2>1. todo = <<LastItems>> /\ Now = LastItems
    <3>1. todo # ModItems
      BY <1>1, HeadsAtEnd DEF Now
    <3>2. QED BY <1>1, <1>5, <3>1, HeadsAtEnd DEF TopLeft, Now
  <2>2. Now.rule = "mod_items"
    BY <2>1, HeadsAtEnd
  <2>3. GoOn(ModItems, cur)
    BY <1>2, <2>2 DEF Body
  <2>4. /\ todo' = ModItems \o Tail(todo) /\ cur' = cur /\ input' = input /\ outcome' = outcome
        /\ split' = split /\ made' = made
    BY <2>3, GoOnIs
  <2>5. Tail(todo) = <<>> /\ IsSeq(<<>>)
    BY <2>1 DEF IsSeq
  <2>6. todo' = ModItems
    BY <2>4, <2>5, HeadsAtEnd, JoinParts
  <2>7. NoTry(ModItems)
    BY ModItemsNet DEF Net
  <2>8. TriesBalanced(ModItems)
    BY <2>7 DEF NoTry, TriesBalanced
  <2>9. TriesBalanced(todo)'
    BY <2>4, <2>6, <2>8, SameDepth
  <2>10. AtEnd' /\ Depth(cur)' = Depth(cur)
    BY <1>5, <2>4, SameDepth DEF TopLeft, AtEnd, Text
  <2>11. TopLeft'
    BY <1>5, <2>4, <2>6, <2>10 DEF TopLeft, LastIsClass
  <2>12. QED BY <1>1, <2>4, <2>9, <2>11, Arrives DEF Position
<1>6. ~Finished /\ ~ClassLeft
  BY <1>1 DEF Finished, ClassLeft
<1>7. QED BY <1>1, <1>3, <1>4, <1>5, <1>6 DEF BInv, Position

\* Behind the items of the program there is nothing to do, and nothing open.
LEMMA LastIsAll ==
  ASSUME NEW t, IsSeq(t), t # <<>>, Head(t) = LastItems, NEW n \in Int, Goes(t, n, 0, "top")
  PROVE  t = <<LastItems>> /\ n = 0
<1>1. PICK W : Consistent(W) /\ <<t, n, 0, "top">> \in W
  BY DEF Goes
<1>2. Explains(W, t, n, 0, "top")
  BY <1>1 DEF Consistent
<1>3. PICK j \in Int, h \in Kinds :
        /\ Does(W, Head(t), n, j, h)
        /\ \/ Tail(t) = <<>> /\ j = 0 /\ Last(h, "top")
           \/ Follows(h, Tail(t)) /\ <<Tail(t), j, 0, "top">> \in W
  BY <1>2 DEF Explains, Steps
<1>4. h = KindOf("mod_items") /\ j = n + NetOf("mod_items")
  BY <1>3, HeadsAtEnd DEF Does, Single
<1>5. h = "top" /\ j = n
  BY <1>4 DEF KindOf, NetOf
<1>6. Tail(t) = <<>> /\ n = 0
  BY <1>3, <1>5 DEF Follows
<1>7. Len(t) = 1 /\ t[1] = LastItems
  <2>1. Len(Tail(t)) = Len(t) - 1 /\ Len(t) \in Nat /\ Head(t) = t[1]
    BY BehindFirst, TailIsRest, SeqFacts
  <2>2. QED BY <1>6, <2>1
<1>8. t = <<LastItems>>
  <2> DEFINE S == {t[i] : i \in DOMAIN t} \cup {LastItems}
  <2>1. t \in Seq(S) /\ <<LastItems>> \in Seq(S)
    BY DEF IsSeq
  <2> HIDE DEF S
  <2>2. Len(<<LastItems>>) = 1 /\ <<LastItems>>[1] = LastItems
    BY OneFacts
  <2>3. \A i \in 1 .. Len(t) : t[i] = <<LastItems>>[i]
    BY <1>7, <2>2
  <2>4. QED BY <1>7, <2>1, <2>2, <2>3, SeqEqual
<1>9. QED BY <1>6, <1>8

LEMMA AppendFacts ==
  ASSUME NEW s, IsSeq(s), NEW x
  PROVE  Append(s, x) # <<>> /\ Append(s, x)[Len(Append(s, x))] = x
<1> DEFINE S == {s[i] : i \in DOMAIN s} \cup {x}
<1>1. s \in Seq(S) /\ x \in S
  BY DEF IsSeq
<1> HIDE DEF S
<1>2. Append(s, x) \in Seq(S) /\ Len(Append(s, x)) = Len(s) + 1 /\ Append(s, x)[Len(s) + 1] = x
      /\ Len(s) \in Nat
  BY <1>1
<1>3. Append(s, x) # <<>>
  BY <1>2
<1>4. QED BY <1>2, <1>3

LEMMA MakeBalanced == ASSUME IInv, BInv, DoMake PROVE BInv'
<1>1. Underway /\ todo # <<>> /\ Now.do = "make"
  BY DEF DoMake, Do, Underway
<1>2. /\ todo' = <<>> \o Tail(todo) /\ cur' = cur /\ input' = input /\ outcome' = outcome
      /\ split' = split
  BY DEF DoMake, Go
<1>3. IsSeq(Tail(todo)) /\ TriesBalanced(Tail(todo)) /\ IsSeq(todo)
  BY <1>1, IsSeqParts, BehindFirst, TriesTail DEF BInv
<1>4. todo' = Tail(todo)
  BY <1>2, <1>3, JoinParts
<1>5. TriesBalanced(todo)' /\ Depth(cur)' = Depth(cur) /\ Depth(cur) \in Int
  BY <1>2, <1>3, <1>4, SameDepth, DepthGoes
<1>6. CASE Balanced
  <2>1. PICK W, j, h : Explained(W, j, h)
    BY <1>1, <1>6, FirstDoes
  <2>2. After(j, h) /\ Does(W, Now, Depth(cur), j, h)
    BY <2>1 DEF Explained
  <2>3. h # "top" /\ j = Depth(cur)
    BY <1>1, <2>2 DEF Does, Single
  <2>4. Goes(Tail(todo), Depth(cur), 0, "top")
    BY <2>2, <2>3, AfterPlain
  <2>5. Balanced'
    BY <1>4, <1>5, <2>4 DEF Balanced
  <2>6. QED BY <1>1, <1>2, <1>5, <2>5, Arrives DEF Position
<1>7. CASE ClassLeft
  <2>1. AtEnd /\ Goes(todo, Depth(cur) - 1, 0, "top") /\ Now.kind = "Class" /\ Depth(cur) - 1 \in Int
    BY <1>5, <1>7 DEF ClassLeft
  <2>2. PICK W : \E j \in Int, h \in Kinds :
                   Consistent(W) /\ Does(W, Now, Depth(cur) - 1, j, h) /\ After(j, h)
    BY <1>1, <2>1, GoesFirst
  <2>3. PICK j \in Int, h \in Kinds : Does(W, Now, Depth(cur) - 1, j, h) /\ After(j, h)
    BY <2>2
  <2>4. h = "class" /\ j = Depth(cur) - 1
    BY <1>1, <2>1, <2>3 DEF Does, Single
  <2>5. Follows("class", Tail(todo)) /\ Goes(Tail(todo), Depth(cur) - 1, 0, "top")
    BY <2>3, <2>4, AfterPlain
  <2>6. Tail(todo) # <<>> /\ Head(Tail(todo)) \in {LastItems, MoreItems}
    BY <2>5 DEF Follows
  <2>7. AtEnd'
    BY <1>2, <2>1 DEF AtEnd, Text
  <2>8. CASE Head(Tail(todo)) = MoreItems
    <3>1. NamespaceLeft'
      BY <1>4, <2>6, <2>7, <2>8 DEF NamespaceLeft, NamespaceEnds, Now
    <3>2. QED BY <1>1, <1>2, <1>5, <3>1, Arrives DEF Position
  <2>9. CASE Head(Tail(todo)) = LastItems
    <3>1. Tail(todo) = <<LastItems>> /\ Depth(cur) - 1 = 0
      BY <1>3, <2>1, <2>5, <2>6, <2>9, LastIsAll
    <3>2. Depth(cur) = 1
      BY <1>5, <3>1
    <3>3. LastIsClass'
      <4> DEFINE x == [kind |-> Now.kind, first |-> Now.first, last |-> cur - 1,
                       op |-> IF Now.op = 0 THEN cur - 1 ELSE Now.op]
      <4>1. made' = Append(made, x) /\ x.kind = "Class"
        BY <2>1 DEF DoMake
      <4> HIDE DEF x
      <4>2. IsSeq(made)
        BY IsSeqParts
      <4>3. made' # <<>> /\ made'[Len(made')] = x
        BY <4>1, <4>2, AppendFacts
      <4>4. QED BY <4>1, <4>3 DEF LastIsClass
    <3>4. TopLeft'
      BY <1>4, <1>5, <2>7, <3>1, <3>2, <3>3 DEF TopLeft
    <3>5. QED BY <1>1, <1>2, <1>5, <3>4, Arrives DEF Position
  <2>10. QED BY <2>6, <2>8, <2>9
<1>8. ~Finished /\ ~TopLeft /\ ~NamespaceLeft
  <2>1. ~Finished
    BY <1>1 DEF Finished
  <2>2. ~TopLeft
    BY <1>1, NotTopLeft
  <2>3. ~NamespaceLeft
    BY <1>1, HeadsAtEnd DEF NamespaceLeft, NamespaceEnds
  <2>4. QED BY <2>1, <2>2, <2>3
<1>9. QED BY <1>1, <1>6, <1>7, <1>8 DEF BInv, Position

LEMMA ThrowBalanced == ASSUME IInv, BInv, DoThrow PROVE BInv'
<1>1. Underway /\ todo # <<>> /\ Now.do = "throw" /\ Fail(Now.error)
  BY DEF DoThrow, Do, Underway
<1>2. Now.error \in Errors
  <2>1. CASE Balanced
    <3>1. PICK W, j, h : Explained(W, j, h)
      BY <1>1, <2>1, FirstDoes
    <3>2. Does(W, Now, Depth(cur), j, h)
      BY <3>1 DEF Explained
    <3>3. QED BY <1>1, <3>2 DEF Does, Single
  <2>2. CASE NamespaceLeft
    <3>1. Now.error = "scope_not_terminated"
      BY <1>1, <2>2, HeadsAtEnd DEF NamespaceLeft, NamespaceEnds
    <3>2. QED BY <3>1 DEF Errors, Outcomes
  <2>3. ~Finished /\ ~ClassLeft
    BY <1>1 DEF Finished, ClassLeft
  <2>4. ~TopLeft
    BY <1>1, NotTopLeft
  <2>5. QED BY <1>1, <2>1, <2>2, <2>3, <2>4 DEF BInv, Position
<1>3. QED BY <1>1, <1>2, FailBalanced

LEMMA ParsedBalanced == ASSUME IInv, BInv, Parsed PROVE BInv'
<1>1. Underway /\ todo = <<>> /\ outcome' = "parsed"
  BY DEF Parsed, Underway
<1>2. input' = input /\ split' = split /\ cur' = cur /\ todo' = todo /\ made' = made
  BY DEF Parsed
<1>3. ~Balanced
  <2>1. SUFFICES ASSUME NEW W, Explains(W, <<>>, Depth(cur), 0, "top") PROVE FALSE
    BY <1>1, DepthGoes DEF Balanced, Goes, Consistent
  <2>2. QED BY <2>1 DEF Explains
<1>4. ~ClassLeft /\ ~NamespaceLeft
  BY <1>1 DEF ClassLeft, NamespaceLeft
<1>5. Finished \/ TopLeft
  BY <1>1, <1>3, <1>4 DEF BInv, Position
<1>6. ParsedWell
  BY <1>5 DEF Finished, TopLeft, ParsedWell
<1>7. Depth(cur)' = Depth(cur) /\ AtEnd' = AtEnd /\ LastIsClass' = LastIsClass
  BY <1>2, SameDepth DEF AtEnd, Text, LastIsClass
<1>8. ParsedWell'
  BY <1>6, <1>7 DEF ParsedWell
<1>9. TriesBalanced(todo)' /\ OneEnd'
  BY <1>2, SameDepth DEF BInv
<1>10. ~Underway'
  BY <1>1 DEF Underway
<1>11. QED BY <1>8, <1>9, <1>10 DEF BInv

LEMMA NothingHappens == ASSUME BInv, UNCHANGED vars PROVE BInv'
<1>1. /\ input' = input /\ split' = split /\ cur' = cur /\ todo' = todo /\ made' = made
      /\ outcome' = outcome
  BY DEF vars
<1>2. /\ Depth(cur)' = Depth(cur) /\ (AtEnd' <=> AtEnd) /\ (LastIsClass' <=> LastIsClass)
      /\ Now' = Now /\ (Underway' <=> Underway)
  BY <1>1, SameDepth DEF AtEnd, Text, LastIsClass, Now, Underway
<1>3. TriesBalanced(todo)' /\ OneEnd'
  BY <1>1, SameDepth DEF BInv
<1>4. Position => Position'
  <2>1. Balanced => Balanced'
    BY <1>1, <1>2 DEF Balanced
  <2>2. Finished => Finished'
    BY <1>1, <1>2 DEF Finished
  <2>3. ClassLeft => ClassLeft'
    BY <1>1, <1>2 DEF ClassLeft
  <2>4. TopLeft => TopLeft'
    BY <1>1, <1>2 DEF TopLeft
  <2>5. NamespaceLeft => NamespaceLeft'
    BY <1>1, <1>2 DEF NamespaceLeft
  <2>6. QED BY <2>1, <2>2, <2>3, <2>4, <2>5 DEF Position
<1>5. ParsedWell => ParsedWell'
  BY <1>2 DEF ParsedWell
<1>6. QED BY <1>1, <1>2, <1>3, <1>4, <1>5 DEF BInv

LEMMA AtFirst == ASSUME Init PROVE BInv
<1>1. PICK s \in Inputs : input = Append(s, Eof)
  BY DEF Init
<1>2. s \in Seq(STRING \ {Eof})
  BY <1>1, TextsAssumption
<1>3. OneEnd
  <2>1. Len(s) \in Nat /\ DOMAIN s = 1 .. Len(s) /\ \A c \in 1 .. Len(s) : s[c] # Eof
    <3> DEFINE S == STRING \ {Eof}
    <3>1. \A x \in S : x # Eof
      OBVIOUS
    <3> HIDE DEF S
    <3>2. s \in Seq(S)
      BY <1>2 DEF S
    <3>3. Len(s) \in Nat /\ DOMAIN s = 1 .. Len(s) /\ \A c \in 1 .. Len(s) : s[c] \in S
      BY <3>2
    <3>4. QED BY <3>1, <3>3
  <2>2. /\ Len(input) = Len(s) + 1 /\ DOMAIN input = 1 .. Len(s) + 1
        /\ \A c \in 1 .. Len(s) : input[c] = s[c]
    BY <1>1, <1>2
  <2>3. ASSUME NEW c \in DOMAIN input, input[c] = Eof PROVE c = Len(input)
    <3>1. c \notin 1 .. Len(s)
      BY <2>1, <2>2, <2>3
    <3>2. QED BY <2>1, <2>2, <2>3, <3>1
  <2>4. QED BY <2>3 DEF OneEnd
<1>4. todo = Rule("mod_items") /\ cur = 1 /\ outcome # "parsed"
  BY DEF Init
<1>5. NoTry(todo) /\ Goes(todo, 0, 0 + 0, "top")
  BY <1>4, RuleNets, Numbers DEF Net
<1>6. Balanced
  <2>1. 0 + 0 = 0
    OBVIOUS
  <2>2. QED BY <1>4, <1>5, <2>1, DepthFirst DEF Balanced
<1>7. TriesBalanced(todo)
  BY <1>5 DEF NoTry, TriesBalanced
<1>8. QED BY <1>3, <1>4, <1>6, <1>7 DEF BInv, Position

LEMMA StaysBalanced == ASSUME IInv, BInv, [Next]_vars PROVE BInv'
  BY ExpectBalanced, TokenBalanced, EatBalanced, LookBalanced, ListBalanced, RuleBalanced,
     LevelBalanced, LiteralBalanced, FieldsBalanced, AttemptBalanced, TryBalanced, CloseBalanced,
     MakeBalanced, ThrowBalanced, ExitBalanced, ParsedBalanced, NothingHappens DEF Next

LEMMA WellAtTheEnd == ASSUME IInv, BInv PROVE OnlyLastClassUnclosed
<1>1. SUFFICES ASSUME outcome = "parsed"
               PROVE  Depth(Len(input)) = 0
                      \/ (Depth(Len(input)) = 1 /\ made[Len(made)].kind = "Class")
  BY DEF OnlyLastClassUnclosed
<1>2. ParsedWell /\ OneEnd
  BY <1>1 DEF BInv
<1>3. cur = Len(input)
  <2>1. cur \in DOMAIN input
    BY IsSeqParts
  <2>2. input[cur] = Eof
    BY <1>2 DEF ParsedWell, AtEnd, Text, Eof
  <2>3. QED BY <1>2, <2>1, <2>2 DEF OneEnd
<1>4. QED BY <1>2, <1>3 DEF ParsedWell, LastIsClass

\* For every program and every table of tokens: a program that is parsed closes
\* every bracket it opens, up to the last one of a class at its very end, outside
\* of any namespace.  (Of each rule it is known what it closes, Net; an attempt
\* that is given up goes back to a token from which that is so, TriesBalanced;
\* and only the loop over the members of a class takes the end for a bracket.)
THEOREM BracketsAreClosed == Spec => []OnlyLastClassUnclosed
<1>1. Init => IInv /\ BInv
  BY Initially, AtFirst, TextsAssumption
<1>2. IInv /\ BInv /\ [Next]_vars => IInv' /\ BInv'
  BY Preserved, StaysBalanced
<1>3. IInv /\ BInv => OnlyLastClassUnclosed
  BY WellAtTheEnd
<1>4. QED BY <1>1, <1>2, <1>3, PTL DEF Spec
=============================================================================
