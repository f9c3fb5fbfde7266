---------------------------- MODULE LoadingProofs ---------------------------
(***************************************************************************)
(* What the loader loads: proofs of the properties that speak of what the  *)
(* imports of a program mean, for every file tree, program, command line   *)
(* and depth limit.                                                        *)
(***************************************************************************)
EXTENDS LoadingInvariant, DriverProofs, ListProofs

(***************************************************************************)
(* Least closed sets.                                                      *)
(***************************************************************************)

\* The functions Least may be used with: they stay within the universe.
Within(U, S, N) == S \subseteq U /\ \A y \in U : N[y] \subseteq U

\* A least closed set is closed, and in every closed set.
LEMMA LeastClosed ==
  ASSUME NEW U, NEW S, NEW N, Within(U, S, N)
  PROVE  /\ S \subseteq Least(U, S, N) /\ Least(U, S, N) \subseteq U
         /\ \A y \in Least(U, S, N) : N[y] \subseteq Least(U, S, N)
<1>1. S \subseteq Least(U, S, N) /\ Least(U, S, N) \subseteq U
  BY DEF Least, Within
<1>2. ASSUME NEW y \in Least(U, S, N), NEW x \in N[y]
      PROVE  x \in Least(U, S, N)
  <2>1. x \in U
    BY <1>1, <1>2 DEF Within
  <2>2. ASSUME NEW C \in SUBSET U, S \subseteq C, \A z \in C : N[z] \subseteq C
        PROVE  x \in C
    <3>1. y \in C
      BY <2>2 DEF Least
    <3>2. QED BY <3>1, <2>2
  <2>3. QED BY <2>1, <2>2 DEF Least
<1>3. QED BY <1>1, <1>2

\* What holds of the start and passes along the function holds of the least
\* closed set.
LEMMA LeastInduction ==
  ASSUME NEW U, NEW S, NEW N, Within(U, S, N),
         NEW C, S \subseteq C, \A y \in Least(U, S, N) : y \in C => N[y] \subseteq C
  PROVE  Least(U, S, N) \subseteq C
<1> DEFINE L == Least(U, S, N)
           D == L \cap C
<1>1. S \subseteq L /\ L \subseteq U /\ \A y \in L : N[y] \subseteq L
  BY LeastClosed
<1>2. D \in SUBSET U /\ S \subseteq D /\ \A y \in D : N[y] \subseteq D
  BY <1>1
<1>3. L \subseteq D
  <2>1. ASSUME NEW x \in L PROVE x \in D
    <3> HIDE DEF D
    <3>1. QED BY <1>2, <2>1 DEF Least
  <2>2. QED BY <2>1
<1>4. QED BY <1>3

\* Two functions that agree on a least closed set have it in common.
LEMMA LeastSame ==
  ASSUME NEW U, NEW V, NEW S, NEW N, NEW M, Within(U, S, N), Within(V, S, M),
         Least(U, S, N) \subseteq V, \A y \in Least(U, S, N) : M[y] = N[y]
  PROVE  Least(V, S, M) = Least(U, S, N)
<1>1. /\ S \subseteq Least(U, S, N) /\ \A y \in Least(U, S, N) : N[y] \subseteq Least(U, S, N)
      /\ S \subseteq Least(V, S, M) /\ \A y \in Least(V, S, M) : M[y] \subseteq Least(V, S, M)
  BY LeastClosed
<1>2. Least(V, S, M) \subseteq Least(U, S, N)
  <2>1. \A y \in Least(V, S, M) :
          y \in Least(U, S, N) => M[y] \subseteq Least(U, S, N)
    BY <1>1
  <2>2. QED BY <1>1, <2>1, LeastInduction
<1>3. Least(U, S, N) \subseteq Least(V, S, M)
  <2>1. \A y \in Least(U, S, N) :
          y \in Least(V, S, M) => N[y] \subseteq Least(V, S, M)
    BY <1>1
  <2>2. QED BY <1>1, <2>1, LeastInduction
<1>4. QED BY <1>2, <1>3

\* A least closed set is its start and what each member of the start leads to.
LEMMA LeastUnfolds ==
  ASSUME NEW U, NEW S, NEW N, Within(U, S, N)
  PROVE  Least(U, S, N) = S \cup (UNION {Least(U, N[s], N) : s \in S})
<1> DEFINE L == Least(U, S, N)
           R == S \cup (UNION {Least(U, N[s], N) : s \in S})
<1>1. S \subseteq L /\ L \subseteq U /\ \A y \in L : N[y] \subseteq L
  BY LeastClosed
<1>2. ASSUME NEW s \in S
      PROVE  /\ N[s] \subseteq Least(U, N[s], N)
             /\ \A y \in Least(U, N[s], N) : N[y] \subseteq Least(U, N[s], N)
             /\ Least(U, N[s], N) \subseteq L
  <2>1. Within(U, N[s], N) /\ N[s] \subseteq L
    BY <1>1, <1>2 DEF Within
  <2>2. Least(U, N[s], N) \subseteq L
    <3> HIDE DEF L
    <3>1. \A y \in Least(U, N[s], N) : y \in L => N[y] \subseteq L
      BY <1>1
    <3>2. QED BY <2>1, <3>1, LeastInduction
  <2>3. QED BY <2>1, <2>2, LeastClosed
<1>3. R \subseteq L
  BY <1>1, <1>2
<1>4. L \subseteq R
  <2>1. ASSUME NEW y \in R PROVE N[y] \subseteq R
    <3>1. CASE y \in S
      BY <3>1, <1>2
    <3>2. CASE \E s \in S : y \in Least(U, N[s], N)
      BY <3>2, <1>2
    <3>3. QED BY <2>1, <3>1, <3>2
  <2>2. S \subseteq R
    OBVIOUS
  <2> HIDE DEF R
  <2>3. QED BY <2>1, <2>2, LeastInduction
<1>5. QED BY <1>3, <1>4
-----------------------------------------------------------------------------
(***************************************************************************)
(* Folders and directories.                                                *)
(***************************************************************************)

\* One step of the search.
StepUp == [e \in Folder |-> IF e = Cwd THEN {} ELSE {Up[e]}]

\* The folders above one that is not the last are its parent and those above.
LEMMA AboveUnfolds ==
  ASSUME NEW d \in Folder
  PROVE  /\ Above(d) \subseteq Folder
         /\ d = Cwd => Above(d) = {}
         /\ d # Cwd => Up[d] \in Folder /\ Above(d) = {Up[d]} \cup Above(Up[d])
<1>1. /\ \A e \in Folder : Above(e) = Least(Folder, StepUp[e], StepUp)
      /\ \A e \in Folder : Up[e] \in Folder
  BY TreeAssumption DEF Above, StepUp
<1>2. \A e \in Folder : Within(Folder, StepUp[e], StepUp)
  BY <1>1 DEF StepUp, Within
<1>3. Above(d) \subseteq Folder
  BY <1>1, <1>2, LeastClosed
<1>4. Above(d) = StepUp[d] \cup (UNION {Least(Folder, StepUp[s], StepUp) : s \in StepUp[d]})
  BY <1>1, <1>2, LeastUnfolds
<1>5. CASE d = Cwd
  <2>1. StepUp[d] = {}
    BY <1>5 DEF StepUp
  <2>2. QED BY <1>3, <1>4, <1>5, <2>1
<1>6. CASE d # Cwd
  <2>1. StepUp[d] = {Up[d]} /\ Up[d] \in Folder
    BY <1>1, <1>6 DEF StepUp
  <2>2. Above(Up[d]) = Least(Folder, StepUp[Up[d]], StepUp)
    BY <1>1, <2>1
  <2>3. QED BY <1>3, <1>4, <1>6, <2>1, <2>2
<1>7. QED BY <1>5, <1>6

\* What is above a folder above d is above d.
LEMMA AboveTransitive ==
  ASSUME NEW d \in Folder, NEW e \in Above(d)
  PROVE  Above(e) \subseteq Above(d)
<1>1. /\ \A f \in Folder : Above(f) = Least(Folder, StepUp[f], StepUp)
      /\ \A f \in Folder : Within(Folder, StepUp[f], StepUp)
  BY TreeAssumption DEF Above, StepUp, Within
<1>2. Above(d) \subseteq Folder /\ \A y \in Above(d) : StepUp[y] \subseteq Above(d)
  BY <1>1, LeastClosed
<1>3. QED BY <1>1, <1>2, LeastInduction

\* The first hit of a search is the one all others lie above.
LEMMA NearestIs ==
  ASSUME NEW d \in Folder, NEW n, NEW u \in Hits(d, n), Hits(d, n) \subseteq {u} \cup Above(u)
  PROVE  Nearest(d, n) = u
<1>1. \A e \in Hits(d, n) : e \in Folder
  BY AboveUnfolds DEF Hits
<1>2. PICK e \in Hits(d, n) : e = Nearest(d, n) /\ Hits(d, n) \subseteq {e} \cup Above(e)
  BY DEF Nearest
<1>3. SUFFICES ASSUME e # u PROVE FALSE
  BY <1>2
<1>4. e \in Above(u) /\ u \in Above(e) /\ u \in Folder
  BY <1>1, <1>2, <1>3
<1>5. u \in Above(u)
  BY <1>4, AboveTransitive
<1>6. Up[u] = u /\ u # Cwd
  BY <1>4, <1>5, FoldersAssumption, AboveUnfolds
<1>7. Above(u) \subseteq {u}
  <2>1. StepUp[u] = {u}
    BY <1>4, <1>6 DEF StepUp
  <2>2. Above(u) = Least(Folder, StepUp[u], StepUp) /\ Within(Folder, StepUp[u], StepUp)
    BY <1>4, TreeAssumption DEF Above, StepUp, Within
  <2>3. \A y \in Above(u) : y \in {u} => StepUp[y] \subseteq {u}
    BY <2>1
  <2>4. QED BY <2>1, <2>2, <2>3, LeastInduction
<1>8. QED BY <1>3, <1>4, <1>7

\* The entries of what lies in a directory.
Entry  == Path \cup Folder
Inside == [e \in Entry |-> IF e \in Folder THEN Entries[e] ELSE {}]

\* What lies below a directory: its entries, and what lies below those.
LEMMA BelowFacts ==
  ASSUME NEW d \in Folder
  PROVE  /\ Entries[d] \subseteq Below(d) /\ Below(d) \subseteq Path \cup Folder
         /\ \A e \in Below(d) : e \in Folder => Entries[e] \subseteq Below(d)
         /\ FilesBelow(d) = UNION {LeadsTo(e) : e \in Entries[d]}
<1>1. /\ \A e \in Folder : Entries[e] \subseteq Path \cup Folder
      /\ \A e \in Path : e \notin Folder
  BY TreeAssumption
<1>2. /\ \A e \in Folder : Inside[e] = Entries[e]
      /\ \A e \in Path : Inside[e] = {}
  BY <1>1 DEF Inside, Entry
<1>3. \A e \in Entry : Within(Entry, Inside[e], Inside)
  BY <1>1, <1>2 DEF Within, Entry
<1>4. \A e \in Folder : Below(e) = Least(Entry, Inside[e], Inside)
  BY <1>2 DEF Below, Inside, Entry
<1>d. /\ Within(Entry, Inside[d], Inside) /\ Inside[d] = Entries[d]
      /\ Below(d) = Least(Entry, Inside[d], Inside)
  BY <1>2, <1>3, <1>4 DEF Entry
<1>5. /\ Entries[d] \subseteq Below(d) /\ Below(d) \subseteq Path \cup Folder
      /\ \A e \in Below(d) : Inside[e] \subseteq Below(d)
  <2>1. LET B == Least(Entry, Inside[d], Inside) IN
        /\ Inside[d] \subseteq B /\ B \subseteq Path \cup Folder
        /\ \A e \in B : Inside[e] \subseteq B
    BY <1>d, LeastClosed DEF Entry
  <2>2. QED BY <2>1, <1>d DEF Entry
<1>6. Below(d) = Inside[d] \cup
                 (UNION {Least(Entry, Inside[e], Inside) : e \in Inside[d]})
  <2>1. Least(Entry, Inside[d], Inside)
          = Inside[d] \cup
              (UNION {Least(Entry, Inside[e], Inside) : e \in Inside[d]})
    BY <1>d, LeastUnfolds
  <2>2. QED BY <2>1, <1>d
<1>7. ASSUME NEW e \in Path
      PROVE  Least(Entry, Inside[e], Inside) = {}
  <2>1. Within(Entry, {}, Inside) /\ Inside[e] = {}
    BY <1>2, <1>3 DEF Entry, Within
  <2>2. Least(Entry, {}, Inside) \subseteq {}
    BY <2>1, LeastInduction
  <2>3. QED BY <2>1, <2>2
<1>8. ASSUME NEW p PROVE p \in FilesBelow(d) <=> \E e \in Entries[d] : p \in LeadsTo(e)
  <2>1. ASSUME p \in FilesBelow(d) PROVE \E e \in Entries[d] : p \in LeadsTo(e)
    <3>1. p \in Below(d) /\ p \in Path
      BY <2>1 DEF FilesBelow
    <3>2. CASE p \in Entries[d]
      BY <3>1, <3>2, <1>1 DEF LeadsTo
    <3>3. CASE \E e \in Entries[d] : p \in Least(Entry, Inside[e], Inside)
      <4>1. PICK e \in Entries[d] : p \in Least(Entry, Inside[e], Inside)
        BY <3>3
      <4>2. e \in Folder
        <5>1. e \in Path \cup Folder /\ e \notin Path
          BY <4>1, <1>1, <1>7
        <5>2. QED BY <5>1
      <4>3. p \in LeadsTo(e)
        BY <3>1, <4>1, <4>2, <1>4 DEF LeadsTo, FilesBelow
      <4>4. QED BY <4>3
    <3>4. QED BY <3>1, <3>2, <3>3, <1>2, <1>6
  <2>2. ASSUME NEW e \in Entries[d], p \in LeadsTo(e) PROVE p \in FilesBelow(d)
    <3>1. CASE e \in Folder
      <4>1. p \in Below(e) /\ p \in Path
        BY <2>2, <3>1 DEF LeadsTo, FilesBelow
      <4>2. p \in Least(Entry, Inside[e], Inside) /\ e \in Inside[d]
        BY <4>1, <3>1, <1>2, <1>4
      <4>3. QED BY <4>1, <4>2, <1>6 DEF FilesBelow
    <3>2. CASE e \notin Folder
      BY <2>2, <3>2, <1>1, <1>5 DEF LeadsTo, FilesBelow
    <3>3. QED BY <3>1, <3>2
  <2>3. QED BY <2>1, <2>2
<1>9. FilesBelow(d) = UNION {LeadsTo(e) : e \in Entries[d]}
  BY <1>8
<1>10. QED BY <1>2, <1>5, <1>9

\* What an import of n from folder d brings in, by what is found there.
LEMMA TargetFacts ==
  ASSUME NEW d \in Folder, NEW n \in Name
  PROVE  /\ Targets(d, n) \subseteq Path
         /\ DirAt[d][n] # NIL =>
              Directories(d, n) = {DirAt[d][n]} /\ Targets(d, n) = FilesBelow(DirAt[d][n])
         /\ DirAt[d][n] = NIL /\ PlainAt[d][n] => Targets(d, n) = {}
         /\ DirAt[d][n] = NIL /\ ~PlainAt[d][n] /\ FireAt[d][n] # NIL =>
              Targets(d, n) = {FireAt[d][n]}
         /\ Absent(d, n) /\ Hits(d, n) = {} =>
              Targets(d, n) = {} /\ Directories(d, n) = {} /\ FoundAbove(d, n) = {}
         /\ \A u \in Hits(d, n) : Absent(d, n) /\ u = Nearest(d, n) =>
              /\ FireAt[u][n] # NIL => Targets(d, n) = {}
              /\ FireAt[u][n] = NIL =>
                   /\ Directories(d, n) = {DirAt[u][n]}
                   /\ Targets(d, n) = FilesBelow(DirAt[u][n])
<1>1. Targets(d, n) \subseteq Path
  <2>1. FireAt[d][n] \in Path \cup {NIL}
    BY TreeAssumption
  <2>2. QED BY <2>1 DEF Targets, Beside, FilesBelow
<1>2. QED BY <1>1 DEF Targets, Beside, Directories, Absent, FoundAbove
-----------------------------------------------------------------------------
(***************************************************************************)
(* Depth: a function defined along the importers.                          *)
(***************************************************************************)

\* The equation that defines the depth, for a function on the objects.
DepthEquation(d) ==
  \A q \in Obj : d[q] = IF sources[q].parent = 0 THEN 0 ELSE d[sources[q].parent] + 1

\* Importers are older, and types of objects.
LEMMA ParentFacts ==
  ASSUME IInv, NEW o \in Obj
  PROVE  /\ o \in Nat /\ sources[o].parent \in Nat /\ sources[o].parent < o
         /\ sources[o].parent # 0 => sources[o].parent \in Obj
<1>1. /\ Len(sources) \in Nat /\ o \in Nat /\ o <= Len(sources)
      /\ sources[o].parent \in Nat /\ sources[o].parent < o
  BY ObjFacts DEF IInv, TypeOK, Forest, Obj
<1>2. QED BY <1>1 DEF Obj

\* There is such a function: it is built object by object.
LEMMA DepthExists ==
  ASSUME IInv
  PROVE  \E d \in [Obj -> Nat] : DepthEquation(d)
<1>0. PICK n \in Nat : n = Len(sources) /\ Obj = 1 .. n
  BY DEF IInv, TypeOK, Obj
<1> DEFINE S == [Obj -> Nat]
           up(q) == sources[q].parent
           value(F, q) == IF up(q) = 0 THEN 0 ELSE F[up(q)] + 1
           first == [q \in Obj |-> 0]
           step == [i \in Nat |-> [F \in S |->
                      [q \in Obj |-> IF q = i THEN value(F, q) ELSE F[q]]]]
<1>1. \A q \in Obj : q \in Nat /\ up(q) \in Nat /\ up(q) < q /\ (up(q) # 0 => up(q) \in Obj)
  BY ParentFacts
<1>2. first \in S
  OBVIOUS
<1>3. ASSUME NEW F \in S, NEW q \in Obj PROVE value(F, q) \in Nat
  BY <1>1
<1>4. step \in [Nat -> [S -> S]]
  BY <1>3
<1>5. \A i \in Nat : \A F \in S : \A q \in Obj :
        step[i][F][q] = IF q = i THEN value(F, q) ELSE F[q]
  OBVIOUS
<1>6. PICK f \in [0 .. n -> S] : Recurs(f, first, step, n)
  <2> HIDE DEF first, step, S
  <2>1. QED BY <1>2, <1>4, Recursion
<1>7. \A i \in 1 .. n : f[i] = step[i][f[i - 1]] /\ f[i] \in S /\ f[i - 1] \in S
  <2>1. f[0] = first /\ \A i \in 1 .. n : f[i] = step[i][f[i - 1]]
    BY <1>6 DEF Recurs
  <2>2. \A i \in 1 .. n : i \in 0 .. n /\ i - 1 \in 0 .. n
    OBVIOUS
  <2> HIDE DEF S, step, first
  <2>3. QED BY <2>1, <2>2, <1>6
<1> DEFINE Good(i) == i <= n => \A q \in Obj : q <= i => f[i][q] = value(f[i], q)
           T == {i \in Nat : Good(i)}
<1>8. 0 \in T
  BY <1>1, <1>0
<1>9. ASSUME NEW m \in Nat, m \in T PROVE m + 1 \in T
  <2>1. SUFFICES ASSUME m + 1 <= n PROVE \A q \in Obj : q <= m + 1 => f[m + 1][q] = value(f[m + 1], q)
    OBVIOUS
  <2>2. /\ m + 1 \in 1 .. n /\ (m + 1) - 1 = m /\ m <= n
    BY <2>1
  <2>3. f[m] \in S /\ f[m + 1] \in S /\ f[m + 1] = step[m + 1][f[m]]
    BY <1>7, <2>2
  <2>4. \A q \in Obj : q <= m => f[m][q] = value(f[m], q)
    BY <1>9, <2>2
  <2> HIDE DEF T, Good, step, first, S
  <2>5. \A q \in Obj : f[m + 1][q] = IF q = m + 1 THEN value(f[m], q) ELSE f[m][q]
    <3>1. m + 1 \in Nat
      OBVIOUS
    <3>2. QED BY <3>1, <2>3, <1>5
  <2>6. ASSUME NEW q \in Obj, q <= m + 1
        PROVE  f[m + 1][q] = value(f[m + 1], q)
    <3>1. q \in Nat /\ up(q) \in Nat /\ up(q) < q /\ (up(q) # 0 => up(q) \in Obj)
      BY <1>1
    <3>2. up(q) # 0 => f[m + 1][up(q)] = f[m][up(q)]
      <4>1. up(q) # m + 1
        BY <3>1, <2>6
      <4>2. QED BY <4>1, <3>1, <2>5
    <3>3. value(f[m + 1], q) = value(f[m], q)
      BY <3>2
    <3>4. f[m + 1][q] = value(f[m], q)
      <4>1. q # m + 1 => q <= m
        BY <3>1, <2>6
      <4>2. QED BY <4>1, <2>4, <2>5
    <3>5. QED BY <3>3, <3>4
  <2>7. QED BY <2>6
<1>10. n \in T
  <2> HIDE DEF T
  <2>1. Nat \subseteq T
    BY <1>8, <1>9, Induction
  <2>2. QED BY <2>1
<1>11. n \in 0 .. n /\ f[n] \in S
  BY <1>6
<1>12. \A q \in Obj : f[n][q] = value(f[n], q)
  BY <1>0, <1>1, <1>10
<1>13. DepthEquation(f[n])
  BY <1>12 DEF DepthEquation
<1>14. QED BY <1>11, <1>13

\* Two such functions give an object the same depth, even when others differ.
LEMMA DepthUnique ==
  ASSUME IInv, NEW d \in [Obj -> Nat], DepthEquation(d), NEW e,
         \A q \in Obj : e[q] = IF sources[q].parent = 0 THEN 0 ELSE e[sources[q].parent] + 1
  PROVE  \A q \in Obj : e[q] = d[q]
<1> DEFINE Bad == {q \in Obj : e[q] # d[q]}
<1>1. SUFFICES ASSUME Bad # {} PROVE FALSE
  OBVIOUS
<1>2. Bad \subseteq Nat
  BY DEF Obj
<1>3. PICK m \in Bad : \A q \in Bad : m <= q
  <2> HIDE DEF Bad
  <2>1. QED BY <1>1, <1>2, LeastNumber
<1>4. m \in Obj /\ e[m] # d[m]
  OBVIOUS
<1>5. CASE sources[m].parent = 0
  BY <1>4, <1>5 DEF DepthEquation
<1>6. CASE sources[m].parent # 0
  <2>1. sources[m].parent \in Obj /\ ~(m <= sources[m].parent)
    BY <1>4, <1>6, ParentFacts
  <2>2. e[sources[m].parent] = d[sources[m].parent]
    BY <1>3, <2>1
  <2>3. QED BY <1>4, <1>6, <2>2 DEF DepthEquation
<1>7. QED BY <1>5, <1>6

\* Inputs have depth 0, and a source is one deeper than its importer.
DepthFollows ==
  \A o \in Obj : /\ Depth(o) \in Nat
                 /\ sources[o].parent = 0 => Depth(o) = 0
                 /\ \A q \in Obj : sources[o].parent = q => Depth(o) = Depth(q) + 1

LEMMA DepthFacts == IInv => DepthFollows
<1> SUFFICES ASSUME IInv PROVE DepthFollows
  OBVIOUS
<1> DEFINE Solves(d) == d = [q \in Obj |-> IF sources[q].parent = 0 THEN 0
                                           ELSE d[sources[q].parent] + 1]
           D == CHOOSE d : Solves(d)
<1>1. \A o : Depth(o) = D[o]
  BY DEF Depth
<1>2. PICK d \in [Obj -> Nat] : DepthEquation(d)
  BY DepthExists
<1>3. Solves(d)
  <2>1. \A q \in Obj : d[q] = IF sources[q].parent = 0 THEN 0 ELSE d[sources[q].parent] + 1
    BY <1>2 DEF DepthEquation
  <2>2. d = [q \in Obj |-> d[q]]
    BY <1>2
  <2>3. QED BY <2>1, <2>2
<1>4. Solves(D)
  <2> HIDE DEF Solves
  <2>1. QED BY <1>3
<1>5. \A q \in Obj : D[q] = IF sources[q].parent = 0 THEN 0 ELSE D[sources[q].parent] + 1
  BY <1>4
<1> HIDE DEF D
<1>6. \A q \in Obj : D[q] = d[q]
  BY <1>2, <1>5, DepthUnique
<1>7. \A q \in Obj : q # 0
  BY DEF Obj
<1>8. QED BY <1>1, <1>2, <1>5, <1>6, <1>7 DEF DepthFollows
-----------------------------------------------------------------------------
(***************************************************************************)
(* What was created on behalf of an object.                                *)
(***************************************************************************)

Children == [x \in Obj |-> {q \in Obj : sources[q].parent = x}]

\* An object's tree is the object and the trees of its imports.
LEMMA TreeFacts ==
  ASSUME NEW r \in Obj
  PROVE  /\ Tree(r) = Least(Obj, {r}, Children) /\ Within(Obj, {r}, Children)
         /\ r \in Tree(r) /\ Tree(r) \subseteq Obj
         /\ \A x \in Tree(r) : \A q \in Obj : sources[q].parent = x => q \in Tree(r)
         /\ Tree(r) = {r} \cup (UNION {Tree(q) : q \in {c \in Obj : sources[c].parent = r}})
<1>1. \A q \in Obj : /\ Tree(q) = Least(Obj, {q}, Children) /\ Within(Obj, {q}, Children)
                     /\ Within(Obj, Children[q], Children)
                     /\ Children[q] = {c \in Obj : sources[c].parent = q}
  BY DEF Tree, Children, Within
<1>r. Within(Obj, {r}, Children) /\ Tree(r) = Least(Obj, {r}, Children)
      /\ Within(Obj, Children[r], Children)
  BY <1>1
<1>2. /\ r \in Tree(r) /\ Tree(r) \subseteq Obj
      /\ \A x \in Tree(r) : Children[x] \subseteq Tree(r)
  <2>1. LET T == Least(Obj, {r}, Children) IN
        {r} \subseteq T /\ T \subseteq Obj /\ \A x \in T : Children[x] \subseteq T
    BY <1>r, LeastClosed
  <2>2. QED BY <2>1, <1>r
<1>3. \A x \in Tree(r) : \A q \in Obj : sources[q].parent = x => q \in Tree(r)
  BY <1>1, <1>2
<1>4. ASSUME NEW q \in Obj PROVE Tree(q) = {q} \cup Least(Obj, Children[q], Children)
  <2>1. Within(Obj, {q}, Children) /\ Tree(q) = Least(Obj, {q}, Children)
    BY <1>1
  <2>2. Least(Obj, {q}, Children)
          = {q} \cup (UNION {Least(Obj, Children[s], Children) : s \in {q}})
    BY <2>1, LeastUnfolds
  <2>3. QED BY <2>1, <2>2
<1>5. Least(Obj, Children[r], Children)
        = Children[r] \cup (UNION {Least(Obj, Children[s], Children) : s \in Children[r]})
  BY <1>r, LeastUnfolds
<1>6. Least(Obj, Children[r], Children) = UNION {Tree(q) : q \in Children[r]}
  <2>1. \A q \in Children[r] : Tree(q) = {q} \cup Least(Obj, Children[q], Children)
    BY <1>1, <1>4
  <2>2. QED BY <1>5, <2>1
<1>7. Tree(r) = {r} \cup (UNION {Tree(q) : q \in {c \in Obj : sources[c].parent = r}})
  BY <1>1, <1>4, <1>6
<1>8. QED BY <1>1, <1>2, <1>3, <1>7

\* What passes from importers to imports holds of a tree if it holds of the root.
LEMMA TreeInduction ==
  ASSUME NEW r \in Obj, NEW C, r \in C,
         \A q \in Obj : sources[q].parent \in C => q \in C
  PROVE  Tree(r) \subseteq C
<1>1. Tree(r) \subseteq Obj /\ Within(Obj, {r}, Children)
      /\ Tree(r) = Least(Obj, {r}, Children)
  BY TreeFacts
<1>2. {r} \subseteq C
      /\ \A x \in Least(Obj, {r}, Children) : x \in C => Children[x] \subseteq C
  BY <1>1 DEF Children
<1>3. Least(Obj, {r}, Children) \subseteq C
  BY <1>1, <1>2, LeastInduction
<1>4. QED BY <1>1, <1>3

\* A tree changes only when one of its objects imports.
LEMMA TreeStays ==
  ASSUME Obj \subseteq Obj', \A q \in Obj : sources'[q].parent = sources[q].parent,
         NEW r \in Obj, \A q \in Obj' \ Obj : sources'[q].parent \notin Tree(r)
  PROVE  Tree(r)' = Tree(r)
<1>1. /\ Tree(r) = Least(Obj, {r}, Children) /\ Within(Obj, {r}, Children)
      /\ Tree(r) \subseteq Obj
  BY TreeFacts
<1>2. Tree(r)' = Least(Obj', {r}, Children') /\ Within(Obj', {r}, Children')
  BY DEF Tree, Children, Within
<1>3. ASSUME NEW y \in Tree(r) PROVE Children'[y] = Children[y]
  BY <1>1 DEF Children
<1>4. Least(Obj', {r}, Children') = Least(Obj, {r}, Children)
  BY <1>1, <1>2, <1>3, LeastSame
<1>5. QED BY <1>1, <1>2, <1>4
-----------------------------------------------------------------------------
(***************************************************************************)
(* What a step does to the objects and to the call stack.                  *)
(***************************************************************************)

\* A file of a directory that an import statement of the innermost parse names.
InNamedDirectory(p) ==
  \E i \in 1 .. Len(Stmts) :
    Stmts[i] \in Name /\ \E d \in Directories(Here, Stmts[i]) : p \in FilesBelow(d)

\* An object made by the step: an input, or a file that the innermost parse
\* imports, which is given up if that is too deep.
Created(n) ==
  /\ sources'[n].parsedMod = NIL
  /\ sources'[n].parent \in Nat
  /\ sources'[n].parent # 0 =>
       /\ stack # <<>> /\ sources'[n].parent = Top.src
       /\ sources'[n].path \in ImportedBy[Me.path]
       /\ \/ thrown' # NIL
          \/ Depth(Top.src) + 1 < DepthLimit
          \/ InNamedDirectory(sources'[n].path)

\* The objects stay what they are; others may join them.
Grown ==
  /\ program' = program
  /\ Obj \subseteq Obj'
  /\ \A o \in Obj : sources'[o].path = sources[o].path /\ sources'[o].parent = sources[o].parent
  /\ \A p \in Path : Known(p) => Known(p)'
  /\ \A n \in Obj' \ Obj : Created(n)

\* Nothing that is there is parsed or loses an import.
Untouched ==
  \A o \in Obj : /\ sources'[o].parsedMod = sources[o].parsedMod
                 /\ \A i \in 1 .. Len(ImportsOf(o)) : sources'[o].imports[i] = ImportsOf(o)[i]

\* What the import statement at hand names is registered.
Fulfilled == Named \in Name => \A t \in Targets(Here, Named) : Known(t)'

\* The same parses are under way, the innermost one perhaps a statement on.
Continues ==
  /\ thrown = NIL
  /\ Untouched
  /\ Len(stack') = Len(stack)
  /\ \A k \in 1 .. Len(stack) :
        /\ stack'[k].src = stack[k].src
        /\ stack'[k].next = stack[k].next
        /\ stack'[k].items = stack[k].items
        /\ \/ stack'[k].stmt = stack[k].stmt
           \/ k = Len(stack) /\ stack'[k].stmt = stack[k].stmt + 1 /\ Fulfilled

\* The parse of an object begins.
Starts(o) ==
  /\ thrown = NIL
  /\ UNCHANGED sources
  /\ o \in Obj /\ Fresh(o)
  /\ sources[o].parent = 0 \/ (stack # <<>> /\ sources[o].parent = Top.src)
  /\ stack' = Append(stack, NewFrame(o))

\* Every parse under way is given up.
Abandons == stack' = <<>> /\ UNCHANGED sources

\* The innermost parse is over.
Completes == /\ thrown = NIL
             /\ stack # <<>> /\ Top.stmt = Len(Stmts) /\ Top.next = Len(Me.imports)
             /\ Returns

\* Nothing happens to the parses.
Stays == UNCHANGED <<sources, stack, thrown>>

Moves == Continues \/ (\E o \in Obj : Starts(o)) \/ Abandons \/ Completes \/ Stays

\* Steps that leave the objects alone.
LEMMA NoObjects ==
  ASSUME UNCHANGED <<program, sources, allSources>>
  PROVE  Grown /\ Untouched
BY DEF Grown, Untouched, Obj, Known, ImportsOf

\* Steps that leave the stack alone as well.
LEMMA Quiet ==
  ASSUME UNCHANGED <<program, sources, allSources, stack>>, thrown = NIL
  PROVE  Grown /\ Continues
BY NoObjects DEF Continues

\* The statement at hand is over.
LEMMA StatementEnds ==
  ASSUME IInv, stack # <<>>, NextStatement, Fulfilled, Untouched, thrown = NIL
  PROVE  Continues
<1>1. /\ stack \in Seq(Frame) /\ Len(stack) \in 1 .. Len(stack) /\ Top = stack[Len(stack)]
      /\ \A k \in 1 .. Len(stack) : stack[k] \in Frame
  BY TopFacts DEF IInv, TypeOK, Top
<1>2. stack' = [stack EXCEPT ![Len(stack)] = [Top EXCEPT !.stmt = @ + 1]]
  BY <1>1 DEF NextStatement
<1>3. [Top EXCEPT !.stmt = @ + 1] \in Frame
  <2>1. PICK f \in Frame : f = Top
    BY <1>1
  <2>2. [f EXCEPT !.stmt = @ + 1] \in Frame
    BY DEF Frame
  <2>3. QED BY <2>1, <2>2
<1>4. /\ Len(stack') = Len(stack)
      /\ stack'[Len(stack)] = [Top EXCEPT !.stmt = @ + 1]
      /\ \A k \in 1 .. Len(stack) : k # Len(stack) => stack'[k] = stack[k]
  BY <1>1, <1>2, <1>3, ReplacedFacts
<1>5. LET f == [Top EXCEPT !.stmt = @ + 1] IN
      f.src = Top.src /\ f.next = Top.next /\ f.items = Top.items /\ f.stmt = Top.stmt + 1
  BY <1>1 DEF Frame
<1>6. QED BY <1>1, <1>4, <1>5 DEF Continues

\* The statement at hand belongs to the imports of the innermost file.
LEMMA NamedFacts ==
  ASSUME IInv, stack # <<>>, Top.stmt < Len(Stmts)
  PROVE  /\ Top.stmt + 1 \in 1 .. Len(Stmts) /\ Named = Stmts[Top.stmt + 1]
         /\ Here \in Folder /\ Me.path \in Path
         /\ Named \in Name => Targets(Here, Named) \subseteq ImportedBy[Me.path]
<1>1. /\ Top \in Frame /\ Stmts \in Seq(Statement) /\ Here \in Folder /\ Me.path \in Path
      /\ Here = FolderOf[Me.path] /\ Stmts = program[Me.path].imports
  BY TopFacts DEF Here, Stmts
<1>2. Top.stmt + 1 \in 1 .. Len(Stmts) /\ Named = Stmts[Top.stmt + 1]
  BY <1>1 DEF Named, Frame
<1>3. ASSUME Named \in Name PROVE Targets(Here, Named) \subseteq ImportedBy[Me.path]
  <2>1. TargetsOf[Me.path][Named] = Targets(Here, Named)
    BY <1>1, <1>3 DEF TargetsOf
  <2>2. ImportedBy[Me.path] =
          UNION {TargetsOf[Me.path][Stmts[i]] : i \in {j \in 1 .. Len(Stmts) : Stmts[j] \in Name}}
    BY <1>1 DEF ImportedBy
  <2>3. QED BY <1>2, <1>3, <2>1, <2>2
<1>4. QED BY <1>1, <1>2, <1>3

\* Importing a file that the statement at hand names.
LEMMA ImportGrows ==
  ASSUME IInv, stack # <<>>, Top.stmt < Len(Stmts), Named \in Name,
         NEW p \in Targets(Here, Named), Import(p), program' = program,
         Opening(p) => \/ thrown' # NIL
                       \/ Depth(Top.src) + 1 < DepthLimit
                       \/ \E d \in Directories(Here, Named) : p \in FilesBelow(d)
  PROVE  /\ Grown /\ Untouched
         /\ ~Unopened(p) => Known(p)'
         /\ \A q \in Path : Known(q) => Known(q)'
<1>1. p \in Path /\ p \in ImportedBy[Me.path]
  BY NamedFacts, TargetFacts
<1>2. allSources \in [Path -> Nat] /\ sources \in Seq(SourceFile) /\ Top.src \in Obj
  BY TopFacts DEF IInv, TypeOK
<1>3. CASE ~Opening(p)
  <2>1. UNCHANGED <<sources, allSources>>
    BY <1>3 DEF Import
  <2>2. ~Unopened(p) => Known(p)
    BY <1>3 DEF Opening, Unopened
  <2>3. QED BY <2>1, <2>2, NoObjects DEF Known
<1>4. CASE Opening(p)
  <2>1. /\ sources' \in Seq(SourceFile) /\ Len(sources') = Len(sources) + 1
        /\ allSources' = [allSources EXCEPT ![p] = Len(sources) + 1]
        /\ \A o \in Obj :
              /\ sources'[o].path = sources[o].path
              /\ sources'[o].parent = sources[o].parent
              /\ sources'[o].parsedMod = sources[o].parsedMod
              /\ o # Top.src => sources'[o].imports = sources[o].imports
        /\ sources'[Top.src].imports = Append(sources[Top.src].imports, Len(sources) + 1)
        /\ sources'[Len(sources) + 1] = NewSource(p, Top.src)
    BY <1>1, <1>4, ImportEffect
  <2>2. PICK n \in Nat : n = Len(sources) + 1 /\ Len(sources) \in Nat
    BY <1>2
  <2>3. Obj' = Obj \cup {n} /\ n \notin Obj
    BY <2>1, <2>2 DEF Obj
  <2>4. \A q \in Path : Known(q)' <=> Known(q) \/ q = p
    BY <2>1, <2>2, <1>2 DEF Known
  <2>5. Created(n)
    <3>1. /\ sources'[n].parsedMod = NIL /\ sources'[n].parent = Top.src
          /\ sources'[n].path = p
      BY <2>1, <2>2 DEF NewSource
    <3>2. Top.src \in Nat
      BY <1>2 DEF Obj
    <3>3. \/ thrown' # NIL \/ Depth(Top.src) + 1 < DepthLimit
          \/ InNamedDirectory(p)
      BY <1>4, NamedFacts DEF InNamedDirectory
    <3>4. QED BY <3>1, <3>2, <3>3, <1>1 DEF Created
  <2>6. Grown
    BY <2>1, <2>3, <2>4, <2>5 DEF Grown
  <2>7. Untouched
    <3>1. ASSUME NEW o \in Obj, NEW i \in 1 .. Len(ImportsOf(o))
          PROVE  sources'[o].imports[i] = ImportsOf(o)[i]
      <4>1. ImportsOf(o) \in Seq(Nat)
        BY ImportFacts
      <4>2. CASE o = Top.src
        BY <4>1, <4>2, <2>1, <2>2, AppendFacts DEF ImportsOf
      <4>3. CASE o # Top.src
        BY <4>3, <2>1 DEF ImportsOf
      <4>4. QED BY <4>2, <4>3
    <3>2. QED BY <3>1, <2>1 DEF Untouched
  <2>8. QED BY <2>4, <2>6, <2>7, <1>1
<1>5. QED BY <1>3, <1>4
-----------------------------------------------------------------------------
(***************************************************************************)
(* The steps, one by one.                                                  *)
(***************************************************************************)

\* What is shown of every step.
Loads == Grown /\ Moves /\ Search' /\ DirectoryRead'

\* No import statement is half done afterwards.
LEMMA NothingHalfDone ==
  ASSUME climb' = NIL, dirs' = <<>>, thrown' # "cannot_open_file"
  PROVE  Search' /\ DirectoryRead'
BY DEF Search, DirectoryRead

\* What is thrown is something.
LEMMA ThrownFacts ==
  /\ "lex_error" # NIL /\ "parse_error" # NIL /\ "cannot_open_file" # NIL
  /\ "import_depth_limit_exceeded" # NIL /\ "sema_error" # NIL /\ 1 # NIL
BY ProgramAssumption DEF Exception, ExitCode

\* Where the innermost parse is, after a step that leaves it there.
LEMMA SamePlace ==
  ASSUME UNCHANGED <<program, stack>>, sources'[Top.src].path = Me.path
  PROVE  Here' = Here /\ Named' = Named
BY DEF Top, Me, Stmts, Here, Named

\* The driver's own steps.
LEMMA DriverMoves ==
  ASSUME IInv, LoadInv,
         \/ ReadOption \/ OpenInput \/ ArgumentsRead \/ StartInput \/ AllFailed
         \/ Catch \/ CheckMain \/ AnalysisFails \/ LowerFull
  PROVE  Loads
<1>1. CASE ReadOption \/ ArgumentsRead \/ AllFailed \/ CheckMain \/ AnalysisFails \/ LowerFull
  <2>1. /\ UNCHANGED <<program, sources, allSources, stack, climb, dirs>>
        /\ thrown = NIL /\ thrown' \in {NIL, "sema_error"}
        /\ phase # "parsing" \/ stack = <<>>
    BY <1>1 DEF ReadOption, ArgumentsRead, AllFailed, CheckMain, AnalysisFails, LowerFull,
                At, Throw
  <2>2. climb' = NIL /\ dirs' = <<>>
    BY <2>1, IdleFacts
  <2>3. Grown /\ Continues
    BY <2>1, Quiet
  <2>4. QED BY <2>1, <2>2, <2>3, NothingHalfDone, ThrownFacts DEF Loads, Moves
<1>2. CASE OpenInput
  <2>1. /\ phase = "arguments" /\ thrown = NIL /\ Head(args) \in Path
        /\ UNCHANGED <<program, stack, climb, dirs, thrown>>
    BY <1>2 DEF OpenInput, At
  <2>2. climb' = NIL /\ dirs' = <<>> /\ stack = <<>> /\ stack' = <<>>
    BY <2>1, IdleFacts
  <2>3. CASE UNCHANGED <<sources, allSources>>
    <3>1. Grown /\ Continues
      BY <2>1, <2>3, Quiet
    <3>2. QED BY <3>1, <2>1, <2>2, NothingHalfDone, ThrownFacts DEF Loads, Moves
  <2>4. CASE /\ sources' = Append(sources, NewSource(Head(args), 0))
             /\ allSources' = [allSources EXCEPT ![Head(args)] = Len(sources) + 1]
    <3>1. /\ sources \in Seq(SourceFile) /\ Len(sources) \in Nat
          /\ NewSource(Head(args), 0) \in SourceFile /\ allSources \in [Path -> Nat]
      BY <2>1 DEF IInv, TypeOK, NewSource, SourceFile
    <3>2. /\ Len(sources') = Len(sources) + 1
          /\ sources'[Len(sources) + 1] = NewSource(Head(args), 0)
          /\ \A o \in 1 .. Len(sources) : sources'[o] = sources[o]
      BY <2>4, <3>1
    <3>3. Obj' = Obj \cup {Len(sources) + 1} /\ Untouched
      BY <3>1, <3>2 DEF Obj, Untouched, ImportsOf
    <3>4. \A p \in Path : Known(p) => Known(p)'
      BY <2>4, <3>1 DEF Known
    <3>5. Created(Len(sources) + 1)
      BY <3>2 DEF Created, NewSource
    <3>6. Grown
      BY <2>1, <3>2, <3>3, <3>4, <3>5 DEF Grown, Obj
    <3>7. Continues
      BY <2>1, <2>2, <3>3 DEF Continues
    <3>8. QED BY <3>6, <3>7, <2>1, <2>2, NothingHalfDone, ThrownFacts DEF Loads, Moves
  <2>5. QED BY <1>2, <2>3, <2>4 DEF OpenInput
<1>3. CASE StartInput
  <2> DEFINE o == inputs[cur + 1]
  <2>1. /\ phase = "next" /\ thrown = NIL /\ cur < Len(inputs)
        /\ UNCHANGED <<program, sources, allSources, climb, dirs>>
    BY <1>3 DEF StartInput, At
  <2>2. climb' = NIL /\ dirs' = <<>> /\ stack = <<>>
    BY <2>1, IdleFacts
  <2>3. o \in Obj /\ sources[o].parent = 0 /\ Fresh(o)
    <3>1. inputs \in Seq(Nat) /\ cur \in Nat /\ cur + 1 \in cur + 1 .. Len(inputs)
          /\ cur + 1 \in 1 .. Len(inputs)
      BY <2>1 DEF IInv, TypeOK
    <3>2. QED BY <3>1 DEF IInv, InputsAreRoots
  <2>4. CallParse(o)
    BY <1>3, <2>3 DEF StartInput, Fresh, Parsed
  <2>5. CASE stack' = Append(stack, NewFrame(o)) /\ UNCHANGED thrown
    <3>1. Starts(o)
      BY <2>1, <2>3, <2>5 DEF Starts
    <3>2. QED BY <3>1, <2>1, <2>2, <2>3, <2>5, NoObjects, NothingHalfDone, ThrownFacts
              DEF Loads, Moves
  <2>6. CASE UNCHANGED stack /\ thrown' \in {thrown, "lex_error"}
    <3>1. Grown /\ Continues
      BY <2>1, <2>6, Quiet
    <3>2. QED BY <3>1, <2>1, <2>2, <2>6, NothingHalfDone, ThrownFacts DEF Loads, Moves
  <2>7. QED BY <2>4, <2>5, <2>6, CallParseFacts
<1>4. CASE Catch
  <2>1. /\ thrown # NIL /\ thrown' = NIL /\ stack' = <<>>
        /\ UNCHANGED <<program, sources, allSources, climb, dirs>>
    BY <1>4 DEF Catch
  <2>2. climb' = NIL /\ dirs' = <<>>
    BY <2>1, IdleFacts
  <2>3. Grown /\ Abandons
    BY <2>1, NoObjects DEF Abandons
  <2>4. QED BY <2>1, <2>2, <2>3, NothingHalfDone, ThrownFacts DEF Loads, Moves
<1>5. QED BY <1>1, <1>2, <1>3, <1>4

\* Going through the imports, and the return from parse.
LEMMA SpliceMoves ==
  ASSUME IInv, LoadInv, SpliceNext \/ ReadItems
  PROVE  Loads
<1>0. /\ stack # <<>> /\ Top.stmt = Len(Stmts) /\ climb = NIL /\ dirs = <<>> /\ thrown = NIL
      /\ UNCHANGED <<program, allSources, climb, dirs>>
  BY DEF SpliceNext, ReadItems, AtSplice, Running
<1>1. CASE SpliceNext
  <2> DEFINE o == Me.imports[Top.next + 1]
  <2>1. Top.next < Len(Me.imports)
    BY <1>1 DEF SpliceNext
  <2>2. o \in Obj /\ Fresh(o)
    BY <2>1, <1>0, NextIsFresh
  <2>3. CallParse(o) /\ UNCHANGED sources
    BY <2>2, <1>1 DEF SpliceNext, Fresh, Parsed
  <2>4. CASE stack' = Append(stack, NewFrame(o)) /\ UNCHANGED thrown
    <3>1. sources[o].parent = Top.src
      <4>1. /\ Top.src \in Obj /\ Me.imports = ImportsOf(Top.src) /\ Top.next \in Nat
            /\ Me.imports \in Seq(Nat)
        BY <1>0, TopFacts, ImportFacts DEF Frame
      <4>2. Top.next + 1 \in 1 .. Len(ImportsOf(Top.src))
        BY <4>1, <2>1
      <4>3. QED BY <4>1, <4>2, ImportFacts
    <3>2. Starts(o)
      BY <1>0, <2>2, <2>3, <2>4, <3>1 DEF Starts
    <3>3. QED BY <3>2, <1>0, <2>2, <2>3, <2>4, NoObjects, NothingHalfDone, ThrownFacts
              DEF Loads, Moves
  <2>5. CASE UNCHANGED stack /\ thrown' \in {thrown, "lex_error"}
    <3>1. Grown /\ Continues
      BY <1>0, <2>3, <2>5, Quiet
    <3>2. QED BY <3>1, <1>0, <2>5, NothingHalfDone, ThrownFacts DEF Loads, Moves
  <2>6. QED BY <2>3, <2>4, <2>5, CallParseFacts
<1>2. CASE ReadItems
  <2>1. Top.next = Len(Me.imports)
    BY <1>2 DEF ReadItems
  <2>2. CASE program[Me.path].fault = "item"
    <3>1. UNCHANGED <<sources, stack>> /\ thrown' = "parse_error"
      BY <1>2, <2>2 DEF ReadItems, Throw
    <3>2. Grown /\ Continues
      BY <1>0, <3>1, Quiet
    <3>3. QED BY <3>1, <3>2, <1>0, NothingHalfDone DEF Loads, Moves
  <2>3. CASE program[Me.path].fault # "item"
    <3>1. Returns /\ UNCHANGED thrown
      BY <1>2, <2>3 DEF ReadItems, Returns
    <3>2. /\ Obj' = Obj
          /\ \A x \in Obj : /\ sources'[x].path = sources[x].path
                            /\ sources'[x].parent = sources[x].parent
      BY <1>0, <3>1, ReturnEffect
    <3>3. Grown
      BY <3>2, <1>0 DEF Grown, Known
    <3>4. Completes
      BY <1>0, <2>1, <3>1 DEF Completes
    <3>5. QED BY <3>1, <3>3, <3>4, <1>0, NothingHalfDone, ThrownFacts DEF Loads, Moves
  <2>4. QED BY <2>2, <2>3
<1>3. QED BY <1>1, <1>2

\* A directory import begins: everything it names is still to come.
LEMMA DirectoryBegins ==
  ASSUME IInv, stack # <<>>, Named \in Name, NEW d \in Folder,
         Directories(Here, Named) = {d}, Targets(Here, Named) = FilesBelow(d),
         dirs' = <<Entries[d]>>, climb' = NIL, thrown' # "cannot_open_file",
         UNCHANGED <<program, sources, allSources, stack>>
  PROVE  Search' /\ DirectoryRead'
<1>1. Here' = Here /\ Named' = Named
  BY SamePlace DEF Me
<1>2. Search'
  BY DEF Search
<1>3. Len(dirs') = 1 /\ dirs'[1] = Entries[d] /\ 1 \in 1 .. Len(dirs')
  OBVIOUS
<1>4. \A j \in 1 .. Len(dirs') : dirs'[j] \subseteq Below(d)
  BY <1>3, BelowFacts
<1>5. ASSUME NEW p \in Targets(Here, Named)
      PROVE  \E j \in 1 .. Len(dirs') : \E e \in dirs'[j] : p \in LeadsTo(e)
  <2>1. PICK e \in Entries[d] : p \in LeadsTo(e)
    BY <1>5, BelowFacts
  <2>2. QED BY <2>1, <1>3
<1>6. DirectoryRead'
  BY <1>1, <1>4, <1>5 DEF DirectoryRead
<1>7. QED BY <1>2, <1>6

\* Import statements.
LEMMA StatementMoves ==
  ASSUME IInv, LoadInv, NEW n \in Statement,
         \/ ImportFile(n) \/ ImportDirectory(n) \/ ImportPlain(n)
         \/ ImportMissing(n) \/ ImportIllFormed(n)
  PROVE  Loads
<1>0. /\ stack # <<>> /\ Top.stmt < Len(Stmts) /\ n = Named
      /\ climb = NIL /\ dirs = <<>> /\ thrown = NIL /\ exitCode = NIL
      /\ Here \in Folder /\ Me.path \in Path /\ Top.src \in Obj
  BY AtImportFacts DEF ImportFile, ImportDirectory, ImportPlain, ImportMissing, ImportIllFormed
<1>1. CASE ImportFile(n)
  <2>0. PICK p : p = FireAt[Here][n]
    OBVIOUS
  <2>1. /\ n \in Name /\ DirAt[Here][n] = NIL /\ ~PlainAt[Here][n] /\ p # NIL
        /\ Import(p) /\ program' = program /\ climb' = NIL /\ dirs' = <<>>
    BY <1>0, <1>1, <2>0 DEF ImportFile
  <2>2. Targets(Here, Named) = {p} /\ Named \in Name
    BY <1>0, <2>0, <2>1, TargetFacts
  <2>3. \/ Unopened(p) /\ UNCHANGED <<stack, thrown>>
        \/ ImportDepth(p) >= DepthLimit /\ UNCHANGED stack
           /\ thrown' = "import_depth_limit_exceeded"
        \/ ~Unopened(p) /\ ~(ImportDepth(p) >= DepthLimit) /\ NextStatement /\ UNCHANGED thrown
    BY <1>1, <2>0 DEF ImportFile, Throw
  <2>4. Opening(p) => \/ thrown' # NIL
                      \/ Depth(Top.src) + 1 < DepthLimit
                      \/ \E d \in Directories(Here, Named) : p \in FilesBelow(d)
    <3>1. SUFFICES ASSUME Opening(p), thrown' = NIL PROVE Depth(Top.src) + 1 < DepthLimit
      OBVIOUS
    <3>2. ~(ImportDepth(p) >= DepthLimit) /\ ImportDepth(p) = Depth(Top.src) + 1
      BY <3>1, <2>3, ThrownFacts DEF ImportDepth, Opening, Unopened
    <3>3. Depth(Top.src) \in Nat /\ DepthLimit \in Nat
      BY <1>0, DepthFacts, ProgramAssumption DEF DepthFollows
    <3>4. QED BY <3>2, <3>3
  <2>p. p \in Targets(Here, Named) /\ Named \in Name /\ Import(p) /\ program' = program
    BY <2>1, <2>2
  <2>5. /\ Grown /\ Untouched
        /\ ~Unopened(p) => Known(p)'
    BY <1>0, <2>p, <2>4, ImportGrows
  <2>6. Continues
    <3>1. CASE UNCHANGED stack
      BY <3>1, <2>5, <1>0 DEF Continues
    <3>2. CASE ~Unopened(p) /\ NextStatement
      <4>1. Fulfilled
        BY <3>2, <2>2, <2>5 DEF Fulfilled
      <4>2. QED BY <4>1, <3>2, <2>5, <1>0, StatementEnds
    <3>3. QED BY <2>3, <3>1, <3>2
  <2>7. thrown' # "cannot_open_file"
    BY <2>3, <1>0, ThrownFacts
  <2>8. QED BY <2>1, <2>5, <2>6, <2>7, NothingHalfDone DEF Loads, Moves
<1>2. CASE ImportDirectory(n)
  <2>1. /\ n \in Name /\ DirAt[Here][n] # NIL /\ dirs' = <<Entries[DirAt[Here][n]]>>
        /\ UNCHANGED <<program, sources, allSources, stack, climb, thrown, exitCode>>
    BY <1>2 DEF ImportDirectory
  <2>2. DirAt[Here][n] \in Folder
    BY <2>1, <1>0, TreeAssumption
  <2>3. /\ Directories(Here, n) = {DirAt[Here][n]}
        /\ Targets(Here, n) = FilesBelow(DirAt[Here][n])
    BY <2>1, <1>0, TargetFacts
  <2>4. Search' /\ DirectoryRead'
    BY <2>1, <2>2, <2>3, <1>0, ThrownFacts, DirectoryBegins
  <2>5. QED BY <2>1, <2>4, <1>0, Quiet DEF Loads, Moves
<1>3. CASE ImportPlain(n)
  <2>1. /\ n \in Name /\ DirAt[Here][n] = NIL /\ PlainAt[Here][n] /\ NextStatement
        /\ UNCHANGED <<program, sources, allSources, climb, dirs, thrown, exitCode>>
    BY <1>3 DEF ImportPlain
  <2>2. Fulfilled
    BY <2>1, <1>0, TargetFacts DEF Fulfilled
  <2>3. Grown /\ Continues
    BY <2>1, <2>2, <1>0, NoObjects, StatementEnds
  <2>4. QED BY <2>1, <2>3, <1>0, NothingHalfDone, ThrownFacts DEF Loads, Moves
<1>4. CASE ImportMissing(n)
  <2>1. /\ n \in Name /\ Absent(Here, n) /\ climb' = Here
        /\ UNCHANGED <<program, sources, allSources, stack, dirs, thrown, exitCode>>
    BY <1>4 DEF ImportMissing, Absent
  <2>2. Here' = Here /\ Named' = Named
    BY <2>1, SamePlace DEF Me
  <2>3. Hits(Here, Named) \subseteq Above(Here)
    BY DEF Hits
  <2>4. Search'
    BY <2>1, <2>2, <2>3, <1>0, ThrownFacts DEF Search
  <2>5. DirectoryRead'
    BY <2>1, <1>0 DEF DirectoryRead
  <2>6. QED BY <2>1, <2>4, <2>5, <1>0, Quiet DEF Loads, Moves
<1>5. CASE ImportIllFormed(n)
  <2>1. /\ UNCHANGED <<program, sources, allSources, stack, climb, dirs>>
        /\ thrown' \in {thrown, "parse_error"}
    BY <1>5 DEF ImportIllFormed, Throw
  <2>2. QED BY <2>1, <1>0, Quiet, NothingHalfDone, ThrownFacts DEF Loads, Moves
<1>6. QED BY <1>1, <1>2, <1>3, <1>4, <1>5

\* The search through the parent folders.
LEMMA ClimbMoves ==
  ASSUME IInv, LoadInv, Climb
  PROVE  Loads
<1>0. /\ climb \in Folder /\ Up[climb] \in Folder /\ dirs = <<>> /\ thrown = NIL
      /\ stack # <<>> /\ Top.stmt < Len(Stmts) /\ Named \in Name /\ climb # NIL
      /\ UNCHANGED <<program, sources, allSources, exitCode>>
  BY TreeAssumption DEF Climb, IInv, Control, TypeOK
<1>1. Here \in Folder
  BY <1>0, TopFacts
<1>2. /\ Absent(Here, Named) /\ climb \in {Here} \cup Above(Here)
      /\ Hits(Here, Named) \subseteq Above(climb)
  BY <1>0 DEF LoadInv, Search
<1>3. UNCHANGED stack => Here' = Here /\ Named' = Named
  BY <1>0, SamePlace DEF Me
<1>4. CASE climb = Cwd
  <2>1. climb' = NIL /\ thrown' = "cannot_open_file" /\ UNCHANGED <<stack, dirs>>
    BY <1>4 DEF Climb, Throw
  <2>2. Hits(Here, Named) = {}
    BY <1>0, <1>2, <1>4, AboveUnfolds
  <2>3. Search' /\ DirectoryRead'
    BY <2>1, <2>2, <1>0, <1>2, <1>3 DEF Search, DirectoryRead
  <2>4. QED BY <2>1, <2>3, <1>0, Quiet DEF Loads, Moves
<1> DEFINE up == Up[climb]
<1>5. climb # Cwd => /\ up \in Above(Here) /\ Hits(Here, Named) \subseteq {up} \cup Above(up)
  <2>1. ASSUME climb # Cwd PROVE up \in Above(climb) /\ Above(climb) = {up} \cup Above(up)
    BY <2>1, <1>0, AboveUnfolds
  <2>2. climb = Here \/ Above(climb) \subseteq Above(Here)
    BY <1>1, <1>2, AboveTransitive
  <2>3. QED BY <2>1, <2>2, <1>2
<1>6. ASSUME climb # Cwd, FireAt[up][Named] # NIL \/ DirAt[up][Named] # NIL
      PROVE  up \in Hits(Here, Named) /\ Nearest(Here, Named) = up
  <2>1. up \in Hits(Here, Named)
    BY <1>5, <1>6 DEF Hits
  <2>2. QED BY <2>1, <1>1, <1>5, <1>6, NearestIs
<1>7. CASE climb # Cwd /\ FireAt[up][Named] # NIL
  <2>1. climb' = NIL /\ NextStatement /\ UNCHANGED <<dirs, thrown>>
    BY <1>7 DEF Climb
  <2>2. Targets(Here, Named) = {}
    BY <1>0, <1>1, <1>2, <1>6, <1>7, TargetFacts
  <2>3. Grown /\ Continues
    BY <2>1, <2>2, <1>0, NoObjects, StatementEnds DEF Fulfilled
  <2>4. QED BY <2>1, <2>3, <1>0, NothingHalfDone, ThrownFacts DEF Loads, Moves
<1>8. CASE climb # Cwd /\ FireAt[up][Named] = NIL /\ DirAt[up][Named] # NIL
  <2>1. /\ climb' = NIL /\ dirs' = <<Entries[DirAt[up][Named]]>>
        /\ UNCHANGED <<stack, thrown>>
    BY <1>8 DEF Climb
  <2>2. DirAt[up][Named] \in Folder
    BY <1>0, <1>8, TreeAssumption
  <2>3. /\ Directories(Here, Named) = {DirAt[up][Named]}
        /\ Targets(Here, Named) = FilesBelow(DirAt[up][Named])
    BY <1>0, <1>1, <1>2, <1>6, <1>8, TargetFacts
  <2>4. Search' /\ DirectoryRead'
    BY <2>1, <2>2, <2>3, <1>0, ThrownFacts, DirectoryBegins
  <2>5. QED BY <2>1, <2>4, <1>0, Quiet DEF Loads, Moves
<1>9. CASE climb # Cwd /\ FireAt[up][Named] = NIL /\ DirAt[up][Named] = NIL
  <2>1. climb' = up /\ UNCHANGED <<stack, thrown, dirs>>
    BY <1>9 DEF Climb
  <2>2. Hits(Here, Named) \subseteq Above(up)
    <3>1. up \notin Hits(Here, Named)
      BY <1>9 DEF Hits
    <3>2. QED BY <3>1, <1>5, <1>9
  <2>3. Search' /\ DirectoryRead'
    BY <2>1, <2>2, <1>0, <1>2, <1>3, <1>5, <1>9, ThrownFacts DEF Search, DirectoryRead
  <2>4. QED BY <2>1, <2>3, <1>0, Quiet DEF Loads, Moves
<1>10. QED BY <1>4, <1>7, <1>8, <1>9

\* Lists changed at the end.
LEMMA ListEnds ==
  ASSUME NEW S, NEW s \in Seq(S), NEW n \in Nat, n = Len(s), n > 0, NEW x \in S
  PROVE  /\ [s EXCEPT ![n] = x] \in Seq(S) /\ Len([s EXCEPT ![n] = x]) = n
         /\ [s EXCEPT ![n] = x][n] = x
         /\ \A j \in 1 .. n : j # n => [s EXCEPT ![n] = x][j] = s[j]
         /\ Len(Append(s, x)) = n + 1 /\ Append(s, x)[n + 1] = x
         /\ \A j \in 1 .. n : Append(s, x)[j] = s[j]
         /\ n = 1 => SubSeq(s, 1, n - 1) = <<>>
         /\ n # 1 => /\ Len(SubSeq(s, 1, n - 1)) = n - 1
                     /\ \A j \in 1 .. n - 1 : SubSeq(s, 1, n - 1)[j] = s[j]
OBVIOUS

\* The directory iterators.
LEMMA DirectoryMoves ==
  ASSUME IInv, LoadInv, (\E e \in Path \cup Folder : DirectoryEntry(e)) \/ DirectoryDone
  PROVE  Loads
<1>0. /\ dirs # <<>> /\ climb = NIL /\ thrown = NIL /\ stack # <<>> /\ exitCode = NIL
      /\ Top.stmt < Len(Stmts) /\ dirs \in Seq(SUBSET (Path \cup Folder))
      /\ UNCHANGED <<program, climb, thrown>>
  BY DEF DirectoryEntry, DirectoryDone, IInv, Control, TypeOK
<1>1. /\ Named \in Name
      /\ \A p \in Targets(Here, Named) :
           Known(p) \/ \E j \in 1 .. Len(dirs) : \E e \in dirs[j] : p \in LeadsTo(e)
  BY <1>0 DEF LoadInv, DirectoryRead
<1>2. PICK d \in Folder : /\ Directories(Here, Named) = {d}
                          /\ \A j \in 1 .. Len(dirs) : dirs[j] \subseteq Below(d)
  BY <1>0 DEF LoadInv, DirectoryRead
<1>3. PICK n \in Nat : n = Len(dirs) /\ n > 0 /\ n \in 1 .. n
  BY <1>0
<1>4. ASSUME NEW e \in Path \cup Folder, DirectoryEntry(e) PROVE Loads
  <2>1. /\ e \in dirs[n] /\ e \in Below(d) /\ UNCHANGED stack
    BY <1>2, <1>3, <1>4 DEF DirectoryEntry
  <2>2. PICK rest \in Seq(SUBSET (Path \cup Folder)) : rest = [dirs EXCEPT ![n] = @ \ {e}]
    <3>1. dirs[n] \ {e} \in SUBSET (Path \cup Folder)
      BY <1>0, <1>3
    <3>2. [dirs EXCEPT ![n] = dirs[n] \ {e}] \in Seq(SUBSET (Path \cup Folder))
      BY <3>1, <1>0, <1>3, ListEnds
    <3>3. QED BY <3>2
  <2>3. /\ Len(rest) = n /\ rest # <<>> /\ rest[n] = dirs[n] \ {e}
        /\ \A j \in 1 .. n : j # n => rest[j] = dirs[j]
    BY <2>2, <1>0, <1>3
  <2>4. /\ \A j \in 1 .. n : rest[j] \subseteq Below(d)
        /\ \A j \in 1 .. n : \A x \in dirs[j] : x = e \/ x \in rest[j]
    BY <2>3, <1>2, <1>3
  <2>5. CASE e \in Folder
    <3>1. /\ dirs' = Append(rest, Entries[e]) /\ UNCHANGED <<sources, allSources, exitCode>>
      BY <1>3, <1>4, <2>2, <2>5 DEF DirectoryEntry
    <3>2. Entries[e] \in SUBSET (Path \cup Folder) /\ Entries[e] \subseteq Below(d)
      BY <2>1, <2>5, BelowFacts, TreeAssumption
    <3>3. /\ Len(dirs') = n + 1 /\ dirs'[n + 1] = Entries[e] /\ n + 1 \in 1 .. n + 1
          /\ \A j \in 1 .. n : dirs'[j] = rest[j] /\ j \in 1 .. n + 1
          /\ \A j \in 1 .. n + 1 : j = n + 1 \/ j \in 1 .. n
      <4>1. /\ Len(dirs') = n + 1 /\ dirs'[n + 1] = Entries[e]
            /\ \A j \in 1 .. n : dirs'[j] = rest[j]
        <5>1. PICK S : S = SUBSET (Path \cup Folder)
          OBVIOUS
        <5>2. rest \in Seq(S) /\ Entries[e] \in S
          BY <5>1, <2>2, <3>2
        <5>3. QED BY <5>2, <2>3, <3>1, <1>3, ListEnds
      <4>2. /\ n + 1 \in 1 .. n + 1 /\ \A j \in 1 .. n : j \in 1 .. n + 1
            /\ \A j \in 1 .. n + 1 : j = n + 1 \/ j \in 1 .. n
        BY <1>3
      <4>3. QED BY <4>1, <4>2
    <3>4. Here' = Here /\ Named' = Named
      BY <1>0, <2>1, <3>1, SamePlace DEF Me
    <3>5. \A j \in 1 .. Len(dirs') : dirs'[j] \subseteq Below(d)
      BY <2>4, <3>2, <3>3
    <3>6. ASSUME NEW p \in Targets(Here, Named)
          PROVE  Known(p) \/ \E j \in 1 .. Len(dirs') : \E x \in dirs'[j] : p \in LeadsTo(x)
      <4>1. SUFFICES ASSUME NEW j \in 1 .. n, NEW x \in dirs[j], p \in LeadsTo(x)
                     PROVE  \E i \in 1 .. n + 1 : \E y \in dirs'[i] : p \in LeadsTo(y)
        BY <1>1, <1>3, <3>3, <3>6
      <4>2. CASE x = e
        <5>1. PICK y \in Entries[e] : p \in LeadsTo(y)
          BY <4>1, <4>2, <2>5, BelowFacts DEF LeadsTo
        <5>2. QED BY <5>1, <3>3
      <4>3. CASE x # e
        BY <4>1, <4>3, <2>4, <3>3
      <4>4. QED BY <4>2, <4>3
    <3>8. DirectoryRead'
      <4>1. \A p \in Targets(Here, Named) :
              Known(p)' \/ \E j \in 1 .. Len(dirs') : \E x \in dirs'[j] : p \in LeadsTo(x)
        BY <3>1, <3>6 DEF Known
      <4>2. QED BY <4>1, <3>4, <3>5, <1>1, <1>2 DEF DirectoryRead
    <3>9. Search'
      BY <1>0, ThrownFacts DEF Search
    <3>10. QED BY <3>1, <3>8, <3>9, <1>0, <2>1, Quiet DEF Loads, Moves
  <2>6. CASE e \notin Folder
    <3>1. /\ dirs' = rest /\ Import(e) /\ e \in Path
          /\ Unopened(e) => exitCode' = 1
      BY <1>3, <1>4, <2>2, <2>6 DEF DirectoryEntry, Exit
    <3>2. e \in Targets(Here, Named) /\ e \in FilesBelow(d)
      BY <1>2, <2>1, <3>1 DEF Targets, FilesBelow
    <3>3. /\ Grown /\ Untouched
          /\ ~Unopened(e) => Known(e)'
          /\ \A q \in Path : Known(q) => Known(q)'
      BY <1>0, <1>1, <1>2, <3>1, <3>2, ImportGrows
    <3>4. Here' = Here /\ Named' = Named
      <4>1. sources'[Top.src].path = Me.path
        BY <3>3, <1>0, TopFacts DEF Grown, Me
      <4>2. QED BY <4>1, <1>0, <2>1, SamePlace
    <3>5. ASSUME exitCode' = NIL, NEW p \in Targets(Here, Named)
          PROVE  Known(p)' \/ \E j \in 1 .. Len(dirs') : \E x \in dirs'[j] : p \in LeadsTo(x)
      <4>1. p \in Path /\ ~Unopened(e)
        BY <3>1, <3>5, <1>0, <1>1, TopFacts, TargetFacts, ThrownFacts
      <4>2. CASE Known(p)
        BY <4>1, <4>2, <3>3
      <4>3. ASSUME NEW j \in 1 .. n, NEW x \in dirs[j], p \in LeadsTo(x)
            PROVE  Known(p)' \/ \E i \in 1 .. Len(dirs') : \E y \in dirs'[i] : p \in LeadsTo(y)
        <5>1. CASE x = e
          BY <4>1, <4>3, <5>1, <2>6, <3>3 DEF LeadsTo
        <5>2. CASE x # e
          BY <4>3, <5>2, <2>3, <2>4, <3>1
        <5>3. QED BY <5>1, <5>2
      <4>4. QED BY <4>2, <4>3, <1>1, <1>3
    <3>6. \A j \in 1 .. Len(dirs') : dirs'[j] \subseteq Below(d)
      BY <2>3, <2>4, <3>1
    <3>7. DirectoryRead'
      BY <3>4, <3>5, <3>6, <1>1, <1>2 DEF DirectoryRead
    <3>8. Search'
      BY <1>0, ThrownFacts DEF Search
    <3>9. Continues
      BY <2>1, <3>3, <1>0 DEF Continues
    <3>10. QED BY <3>3, <3>7, <3>8, <3>9 DEF Loads, Moves
  <2>7. QED BY <2>5, <2>6
<1>5. CASE DirectoryDone
  <2>1. /\ dirs[n] = {} /\ dirs' = SubSeq(dirs, 1, n - 1)
        /\ UNCHANGED <<sources, allSources, exitCode>>
    BY <1>3, <1>5 DEF DirectoryDone, Pop
  <2>2. Search'
    BY <1>0, ThrownFacts DEF Search
  <2>3. CASE n = 1
    <3>1. NextStatement /\ dirs' = <<>>
      <4>1. SubSeq(dirs, 1, n - 1) = <<>>
        <5>1. PICK S : S = SUBSET (Path \cup Folder)
          OBVIOUS
        <5>2. dirs \in Seq(S) /\ {} \in S
          BY <5>1, <1>0
        <5>3. QED BY <5>2, <2>3, <1>3, ListEnds
      <4>2. NextStatement
        BY <2>3, <1>3, <1>5 DEF DirectoryDone
      <4>3. QED BY <4>1, <4>2, <2>1
    <3>2. ASSUME NEW p \in Targets(Here, Named) PROVE Known(p)
      <4>1. \A j \in 1 .. n : j = n
        BY <2>3
      <4>2. ~ \E j \in 1 .. n : \E e \in dirs[j] : p \in LeadsTo(e)
        BY <4>1, <2>1
      <4>3. QED BY <4>2, <1>1, <1>3
    <3>3. Fulfilled
      BY <3>2, <2>1 DEF Fulfilled, Known
    <3>4. Grown /\ Continues
      BY <3>1, <3>3, <2>1, <1>0, NoObjects, StatementEnds
    <3>5. DirectoryRead'
      BY <3>1 DEF DirectoryRead
    <3>6. QED BY <3>4, <3>5, <2>2 DEF Loads, Moves
  <2>4. CASE n # 1
    <3>1. UNCHANGED stack
      BY <2>4, <1>3, <1>5 DEF DirectoryDone
    <3>2. /\ Len(dirs') = n - 1 /\ \A j \in 1 .. n - 1 : dirs'[j] = dirs[j] /\ j \in 1 .. n
          /\ \A j \in 1 .. n : j = n \/ j \in 1 .. n - 1
      BY <2>1, <2>4, <1>0, <1>3
    <3>3. Here' = Here /\ Named' = Named
      BY <1>0, <2>1, <3>1, SamePlace DEF Me
    <3>4. \A j \in 1 .. Len(dirs') : dirs'[j] \subseteq Below(d)
      BY <3>2, <1>2, <1>3
    <3>5. \A p \in Targets(Here, Named) :
            Known(p)' \/ \E j \in 1 .. Len(dirs') : \E x \in dirs'[j] : p \in LeadsTo(x)
      <4>1. ASSUME NEW p \in Targets(Here, Named), ~Known(p)
            PROVE  \E j \in 1 .. Len(dirs') : \E x \in dirs'[j] : p \in LeadsTo(x)
        <5>1. PICK j \in 1 .. n : \E x \in dirs[j] : p \in LeadsTo(x)
          BY <4>1, <1>1, <1>3
        <5>2. j # n
          BY <5>1, <2>1
        <5>3. QED BY <5>1, <5>2, <3>2
      <4>2. QED BY <4>1, <2>1 DEF Known
    <3>6. DirectoryRead'
      BY <3>3, <3>4, <3>5, <1>1, <1>2 DEF DirectoryRead
    <3>7. QED BY <3>1, <3>6, <2>1, <2>2, <1>0, Quiet DEF Loads, Moves
  <2>5. QED BY <2>3, <2>4
<1>6. QED BY <1>4, <1>5

\* Every step, or none.
LEMMA EveryStep ==
  ASSUME IInv, LoadInv, [Next]_vars
  PROVE  Loads
<1>1. ASSUME ImportsNext PROVE Loads
  <2>1. CASE \E n \in Statement : \/ ImportFile(n) \/ ImportDirectory(n) \/ ImportPlain(n)
                                 \/ ImportMissing(n) \/ ImportIllFormed(n)
    BY <2>1, StatementMoves
  <2>2. CASE Climb
    BY <2>2, ClimbMoves
  <2>3. CASE (\E e \in Path \cup Folder : DirectoryEntry(e)) \/ DirectoryDone
    BY <2>3, DirectoryMoves
  <2>4. CASE SpliceNext \/ ReadItems
    BY <2>4, SpliceMoves
  <2>5. QED BY <1>1, <2>1, <2>2, <2>3, <2>4 DEF ImportsNext
<1>2. CASE UNCHANGED vars
  <2>1. UNCHANGED <<program, sources, allSources, stack, climb, dirs, thrown, exitCode>>
    BY <1>2 DEF vars
  <2>2. Here' = Here /\ Named' = Named
    BY <2>1, SamePlace DEF Me
  <2>3. Search' /\ DirectoryRead'
    BY <2>1, <2>2 DEF LoadInv, Search, DirectoryRead, Known
  <2>4. QED BY <2>1, <2>3, NoObjects DEF Loads, Moves, Stays
<1>3. QED BY <1>1, <1>2, DriverMoves DEF Next, Load
-----------------------------------------------------------------------------
(***************************************************************************)
(* The parts of the invariant are kept.                                    *)
(***************************************************************************)

\* An object is parsed by the step only when its parse is over.
LEMMA ParsedFacts ==
  ASSUME IInv, Grown, Moves
  PROVE  /\ Obj' = Obj \/ Continues
         /\ \A o \in Obj : \/ sources'[o].parsedMod = sources[o].parsedMod
                           \/ Completes /\ o = Top.src
         /\ \A o \in Obj : Parsed(o) => sources'[o].parsedMod = sources[o].parsedMod
         /\ \A o \in Obj' : Parsed(o)' => o \in Obj
<1>1. \A o \in Obj' : Parsed(o)' => o \in Obj
  BY DEF Grown, Created, Parsed
<1>2. CASE UNCHANGED sources
  BY <1>1, <1>2 DEF Obj
<1>3. CASE Continues
  BY <1>1, <1>3 DEF Continues, Untouched
<1>4. CASE Completes
  <2>1. stack # <<>> /\ Returns
    BY <1>4 DEF Completes
  <2>2. Obj' = Obj /\ \A x \in Obj : x # Top.src => sources'[x].parsedMod = sources[x].parsedMod
    BY <2>1, ReturnEffect
  <2>3. ~Parsed(Top.src)
    BY <2>1, TopFacts DEF Me, Parsed
  <2>4. QED BY <1>1, <1>4, <2>2, <2>3
<1>5. QED BY <1>2, <1>3, <1>4 DEF Moves, Starts, Abandons, Stays

\* The frames after a parse has begun.
LEMMA StartsFrames ==
  ASSUME IInv, NEW o \in Obj, Starts(o), NEW k \in 1 .. Len(stack')
  PROVE  \/ k = Len(stack) + 1 /\ stack'[k] = NewFrame(o)
         \/ k \in 1 .. Len(stack) /\ stack'[k] = stack[k]
<1>1. stack' = Append(stack, NewFrame(o)) /\ stack \in Seq(Frame) /\ Len(stack) \in Nat
  BY DEF Starts, IInv, TypeOK
<1>2. NewFrame(o) \in Frame
  BY ParentFacts DEF NewFrame, Frame
<1>3. QED BY <1>1, <1>2

\* The frames after the innermost parse is over: the importer has gone on.
LEMMA CompletesFrames ==
  ASSUME IInv, Completes, NEW k \in 1 .. Len(stack')
  PROVE  /\ k \in 1 .. Len(stack) /\ k < Len(stack)
         /\ stack'[k].src = stack[k].src /\ stack'[k].stmt = stack[k].stmt
         /\ \/ stack'[k] = stack[k]
            \/ /\ k + 1 = Len(stack)
               /\ stack'[k].next = stack[k].next + 1
               /\ stack'[k].items = stack[k].items \o Append(Top.items, Top.src)
<1>1. stack # <<>> /\ Returns
  BY DEF Completes
<1>0. Len(stack) \in Nat /\ Len(stack) > 0
  BY <1>1, TopFacts
<1>2. PICK b \in Nat : b = Len(stack) - 1 /\ Len(stack) = b + 1
  BY <1>0
<1>3. /\ b = 0 => stack' = <<>>
      /\ b > 0 => /\ Len(stack') = b
                  /\ \A j \in 1 .. b - 1 : stack'[j] = stack[j]
                  /\ stack'[b].src = stack[b].src
                  /\ stack'[b].stmt = stack[b].stmt
                  /\ stack'[b].next = stack[b].next + 1
                  /\ stack'[b].items = stack[b].items \o Append(Top.items, Top.src)
  BY <1>1, <1>2, ReturnEffect
<1>4. b > 0 /\ Len(stack') = b
  <2>1. CASE b = 0
    <3>1. Len(stack') = 0
      BY <2>1, <1>3
    <3>2. QED BY <3>1
  <2>2. CASE b > 0
    BY <2>2, <1>3
  <2>3. QED BY <2>1, <2>2
<1>5. k \in 1 .. Len(stack) /\ k < Len(stack) /\ (k = b \/ k \in 1 .. b - 1)
  BY <1>2, <1>4
<1>6. QED BY <1>2, <1>3, <1>4, <1>5

\* An object is what its importer names.
LEMMA NamedStays ==
  ASSUME IInv, LoadInv, Grown
  PROVE  NamedByImporter'
<1>1. ImportedBy' = ImportedBy
  BY DEF Grown, ImportedBy
<1>2. ASSUME NEW o \in Obj', sources'[o].parent # 0
      PROVE  sources'[o].path \in ImportedBy[sources'[sources'[o].parent].path]
  <2>1. CASE o \in Obj
    <3>1. sources'[o].path = sources[o].path /\ sources'[o].parent = sources[o].parent
      BY <2>1 DEF Grown
    <3>2. sources[o].parent \in Obj
      BY <1>2, <2>1, <3>1, ParentFacts
    <3>3. QED BY <1>2, <2>1, <3>1, <3>2 DEF Grown, LoadInv, NamedByImporter
  <2>2. CASE o \notin Obj
    <3>1. stack # <<>> /\ sources'[o].parent = Top.src /\ sources'[o].path \in ImportedBy[Me.path]
      BY <1>2, <2>2 DEF Grown, Created
    <3>2. sources'[Top.src].path = Me.path
      BY <3>1, TopFacts DEF Grown, Me
    <3>3. QED BY <3>1, <3>2
  <2>3. QED BY <2>1, <2>2
<1>3. QED BY <1>1, <1>2 DEF NamedByImporter

\* Everything the first n imports of the file at p name is registered
\* afterwards.
RegisteredAfter(p, n) ==
  \A i \in 1 .. n :
    program[p].imports[i] \in Name =>
      \A t \in Targets(FolderOf[p], program[p].imports[i]) : Known(t)'

\* What is registered stays so.
LEMMA RegistryGrows ==
  ASSUME IInv, Grown, NEW o \in Obj, NEW n, Registered(o, n)
  PROVE  RegisteredAfter(sources[o].path, n)
<1>1. PICK p \in Path : p = sources[o].path
  BY ObjFacts
<1>2. FolderOf[p] \in Folder
  BY TreeAssumption
<1>3. ASSUME NEW m \in Name, NEW t \in Targets(FolderOf[p], m), Known(t)
      PROVE  Known(t)'
  <2>1. t \in Path
    BY <1>2, TargetFacts
  <2>2. QED BY <2>1, <1>3 DEF Grown
<1>4. QED BY <1>1, <1>3 DEF Registered, RegisteredAfter

\* The statements that have been read are fulfilled.
LEMMA StatementsStay ==
  ASSUME IInv, LoadInv, Grown, Moves
  PROVE  StatementsRead'
<1>1. /\ \A k \in 1 .. Len(stack) : /\ stack[k].src \in Obj
                                   /\ Registered(stack[k].src, stack[k].stmt)
      /\ \A o \in Obj : Parsed(o) => Registered(o, Len(program[sources[o].path].imports))
  BY FrameFacts DEF LoadInv, StatementsRead
<1>2. /\ \A k \in 1 .. Len(stack) :
           RegisteredAfter(sources[stack[k].src].path, stack[k].stmt)
      /\ \A o \in Obj : Parsed(o) =>
           RegisteredAfter(sources[o].path, Len(program[sources[o].path].imports))
  BY <1>1, RegistryGrows
<1>3. ASSUME NEW o \in Obj', Parsed(o)'
      PROVE  Registered(o, Len(program[sources[o].path].imports))'
  <2>1. o \in Obj /\ sources'[o].path = sources[o].path /\ program' = program
    BY <1>3, ParsedFacts DEF Grown
  <2>2. RegisteredAfter(sources[o].path, Len(program[sources[o].path].imports))
    <3>1. CASE Parsed(o)
      BY <2>1, <3>1, <1>2
    <3>2. CASE Completes /\ o = Top.src
      <4>1. stack # <<>> /\ Top.stmt = Len(program[sources[o].path].imports)
        BY <3>2 DEF Completes, Stmts, Me
      <4>2. Len(stack) \in 1 .. Len(stack) /\ stack[Len(stack)].src = o
            /\ stack[Len(stack)].stmt = Top.stmt
        BY <3>2, <4>1, TopFacts DEF Top
      <4>3. QED BY <4>1, <4>2, <1>2
    <3>3. QED BY <2>1, <3>1, <3>2, <1>3, ParsedFacts DEF Parsed
  <2>3. QED BY <2>1, <2>2 DEF Registered, RegisteredAfter
<1>4. ASSUME NEW k \in 1 .. Len(stack'), stack'[k].src \in Obj,
             RegisteredAfter(sources[stack'[k].src].path, stack'[k].stmt)
      PROVE  Registered(stack[k].src, stack[k].stmt)'
  <2>1. sources'[stack'[k].src].path = sources[stack'[k].src].path /\ program' = program
    BY <1>4 DEF Grown
  <2>2. QED BY <2>1, <1>4 DEF Registered, RegisteredAfter
<1>5. ASSUME NEW k \in 1 .. Len(stack')
      PROVE  /\ stack'[k].src \in Obj
             /\ RegisteredAfter(sources[stack'[k].src].path, stack'[k].stmt)
  <2>1. CASE Continues
    <3>1. /\ k \in 1 .. Len(stack) /\ stack'[k].src = stack[k].src
          /\ \/ stack'[k].stmt = stack[k].stmt
             \/ k = Len(stack) /\ stack'[k].stmt = stack[k].stmt + 1 /\ Fulfilled
      BY <2>1 DEF Continues
    <3>2. CASE stack'[k].stmt = stack[k].stmt
      BY <3>1, <3>2, <1>1, <1>2
    <3>3. CASE k = Len(stack) /\ stack'[k].stmt = stack[k].stmt + 1 /\ Fulfilled
      <4>1. /\ stack[k] = Top /\ Me = sources[stack[k].src] /\ Top.stmt \in Nat
        BY <3>1, <3>3, FrameFacts DEF Top, Me
      <4>2. RegisteredAfter(Me.path, Top.stmt)
        BY <4>1, <3>1, <1>2
      <4>3. Named \in Name => \A t \in Targets(Here, Named) : Known(t)'
        BY <3>3 DEF Fulfilled
      <4>4. \A i \in 1 .. Top.stmt + 1 : i \in 1 .. Top.stmt \/ i = Top.stmt + 1
        BY <4>1
      <4>5. RegisteredAfter(Me.path, Top.stmt + 1)
        BY <4>2, <4>3, <4>4 DEF RegisteredAfter, Named, Here, Stmts
      <4>6. QED BY <4>1, <4>5, <3>1, <3>3, <1>1
    <3>4. QED BY <3>1, <3>2, <3>3
  <2>2. ASSUME NEW o \in Obj, Starts(o)
        PROVE  /\ stack'[k].src \in Obj
               /\ RegisteredAfter(sources[stack'[k].src].path, stack'[k].stmt)
    <3>1. NewFrame(o).src = o /\ NewFrame(o).stmt = 0
      BY DEF NewFrame
    <3>2. \/ k = Len(stack) + 1 /\ stack'[k] = NewFrame(o)
          \/ k \in 1 .. Len(stack) /\ stack'[k] = stack[k]
      BY <1>5, <2>2, StartsFrames
    <3>3. RegisteredAfter(sources[o].path, 0)
      BY DEF RegisteredAfter
    <3>4. QED BY <3>1, <3>2, <3>3, <1>1, <1>2
  <2>3. CASE Abandons
    BY <2>3, <1>5 DEF Abandons
  <2>4. CASE Completes
    <3>1. k \in 1 .. Len(stack) /\ stack'[k].src = stack[k].src /\ stack'[k].stmt = stack[k].stmt
      BY <1>5, <2>4, CompletesFrames
    <3>2. QED BY <3>1, <1>1, <1>2
  <2>5. CASE Stays
    BY <1>5, <2>5, <1>1, <1>2 DEF Stays
  <2>6. QED BY <2>1, <2>2, <2>3, <2>4, <2>5 DEF Moves
<1>6. QED BY <1>3, <1>4, <1>5 DEF StatementsRead
-----------------------------------------------------------------------------
\* An object keeps its depth, and a new one is one deeper than its importer.
LEMMA DepthStays ==
  ASSUME IInv, IInv', Grown
  PROVE  /\ \A o \in Obj : Depth(o)' = Depth(o)
         /\ \A n \in Obj' \ Obj :
              /\ sources'[n].parent = 0 => Depth(n)' = 0
              /\ sources'[n].parent # 0 => Depth(n)' = Depth(Top.src) + 1
<1>1. DepthFollows /\ DepthFollows'
  <2>1. (IInv => DepthFollows)'
    BY DepthFacts, PTL
  <2>2. QED BY <2>1, DepthFacts
<1>2. \A o \in Obj' : /\ Depth(o)' \in Nat
                      /\ sources'[o].parent = 0 => Depth(o)' = 0
                      /\ \A q \in Obj' : sources'[o].parent = q => Depth(o)' = Depth(q)' + 1
  BY <1>1 DEF DepthFollows
<1>3. PICK d \in [Obj -> Nat] : d = [q \in Obj |-> Depth(q)]
  BY <1>1 DEF DepthFollows
<1>4. PICK e : e = [q \in Obj |-> Depth(q)']
  OBVIOUS
<1>5. DepthEquation(d)
  BY <1>1, <1>3, ParentFacts DEF DepthEquation, DepthFollows
<1>6. \A q \in Obj : e[q] = IF sources[q].parent = 0 THEN 0 ELSE e[sources[q].parent] + 1
  <2>1. ASSUME NEW q \in Obj
        PROVE  e[q] = IF sources[q].parent = 0 THEN 0 ELSE e[sources[q].parent] + 1
    <3>1. q \in Obj' /\ sources'[q].parent = sources[q].parent
      BY DEF Grown
    <3>2. sources[q].parent # 0 => sources[q].parent \in Obj /\ sources[q].parent \in Obj'
      BY ParentFacts DEF Grown
    <3>3. QED BY <3>1, <3>2, <1>2, <1>4
  <2>2. QED BY <2>1
<1>7. \A q \in Obj : e[q] = d[q]
  BY <1>5, <1>6, DepthUnique
<1>8. \A o \in Obj : Depth(o)' = Depth(o)
  BY <1>3, <1>4, <1>7
<1>9. ASSUME NEW n \in Obj' \ Obj, sources'[n].parent # 0
      PROVE  Depth(n)' = Depth(Top.src) + 1
  <2>1. stack # <<>> /\ sources'[n].parent = Top.src
    BY <1>9 DEF Grown, Created
  <2>2. Top.src \in Obj /\ Top.src \in Obj'
    BY <2>1, TopFacts DEF Grown
  <2>3. PICK q \in Obj : q = Top.src /\ q \in Obj'
    BY <2>2
  <2>4. Depth(n)' = Depth(q)' + 1
    BY <1>2, <2>1, <2>3
  <2>5. QED BY <2>3, <2>4, <1>8
<1>10. QED BY <1>2, <1>8, <1>9

\* An object that is too deep after the step was so before it, or is new and
\* its importer is being abandoned.
LEMMA TooDeepFacts ==
  ASSUME IInv, IInv', Grown, NEW o \in Obj', TooDeep(o)'
  PROVE  /\ sources'[o].parent # 0
         /\ o \in Obj => TooDeep(o)
         /\ o \notin Obj => thrown' # NIL
<1>1. Depth(o)' >= DepthLimit /\ ~CameWithDirectory(o)' /\ DepthLimit \in Nat /\ DepthLimit > 0
  BY ProgramAssumption DEF TooDeep
<1>2. sources'[o].parent # 0
  <2>1. SUFFICES ASSUME sources'[o].parent = 0 PROVE Depth(o)' = 0
    BY <1>1
  <2>2. CASE o \in Obj
    <3>1. sources[o].parent = 0
      BY <2>1, <2>2 DEF Grown
    <3>2. QED BY <3>1, <2>2, DepthFacts, DepthStays DEF DepthFollows
  <2>3. CASE o \notin Obj
    BY <2>1, <2>3, DepthStays
  <2>4. QED BY <2>2, <2>3
<1>3. ASSUME o \in Obj PROVE TooDeep(o)
  <2>1. /\ sources'[o].path = sources[o].path /\ sources'[o].parent = sources[o].parent
        /\ program' = program
    BY <1>3 DEF Grown
  <2>2. sources[o].parent \in Obj
    BY <1>2, <1>3, <2>1, ParentFacts
  <2>3. sources'[sources[o].parent].path = sources[sources[o].parent].path
    BY <2>2 DEF Grown
  <2>4. CameWithDirectory(o)' <=> CameWithDirectory(o)
    BY <2>1, <2>3 DEF CameWithDirectory
  <2>5. QED BY <2>4, <1>1, <1>3, DepthStays DEF TooDeep
<1>4. ASSUME o \notin Obj, thrown' = NIL PROVE FALSE
  <2>1. /\ stack # <<>> /\ sources'[o].parent = Top.src
        /\ Depth(Top.src) + 1 < DepthLimit \/ InNamedDirectory(sources'[o].path)
    BY <1>2, <1>4 DEF Grown, Created
  <2>2. sources'[Top.src].path = Me.path /\ program' = program /\ Top.src \in Obj
    BY <2>1, TopFacts DEF Grown, Me
  <2>3. InNamedDirectory(sources'[o].path) => CameWithDirectory(o)'
    BY <2>1, <2>2 DEF InNamedDirectory, CameWithDirectory, Stmts, Here
  <2>4. Depth(o)' = Depth(Top.src) + 1 /\ Depth(Top.src) \in Nat
    BY <1>2, <1>4, <2>2, DepthStays, DepthFacts DEF DepthFollows
  <2>5. QED BY <2>1, <2>3, <2>4, <1>1
<1>5. QED BY <1>2, <1>3, <1>4

\* Nothing is done with objects that are too deep.
LEMMA DeepStays ==
  ASSUME IInv, IInv', LoadInv, Grown, Moves
  PROVE  DeepOnesUnused'
<1> SUFFICES ASSUME NEW o \in Obj', TooDeep(o)'
             PROVE  /\ ~Parsed(o)'
                    /\ \A k \in 1 .. Len(stack') :
                         /\ stack'[k].src # o
                         /\ stack'[k].src = sources'[o].parent => thrown' # NIL
  BY DEF DeepOnesUnused
<1>1. sources'[o].parent # 0
  BY TooDeepFacts
<1>2. CASE o \notin Obj
  <2>1. ~Parsed(o)' /\ thrown' # NIL /\ Continues
    BY <1>2, ParsedFacts, TooDeepFacts
  <2>2. ASSUME NEW k \in 1 .. Len(stack') PROVE stack'[k].src # o
    BY <1>2, <2>1, FrameFacts DEF Continues
  <2>3. QED BY <2>1, <2>2
<1>3. CASE o \in Obj
  <2>1. /\ ~Parsed(o)
        /\ \A k \in 1 .. Len(stack) :
             stack[k].src # o /\ (stack[k].src = sources[o].parent => thrown # NIL)
        /\ sources'[o].parent = sources[o].parent
    BY <1>3, TooDeepFacts DEF LoadInv, DeepOnesUnused, Grown
  <2>2. stack # <<>> => Top.src # o /\ (Top.src = sources[o].parent => thrown # NIL)
    BY <2>1, TopFacts DEF Top
  <2>3. ~Parsed(o)'
    <3>1. ~(Completes /\ o = Top.src)
      BY <2>2 DEF Completes
    <3>2. QED BY <3>1, <2>1, <1>3, ParsedFacts DEF Parsed
  <2>4. ASSUME NEW k \in 1 .. Len(stack')
        PROVE  stack'[k].src # o /\ (stack'[k].src = sources[o].parent => thrown' # NIL)
    <3>1. CASE Continues
      BY <3>1, <2>1 DEF Continues
    <3>2. ASSUME NEW q \in Obj, Starts(q)
          PROVE  stack'[k].src # o /\ stack'[k].src # sources[o].parent
      <4>1. /\ thrown = NIL /\ Fresh(q) /\ NewFrame(q).src = q
            /\ sources[q].parent = 0 \/ (stack # <<>> /\ sources[q].parent = Top.src)
        BY <3>2 DEF Starts, NewFrame
      <4>2. q # o
        BY <4>1, <2>1, <2>2, <1>1
      <4>3. q # sources[o].parent
        <5>1. ImportsOf(q) = <<>> /\ Listed(ImportsOf(q)) = {x \in Obj : sources[x].parent = q}
          BY <4>1, <3>2 DEF Fresh, IInv, Forest, ImportsOf
        <5>2. Listed(<<>>) = {}
          BY DEF Listed
        <5>3. QED BY <5>1, <5>2, <1>3
      <4>4. QED BY <4>1, <4>2, <4>3, <2>1, <2>4, <3>2, StartsFrames
    <3>3. CASE Abandons
      BY <3>3, <2>4 DEF Abandons
    <3>4. CASE Completes
      BY <3>4, <2>4, <2>1, CompletesFrames DEF Completes
    <3>5. CASE Stays
      BY <3>5, <2>1, <2>4 DEF Stays
    <3>6. QED BY <3>1, <3>2, <3>3, <3>4, <3>5 DEF Moves
  <2>5. QED BY <2>1, <2>3, <2>4
<1>4. QED BY <1>2, <1>3
-----------------------------------------------------------------------------
\* A parsed object's tree is parsed, and it stays as it is.
LEMMA ParsedTrees ==
  ASSUME IInv, LoadInv, NEW o \in Obj, Parsed(o)
  PROVE  /\ Tree(o) \subseteq {x \in Obj : Parsed(x)}
         /\ Grown => Tree(o)' = Tree(o)
<1>1. Tree(o) \subseteq {x \in Obj : Parsed(x)}
  <2>1. PICK C : C = {x \in Obj : Parsed(x)}
    OBVIOUS
  <2>2. o \in C /\ \A q \in Obj : sources[q].parent \in C => q \in C
    BY <2>1 DEF LoadInv, Assembled
  <2>3. QED BY <2>1, <2>2, TreeInduction
<1>2. ASSUME Grown PROVE Tree(o)' = Tree(o)
  <2>1. /\ Obj \subseteq Obj' /\ \A q \in Obj : sources'[q].parent = sources[q].parent
    BY <1>2 DEF Grown
  <2>2. ASSUME NEW q \in Obj' \ Obj PROVE sources'[q].parent \notin Tree(o)
    <3>1. CASE sources'[q].parent = 0
      BY <3>1, <1>1 DEF Obj
    <3>2. CASE sources'[q].parent # 0
      <4>1. stack # <<>> /\ sources'[q].parent = Top.src
        BY <3>2, <1>2, <2>2 DEF Grown, Created
      <4>2. ~Parsed(Top.src)
        BY <4>1, TopFacts DEF Parsed, Me
      <4>3. QED BY <4>1, <4>2, <1>1
    <3>3. QED BY <3>1, <3>2
  <2>3. QED BY <2>1, <2>2, TreeStays
<1>3. QED BY <1>1, <1>2

\* The imports a parse has gone through.
Reached(k) == {ImportsOf(stack[k].src)[i] : i \in 1 .. stack[k].next}

LEMMA ReachedFacts ==
  ASSUME IInv, LoadInv, NEW k \in 1 .. Len(stack)
  PROVE  /\ Reached(k) \subseteq Obj
         /\ Listed(stack[k].items) = UNION {Tree(q) : q \in Reached(k)}
         /\ \A q \in Reached(k) : Parsed(q)
<1>1. /\ Listed(stack[k].items) = UNION {Tree(q) : q \in Reached(k)}
      /\ \A q \in Reached(k) : Parsed(q)
  BY DEF LoadInv, Assembled, Reached
<1>2. /\ stack[k].src \in Obj /\ stack[k].next \in Nat
      /\ stack[k].next <= Len(ImportsOf(stack[k].src))
  BY FrameFacts
<1>3. \A i \in 1 .. Len(ImportsOf(stack[k].src)) : ImportsOf(stack[k].src)[i] \in Obj
      /\ Len(ImportsOf(stack[k].src)) \in Nat
  BY <1>2, ImportFacts
<1>4. Reached(k) \subseteq Obj
  BY <1>2, <1>3 DEF Reached
<1>5. QED BY <1>1, <1>4

\* A module being built that has grown by nothing.
LEMMA FrameStays ==
  ASSUME IInv, LoadInv, Grown, Moves, NEW k \in 1 .. Len(stack), NEW l \in 1 .. Len(stack'),
         stack'[l].src = stack[k].src, stack'[l].next = stack[k].next,
         stack'[l].items = stack[k].items
  PROVE  /\ Reached(l)' = Reached(k)
         /\ Listed(stack[l].items)' = UNION {Tree(q)' : q \in Reached(k)}
         /\ \A q \in Reached(k) : Parsed(q)'
<1>1. /\ Reached(k) \subseteq Obj
      /\ Listed(stack[k].items) = UNION {Tree(q) : q \in Reached(k)}
      /\ \A q \in Reached(k) : Parsed(q)
  BY ReachedFacts
<1>2. PICK o \in Obj : o = stack[k].src
  BY FrameFacts
<1>3. PICK n \in Nat : n = stack[k].next /\ n <= Len(ImportsOf(o))
  BY <1>2, FrameFacts
<1>4. ImportsOf(o) \in Seq(Nat)
  BY ImportFacts
<1>5. \A i \in 1 .. n : sources'[o].imports[i] = ImportsOf(o)[i]
  <2>1. \A i \in 1 .. n : i \in 1 .. Len(ImportsOf(o))
    BY <1>3, <1>4
  <2>2. CASE Continues
    BY <2>1, <2>2 DEF Continues, Untouched
  <2>3. CASE UNCHANGED sources
    BY <2>3 DEF ImportsOf
  <2>4. CASE Completes
    BY <2>4, ReturnEffect DEF Completes, ImportsOf
  <2>5. QED BY <2>2, <2>3, <2>4 DEF Moves, Starts, Abandons, Stays
<1>6. Reached(l)' = {sources'[o].imports[i] : i \in 1 .. n}
  BY <1>2, <1>3 DEF Reached, ImportsOf
<1>7. Reached(k) = {ImportsOf(o)[i] : i \in 1 .. n}
  BY <1>2, <1>3 DEF Reached
<1>8. Reached(l)' = Reached(k)
  BY <1>5, <1>6, <1>7
<1>9. ASSUME NEW q \in Reached(k) PROVE Tree(q)' = Tree(q) /\ Parsed(q)'
  <2>1. q \in Obj /\ Parsed(q)
    BY <1>1
  <2>2. sources'[q].parsedMod = sources[q].parsedMod
    BY <2>1, ParsedFacts
  <2>3. QED BY <2>1, <2>2, ParsedTrees DEF Parsed
<1>10. Listed(stack[l].items)' = Listed(stack[k].items)
  BY DEF Listed
<1>11. QED BY <1>1, <1>8, <1>9, <1>10

\* What the innermost module has when its parse is over: its source's tree.
LEMMA WholeTree ==
  ASSUME IInv, LoadInv, Completes
  PROVE  /\ stack # <<>> /\ Top.src \in Obj
         /\ Listed(Append(Top.items, Top.src)) = Tree(Top.src)
         /\ \A q \in Obj : sources[q].parent = Top.src => Parsed(q)
<1>1. /\ stack # <<>> /\ Top.next = Len(Me.imports)
      /\ Len(stack) \in 1 .. Len(stack) /\ Top = stack[Len(stack)]
      /\ Me.imports = ImportsOf(Top.src)
  BY TopFacts DEF Completes, Top
<1>2. PICK o \in Obj : o = Top.src
  BY <1>1, TopFacts
<1>3. Reached(Len(stack)) = Listed(ImportsOf(o))
  BY <1>1, <1>2 DEF Reached, Listed
<1>4. Listed(ImportsOf(o)) = {q \in Obj : sources[q].parent = o}
  BY <1>2 DEF IInv, Forest, ImportsOf
<1>5. /\ Listed(Top.items) = UNION {Tree(q) : q \in {c \in Obj : sources[c].parent = o}}
      /\ \A q \in {c \in Obj : sources[c].parent = o} : Parsed(q)
  BY <1>1, <1>3, <1>4, ReachedFacts
<1>6. Listed(Append(Top.items, o)) = Listed(Top.items) \cup {o}
  BY <1>1, <1>2, ReturnedItems
<1>7. Tree(o) = {o} \cup (UNION {Tree(q) : q \in {c \in Obj : sources[c].parent = o}})
  BY TreeFacts
<1>8. QED BY <1>1, <1>2, <1>5, <1>6, <1>7

\* Modules have what they must have.
LEMMA AssembledStays ==
  ASSUME IInv, LoadInv, Grown, Moves
  PROVE  Assembled'
<1>1. ASSUME NEW o \in Obj', Parsed(o)'
      PROVE  /\ Listed(sources'[o].parsedMod) = Tree(o)'
             /\ \A q \in Obj' : sources'[q].parent = o => Parsed(q)'
  <2>1. o \in Obj
    BY <1>1, ParsedFacts
  <2>2. CASE Parsed(o)
    <3>1. sources'[o].parsedMod = sources[o].parsedMod /\ Tree(o)' = Tree(o)
      BY <2>1, <2>2, ParsedFacts, ParsedTrees
    <3>2. ASSUME NEW q \in Obj', sources'[q].parent = o PROVE Parsed(q)'
      <4>1. q \in Obj
        <5>1. o # 0 /\ (stack # <<>> => o # Top.src)
          BY <2>1, <2>2, TopFacts, ImportFacts DEF Parsed, Me
        <5>2. QED BY <5>1, <3>2 DEF Grown, Created
      <4>2. Parsed(q)
        BY <4>1, <3>2, <2>1, <2>2 DEF Grown, LoadInv, Assembled
      <4>3. QED BY <4>1, <4>2, ParsedFacts DEF Parsed
    <3>3. Listed(sources[o].parsedMod) = Tree(o)
      BY <2>1, <2>2 DEF LoadInv, Assembled
    <3>4. QED BY <3>1, <3>2, <3>3
  <2>3. CASE ~Parsed(o)
    <3>1. Completes /\ o = Top.src
      BY <1>1, <2>1, <2>3, ParsedFacts DEF Parsed
    <3>2. /\ Obj' = Obj /\ sources'[o].parsedMod = Append(Top.items, Top.src)
      BY <3>1, ReturnEffect DEF Completes
    <3>3. \A q \in Obj : sources'[q].parent = sources[q].parent
      BY DEF Grown
    <3>4. Tree(o)' = Tree(o)
      BY <2>1, <3>2, <3>3, TreeStays
    <3>5. ASSUME NEW q \in Obj', sources'[q].parent = o PROVE Parsed(q)'
      <4>1. q \in Obj /\ Parsed(q)
        BY <3>1, <3>2, <3>3, <3>5, WholeTree
      <4>2. QED BY <4>1, ParsedFacts DEF Parsed
    <3>6. QED BY <3>1, <3>2, <3>4, <3>5, WholeTree
  <2>4. QED BY <2>2, <2>3
<1>2. ASSUME NEW l \in 1 .. Len(stack')
      PROVE  /\ Listed(stack[l].items)' = UNION {Tree(q)' : q \in Reached(l)'}
             /\ \A q \in Reached(l)' : Parsed(q)'
  <2>1. ASSUME l \in 1 .. Len(stack), stack'[l].src = stack[l].src,
               stack'[l].next = stack[l].next, stack'[l].items = stack[l].items
        PROVE  /\ Listed(stack[l].items)' = UNION {Tree(q)' : q \in Reached(l)'}
               /\ \A q \in Reached(l)' : Parsed(q)'
    BY <1>2, <2>1, FrameStays
  <2>2. CASE Continues \/ Stays
    BY <1>2, <2>1, <2>2 DEF Continues, Stays
  <2>3. ASSUME NEW o \in Obj, Starts(o), l = Len(stack) + 1, stack'[l] = NewFrame(o)
        PROVE  /\ Listed(stack[l].items)' = UNION {Tree(q)' : q \in Reached(l)'}
               /\ \A q \in Reached(l)' : Parsed(q)'
    <3>1. stack'[l].next = 0 /\ stack'[l].items = <<>>
      BY <2>3 DEF NewFrame
    <3>2. Reached(l)' = {}
      <4>1. Reached(l)' = {sources'[stack'[l].src].imports[i] : i \in 1 .. 0}
        BY <3>1 DEF Reached, ImportsOf
      <4>2. 1 .. 0 = {}
        OBVIOUS
      <4>3. QED BY <4>1, <4>2
    <3>3. Listed(stack[l].items)' = {}
      BY <3>1 DEF Listed
    <3>4. QED BY <3>2, <3>3
  <2>4. CASE \E o \in Obj : Starts(o)
    BY <1>2, <2>1, <2>3, <2>4, StartsFrames
  <2>5. CASE Abandons
    BY <1>2, <2>5 DEF Abandons
  <2>6. ASSUME Completes, l \in 1 .. Len(stack), l + 1 = Len(stack),
               stack'[l].src = stack[l].src, stack'[l].next = stack[l].next + 1,
               stack'[l].items = stack[l].items \o Append(Top.items, Top.src)
        PROVE  /\ Listed(stack[l].items)' = UNION {Tree(q)' : q \in Reached(l)'}
               /\ \A q \in Reached(l)' : Parsed(q)'
    <3>1. PICK o \in Obj : o = stack[l].src
      BY <2>6, FrameFacts
    <3>2. PICK n \in Nat : n = stack[l].next
      BY <2>6, FrameFacts
    <3>3. PICK t \in Obj : t = Top.src
      BY <2>6, WholeTree
    <3>4. ImportsOf(o)[n + 1] = t
      <4>1. l < Len(stack) /\ stack[l + 1] = Top
        BY <2>6 DEF Top
      <4>2. QED BY <4>1, <2>6, <3>1, <3>2, <3>3, FrameFacts
    <3>5. /\ Obj' = Obj /\ sources'[o].imports = ImportsOf(o)
          /\ sources'[t].parsedMod # NIL
      BY <2>6, <3>1, <3>3, ReturnEffect, ReturnedItems DEF Completes, ImportsOf
    <3>6. Reached(l) = {ImportsOf(o)[i] : i \in 1 .. n}
      BY <3>1, <3>2 DEF Reached
    <3>7. Reached(l)' = Reached(l) \cup {t}
      <4>1. Reached(l)' = {sources'[o].imports[i] : i \in 1 .. n + 1}
        BY <2>6, <3>1, <3>2 DEF Reached, ImportsOf
      <4>2. 1 .. n + 1 = (1 .. n) \cup {n + 1}
        OBVIOUS
      <4>3. Reached(l)' = {ImportsOf(o)[i] : i \in (1 .. n) \cup {n + 1}}
        BY <4>1, <4>2, <3>5
      <4>4. QED BY <4>3, <3>4, <3>6
    <3>8. ASSUME NEW q \in Reached(l)' PROVE q \in Obj /\ Tree(q)' = Tree(q) /\ Parsed(q)'
      <4>1. q \in Obj /\ (q = t \/ Parsed(q))
        BY <3>7, <3>8, <2>6, ReachedFacts
      <4>2. \A x \in Obj : sources'[x].parent = sources[x].parent
        BY DEF Grown
      <4>3. Tree(q)' = Tree(q)
        BY <4>1, <4>2, <3>5, TreeStays
      <4>4. Parsed(q)'
        BY <4>1, <3>5, ParsedFacts DEF Parsed
      <4>5. QED BY <4>1, <4>3, <4>4
    <3>9. Listed(stack[l].items)' = Listed(stack[l].items) \cup Tree(t)
      <4>1. stack[l].items \in Seq(Nat) /\ Append(Top.items, Top.src) \in Seq(Nat)
        <5>1. stack # <<>> /\ Returns
          BY <2>6 DEF Completes
        <5>2. stack[l].items \in Seq(Nat)
          BY <2>6, FrameFacts
        <5>3. QED BY <5>1, <5>2, ReturnedItems
      <4>2. Listed(stack[l].items \o Append(Top.items, Top.src))
              = Listed(stack[l].items) \cup Listed(Append(Top.items, Top.src))
        <5>1. PICK a \in Seq(Nat) : a = stack[l].items
          BY <4>1
        <5>2. PICK b \in Seq(Nat) : b = Append(Top.items, Top.src)
          BY <4>1
        <5>3. Listed(a \o b) = Listed(a) \cup Listed(b)
          BY ListedConcat
        <5>4. QED BY <5>1, <5>2, <5>3
      <4>3. Listed(Append(Top.items, Top.src)) = Tree(t)
        BY <2>6, <3>3, WholeTree
      <4>4. Listed(stack[l].items)' = Listed(stack[l].items \o Append(Top.items, Top.src))
        BY <2>6 DEF Listed
      <4>5. QED BY <4>2, <4>3, <4>4
    <3>10. Listed(stack[l].items) = UNION {Tree(q) : q \in Reached(l)}
      BY <2>6, ReachedFacts
    <3>11. UNION {Tree(q)' : q \in Reached(l)'} = UNION {Tree(q) : q \in Reached(l) \cup {t}}
      BY <3>7, <3>8
    <3>12. QED BY <3>8, <3>9, <3>10, <3>11
  <2>7. CASE Completes
    BY <1>2, <2>1, <2>6, <2>7, CompletesFrames
  <2>8. QED BY <2>2, <2>4, <2>5, <2>7 DEF Moves
<1>3. QED
  <2>1. \A o \in Obj' : Parsed(o)' =>
          /\ Listed(sources'[o].parsedMod) = Tree(o)'
          /\ \A q \in Obj' : sources'[q].parent = o => Parsed(q)'
    BY <1>1
  <2>2. \A l \in 1 .. Len(stack') :
          /\ Listed(stack[l].items)' = UNION {Tree(q)' : q \in Reached(l)'}
          /\ \A q \in Reached(l)' : Parsed(q)'
    BY <1>2
  <2>3. QED BY <2>1, <2>2 DEF Assembled, Reached
-----------------------------------------------------------------------------
(***************************************************************************)
(* The invariant and what follows from it.                                 *)
(***************************************************************************)

\* In the beginning nothing is loaded.
LEMMA LoadInit == Init => LoadInv
<1> SUFFICES ASSUME Init PROVE LoadInv
  OBVIOUS
<1>1. /\ sources = <<>> /\ stack = <<>> /\ climb = NIL /\ dirs = <<>> /\ thrown = NIL
  BY DEF Init, ImportsInit
<1>2. Obj = {} /\ 1 .. Len(stack) = {}
  BY <1>1 DEF Obj
<1>3. Search /\ DirectoryRead
  BY <1>1, ThrownFacts DEF Search, DirectoryRead
<1>4. StatementsRead /\ NamedByImporter /\ DeepOnesUnused /\ Assembled
  BY <1>2 DEF StatementsRead, NamedByImporter, DeepOnesUnused, Assembled
<1>5. QED BY <1>3, <1>4 DEF LoadInv

\* Every step keeps the invariant.
LEMMA LoadNext == IInv /\ LoadInv /\ [Next]_vars => LoadInv'
<1> SUFFICES ASSUME IInv, LoadInv, [Next]_vars PROVE LoadInv'
  OBVIOUS
<1>1. IInv' /\ Grown /\ Moves /\ Search' /\ DirectoryRead'
  BY NextInv, EveryStep DEF Loads
<1>2. StatementsRead' /\ NamedByImporter'
  BY <1>1, StatementsStay, NamedStays
<1>3. DeepOnesUnused' /\ Assembled'
  BY <1>1, DeepStays, AssembledStays
<1>4. QED BY <1>1, <1>2, <1>3 DEF LoadInv

\* What is loaded at each moment, for every file tree, program, command line
\* and depth limit.
THEOREM LoadingInvariantHolds == Spec => []LoadInv
BY LoadInit, LoadNext, Invariant, PTL DEF Spec

\* The search for an import fails only when there is nothing to find.
THEOREM FailedSearchIsReal == Spec => []CannotOpenIsReal
<1>1. IInv /\ LoadInv => CannotOpenIsReal
  <2> SUFFICES ASSUME IInv, LoadInv, thrown = "cannot_open_file"
               PROVE  /\ ~PlainAt[Here][Named]
                      /\ Targets(Here, Named) = {} /\ Directories(Here, Named) = {}
                      /\ FoundAbove(Here, Named) = {}
    BY DEF CannotOpenIsReal
  <2>1. Absent(Here, Named) /\ Hits(Here, Named) = {}
    BY DEF LoadInv, Search
  <2>2. /\ ~PlainAt[Here][Named] /\ FoundAbove(Here, Named) = {}
        /\ Directories(Here, Named) = {} /\ Beside(Here, Named) = {}
    BY <2>1 DEF Absent, FoundAbove, Directories, Beside
  <2>3. QED BY <2>2 DEF Targets
<1>2. QED BY <1>1, Invariant, LoadingInvariantHolds, PTL

\* A file beyond the depth limit is parsed only if it came with a directory.
THEOREM DepthIsLimited == Spec => []DepthLimited
<1>1. IInv /\ LoadInv => DepthLimited
  BY DEF LoadInv, DeepOnesUnused, DepthLimited, TooDeep, Parsed
<1>2. QED BY <1>1, Invariant, LoadingInvariantHolds, PTL

\* A parsed input has the items of every file its imports lead to, and of no
\* other, but for those loaded on behalf of other inputs.
THEOREM LoadingIsComplete == Spec => []Complete
<1>1. ASSUME IInv, LoadInv PROVE Complete
  <2> SUFFICES ASSUME NEW i \in 1 .. Len(inputs), Parsed(inputs[i])
               PROVE  {sources[o].path : o \in Listed(sources[inputs[i]].parsedMod)}
                        = ReachFrom(sources[inputs[i]].path,
                                    {sources[o].path : o \in Obj \ Tree(inputs[i])})
    BY DEF Complete, Parsed
  <2>1. PICK r \in Obj : r = inputs[i] /\ sources[r].parent = 0
    BY <1>1 DEF IInv, InputsAreRoots
  <2>2. PICK T : T = Tree(r)
    OBVIOUS
  <2>3. /\ Listed(sources[r].parsedMod) = T /\ T \subseteq Obj /\ r \in T
        /\ T \subseteq {x \in Obj : Parsed(x)}
        /\ \A q \in Obj : sources[q].parent \in T => q \in T
    BY <1>1, <2>1, <2>2, ParsedTrees, TreeFacts DEF LoadInv, Assembled
  <2>4. PICK foreign : foreign = {sources[o].path : o \in Obj \ T}
    OBVIOUS
  <2>5. PICK P : P = {sources[o].path : o \in T}
    OBVIOUS
  <2>6. PICK N : N = [x \in Path |-> ImportedBy[x] \ foreign]
    OBVIOUS
  <2>7. PICK pr \in Path : pr = sources[r].path
    BY <1>1, ObjFacts
  <2>8. Within(Path, {pr}, N)
    <3>1. ASSUME NEW x \in Path PROVE ImportedBy[x] \subseteq Path
      <4>1. FolderOf[x] \in Folder
        BY TreeAssumption
      <4>2. \A n \in Name : TargetsOf[x][n] \subseteq Path
        BY <4>1, TargetFacts DEF TargetsOf
      <4>3. QED BY <4>2 DEF ImportedBy
    <3>2. QED BY <3>1, <2>6 DEF Within
  <2>9. PICK R : R = Least(Path, {pr}, N)
    OBVIOUS
  <2>10. {pr} \subseteq R /\ R \subseteq Path /\ \A y \in R : N[y] \subseteq R
    <3>1. LET L == Least(Path, {pr}, N) IN
          {pr} \subseteq L /\ L \subseteq Path /\ \A y \in L : N[y] \subseteq L
      BY <2>8, LeastClosed
    <3>2. QED BY <3>1, <2>9
  <2>11. P \subseteq R
    <3>1. PICK C : C = {o \in T : sources[o].path \in R}
      OBVIOUS
    <3>2. r \in C
      BY <2>3, <2>7, <2>10, <3>1
    <3>3. ASSUME NEW q \in Obj, sources[q].parent \in C PROVE q \in C
      <4>1. PICK p \in T : p = sources[q].parent /\ sources[p].path \in R
        BY <3>1, <3>3
      <4>2. q \in T /\ sources[q].parent # 0
        BY <4>1, <2>3, ParentFacts DEF Obj
      <4>3. sources[q].path \in ImportedBy[sources[p].path]
        BY <4>1, <4>2, <1>1 DEF LoadInv, NamedByImporter
      <4>4. sources[q].path \notin foreign
        <5>1. SUFFICES ASSUME NEW o \in Obj \ T, sources[o].path = sources[q].path PROVE FALSE
          BY <2>4
        <5>2. o # q
          BY <4>2
        <5>3. QED BY <5>1, <5>2, <4>2, <1>1 DEF IInv, OneObjectPerFile
      <4>5. sources[q].path \in N[sources[p].path] /\ sources[p].path \in R
        BY <4>1, <4>3, <4>4, <2>6, <2>10
      <4>6. sources[q].path \in R
        BY <4>5, <2>10
      <4>7. QED BY <4>2, <4>6, <3>1
    <3>4. T \subseteq C
      BY <2>2, <3>2, <3>3, TreeInduction
    <3>5. QED BY <3>1, <3>4, <2>5
  <2>12. R \subseteq P
    <3>1. pr \in P
      BY <2>3, <2>5, <2>7
    <3>2. ASSUME NEW y \in R, y \in P, NEW t \in N[y] PROVE t \in P
      <4>1. PICK o \in T : y = sources[o].path
        BY <3>2, <2>5
      <4>2. Registered(o, Len(program[y].imports))
        BY <4>1, <2>3, <1>1 DEF LoadInv, StatementsRead
      <4>3. y \in Path /\ t \in ImportedBy[y] /\ t \notin foreign /\ t \in Path
        BY <3>2, <2>6, <2>10
      <4>4. PICK j \in 1 .. Len(program[y].imports) :
              program[y].imports[j] \in Name /\ t \in TargetsOf[y][program[y].imports[j]]
        BY <4>3 DEF ImportedBy
      <4>5. t \in Targets(FolderOf[y], program[y].imports[j])
        BY <4>3, <4>4 DEF TargetsOf
      <4>6. Known(t)
        BY <4>1, <4>2, <4>4, <4>5 DEF Registered
      <4>7. allSources[t] \in Obj /\ sources[allSources[t]].path = t
        BY <4>3, <4>6, <1>1 DEF IInv, Forest, Known
      <4>8. allSources[t] \in T
        BY <4>3, <4>7, <2>4
      <4>9. QED BY <4>7, <4>8, <2>5
    <3>3. Least(Path, {pr}, N) \subseteq P
      <4>1. {pr} \subseteq P /\ \A y \in Least(Path, {pr}, N) : y \in P => N[y] \subseteq P
        BY <3>1, <3>2, <2>9
      <4>2. QED BY <4>1, <2>8, LeastInduction
    <3>4. QED BY <3>3, <2>9
  <2>13. ReachFrom(pr, foreign) = R
    BY <2>6, <2>9 DEF ReachFrom
  <2>14. QED BY <2>1, <2>2, <2>3, <2>4, <2>5, <2>7, <2>11, <2>12, <2>13
<1>2. QED BY <1>1, Invariant, LoadingInvariantHolds, PTL
=============================================================================
