--------------------------- MODULE LexicalScoping ---------------------------
(***************************************************************************)
(* The abstract specification of name resolution: every name gets the      *)
(* declaration it means, if it means one, in any order, or the analysis is *)
(* given up because of some name or break.                                 *)
(***************************************************************************)
EXTENDS NameMeaning

VARIABLES
  meaning,   \* of each name: its declaration, 0 (none so far), or a BuiltinCode
  givenUp,   \* why the analysis has been given up, or NIL
  finished   \* the analysis has succeeded

lexicalVars == <<program, meaning, givenUp, finished>>

Init ==
  /\ program \in Program
  /\ meaning = [n \in Node |-> 0]
  /\ givenUp = NIL
  /\ finished = FALSE

\* A name gets its meaning, if it means one thing.
Resolve(n) ==
  /\ givenUp = NIL
  /\ IsName(n) /\ meaning[n] = 0 /\ n \in Analysed
  /\ Cardinality(Meaning(n).ds) = 1
  /\ meaning' = [meaning EXCEPT ![n] = CHOOSE d \in Meaning(n).ds : TRUE]
  /\ UNCHANGED <<program, givenUp, finished>>

GiveUp(n) ==
  /\ givenUp = NIL
  /\ Is(n, {"Symbol", "TypeName", "Break"}) /\ n \in Analysed /\ Offence(n) # NIL
  /\ givenUp' = Offence(n)
  /\ UNCHANGED <<program, meaning, finished>>

\* The analysis succeeds when no name is left and there is no offence.
Finish ==
  /\ ~finished /\ givenUp = NIL
  /\ finished' = TRUE
  /\ \A n \in Analysed : /\ Offence(n) = NIL
                        /\ IsName(n) /\ meaning[n] = 0
                             => Cardinality(Meaning(n).ds) # 1
  /\ UNCHANGED <<program, meaning, givenUp>>

Next ==
  \/ Finish
  \/ \E n \in Node : Resolve(n) \/ GiveUp(n)

Spec == Init /\ [][Next]_lexicalVars
=============================================================================
