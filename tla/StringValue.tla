----------------------------- MODULE StringValue -----------------------------
(***************************************************************************)
(* Strings as values: what fire::string promises.  A string is a sequence  *)
(* of characters; a call that appends to one takes its time, and nothing   *)
(* that is done to one string changes another.                             *)
(***************************************************************************)
EXTENDS Sequences

CONSTANTS Str, Texts, NIL

VARIABLES
  value,   \* of each string its characters, or NIL
  target,  \* the string that is being appended to, or NIL
  text,    \* what is to be appended
  fresh    \* the call makes that string

valueVars == <<value, target, text, fresh>>

Init ==
  /\ value = [s \in Str |-> NIL]
  /\ target = NIL /\ text = <<>> /\ fresh = FALSE

Exists(s) == value[s] # NIL
Idle      == target = NIL

Make(s, v) ==
  /\ Idle /\ ~Exists(s)
  /\ value' = [value EXCEPT ![s] = v]
  /\ UNCHANGED <<target, text, fresh>>

Drop(s) ==
  /\ Idle /\ Exists(s)
  /\ value' = [value EXCEPT ![s] = NIL]
  /\ UNCHANGED <<target, text, fresh>>

\* A new string is the copy of s, or takes its characters away.
Copy(s, t) == Exists(s) /\ Make(t, value[s])

Take(s, t) ==
  /\ Idle /\ Exists(s) /\ ~Exists(t)
  /\ value' = [value EXCEPT ![t] = value[s], ![s] = <<>>]
  /\ UNCHANGED <<target, text, fresh>>

\* A call that appends v to s begins; s may be new.
Begin(s, v) ==
  /\ Idle
  /\ target' = s /\ text' = v /\ fresh' = ~Exists(s)
  /\ value' = IF Exists(s) THEN value ELSE [value EXCEPT ![s] = <<>>]

\* It ends, or is given up: then the string is what it was, or was never made.
Stop == target' = NIL /\ text' = <<>> /\ fresh' = FALSE

End ==
  /\ ~Idle /\ Stop
  /\ value' = [value EXCEPT ![target] = @ \o text]

GiveUp ==
  /\ ~Idle /\ Stop
  /\ value' = IF fresh THEN [value EXCEPT ![target] = NIL] ELSE value

Next ==
  \/ End
  \/ GiveUp
  \/ \E s \in Str :
       \/ Drop(s)
       \/ \E v \in Texts : Make(s, v) \/ Begin(s, v)
       \/ Make(s, <<>>)
       \/ \E o \in Str : Copy(s, o) \/ Take(s, o) \/ (Exists(o) /\ Begin(s, value[o]))

Spec == Init /\ [][Next]_valueVars
=============================================================================
