------------------------------ MODULE Linkage ------------------------------
(***************************************************************************)
(* What referring promises (zz_generated.resolvers.go): one managed        *)
(* resource, the identities that the objects it refers to have had, those  *)
(* it has written down, and the object it makes in ClickHouse.  Places,    *)
(* merges, copies, CRDs and restarts are not visible here: References      *)
(* implements this.                                                        *)
(***************************************************************************)
EXTENDS Naturals

VARIABLES
  fields, \* the fields that refer
  always, \* they follow their objects
  lives,  \* by field, how many identities its object has had
  record, \* by field, the identity that is written down, 0 for none
  made,   \* whether the object is there, and what it was made with
  phase   \* of the MR: "live", "deleted" or "gone"
vars == <<fields, always, lives, record, made, phase>>

Blank == [f \in fields |-> 0]

Init ==
  /\ always \in BOOLEAN /\ lives = [f \in fields |-> 1] /\ record = Blank
  /\ made = [there |-> FALSE, params |-> Blank] /\ phase = "live"

\* An object referred to is re-created under another identity.
Renew(f) ==
  /\ lives' = [lives EXCEPT ![f] = @ + 1]
  /\ UNCHANGED <<fields, always, record, made, phase>>

\* All identities are written down at once, and for good without "always".
Link ==
  /\ phase = "live" /\ (always \/ record = Blank)
  /\ record' \in [fields -> Nat]
  /\ \A f \in fields : record'[f] \in 1..lives[f]
  /\ UNCHANGED <<fields, always, lives, made, phase>>

\* The object is made of what is written down, and once.
Make ==
  /\ phase = "live" /\ ~made.there
  /\ \A f \in fields : record[f] \in 1..lives[f]
  /\ made' = [there |-> TRUE, params |-> record]
  /\ UNCHANGED <<fields, always, lives, record, phase>>

\* An MR that has made its object goes with it; another may go at once.
Delete ==
  /\ phase = "live" /\ phase' \in {"deleted"} \cup (IF made.there THEN {} ELSE {"gone"})
  /\ UNCHANGED <<fields, always, lives, record, made>>

Finish ==
  /\ phase = "deleted" /\ phase' = "gone"
  /\ made' = [there |-> FALSE, params |-> Blank]
  /\ UNCHANGED <<fields, always, lives, record>>

Next == (\E f \in fields : Renew(f)) \/ Link \/ Make \/ Delete \/ Finish

Spec == Init /\ [][Next]_vars
=============================================================================
