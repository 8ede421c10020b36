----------------------------- MODULE Ownership -----------------------------
(***************************************************************************)
(* What adoption promises about one name in ClickHouse (docs/import.md):   *)
(* one managed resource, the row of that name, and the UUID the MR has     *)
(* recorded.  No reconcile, cache, conflict or restart is visible here:    *)
(* Adoption implements this without drift.                                 *)
(***************************************************************************)
CONSTANTS Uuids, \* the UUIDs ClickHouse can assign
          None   \* no row, no identity

VARIABLES
  phase,    \* of the MR: "live", "deleting" or "gone"
  observe,  \* the MR only observes
  identity, \* the UUID it has recorded, while it is live
  row,      \* the UUID of the row of that name
  origin    \* who made each UUID's row
vars == <<phase, observe, identity, row, origin>>

Init ==
  /\ phase = "live" /\ observe \in BOOLEAN
  /\ row \in Uuids \cup {None} /\ identity \in {None, row}
  /\ origin = [u \in Uuids |-> IF u = row THEN "initial" ELSE "free"]

Appear(by) ==
  /\ row = None
  /\ \E u \in Uuids : origin[u] = "free" /\ row' = u /\ origin' = [origin EXCEPT ![u] = by]
  /\ UNCHANGED <<phase, observe, identity>>

\* The MR makes the row, and knows it or has lost ClickHouse's answer.
Make == phase # "gone" /\ ~observe /\ (Appear("mr") \/ Appear("lost"))

Rival == Appear("rival")

\* Once, and only the UUID of the row that is there.
Record ==
  /\ phase = "live" /\ identity = None /\ row # None
  /\ identity' = row
  /\ UNCHANGED <<phase, observe, row, origin>>

\* A managed MR that was deleted drops the row of its name.  A stale cache may let
\* it do so once more when it has gone.
Drop ==
  /\ phase # "live" /\ ~observe /\ row # None /\ row' = None
  /\ UNCHANGED <<phase, observe, identity, origin>>

Manage ==
  /\ phase = "live" /\ observe /\ observe' = FALSE
  /\ UNCHANGED <<phase, identity, row, origin>>

Delete ==
  /\ phase = "live" /\ phase' = "deleting" /\ identity' = None
  /\ UNCHANGED <<observe, row, origin>>

\* Deleted before it was ever reconciled.
Forget ==
  /\ phase = "live" /\ (row # None => origin[row] \in {"initial", "rival"})
  /\ phase' = "gone" /\ identity' = None
  /\ UNCHANGED <<observe, row, origin>>

\* A managed MR goes when its row has: what is left is a rival's, or the row of a
\* CREATE whose answer was lost.
Finish ==
  /\ phase = "deleting" /\ (observe \/ row = None \/ origin[row] \in {"rival", "lost"})
  /\ phase' = "gone"
  /\ UNCHANGED <<observe, identity, row, origin>>

Next == Make \/ Rival \/ Record \/ Drop \/ Manage \/ Delete \/ Forget \/ Finish

Spec == Init /\ [][Next]_vars
=============================================================================
