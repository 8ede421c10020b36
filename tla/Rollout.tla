------------------------------ MODULE Rollout ------------------------------
(***************************************************************************)
(* What the password initializers promise (password_generator.go): a       *)
(* secret with a password and the hash of one, and users in ClickHouse     *)
(* that follow it.  Passwords are numbered in the order they come.         *)
(* Versions, caches, copies, references, operations and restarts are not   *)
(* visible here: Passwords implements this.                                *)
(***************************************************************************)
EXTENDS Naturals

CONSTANT Users

VARIABLES
  policy,  \* of each user's MR: "Observe", "Managed" or "none"
  latest,  \* the number of the latest password
  current, \* the password in the secret, 0 for none
  hashed,  \* the password whose hash is in the secret, 0 for none
  applied  \* the password each user has, 0 for none of these
vars == <<policy, latest, current, hashed, applied>>

Init ==
  /\ policy \in [Users -> {"Observe", "Managed", "none"}]
  /\ latest \in {0, 1} /\ current = latest /\ hashed = 0
  /\ applied = [u \in Users |-> 0]

\* The owner rotates the password; its hash follows.
Rotate ==
  /\ latest' = latest + 1 /\ current' = latest'
  /\ UNCHANGED <<policy, hashed, applied>>

\* A password is generated with its hash.
Generate ==
  /\ latest' = latest + 1 /\ current' = latest' /\ hashed' = latest'
  /\ UNCHANGED <<policy, applied>>

\* The hash is always that of the password that is there.
Offer ==
  /\ current # 0 /\ hashed' = current
  /\ UNCHANGED <<policy, latest, current, applied>>

\* Somebody deletes the hash, or the secret.
Withdraw ==
  /\ hashed' = 0 /\ current' \in {current, 0}
  /\ UNCHANGED <<policy, latest, applied>>

\* A managed user's password is replaced by a later one.
Apply(u) ==
  /\ policy[u] = "Managed"
  /\ \E p \in (applied[u] + 1)..latest : applied' = [applied EXCEPT ![u] = p]
  /\ UNCHANGED <<policy, latest, current, hashed>>

Manage(u) ==
  /\ policy[u] = "Observe" /\ policy' = [policy EXCEPT ![u] = "Managed"]
  /\ UNCHANGED <<latest, current, hashed, applied>>

Next ==
  \/ Rotate \/ Generate \/ Offer \/ Withdraw
  \/ \E u \in Users : Apply(u) \/ Manage(u)

Spec == Init /\ [][Next]_vars
=============================================================================
