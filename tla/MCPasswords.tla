----------------------------- MODULE MCPasswords -----------------------------
(* Passwords with a few users, which the .cfg files give.                   *)
EXTENDS Passwords
==============================================================================
