------------------------------ MODULE MCGrants ------------------------------
(* Grants with the constants of the .cfg files.                             *)
EXTENDS Grants
=============================================================================
