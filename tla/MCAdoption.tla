----------------------------- MODULE MCAdoption -----------------------------
(* Adoption on a few UUIDs.                                                *)
EXTENDS Adoption, TLC

\* UUIDs are interchangeable (safety runs only).
Symmetric == Permutations(Uuids)
=============================================================================
