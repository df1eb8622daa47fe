------------------------------ MODULE MCAccess ------------------------------
(* Access for TLC: key ids are interchangeable, and so are request slots. *)
EXTENDS Access, TLC

Symmetry == Permutations(Keys) \cup Permutations(Requests)
=============================================================================
