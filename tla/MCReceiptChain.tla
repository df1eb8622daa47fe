--------------------------- MODULE MCReceiptChain ---------------------------
(* Instances of ReceiptChain for TLC. *)
EXTENDS ReceiptChain, TLC

Symmetry ==
  Permutations(Orgs) \cup Permutations(Writers) \cup Permutations(Payloads)
=============================================================================
