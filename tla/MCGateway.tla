------------------------------ MODULE MCGateway ------------------------------
(* Instances of Gateway for TLC. *)
EXTENDS Gateway, TLC

\* Every action asks for something different of its provider.
DistinctPayload == [a \in Actions |-> a]

\* Every action asks for the same refund.
SamePayload == [a \in Actions |-> "refund"]

RequestSymmetry == Permutations(Requests)

Symmetry == Permutations(Requests) \cup Permutations(Keys)
=============================================================================
