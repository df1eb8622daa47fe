------------------------------- MODULE MCSaga -------------------------------
(* Instances of Saga for TLC. *)
EXTENDS Saga, TLC

\* Every action asks for something different of its provider.
DistinctPayload == [a \in Actions |-> a]

\* Nobody decides approvals or reconciles here: an action that waits, was denied, failed
\* or is uncertain stays as it is and the compensation passes over it, so it is not
\* followed further.  One crash or one failed statement is.
Bound ==
  /\ crashes + faults <= 1
  /\ \A a \in Actions : /\ act[a].decision \in {"nil", "ALLOW"}
                        /\ act[a].status \notin {"failed", "unknown"}
=============================================================================
