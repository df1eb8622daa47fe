------------------------------ MODULE Lifecycle ------------------------------
(***************************************************************************)
(* What the gateway promises about one action, whatever the store, the     *)
(* handlers and the interleaving: it is decided once, sent to its tool at  *)
(* most once and only when allowed or approved, settled once, and attested *)
(* by one receipt.                                                         *)
(***************************************************************************)
EXTENDS Naturals

CONSTANT Actions

VARIABLES status, calls, receipts

vars == <<status, calls, receipts>>

Init ==
  /\ status = [a \in Actions |-> "absent"]
  /\ calls = [a \in Actions |-> 0]
  /\ receipts = [a \in Actions |-> 0]

Move(a, from, to) ==
  /\ status[a] \in from
  /\ \E s \in to : status' = [status EXCEPT ![a] = s]
  /\ UNCHANGED <<calls, receipts>>

Propose(a) == Move(a, {"absent"}, {"proposed"})

Decide(a) == Move(a, {"proposed"}, {"allowed", "awaiting_approval", "denied"})

Grant(a) == Move(a, {"awaiting_approval"}, {"approved"})

Dispatch(a) ==
  /\ status[a] \in {"allowed", "approved"}
  /\ calls[a] = 0
  /\ calls' = [calls EXCEPT ![a] = 1]
  /\ UNCHANGED <<status, receipts>>

Settle(a) ==
  /\ calls[a] = 1
  /\ Move(a, {"allowed", "approved"}, {"executed", "failed", "unknown"})

Reconcile(a) == Move(a, {"unknown"}, {"executed", "failed"})

Attest(a) ==
  /\ status[a] = "executed"
  /\ receipts[a] = 0
  /\ receipts' = [receipts EXCEPT ![a] = 1]
  /\ UNCHANGED <<status, calls>>

Step(a) ==
  \/ Propose(a) \/ Decide(a) \/ Grant(a) \/ Dispatch(a)
  \/ Settle(a) \/ Reconcile(a) \/ Attest(a)

Next == \E a \in Actions : Step(a)

Spec == Init /\ [][Next]_vars
=============================================================================
