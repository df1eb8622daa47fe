-------------------------------- MODULE Store --------------------------------
(***************************************************************************)
(* The rows of internal/store that the transaction gateway works on, and   *)
(* the store calls that read and write them.  Each call is one critical    *)
(* section of MemoryStore.mu (or one SQL statement of PGStore), so each is *)
(* one indivisible operator here; a handler is a sequence of such calls.   *)
(*                                                                         *)
(* One organization is modelled.  An action is named by the pair           *)
(* (transaction, idempotency key) under which the store files it, which is *)
(* what its unique constraint makes of the random row id.                  *)
(***************************************************************************)
EXTENDS Transactions, Naturals

CONSTANTS Txns, Keys

VARIABLES
  txn,        \* transaction -> status, or "absent" before CreateTxn
  act,        \* action -> its row: status and policy decision
  approval,   \* action -> status of its approval row, "absent" when none
  receipts    \* action -> number of receipts appended for it

storeVars == <<txn, act, approval, receipts>>

Actions == Txns \X Keys
TxnOf(a) == a[1]
KeyOf(a) == a[2]

ActionStatus ==
  {"proposed", "allowed", "awaiting_approval", "approved", "denied",
   "executed", "failed", "unknown", "compensated", "compensation_failed"}

\* ALLOW stands for ALLOW and ALLOW_WITH_CONSTRAINTS, which no handler tells apart.
Effect == {"ALLOW", "REQUIRE_APPROVAL", "DENY"}

ActionRow ==
  [status : ActionStatus \cup {"absent"}, decision : Effect \cup {"nil"}]

NoRow == [status |-> "absent", decision |-> "nil"]

StoreTypeOK ==
  /\ txn \in [Txns -> TxnStatus \cup {"absent"}]
  /\ act \in [Actions -> ActionRow]
  /\ approval \in [Actions -> {"absent", "pending", "approved", "denied"}]
  /\ receipts \in [Actions -> Nat]

StoreInit ==
  /\ txn = [t \in Txns |-> "absent"]
  /\ act = [a \in Actions |-> NoRow]
  /\ approval = [a \in Actions |-> "absent"]
  /\ receipts = [a \in Actions |-> 0]

-----------------------------------------------------------------------------
(* Reads: each returns a copy of the row. *)

GetTxn(t) == txn[t]

GetAction(a) == act[a]

ActionsForTxn(t) == {a \in Actions : TxnOf(a) = t /\ act[a].status # "absent"}

(* Writes. *)

CreateTxn(t, status) ==
  /\ txn[t] = "absent"
  /\ txn' = [txn EXCEPT ![t] = status]
  /\ UNCHANGED <<act, approval, receipts>>

\* No guard on the status the row has: the last writer wins.
SetTxnStatus(t, status) ==
  /\ txn' = [txn EXCEPT ![t] = status]
  /\ UNCHANGED <<act, approval, receipts>>

\* The key has a row already: the caller gets a copy of it.
AddActionReplay(a) == act[a].status # "absent" /\ UNCHANGED storeVars

AddActionFresh(a) ==
  /\ act[a].status = "absent"
  /\ act' = [act EXCEPT ![a] = [status |-> "proposed", decision |-> "nil"]]
  /\ UNCHANGED <<txn, approval, receipts>>

\* Overwrites the whole row with the caller's copy.
UpdateAction(a, row) ==
  /\ act' = [act EXCEPT ![a] = row]
  /\ UNCHANGED <<txn, approval, receipts>>

CreateApproval(a) ==
  /\ approval' = [approval EXCEPT ![a] = "pending"]
  /\ UNCHANGED <<txn, act, receipts>>

DecideApproval(a, approve) ==
  /\ approval[a] = "pending"
  /\ approval' = [approval EXCEPT ![a] = IF approve THEN "approved" ELSE "denied"]
  /\ UNCHANGED <<txn, act, receipts>>

AppendReceipt(a) ==
  /\ receipts' = [receipts EXCEPT ![a] = @ + 1]
  /\ UNCHANGED <<txn, act, approval>>
=============================================================================
