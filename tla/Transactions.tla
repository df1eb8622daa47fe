---------------------------- MODULE Transactions ----------------------------
(***************************************************************************)
(* The transaction state machine of internal/transactions: the statuses of *)
(* a transaction, the table of legal moves, and the planner's safe-first   *)
(* ordering of actions.                                                    *)
(***************************************************************************)
EXTENDS Sequences

TxnStatus ==
  {"CREATED", "PLANNING", "AWAITING_APPROVAL", "EXECUTING", "COMMITTED",
   "ABORTING", "COMPENSATING", "ROLLED_BACK", "PARTIALLY_COMPENSATED",
   "FAILED"}

Terminal == {"COMMITTED", "ROLLED_BACK", "PARTIALLY_COMPENSATED", "FAILED"}

\* The rows of the map `allowed`; the statuses without a row are the terminal ones.
allowed ==
  [s \in TxnStatus |->
     CASE s = "CREATED"           -> {"PLANNING", "ABORTING", "FAILED"}
       [] s = "PLANNING"          -> {"EXECUTING", "AWAITING_APPROVAL",
                                      "ABORTING", "FAILED"}
       [] s = "AWAITING_APPROVAL" -> {"EXECUTING", "ABORTING", "FAILED"}
       [] s = "EXECUTING"         -> {"COMMITTED", "AWAITING_APPROVAL",
                                      "ABORTING", "COMPENSATING", "FAILED"}
       [] s = "ABORTING"          -> {"COMPENSATING", "ROLLED_BACK", "FAILED"}
       [] s = "COMPENSATING"      -> {"ROLLED_BACK", "PARTIALLY_COMPENSATED",
                                      "FAILED"}
       [] OTHER                   -> {}]

CanTransition(from, to) ==
  \/ from = to
  \/ from \notin Terminal /\ to \in allowed[from]

\* The status a transaction record carries after MustTransition(t, to): on an
\* error the record keeps the status it had.
MustTransition(from, to) == IF CanTransition(from, to) THEN to ELSE from
=============================================================================
