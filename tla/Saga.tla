-------------------------------- MODULE Saga --------------------------------
(***************************************************************************)
(* CompensateTransaction beside the request handlers of Gateway.  It lists *)
(* the actions of a transaction once and then works through its copies,    *)
(* one store or compensator call per step, while handlers go on changing   *)
(* the rows.  One compensation runs at a time.  Nothing in the service     *)
(* calls it yet (its only caller is a test), so it may start on any        *)
(* transaction at any time.                                                *)
(***************************************************************************)
EXTENDS Gateway, Sequences, FiniteSets, Functions

CONSTANTS
  Irreversible,   \* keys of actions classed IRREVERSIBLE or DESTRUCTIVE
  Compensable,    \* keys of actions classed COMPENSABLE or REVERSIBLE
  Compensators,   \* keys of actions whose tool has a compensator
  MaxSagas        \* bound: compensations started

ASSUME SagaAssumption ==
  /\ Irreversible \subseteq Keys /\ Compensable \subseteq Keys
  /\ Compensators \subseteq Keys
  /\ MaxSagas \in Nat

VARIABLES
  created,   \* the actions in the order of their created_at
  spc,       \* next call of the compensation
  subject,   \* the transaction it is about
  queue,     \* the executed actions it has still to visit
  failed,    \* some visited action could not be undone
  undoing,   \* what the last compensator call returned
  sagas,     \* compensations started
  undone,    \* actions whose compensator this compensation has called, in order
  late,      \* actions recorded as executed after the listing
  lapsed     \* the listing failed, or the status of an action it undid was lost

sagaLocals == <<subject, queue, failed, undoing>>
sagaVars == <<created, spc, sagaLocals, sagas, undone, late, lapsed>>
allVars == <<vars, sagaVars>>

SagaInit ==
  /\ Init
  /\ created = <<>> /\ spc = "idle"
  /\ subject = None /\ queue = <<>> /\ failed = FALSE /\ undoing = FALSE
  /\ sagas = 0 /\ undone = <<>> /\ late = {} /\ lapsed = FALSE

-----------------------------------------------------------------------------
(* What the registry knows of an action. *)

IsIrreversible(a) == KeyOf(a) \in Irreversible

IsCompensable(a) == KeyOf(a) \in Compensable

\* Registry.Compensate: a missing compensator is an error.  Every registered one is a
\* stub that succeeds and does nothing.
Compensate(a) == KeyOf(a) \in Compensators

-----------------------------------------------------------------------------
(* CompensateTransaction. *)

\* a was created before b.
Earlier(a, b) == \E k, l \in DOMAIN created : k < l /\ created[k] = a /\ created[l] = b

\* The rows the loop does not pass over; it looks at the copies ActionsForTxn returned.
Executed(t) == {a \in ActionsForTxn(t) : act[a].status = "executed"}

\* ActionsForTxn, of those rows: PGStore sorts by created_at (seq is never assigned),
\* MemoryStore walks a Go map.
Listings(t) ==
  {s \in Bijection(1 .. Cardinality(Executed(t)), Executed(t)) :
     Backend = "postgres" => \A i, j \in DOMAIN s : i < j => Earlier(s[i], s[j])}

Reversed(s) == [i \in 1 .. Len(s) |-> s[Len(s) + 1 - i]]

\* Mutant: the listing is not turned round.
SagaStartInOrder(t) ==
  /\ spc = "idle" /\ sagas < MaxSagas
  /\ GetTxn(t) # "absent"
  /\ Query((\E rows \in Listings(t) : queue' = rows) /\ lapsed' = FALSE,
           queue' = <<>> /\ lapsed' = TRUE)
  /\ spc' = "mark" /\ subject' = t /\ sagas' = sagas + 1
  /\ failed' = FALSE /\ undone' = <<>> /\ late' = {}
  /\ UNCHANGED <<storeVars, toolVars, reqVars, crashes, created, undoing>>

\* GetTxn and ActionsForTxn, reversed.  The status GetTxn returns is not looked at; a
\* query for the actions that fails lists none.
SagaStart(t) ==
  /\ spc = "idle" /\ sagas < MaxSagas
  /\ GetTxn(t) # "absent"
  /\ Query((\E rows \in Listings(t) : queue' = Reversed(rows)) /\ lapsed' = FALSE,
           queue' = <<>> /\ lapsed' = TRUE)
  /\ spc' = "mark" /\ subject' = t /\ sagas' = sagas + 1
  /\ failed' = FALSE /\ undone' = <<>> /\ late' = {}
  /\ UNCHANGED <<storeVars, toolVars, reqVars, crashes, created, undoing>>

SagaMark ==
  /\ spc = "mark"
  /\ Exec(SetTxnStatus(subject, "COMPENSATING"))
  /\ spc' = "visit"
  /\ UNCHANGED <<toolVars, reqVars, crashes, created, sagaLocals, sagas, undone, late, lapsed>>

\* Mutant: what cannot be undone is passed over in silence.
SagaSkipSilently ==
  /\ spc = "visit" /\ queue # <<>>
  /\ IsIrreversible(Head(queue)) /\ ~IsCompensable(Head(queue))
  /\ queue' = Tail(queue)
  /\ UNCHANGED <<vars, created, spc, subject, failed, undoing, sagas, undone, late, lapsed>>

\* An irreversible action is left alone and makes the result partial.
SagaSkip ==
  /\ spc = "visit" /\ queue # <<>>
  /\ IsIrreversible(Head(queue)) /\ ~IsCompensable(Head(queue))
  /\ failed' = TRUE
  /\ queue' = Tail(queue)
  /\ UNCHANGED <<vars, created, spc, subject, undoing, sagas, undone, late, lapsed>>

SagaUndo ==
  /\ spc = "visit" /\ queue # <<>>
  /\ ~IsIrreversible(Head(queue)) \/ IsCompensable(Head(queue))
  /\ undoing' = Compensate(Head(queue))
  /\ undone' = Append(undone, Head(queue))
  /\ spc' = "note"
  /\ UNCHANGED <<vars, created, subject, queue, failed, sagas, late, lapsed>>

\* GetAction and UpdateAction.  (Of the row read only the status is changed; the
\* decision no longer changes once the action was executed.)
SagaNote ==
  LET w == WithStatus(GetAction(Head(queue)),
                      IF undoing THEN "compensated" ELSE "compensation_failed")
  IN  /\ spc = "note"
      /\ Query(UpdateAction(Head(queue), w) /\ UNCHANGED lapsed,
               UNCHANGED storeVars /\ lapsed' = TRUE)
      /\ failed' = (failed \/ ~undoing)
      /\ queue' = Tail(queue)
      /\ spc' = "visit"
      /\ UNCHANGED <<toolVars, reqVars, crashes, created, subject, undoing, sagas, undone,
                     late>>

\* An action that cannot be read back is a nil pointer: the compensation panics.
SagaPanic ==
  /\ spc = "note"
  /\ Fault
  /\ spc' = "idle" /\ subject' = None
  /\ UNCHANGED <<storeVars, toolVars, reqVars, crashes, created, queue, failed, undoing,
                 sagas, undone, late, lapsed>>

SagaClose ==
  /\ spc = "visit" /\ queue = <<>>
  /\ Exec(SetTxnStatus(subject, IF failed THEN "PARTIALLY_COMPENSATED" ELSE "ROLLED_BACK"))
  /\ spc' = "idle" /\ subject' = None
  /\ UNCHANGED <<toolVars, reqVars, crashes, created, queue, failed, undoing, sagas,
                 undone, late, lapsed>>

-----------------------------------------------------------------------------
(* Beside the handlers. *)

Became(status) == {a \in Actions : act[a].status # status /\ act'[a].status = status}

\* A step of the gateway; AddAction stamps the rows it creates.
GatewayStep ==
  /\ Next
  /\ crashes' = crashes
  /\ created' = IF \E a \in Actions : act[a].status = "absent" /\ act'[a].status # "absent"
                THEN Append(created, CHOOSE a \in Actions : act[a].status = "absent"
                                                          /\ act'[a].status # "absent")
                ELSE created
  /\ late' = late \cup Became("executed")
  /\ UNCHANGED <<spc, sagaLocals, sagas, undone, lapsed>>

\* A crash ends the compensation too; nothing resumes it.
CrashAll ==
  /\ Crash
  /\ spc' = "idle" /\ subject' = None /\ queue' = <<>>
  /\ failed' = FALSE /\ undoing' = FALSE
  /\ UNCHANGED <<created, sagas, undone, late, lapsed>>

SagaNext ==
  \/ GatewayStep
  \/ CrashAll
  \/ \E t \in Txns : SagaStart(t)
  \/ SagaMark \/ SagaSkip \/ SagaUndo \/ SagaNote \/ SagaPanic \/ SagaClose

SagaSpec == SagaInit /\ [][SagaNext]_allVars

-----------------------------------------------------------------------------
(* Properties. *)

\* ROLLED_BACK means what it says (CompensateTransaction): no action recorded as
\* executed before the compensation listed them is still executed or failed to be
\* undone, unless the listing itself or the record of an undone action was lost.
RolledBackMeansUndone ==
  \A t \in Txns : txn[t] = "ROLLED_BACK" /\ ~lapsed =>
    \A a \in ActionsForTxn(t) \ late :
      act[a].status \notin {"executed", "compensation_failed"}

\* Compensators are called in the reverse of the order the actions were proposed in.
ReverseOrder ==
  \A i, j \in DOMAIN undone : i < j => Earlier(undone[j], undone[i])
=============================================================================
