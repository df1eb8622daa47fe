------------------------------- MODULE Gateway -------------------------------
(***************************************************************************)
(* The transaction gateway: gateway.Service and the API handlers that call *)
(* it.  Every HTTP request runs in a goroutine of its own, so a request is *)
(* a process and each of its store or tool calls is one step; between two  *)
(* steps any other request may run.  What a request read earlier it keeps  *)
(* as a local copy, stale or not.                                          *)
(*                                                                         *)
(* A statement of PGStore may fail; the code drops most of these errors    *)
(* and goes on.  A request the code refuses, or gives up before its first  *)
(* write, changes nothing and is not a step.  The audit log is written by  *)
(* every handler and read by none; it is left out.                         *)
(***************************************************************************)
EXTENDS Tools

CONSTANTS
  Requests,    \* goroutines that may be serving a request at the same time
  Ops,         \* operations clients ask for
  Backend,     \* "memory" (MemoryStore) or "postgres" (PGStore)
  Exclusive,   \* TRUE: clients never have two requests about one action in flight
  MaxCrashes,  \* bound: process crashes (meaningful with PGStore only)
  MaxFaults,   \* bound: statements of PGStore that fail
  None

AllOps == {"propose", "execute", "decide", "reconcile", "commit"}

ASSUME GatewayAssumption ==
  /\ Ops \subseteq AllOps
  /\ Backend \in {"memory", "postgres"}
  /\ Exclusive \in BOOLEAN
  /\ MaxCrashes \in Nat /\ MaxFaults \in Nat
  /\ Dedup \subseteq Keys /\ Reconcilable \subseteq Keys
  /\ DOMAIN Payload = Actions
  /\ None \notin Actions /\ None \notin Txns

VARIABLES
  pc,          \* request -> next call to make
  onTxn,       \* request -> transaction it is about
  onAct,       \* request -> action it is about
  seen,        \* request -> transaction status it read (GetTxn)
  row,         \* request -> copy of the action's row it holds (GetAction)
  hit,         \* request -> the provider served, or knows, its call
  crashes,     \* process crashes so far
  faults       \* statements that failed so far

localVars == <<onTxn, onAct, seen, row, hit>>
reqVars == <<pc, localVars>>
envVars == <<crashes, faults>>
vars == <<storeVars, toolVars, reqVars, envVars>>

Labels ==
  {"idle",
   "add", "evaluate", "screen", "record", "approval", "park",
   "approvedPath", "allowedPath", "run", "mark", "dispatch", "calling",
   "receipt",
   "ask", "settle",
   "granted", "approve", "grantTxn", "grantSet", "rejected", "rejectSet",
   "check", "commit"}

ReqTypeOK ==
  /\ pc \in [Requests -> Labels]
  /\ onTxn \in [Requests -> Txns \cup {None}]
  /\ onAct \in [Requests -> Actions \cup {None}]
  /\ seen \in [Requests -> TxnStatus \cup {"absent"}]
  /\ row \in [Requests -> ActionRow]
  /\ hit \in [Requests -> BOOLEAN]

TypeOK ==
  /\ StoreTypeOK /\ ToolsTypeOK /\ ReqTypeOK
  /\ crashes \in 0 .. MaxCrashes /\ faults \in 0 .. MaxFaults

Init ==
  /\ StoreInit
  /\ ToolsInit
  /\ pc = [r \in Requests |-> "idle"]
  /\ onTxn = [r \in Requests |-> None]
  /\ onAct = [r \in Requests |-> None]
  /\ seen = [r \in Requests |-> "absent"]
  /\ row = [r \in Requests |-> NoRow]
  /\ hit = [r \in Requests |-> FALSE]
  /\ crashes = 0 /\ faults = 0

-----------------------------------------------------------------------------
(* Statements that may fail. *)

Fault ==
  /\ Backend = "postgres"
  /\ faults < MaxFaults
  /\ faults' = faults + 1

\* A statement does its work, or fails and the handler takes its other path.
Query(done, failed) ==
  \/ done /\ UNCHANGED faults
  \/ failed /\ Fault

\* A write whose error nobody looks at.
Exec(write) == Query(write, UNCHANGED storeVars)

-----------------------------------------------------------------------------
(* Moving a request from call to call. *)

At(r, label) == pc[r] = label

Jump(r, label) == pc' = [pc EXCEPT ![r] = label]

Goto(r, label) == Jump(r, label) /\ UNCHANGED localVars

HoldRow(r, w) == row' = [row EXCEPT ![r] = w] /\ UNCHANGED <<onTxn, onAct, seen, hit>>

HoldTxn(r, s) == seen' = [seen EXCEPT ![r] = s] /\ UNCHANGED <<onTxn, onAct, row, hit>>

HoldHit(r, h) == hit' = [hit EXCEPT ![r] = h] /\ UNCHANGED <<onTxn, onAct, seen, row>>

\* The response is sent and the goroutine's copies are gone.
Finish(r) ==
  /\ Jump(r, "idle")
  /\ onTxn' = [onTxn EXCEPT ![r] = None]
  /\ onAct' = [onAct EXCEPT ![r] = None]
  /\ seen' = [seen EXCEPT ![r] = "absent"]
  /\ row' = [row EXCEPT ![r] = NoRow]
  /\ hit' = [hit EXCEPT ![r] = FALSE]

\* A client may send a request about action a.
MaySend(r, op, a) ==
  /\ op \in Ops
  /\ At(r, "idle")
  /\ Exclusive => \A q \in Requests : onAct[q] # a

\* The request begins; s and w are what its first read returns.
Begin(r, op, a, label, s, w) ==
  /\ MaySend(r, op, a)
  /\ Jump(r, label)
  /\ onTxn' = [onTxn EXCEPT ![r] = TxnOf(a)]
  /\ onAct' = [onAct EXCEPT ![r] = a]
  /\ seen' = [seen EXCEPT ![r] = s]
  /\ row' = [row EXCEPT ![r] = w]
  /\ UNCHANGED hit

WithStatus(w, status) == [status |-> status, decision |-> w.decision]

HandleCreateTxn(t) ==
  /\ CreateTxn(t, "PLANNING")
  /\ UNCHANGED <<toolVars, reqVars, envVars>>

-----------------------------------------------------------------------------
(* ProposeAction. *)

\* GetTxn, and the refusal of terminal transactions.
Propose(r, a) ==
  /\ GetTxn(TxnOf(a)) \notin Terminal \cup {"absent"}
  /\ Begin(r, "propose", a, "add", GetTxn(TxnOf(a)), NoRow)
  /\ UNCHANGED <<storeVars, toolVars, envVars>>

\* AddAction; a replay returns the stored action as it is.  A failed INSERT, or one
\* whose answer is lost, is taken for a replay too.
ProposeAdd(r) ==
  /\ At(r, "add")
  /\ Query(\/ AddActionReplay(onAct[r]) /\ Finish(r)
           \/ AddActionFresh(onAct[r]) /\ Goto(r, "evaluate"),
           /\ AddActionFresh(onAct[r]) \/ UNCHANGED storeVars
           /\ Finish(r))
  /\ UNCHANGED <<toolVars, crashes>>

\* MemoryStore.AddAction returns the stored row itself, so what ProposeAction
\* assigns to it is in the store at once; PGStore returns a copy.
Assign(a, w) ==
  IF Backend = "memory" THEN UpdateAction(a, w) ELSE UNCHANGED storeVars

\* Mutant: a denial returns before the row is updated.
ProposeEvaluateDropsDenial(r) ==
  /\ At(r, "evaluate")
  /\ \E d \in Effect :
       LET w == [status |-> "proposed", decision |-> d]
       IN  /\ Assign(onAct[r], w)
           /\ IF d = "DENY"
              THEN Finish(r)
              ELSE HoldRow(r, w) /\ Jump(r, IF d = "ALLOW" THEN "screen" ELSE "record")
  /\ UNCHANGED <<toolVars, envVars>>

\* Authority and policy may decide anything; only an ALLOW is screened.
ProposeEvaluate(r) ==
  /\ At(r, "evaluate")
  /\ \E d \in Effect :
       LET w == [status |-> "proposed", decision |-> d]
       IN  /\ Assign(onAct[r], w)
           /\ HoldRow(r, w)
           /\ Jump(r, IF d = "ALLOW" THEN "screen" ELSE "record")
  /\ UNCHANGED <<toolVars, envVars>>

\* The risk screen passes the decision or escalates it.
ProposeScreen(r) ==
  /\ At(r, "screen")
  /\ \E d \in {"ALLOW", "REQUIRE_APPROVAL"} :
       LET w == [status |-> "proposed", decision |-> d]
       IN  /\ Assign(onAct[r], w)
           /\ HoldRow(r, w)
           /\ Jump(r, "record")
  /\ UNCHANGED <<toolVars, envVars>>

\* Mutant: the effect itself is stored as the status.
StatusForIsEffect(decision) == decision

StatusFor(decision) ==
  CASE decision = "DENY"             -> "denied"
    [] decision = "REQUIRE_APPROVAL" -> "awaiting_approval"
    [] OTHER                         -> "allowed"

\* Mutant: no approval row is created.
ProposeRecordNoApproval(r) ==
  /\ At(r, "record")
  /\ Exec(UpdateAction(onAct[r], WithStatus(row[r], StatusFor(row[r].decision))))
  /\ Finish(r)
  /\ UNCHANGED <<toolVars, crashes>>

ProposeRecord(r) ==
  /\ At(r, "record")
  /\ Exec(UpdateAction(onAct[r], WithStatus(row[r], StatusFor(row[r].decision))))
  /\ IF row[r].decision = "REQUIRE_APPROVAL" THEN Goto(r, "approval") ELSE Finish(r)
  /\ UNCHANGED <<toolVars, crashes>>

ProposeApproval(r) ==
  /\ At(r, "approval")
  /\ Exec(CreateApproval(onAct[r]))
  /\ Goto(r, "park")
  /\ UNCHANGED <<toolVars, crashes>>

\* MustTransition works on the copy read when the request began, and its
\* status is written back whether the transition was legal or not.
ProposePark(r) ==
  /\ At(r, "park")
  /\ Exec(SetTxnStatus(onTxn[r], MustTransition(seen[r], "AWAITING_APPROVAL")))
  /\ Finish(r)
  /\ UNCHANGED <<toolVars, crashes>>

-----------------------------------------------------------------------------
(* POST /v1/actions/:id/execute. *)

\* handleActionSub reads the action to pick the path.
ExecuteAction(r, a) ==
  /\ GetAction(a).status # "absent"
  /\ Query(Begin(r, "execute", a,
                 IF GetAction(a).status = "approved" THEN "approvedPath" ELSE "allowedPath",
                 "absent", NoRow),
           Begin(r, "execute", a, "allowedPath", "absent", NoRow))
  /\ UNCHANGED <<storeVars, toolVars, crashes>>

\* Both paths read the action again.
Admit(r, ok) ==
  /\ IF ok
     THEN HoldRow(r, GetAction(onAct[r])) /\ Jump(r, "run")
     ELSE Finish(r)
  /\ UNCHANGED <<storeVars, toolVars, envVars>>

RunApproved(r) ==
  /\ At(r, "approvedPath")
  /\ Admit(r, GetAction(onAct[r]).status = "approved")

\* Mutant: the status is checked, the decision is not, and a wait counts as a pass.
ExecuteAllowedNoDecision(r) ==
  /\ At(r, "allowedPath")
  /\ Admit(r, GetAction(onAct[r]).status \in {"allowed", "approved", "awaiting_approval"})

\* Mutant: a failed action may be executed again.
ExecuteAllowedRetriesFailed(r) ==
  LET a == GetAction(onAct[r])
  IN  /\ At(r, "allowedPath")
      /\ Admit(r, a.decision = "ALLOW" /\ a.status \in {"allowed", "approved", "failed"})

ExecuteAllowed(r) ==
  LET a == GetAction(onAct[r])
  IN  /\ At(r, "allowedPath")
      /\ Admit(r, a.decision = "ALLOW" /\ a.status \in {"allowed", "approved"})

\* Mutant: the transaction is marked whatever its status.
RunReadTxnAlwaysMarks(r) ==
  /\ At(r, "run")
  /\ Query(HoldTxn(r, GetTxn(onTxn[r])) /\ Jump(r, "mark"),
           Goto(r, "dispatch"))
  /\ UNCHANGED <<storeVars, toolVars, crashes>>

\* A transaction that cannot be read is not marked; the action runs all the same.
RunReadTxn(r) ==
  /\ At(r, "run")
  /\ Query(/\ HoldTxn(r, GetTxn(onTxn[r]))
           /\ Jump(r, IF GetTxn(onTxn[r]) \in {"CREATED", "PLANNING", "AWAITING_APPROVAL"}
                      THEN "mark" ELSE "dispatch"),
           Goto(r, "dispatch"))
  /\ UNCHANGED <<storeVars, toolVars, crashes>>

RunMarkExecuting(r) ==
  /\ At(r, "mark")
  /\ Exec(SetTxnStatus(onTxn[r], "EXECUTING"))
  /\ Goto(r, "dispatch")
  /\ UNCHANGED <<toolVars, crashes>>

RunDispatch(r) ==
  /\ At(r, "dispatch")
  /\ \E served \in BOOLEAN : Execute(onAct[r], served) /\ HoldHit(r, served)
  /\ Jump(r, "calling")
  /\ UNCHANGED <<storeVars, envVars>>

\* Mutant: an uncertain outcome is attested like a success.
RunRecordAttestsUnknown(r) ==
  /\ At(r, "calling")
  /\ \E out \in Outcomes(hit[r]) :
       /\ Exec(UpdateAction(onAct[r], WithStatus(row[r], out)))
       /\ IF out # "failed" THEN Goto(r, "receipt") ELSE Finish(r)
       /\ IF out = "unknown" /\ ~hit[r]
          THEN Abandon({onAct[r]}) ELSE UNCHANGED toolVars
  /\ UNCHANGED crashes

\* The handler returns and the copy, with its new status, overwrites the row.
RunRecord(r) ==
  /\ At(r, "calling")
  /\ \E out \in Outcomes(hit[r]) :
       /\ Exec(UpdateAction(onAct[r], WithStatus(row[r], out)))
       /\ IF out = "executed" THEN Goto(r, "receipt") ELSE Finish(r)
       /\ IF out = "unknown" /\ ~hit[r]
          THEN Abandon({onAct[r]}) ELSE UNCHANGED toolVars
  /\ UNCHANGED crashes

\* The receipt quotes the decision: a row without one panics and is not attested.
RunReceipt(r) ==
  /\ At(r, "receipt")
  /\ IF row[r].decision = "nil"
     THEN UNCHANGED <<storeVars, faults>>
     ELSE Exec(AppendReceipt(onAct[r]))
  /\ Finish(r)
  /\ UNCHANGED <<toolVars, crashes>>

-----------------------------------------------------------------------------
(* POST /v1/actions/:id/reconcile. *)

\* Mutant: an action already settled is reconciled again.
ReconcileSettled(r, a) ==
  /\ GetAction(a).status \in {"unknown", "executed"}
  /\ KeyOf(a) \in Reconcilable
  /\ Begin(r, "reconcile", a, "ask", "absent", GetAction(a))
  /\ UNCHANGED <<storeVars, toolVars, envVars>>

Reconcile(r, a) ==
  /\ GetAction(a).status = "unknown"
  /\ KeyOf(a) \in Reconcilable
  /\ Begin(r, "reconcile", a, "ask", "absent", GetAction(a))
  /\ UNCHANGED <<storeVars, toolVars, envVars>>

\* The provider answers, or the lookup fails and the action stays unknown.
ReconcileAsk(r) ==
  /\ At(r, "ask")
  /\ \/ HoldHit(r, Found(onAct[r])) /\ Jump(r, "settle")
     \/ Finish(r)
  /\ UNCHANGED <<storeVars, toolVars, envVars>>

\* Mutant: a confirmed execution gets no receipt.
ReconcileSettleNoReceipt(r) ==
  /\ At(r, "settle")
  /\ Exec(UpdateAction(onAct[r],
            WithStatus(row[r], IF hit[r] THEN "executed" ELSE "failed")))
  /\ Finish(r)
  /\ UNCHANGED <<toolVars, crashes>>

ReconcileSettle(r) ==
  /\ At(r, "settle")
  /\ Exec(UpdateAction(onAct[r],
            WithStatus(row[r], IF hit[r] THEN "executed" ELSE "failed")))
  /\ IF hit[r] THEN Goto(r, "receipt") ELSE Finish(r)
  /\ UNCHANGED <<toolVars, crashes>>

-----------------------------------------------------------------------------
(* POST /v1/approvals/:id/decide. *)

\* Mutant: the handler goes on as if every decision were a grant.
DecideAlwaysGrants(r, a) ==
  /\ \E approve \in BOOLEAN :
       /\ DecideApproval(a, approve)
       /\ Query(Begin(r, "decide", a, "granted", "absent", NoRow),
                MaySend(r, "decide", a) /\ UNCHANGED reqVars)
  /\ UNCHANGED <<toolVars, crashes>>

\* DecideApproval; when its answer is lost, the client is told the approval is missing.
Decide(r, a) ==
  /\ \E approve \in BOOLEAN :
       /\ DecideApproval(a, approve)
       /\ Query(Begin(r, "decide", a, IF approve THEN "granted" ELSE "rejected",
                      "absent", NoRow),
                MaySend(r, "decide", a) /\ UNCHANGED reqVars)
  /\ UNCHANGED <<toolVars, crashes>>

\* An action that cannot be read is left as it is; so is, below, a transaction.
GrantReadAction(r) ==
  /\ At(r, "granted")
  /\ Query(HoldRow(r, GetAction(onAct[r])) /\ Jump(r, "approve"),
           Finish(r))
  /\ UNCHANGED <<storeVars, toolVars, crashes>>

\* Mutant: the grant also rewrites the decision.
GrantApproveAllows(r) ==
  /\ At(r, "approve")
  /\ Exec(UpdateAction(onAct[r], [status |-> "approved", decision |-> "ALLOW"]))
  /\ Goto(r, "grantTxn")
  /\ UNCHANGED <<toolVars, crashes>>

GrantApprove(r) ==
  /\ At(r, "approve")
  /\ Exec(UpdateAction(onAct[r], WithStatus(row[r], "approved")))
  /\ Goto(r, "grantTxn")
  /\ UNCHANGED <<toolVars, crashes>>

\* Granted or denied, the transaction is read, moved on the copy if the move
\* is legal, and the copy's status is written back in a second call.
DecideReadTxn(r) ==
  /\ pc[r] \in {"grantTxn", "rejected"}
  /\ Query(/\ HoldTxn(r, GetTxn(onTxn[r]))
           /\ Jump(r, IF At(r, "grantTxn") THEN "grantSet" ELSE "rejectSet"),
           Finish(r))
  /\ UNCHANGED <<storeVars, toolVars, crashes>>

DecideSetTxn(r) ==
  /\ \/ At(r, "grantSet")
        /\ Exec(SetTxnStatus(onTxn[r], MustTransition(seen[r], "EXECUTING")))
     \/ At(r, "rejectSet")
        /\ Exec(SetTxnStatus(onTxn[r], MustTransition(seen[r], "ABORTING")))
  /\ Finish(r)
  /\ UNCHANGED <<toolVars, crashes>>

-----------------------------------------------------------------------------
(* POST /v1/transactions/:id/commit. *)

Resolved == {"executed", "denied", "compensated"}

Commit(r, t) ==
  /\ "commit" \in Ops
  /\ At(r, "idle")
  /\ GetTxn(t) \notin Terminal \cup {"absent"}
  /\ Jump(r, "check")
  /\ onTxn' = [onTxn EXCEPT ![r] = t]
  /\ seen' = [seen EXCEPT ![r] = GetTxn(t)]
  /\ UNCHANGED <<onAct, row, hit>>
  /\ UNCHANGED <<storeVars, toolVars, envVars>>

Judge(r, resolved) ==
  IF resolved /\ CanTransition(seen[r], "COMMITTED") THEN Goto(r, "commit") ELSE Finish(r)

\* ActionsForTxn lists nothing when its query fails, and then nothing is unresolved.
CommitCheck(r) ==
  /\ At(r, "check")
  /\ Query(Judge(r, \A a \in ActionsForTxn(onTxn[r]) : GetAction(a).status \in Resolved),
           Judge(r, TRUE))
  /\ UNCHANGED <<storeVars, toolVars, crashes>>

CommitSet(r) ==
  /\ At(r, "commit")
  /\ Exec(SetTxnStatus(onTxn[r], "COMMITTED"))
  /\ Finish(r)
  /\ UNCHANGED <<toolVars, crashes>>

-----------------------------------------------------------------------------
(* The process dies and restarts.  The rows survive, every request is lost, *)
(* and Recover only reports; a call being made may still reach the provider. *)

Crash ==
  /\ Backend = "postgres"
  /\ crashes < MaxCrashes
  /\ crashes' = crashes + 1
  /\ Abandon({onAct[r] : r \in {q \in Requests : At(q, "calling") /\ ~hit[q]}})
  /\ pc' = [r \in Requests |-> "idle"]
  /\ onTxn' = [r \in Requests |-> None]
  /\ onAct' = [r \in Requests |-> None]
  /\ seen' = [r \in Requests |-> "absent"]
  /\ row' = [r \in Requests |-> NoRow]
  /\ hit' = [r \in Requests |-> FALSE]
  /\ UNCHANGED <<storeVars, faults>>

ProviderStep(a) ==
  /\ LateArrival(a)
  /\ UNCHANGED <<storeVars, reqVars, envVars>>

ClientStep(r) ==
  \/ \E a \in Actions : Propose(r, a) \/ ExecuteAction(r, a) \/ Reconcile(r, a)
                        \/ Decide(r, a)
  \/ \E t \in Txns : Commit(r, t)

HandlerStep(r) ==
  \/ ProposeAdd(r) \/ ProposeEvaluate(r) \/ ProposeScreen(r) \/ ProposeRecord(r)
  \/ ProposeApproval(r) \/ ProposePark(r)
  \/ RunApproved(r) \/ ExecuteAllowed(r) \/ RunReadTxn(r) \/ RunMarkExecuting(r)
  \/ RunDispatch(r) \/ RunRecord(r) \/ RunReceipt(r)
  \/ ReconcileAsk(r) \/ ReconcileSettle(r)
  \/ GrantReadAction(r) \/ GrantApprove(r) \/ DecideReadTxn(r) \/ DecideSetTxn(r)
  \/ CommitCheck(r) \/ CommitSet(r)

Next ==
  \/ \E t \in Txns : HandleCreateTxn(t)
  \/ \E r \in Requests : ClientStep(r) \/ HandlerStep(r)
  \/ \E a \in Actions : ProviderStep(a)
  \/ Crash

Spec == Init /\ [][Next]_vars

\* A goroutine that can take its next step takes it: the Go scheduler runs every
\* runnable goroutine, store calls do not block for ever and tool calls time out.
FairSpec == Spec /\ \A r \in Requests : WF_vars(HandlerStep(r))

\* The client of every action also keeps retrying its proposal.
RetrySpec ==
  FairSpec /\ \A a \in Actions : SF_vars(\E r \in Requests : Propose(r, a))

-----------------------------------------------------------------------------
(* Safety, under any interleaving. *)

\* An action that policy or authority denied, or whose approval a human denied,
\* is never handed to its tool (ExecuteAllowed, RunApproved), however requests
\* interleave and whatever stale copy a handler writes back.
DeniedNeverDispatched ==
  \A a \in Actions :
    act[a].decision = "DENY" \/ approval[a] = "denied" => calls[a] = 0

\* An action that needs approval reaches its tool only after DecideApproval
\* granted it.
ApprovalGate ==
  \A a \in Actions :
    act[a].decision = "REQUIRE_APPROVAL" /\ calls[a] > 0 => approval[a] = "approved"

\* A receipt (run, Reconcile) attests a side effect that took place at the provider.
ReceiptBacked == \A a \in Actions : receipts[a] > 0 => applied[a] > 0

\* Once ProposeAction has recorded the decision, no whole-row UpdateAction from
\* a handler's copy changes it or takes the action back to "proposed".
DecisionFinal ==
  [][\A a \in Actions :
       act[a].status \notin {"absent", "proposed"} =>
         /\ act'[a].decision = act[a].decision
         /\ act'[a].status \notin {"absent", "proposed"}]_vars

Serving(a, labels) == \E r \in Requests : onAct[r] = a /\ pc[r] \in labels

\* A row left half-way between two store calls of a handler (undecided, without
\* its approval, granted but not approved, executed but unattested) always has
\* a request in flight that will complete it.
HalfDoneHasHandler ==
  \A a \in Actions :
    /\ act[a].status = "proposed" => Serving(a, {"evaluate", "screen", "record"})
    /\ act[a].status = "awaiting_approval" /\ approval[a] = "absent" =>
         Serving(a, {"approval"})
    /\ act[a].status = "awaiting_approval" /\ approval[a] = "approved" =>
         Serving(a, {"granted", "approve"})
    /\ act[a].status = "executed" /\ receipts[a] = 0 => Serving(a, {"receipt"})

-----------------------------------------------------------------------------
(* Effects at the provider. *)

\* No action's side effect takes place twice.
NoDoubleEffect == \A a \in Actions : applied[a] <= 1

\* When clients do not race on an action, its tool is called again only after a
\* crash or a failed statement lost what the call before had done (run,
\* UpdateAction): a call costs a crash or a fault each time but the first.
RedispatchNeedsLoss == \A a \in Actions : calls[a] <= 1 + crashes + faults

\* Under the same clients an action is attested once, however often crashes make
\* it run again; only a lost UpdateAction after the call lets run or Reconcile
\* append a receipt more (run, Reconcile, AppendReceipt).
AttestedOnce == \A a \in Actions : receipts[a] <= 1 + faults

-----------------------------------------------------------------------------
(* The transaction's status. *)

\* A handler makes a move that is not in the table, such as leaving a terminal status,
\* only when the status it read has since been replaced by another request
\* (MustTransition, SetTxnStatus): no handler writes a status it has not read, or
\* an illegal one over the status it read.
IllegalMoveIsStale ==
  [][\A t \in Txns :
       \/ txn[t] = "absent" \/ CanTransition(txn[t], txn'[t])
       \/ \E r \in Requests :
            onTxn[r] = t /\ pc'[r] # pc[r] /\ seen[r] \notin {"absent", txn[t]}]_vars

-----------------------------------------------------------------------------
(* Liveness. *)

\* Every proposed action gets its decision (ProposeAction).
DecisionReached ==
  \A a \in Actions : act[a].status = "proposed" ~> act[a].status # "proposed"

\* Every action recorded as executed is attested by a receipt (run, Reconcile).
ReceiptFollows ==
  \A a \in Actions : act[a].status = "executed" ~> receipts[a] > 0

-----------------------------------------------------------------------------
(* The gateway implements the life of an action promised by Lifecycle. *)

Status == [a \in Actions |-> act[a].status]

Life == INSTANCE Lifecycle WITH status <- Status

\* Every step of every handler is, for each action, a step of its life or none.
ImplementsLifecycle == Life!Spec
=============================================================================
