---------------------------- MODULE GatewayProofs ----------------------------
(***************************************************************************)
(* Proofs about Gateway for every set of transactions, keys and concurrent *)
(* requests, for both stores, and with any number of crashes and of failing *)
(* statements.                                                             *)
(***************************************************************************)
EXTENDS Gateway, TLAPS

\* An obligation late in a long module takes tlapm seconds to translate.
USE SMTT(30), ZenonT(30)

\* The decisions of actions that wait for a human; "nil" is the row of an action whose
\* REQUIRE_APPROVAL was lost with the statement that wrote it.
Gated == {"REQUIRE_APPROVAL", "nil"}

\* Policy let the action through, or a human did.
Authorised(a) ==
  \/ act[a].decision = "ALLOW"
  \/ act[a].decision \in Gated /\ approval[a] = "approved"

Undecided == {"absent", "proposed"}

\* What a row tells about the decision, by its status.
RowInv ==
  \A a \in Actions :
    /\ act[a].status = "absent" => approval[a] = "absent"
    /\ act[a].status \in Undecided => calls[a] = 0
    /\ act[a].status = "allowed" => act[a].decision = "ALLOW"
    /\ act[a].status \in {"approved", "executed", "failed", "unknown"} => Authorised(a)
    /\ approval[a] # "absent" => act[a].decision \in Gated
    /\ calls[a] > 0 => Authorised(a)

InProposal == {"evaluate", "screen", "record", "approval"}

InRun == {"run", "mark", "dispatch", "calling", "ask", "settle"}

InGrant == {"granted", "approve"}

OnAction == Labels \ {"idle", "check", "commit"}

\* What a request knows about its action at each program counter.
Knows(r) ==
  /\ pc[r] \in OnAction => onAct[r] \in Actions /\ onTxn[r] \in Txns
  /\ pc[r] \in {"check", "commit"} => onTxn[r] \in Txns
  /\ pc[r] \in {"evaluate", "screen", "record"} =>
       /\ act[onAct[r]].status = "proposed" /\ approval[onAct[r]] = "absent"
       /\ Backend = "postgres" => act[onAct[r]].decision = "nil"
  /\ pc[r] = "record" => row[r].decision \in Effect
  /\ pc[r] = "approval" =>
       /\ act[onAct[r]].status # "absent" /\ approval[onAct[r]] = "absent"
       /\ act[onAct[r]].decision \in Gated
  /\ pc[r] \in InGrant => approval[onAct[r]] = "approved"
  /\ pc[r] \in InRun => act[onAct[r]].status \notin Undecided /\ Authorised(onAct[r])
  /\ pc[r] \in InRun \cup {"approve"} => row[r].decision = act[onAct[r]].decision

ReqInv == \A r \in Requests : Knows(r)

\* One request at a time carries the proposal of an action.
OneProposer ==
  \A r, q \in Requests :
    /\ pc[r] \in InProposal /\ pc[q] \in InProposal
    /\ onAct[r] = onAct[q]
    => r = q

IInv == TypeOK /\ RowInv /\ ReqInv /\ OneProposer

EnvTypeOK == crashes \in 0 .. MaxCrashes /\ faults \in 0 .. MaxFaults

-----------------------------------------------------------------------------
(* What the store calls do. *)

USE DEF At

\* An action names a transaction and a key.
LEMMA ActionParts == \A a \in Actions : TxnOf(a) \in Txns /\ KeyOf(a) \in Keys
BY DEF Actions, TxnOf, KeyOf

\* A row with a new status is a row, with the old decision.
LEMMA RowParts ==
  ASSUME NEW w \in ActionRow, NEW s \in ActionStatus
  PROVE  /\ WithStatus(w, s) \in ActionRow
         /\ WithStatus(w, s).status = s
         /\ WithStatus(w, s).decision = w.decision
BY DEF ActionRow, WithStatus

\* The fields of a row have their types.
LEMMA FieldTypes ==
  ASSUME NEW w \in ActionRow
  PROVE  w.status \in ActionStatus \cup {"absent"} /\ w.decision \in Effect \cup {"nil"}
BY DEF ActionRow

\* What AddAction inserts is a row, decided or not.
LEMMA FreshRow ==
  ASSUME NEW d \in Effect \cup {"nil"}
  PROVE  [status |-> "proposed", decision |-> d] \in ActionRow
BY DEF ActionRow, ActionStatus

\* The absent row is a row.
LEMMA NoRowType == NoRow \in ActionRow
BY DEF ActionRow, NoRow

\* MustTransition returns a status.
LEMMA MoveType ==
  ASSUME NEW f \in TxnStatus \cup {"absent"}, NEW t \in TxnStatus
  PROVE  MustTransition(f, t) \in TxnStatus \cup {"absent"}
BY DEF MustTransition

\* UpdateAction changes one row and nothing else.
LEMMA UpdateActionFacts ==
  ASSUME StoreTypeOK, NEW a \in Actions, NEW w \in ActionRow, UpdateAction(a, w)
  PROVE  /\ StoreTypeOK'
         /\ act'[a] = w
         /\ \A b \in Actions : b # a => act'[b] = act[b]
         /\ approval' = approval
BY DEF UpdateAction, StoreTypeOK

\* SetTxnStatus leaves actions and approvals alone.
LEMMA SetTxnStatusFacts ==
  ASSUME StoreTypeOK, NEW t \in Txns, NEW s \in TxnStatus \cup {"absent"},
         SetTxnStatus(t, s)
  PROVE  StoreTypeOK' /\ act' = act /\ approval' = approval
BY DEF SetTxnStatus, StoreTypeOK

\* A statement that does its work, or fails, keeps the counts within their bounds.
LEMMA EnvStays ==
  ASSUME IInv, crashes' = crashes, faults' = faults \/ Fault
  PROVE  EnvTypeOK'
BY GatewayAssumption DEF IInv, TypeOK, EnvTypeOK, Fault

\* A step that leaves the store alone leaves its parts alone.
LEMMA StoreUnchanged ==
  ASSUME StoreTypeOK, UNCHANGED storeVars
  PROVE  StoreTypeOK' /\ act' = act /\ approval' = approval
BY DEF storeVars, StoreTypeOK

\* A step that leaves the tools alone calls none.
LEMMA ToolsUnchanged ==
  ASSUME ToolsTypeOK, UNCHANGED toolVars
  PROVE  ToolsTypeOK' /\ calls' = calls
BY DEF toolVars, ToolsTypeOK

\* Giving up on calls makes none.
LEMMA AbandonFacts ==
  ASSUME ToolsTypeOK, NEW S \in SUBSET Actions, Abandon(S)
  PROVE  ToolsTypeOK' /\ calls' = calls
BY DEF Abandon, ToolsTypeOK

\* An effect that takes place keeps the counts natural numbers.
LEMMA ApplyType ==
  ASSUME ToolsTypeOK, NEW a \in Actions, Apply(a)
  PROVE  applied' \in [Actions -> Nat]
BY DEF Apply, ToolsTypeOK

\* A call of a tool counts for its own action.
LEMMA ExecuteFacts ==
  ASSUME ToolsTypeOK, NEW a \in Actions, NEW served \in BOOLEAN, Execute(a, served)
  PROVE  ToolsTypeOK' /\ \A b \in Actions : b # a => calls'[b] = calls[b]
<1>1. calls' = [calls EXCEPT ![a] = calls[a] + 1] /\ stray' = stray
  BY DEF Execute
<1>2. calls' \in [Actions -> Nat] /\ \A b \in Actions : b # a => calls'[b] = calls[b]
  BY <1>1 DEF ToolsTypeOK
<1>3. applied' \in [Actions -> Nat]
  BY ApplyType DEF Execute, ToolsTypeOK
<1> QED
  BY <1>1, <1>2, <1>3 DEF ToolsTypeOK

-----------------------------------------------------------------------------
(* What a move of request r does to the requests. *)

OnlyMoves(r) ==
  \A q \in Requests : q # r =>
    /\ pc'[q] = pc[q]
    /\ onTxn'[q] = onTxn[q]
    /\ onAct'[q] = onAct[q]
    /\ row'[q] = row[q]

\* Goto moves one request and keeps its copies.
LEMMA GotoFacts ==
  ASSUME ReqTypeOK, NEW r \in Requests, NEW l \in Labels, Goto(r, l)
  PROVE  /\ ReqTypeOK' /\ OnlyMoves(r)
         /\ pc'[r] = l
         /\ onTxn'[r] = onTxn[r] /\ onAct'[r] = onAct[r] /\ row'[r] = row[r]
BY DEF Goto, Jump, localVars, ReqTypeOK, OnlyMoves

\* Finish clears one request.
LEMMA FinishFacts ==
  ASSUME ReqTypeOK, NEW r \in Requests, Finish(r)
  PROVE  ReqTypeOK' /\ OnlyMoves(r) /\ pc'[r] = "idle"
<1>1. "idle" \in Labels
  BY DEF Labels
<1> QED
  BY <1>1, NoRowType DEF Finish, Jump, ReqTypeOK, OnlyMoves

\* Begin gives one request its action and its first copies.
LEMMA BeginFacts ==
  ASSUME ReqTypeOK, NEW r \in Requests, NEW a \in Actions, NEW l \in Labels,
         NEW s \in TxnStatus \cup {"absent"}, NEW w \in ActionRow, NEW op,
         Begin(r, op, a, l, s, w)
  PROVE  /\ ReqTypeOK' /\ OnlyMoves(r)
         /\ pc[r] = "idle" /\ pc'[r] = l
         /\ onTxn'[r] = TxnOf(a) /\ onAct'[r] = a /\ row'[r] = w
BY ActionParts DEF Begin, MaySend, Jump, ReqTypeOK, OnlyMoves

\* HoldRow gives one request a copy of a row.
LEMMA HoldRowFacts ==
  ASSUME ReqTypeOK, NEW r \in Requests, NEW l \in Labels, NEW w \in ActionRow,
         HoldRow(r, w), Jump(r, l)
  PROVE  /\ ReqTypeOK' /\ OnlyMoves(r)
         /\ pc'[r] = l
         /\ onTxn'[r] = onTxn[r] /\ onAct'[r] = onAct[r] /\ row'[r] = w
BY DEF HoldRow, Jump, ReqTypeOK, OnlyMoves

\* HoldHit gives one request what the provider knows.
LEMMA HoldHitFacts ==
  ASSUME ReqTypeOK, NEW r \in Requests, NEW l \in Labels, NEW h \in BOOLEAN,
         HoldHit(r, h), Jump(r, l)
  PROVE  /\ ReqTypeOK' /\ OnlyMoves(r)
         /\ pc'[r] = l
         /\ onTxn'[r] = onTxn[r] /\ onAct'[r] = onAct[r] /\ row'[r] = row[r]
BY DEF HoldHit, Jump, ReqTypeOK, OnlyMoves

\* HoldTxn gives one request a copy of a status.
LEMMA HoldTxnFacts ==
  ASSUME ReqTypeOK, NEW r \in Requests, NEW l \in Labels,
         NEW s \in TxnStatus \cup {"absent"}, HoldTxn(r, s), Jump(r, l)
  PROVE  /\ ReqTypeOK' /\ OnlyMoves(r)
         /\ pc'[r] = l
         /\ onTxn'[r] = onTxn[r] /\ onAct'[r] = onAct[r] /\ row'[r] = row[r]
BY DEF HoldTxn, Jump, ReqTypeOK, OnlyMoves

\* A request that does not move knows what it knew when its row stays as it was.
LEMMA KnowsStays ==
  ASSUME NEW q \in Requests, Knows(q),
         pc'[q] = pc[q], onTxn'[q] = onTxn[q], onAct'[q] = onAct[q], row'[q] = row[q],
         onAct[q] \in Actions =>
           act'[onAct[q]] = act[onAct[q]] /\ approval'[onAct[q]] = approval[onAct[q]]
  PROVE  Knows(q)'
<1>1. CASE pc[q] \in OnAction
  <2>1. onAct[q] \in Actions
    BY <1>1 DEF Knows
  <2> QED
    BY <2>1 DEF Knows, Authorised, InGrant, InRun
<1>2. CASE pc[q] \notin OnAction
  <2>1. /\ pc[q] \notin {"evaluate", "screen", "record", "approval", "approve"}
        /\ pc[q] \notin InGrant /\ pc[q] \notin InRun
    BY <1>2 DEF OnAction, Labels, InGrant, InRun
  <2> QED
    BY <1>2, <2>1 DEF Knows
<1> QED
  BY <1>1, <1>2

\* A request that leaves, or stays out of, its proposal adds no proposer.
LEMMA ProposersStay ==
  ASSUME NEW r \in Requests, OneProposer, OnlyMoves(r), pc'[r] \notin InProposal
  PROVE  OneProposer'
BY DEF OneProposer, OnlyMoves

-----------------------------------------------------------------------------
(* Steps that leave what RowInv is about alone. *)

\* A step of one request that writes no action and calls no tool keeps the
\* invariant when the request knows enough at its new place.
LEMMA LocalStep ==
  ASSUME IInv, NEW r \in Requests, TypeOK', OnlyMoves(r),
         act' = act, approval' = approval, calls' = calls,
         Knows(r)',
         pc'[r] \in InProposal => pc[r] \in InProposal /\ onAct'[r] = onAct[r]
  PROVE  IInv'
<1>1. RowInv'
  BY DEF IInv, RowInv, Authorised
<1>2. \A q \in Requests : q # r => Knows(q)'
  BY KnowsStays DEF IInv, ReqInv, OnlyMoves
<1>3. OneProposer'
  BY DEF IInv, OneProposer, OnlyMoves
<1> QED
  BY <1>1, <1>2, <1>3 DEF IInv, ReqInv

\* An idle request need know nothing.
LEMMA IdleKnows ==
  ASSUME NEW r \in Requests, pc'[r] = "idle"
  PROVE  Knows(r)' /\ pc'[r] \notin InProposal
BY DEF Knows, OnAction, InGrant, InRun, InProposal

\* A request that answers without touching an action keeps the invariant.
LEMMA FinishStep ==
  ASSUME IInv, NEW r \in Requests, Finish(r), StoreTypeOK', ToolsTypeOK',
         EnvTypeOK', act' = act, approval' = approval, calls' = calls
  PROVE  IInv'
<1>1. ReqTypeOK' /\ OnlyMoves(r) /\ pc'[r] = "idle"
  BY FinishFacts DEF IInv, TypeOK
<1>2. TypeOK'
  BY <1>1 DEF EnvTypeOK, TypeOK
<1> QED
  BY <1>1, <1>2, IdleKnows, LocalStep

\* A row that is decided, or whose approval was granted, is overwritten by one with
\* the same decision.
LEMMA RewriteStep ==
  ASSUME IInv, NEW r \in Requests, TypeOK', OnlyMoves(r),
         NEW a \in Actions, NEW w \in ActionRow,
         act'[a] = w, \A b \in Actions : b # a => act'[b] = act[b],
         approval' = approval, calls' = calls,
         act[a].status \notin Undecided \/ approval[a] = "approved",
         w.status \notin Undecided, w.decision = act[a].decision,
         w.status # "allowed", Authorised(a),
         Knows(r)', pc'[r] \notin InProposal
  PROVE  IInv'
<1>1. \A b \in Actions : /\ act'[b].decision = act[b].decision
                         /\ Authorised(b)' <=> Authorised(b)
  BY DEF Authorised
<1>2. RowInv'
  <2> SUFFICES ASSUME NEW b \in Actions
               PROVE  /\ act'[b].status = "absent" => approval'[b] = "absent"
                      /\ act'[b].status \in Undecided => calls'[b] = 0
                      /\ act'[b].status = "allowed" => act'[b].decision = "ALLOW"
                      /\ act'[b].status \in {"approved", "executed", "failed", "unknown"} => Authorised(b)'
                      /\ approval'[b] # "absent" => act'[b].decision \in Gated
                      /\ calls'[b] > 0 => Authorised(b)'
    BY DEF RowInv
  <2>1. CASE b = a
    BY <2>1, <1>1 DEF IInv, RowInv, Undecided
  <2>2. CASE b # a
    BY <2>2, <1>1 DEF IInv, RowInv
  <2> QED
    BY <2>1, <2>2
<1>3. ASSUME NEW q \in Requests, q # r
      PROVE  Knows(q)'
  <2>1. Knows(q) /\ pc'[q] = pc[q] /\ onTxn'[q] = onTxn[q] /\ onAct'[q] = onAct[q]
        /\ row'[q] = row[q]
    BY <1>3 DEF IInv, ReqInv, OnlyMoves
  <2>2. CASE onAct[q] = a
    <3>1. pc[q] \notin {"evaluate", "screen", "record"}
      BY <2>1, <2>2 DEF Knows, Undecided
    <3>2. /\ act'[onAct[q]].decision = act[onAct[q]].decision
          /\ act'[onAct[q]].status \notin Undecided
          /\ Authorised(onAct[q]) => Authorised(onAct[q])'
      BY <1>1, <2>1, <2>2 DEF Authorised
    <3> QED
      BY <2>1, <3>1, <3>2 DEF Knows, Undecided
  <2>3. CASE onAct[q] # a
    BY <2>1, <2>3, KnowsStays
  <2> QED
    BY <2>2, <2>3
<1>4. OneProposer'
  BY ProposersStay DEF IInv
<1> QED
  BY <1>2, <1>3, <1>4 DEF IInv, ReqInv

-----------------------------------------------------------------------------
(* ProposeAction. *)

\* Propose keeps the invariant.
LEMMA ProposeKeeps ==
  ASSUME IInv, NEW r \in Requests, NEW a \in Actions, Propose(r, a)
  PROVE  IInv'
<1>1. StoreTypeOK' /\ act' = act /\ approval' = approval /\ ToolsTypeOK' /\ calls' = calls
  BY StoreUnchanged, ToolsUnchanged DEF Propose, IInv, TypeOK, storeVars, toolVars
<1>2. "add" \in Labels /\ GetTxn(TxnOf(a)) \in TxnStatus \cup {"absent"}
  BY ActionParts DEF Labels, GetTxn, IInv, TypeOK, StoreTypeOK
<1>3. /\ ReqTypeOK' /\ OnlyMoves(r) /\ pc'[r] = "add"
      /\ onTxn'[r] = TxnOf(a) /\ onAct'[r] = a
  BY <1>2, BeginFacts, NoRowType DEF Propose, IInv, TypeOK
<1>4. Knows(r)' /\ pc'[r] \notin InProposal
  BY <1>3, ActionParts DEF Knows, InGrant, InRun, InProposal
<1> QED
  BY <1>1, <1>3, <1>4, LocalStep DEF IInv, TypeOK, Propose, envVars

\* An action of which r carries the proposal, and what every row but its own keeps.
LEMMA ProposalStep ==
  ASSUME IInv, NEW r \in Requests, TypeOK', OnlyMoves(r),
         NEW a \in Actions, onAct[r] = a, pc'[r] \in InProposal => onAct'[r] = a,
         \A b \in Actions : b # a => act'[b] = act[b],
         approval' = approval, calls' = calls,
         act[a].status \in Undecided, approval[a] = "absent",
         pc[r] \in InProposal \/ act[a].status = "absent",
         act'[a].status = "allowed" => act'[a].decision = "ALLOW",
         act'[a].status \in
           {"absent", "proposed", "allowed", "denied", "awaiting_approval"},
         Knows(r)'
  PROVE  IInv'
<1>1. calls[a] = 0
  BY DEF IInv, RowInv
<1>2. RowInv'
  BY <1>1 DEF IInv, RowInv, Authorised
<1>3. ASSUME NEW q \in Requests, q # r
      PROVE  Knows(q)' /\ (pc'[q] \in InProposal => onAct'[q] # a)
  <2>1. Knows(q) /\ pc'[q] = pc[q] /\ onTxn'[q] = onTxn[q] /\ onAct'[q] = onAct[q]
        /\ row'[q] = row[q]
    BY <1>3 DEF IInv, ReqInv, OnlyMoves
  <2>2. CASE onAct[q] = a
    <3>1. pc[q] \notin InProposal
      BY <2>1, <2>2, <1>3
         DEF IInv, OneProposer, Knows, InProposal, OnAction, Labels, Undecided
    <3>2. pc[q] \notin InGrant \cup InRun
      BY <2>1, <2>2, <1>1 DEF Knows
    <3> QED
      BY <2>1, <3>1, <3>2 DEF Knows, InProposal, InGrant
  <2>3. CASE onAct[q] # a
    BY <2>1, <2>3, KnowsStays
  <2> QED
    BY <2>2, <2>3
<1>4. OneProposer'
  BY <1>3 DEF IInv, OneProposer, OnlyMoves
<1> QED
  BY <1>2, <1>3, <1>4 DEF IInv, ReqInv

\* ProposeAdd keeps the invariant.
LEMMA ProposeAddKeeps ==
  ASSUME IInv, NEW r \in Requests, ProposeAdd(r)
  PROVE  IInv'
<1> DEFINE a == onAct[r]
<1>1. a \in Actions /\ onTxn[r] \in Txns
  BY DEF IInv, ReqInv, Knows, OnAction, Labels, ProposeAdd
<1>2. /\ ToolsTypeOK' /\ calls' = calls
      /\ crashes' = crashes /\ (faults' = faults \/ Fault)
  BY ToolsUnchanged DEF ProposeAdd, Query, IInv, TypeOK
<1>3. EnvTypeOK'
  BY <1>2, EnvStays
<1>4. CASE UNCHANGED storeVars /\ Finish(r)
  BY <1>2, <1>3, <1>4, FinishStep, StoreUnchanged DEF IInv, TypeOK
<1>5. CASE AddActionFresh(a) /\ (Goto(r, "evaluate") \/ Finish(r))
  <2>1. /\ StoreTypeOK' /\ act[a].status = "absent"
        /\ act'[a] = [status |-> "proposed", decision |-> "nil"]
        /\ \A b \in Actions : b # a => act'[b] = act[b]
        /\ approval' = approval
    BY <1>1, <1>5, FreshRow DEF AddActionFresh, StoreTypeOK, IInv, TypeOK
  <2>2. approval[a] = "absent" /\ act[a].status \in Undecided /\ act'[a].status = "proposed"
    BY <1>1, <2>1 DEF IInv, RowInv, Undecided
  <2>3. /\ ReqTypeOK' /\ OnlyMoves(r) /\ Knows(r)'
        /\ pc'[r] \in InProposal => onAct'[r] = a
    <3>1. CASE Goto(r, "evaluate")
      <4>1. /\ ReqTypeOK' /\ OnlyMoves(r) /\ pc'[r] = "evaluate"
            /\ onTxn'[r] = onTxn[r] /\ onAct'[r] = a
        BY <3>1, GotoFacts DEF Labels, IInv, TypeOK
      <4> QED
        BY <1>1, <2>1, <2>2, <4>1 DEF Knows, InGrant, InRun
    <3>2. CASE Finish(r)
      BY <3>2, FinishFacts, IdleKnows DEF IInv, TypeOK
    <3> QED
      BY <1>5, <3>1, <3>2
  <2>4. TypeOK'
    BY <1>2, <1>3, <2>1, <2>3 DEF TypeOK, EnvTypeOK
  <2> QED
    BY <1>1, <1>2, <2>1, <2>2, <2>3, <2>4, ProposalStep
<1> QED
  BY <1>4, <1>5 DEF ProposeAdd, AddActionReplay, Query

\* ProposeEvaluate and ProposeScreen: a decision is assigned to the copy, and with
\* MemoryStore to the row itself.
LEMMA AssignStep ==
  ASSUME IInv, NEW r \in Requests, pc[r] \in {"evaluate", "screen"},
         NEW d \in Effect, NEW l \in {"screen", "record"},
         Assign(onAct[r], [status |-> "proposed", decision |-> d]),
         HoldRow(r, [status |-> "proposed", decision |-> d]),
         Jump(r, l), UNCHANGED <<toolVars, envVars>>
  PROVE  IInv'
<1> DEFINE a == onAct[r]
           w == [status |-> "proposed", decision |-> d]
<1>1. /\ a \in Actions /\ onTxn[r] \in Txns
      /\ act[a].status = "proposed" /\ approval[a] = "absent"
      /\ Backend = "postgres" => act[a].decision = "nil"
  BY DEF IInv, ReqInv, Knows, OnAction, Labels
<1>2. w \in ActionRow /\ w.status = "proposed" /\ w.decision = d
  BY FreshRow
<1>3. /\ StoreTypeOK' /\ act'[a].status = "proposed"
      /\ \A b \in Actions : b # a => act'[b] = act[b]
      /\ approval' = approval
      /\ Backend = "postgres" => act'[a].decision = "nil"
  <2> HIDE DEF w
  <2>1. CASE Backend = "memory"
    BY <1>1, <1>2, <2>1, UpdateActionFacts DEF Assign, IInv, TypeOK, w
  <2>2. CASE Backend # "memory"
    BY <1>1, <2>2, StoreUnchanged DEF Assign, IInv, TypeOK
  <2> QED
    BY <2>1, <2>2
<1>4. l \in Labels
  BY DEF Labels
<1>5. /\ ReqTypeOK' /\ OnlyMoves(r) /\ pc'[r] = l
      /\ onTxn'[r] = onTxn[r] /\ onAct'[r] = a /\ row'[r] = w
  BY <1>2, <1>4, HoldRowFacts, ZenonT(30) DEF IInv, TypeOK
<1>6. Knows(r)'
  BY <1>1, <1>2, <1>3, <1>5 DEF Knows, InGrant, InRun
<1>7. ToolsTypeOK' /\ calls' = calls
  BY ToolsUnchanged DEF IInv, TypeOK
<1>8. TypeOK'
  BY <1>3, <1>5, <1>7, ZenonT(30) DEF IInv, TypeOK, envVars
<1>9. pc[r] \in InProposal /\ act[a].status \in Undecided
  BY <1>1 DEF InProposal, Undecided
<1> QED
  BY <1>1, <1>3, <1>5, <1>6, <1>7, <1>8, <1>9, ProposalStep, ZenonT(30)

\* ProposeEvaluate keeps the invariant.
LEMMA ProposeEvaluateKeeps ==
  ASSUME IInv, NEW r \in Requests, ProposeEvaluate(r)
  PROVE  IInv'
<1>1. PICK d \in Effect :
        /\ Assign(onAct[r], [status |-> "proposed", decision |-> d])
        /\ HoldRow(r, [status |-> "proposed", decision |-> d])
        /\ Jump(r, IF d = "ALLOW" THEN "screen" ELSE "record")
  BY DEF ProposeEvaluate
<1>2. (IF d = "ALLOW" THEN "screen" ELSE "record") \in {"screen", "record"}
  OBVIOUS
<1>3. pc[r] = "evaluate" /\ UNCHANGED <<toolVars, envVars>>
  BY DEF ProposeEvaluate
<1> QED
  BY <1>1, <1>2, <1>3, AssignStep

\* ProposeScreen keeps the invariant.
LEMMA ProposeScreenKeeps ==
  ASSUME IInv, NEW r \in Requests, ProposeScreen(r)
  PROVE  IInv'
<1>1. PICK d \in Effect :
        /\ Assign(onAct[r], [status |-> "proposed", decision |-> d])
        /\ HoldRow(r, [status |-> "proposed", decision |-> d])
        /\ Jump(r, "record")
  BY DEF ProposeScreen, Effect
<1>2. pc[r] = "screen" /\ UNCHANGED <<toolVars, envVars>>
  BY DEF ProposeScreen
<1> QED
  BY <1>1, <1>2, AssignStep

\* StatusFor maps each decision to its status.
LEMMA StatusForFacts ==
  ASSUME NEW d \in Effect
  PROVE  /\ StatusFor(d) \in {"allowed", "denied", "awaiting_approval"}
         /\ StatusFor(d) = "allowed" => d = "ALLOW"
BY DEF StatusFor, Effect

\* ProposeRecord keeps the invariant.
LEMMA ProposeRecordKeeps ==
  ASSUME IInv, NEW r \in Requests, ProposeRecord(r)
  PROVE  IInv'
<1> DEFINE a == onAct[r]
           w == WithStatus(row[r], StatusFor(row[r].decision))
<1>1. /\ a \in Actions /\ onTxn[r] \in Txns
      /\ act[a].status = "proposed" /\ approval[a] = "absent"
      /\ Backend = "postgres" => act[a].decision = "nil"
      /\ row[r].decision \in Effect /\ row[r] \in ActionRow
  BY DEF IInv, TypeOK, ReqTypeOK, ReqInv, Knows, OnAction, Labels, ProposeRecord
<1>2. /\ StatusFor(row[r].decision) \in {"allowed", "denied", "awaiting_approval"}
      /\ StatusFor(row[r].decision) = "allowed" => row[r].decision = "ALLOW"
  BY <1>1, StatusForFacts
<1>3. w \in ActionRow /\ w.status = StatusFor(row[r].decision)
      /\ w.decision = row[r].decision
  <2>1. StatusFor(row[r].decision) \in ActionStatus
    BY <1>2 DEF ActionStatus
  <2> QED
    BY <1>1, <2>1, RowParts
<1> HIDE DEF w
<1>4. /\ UpdateAction(a, w) \/ (UNCHANGED storeVars /\ Backend = "postgres")
      /\ crashes' = crashes /\ (faults' = faults \/ Fault)
      /\ UNCHANGED toolVars
      /\ \/ row[r].decision = "REQUIRE_APPROVAL" /\ Goto(r, "approval")
         \/ Finish(r)
  BY ZenonT(30) DEF ProposeRecord, Exec, Query, Fault, w
<1>5. EnvTypeOK' /\ ToolsTypeOK' /\ calls' = calls
  BY <1>4, EnvStays, ToolsUnchanged, ZenonT(30) DEF IInv, TypeOK
<1>6. /\ StoreTypeOK' /\ approval' = approval
      /\ \A b \in Actions : b # a => act'[b] = act[b]
      /\ act'[a] = w \/ (act'[a] = act[a] /\ Backend = "postgres")
  BY <1>1, <1>3, <1>4, UpdateActionFacts, StoreUnchanged DEF IInv, TypeOK
<1>7. /\ act'[a].status \in {"proposed", "allowed", "denied", "awaiting_approval"}
      /\ act'[a].status = "allowed" => act'[a].decision = "ALLOW"
      /\ act'[a].decision \in {row[r].decision, "nil"}
  BY <1>1, <1>2, <1>3, <1>6
<1>8. /\ ReqTypeOK' /\ OnlyMoves(r) /\ Knows(r)'
      /\ pc'[r] \in InProposal => onAct'[r] = a
  <2>1. CASE row[r].decision = "REQUIRE_APPROVAL" /\ Goto(r, "approval")
    <3>1. /\ ReqTypeOK' /\ OnlyMoves(r) /\ pc'[r] = "approval"
          /\ onTxn'[r] = onTxn[r] /\ onAct'[r] = a
      BY <2>1, GotoFacts DEF Labels, IInv, TypeOK
    <3>2. act'[a].status # "absent" /\ act'[a].decision \in Gated
      BY <1>7, <2>1 DEF Gated
    <3> QED
      BY <1>1, <1>6, <3>1, <3>2 DEF Knows, InGrant, InRun
  <2>2. CASE Finish(r)
    BY <2>2, FinishFacts, IdleKnows DEF IInv, TypeOK
  <2> QED
    BY <1>4, <2>1, <2>2
<1>9. TypeOK' /\ pc[r] \in InProposal /\ act[a].status \in Undecided
  BY <1>1, <1>5, <1>6, <1>8 DEF TypeOK, EnvTypeOK, InProposal, Undecided, ProposeRecord
<1> QED
  BY <1>1, <1>5, <1>6, <1>7, <1>8, <1>9, ProposalStep

\* ProposeApproval keeps the invariant.
LEMMA ProposeApprovalKeeps ==
  ASSUME IInv, NEW r \in Requests, ProposeApproval(r)
  PROVE  IInv'
<1> DEFINE a == onAct[r]
<1>1. /\ a \in Actions /\ onTxn[r] \in Txns /\ approval[a] = "absent"
      /\ act[a].status # "absent" /\ act[a].decision \in Gated
  BY DEF IInv, ReqInv, Knows, OnAction, Labels, ProposeApproval
<1>2. /\ CreateApproval(a) \/ UNCHANGED storeVars
      /\ crashes' = crashes /\ (faults' = faults \/ Fault)
      /\ UNCHANGED toolVars /\ Goto(r, "park") /\ pc[r] = "approval"
  BY ZenonT(30) DEF ProposeApproval, Exec, Query
<1>3. EnvTypeOK' /\ ToolsTypeOK' /\ calls' = calls
  BY <1>2, EnvStays, ToolsUnchanged, ZenonT(30) DEF IInv, TypeOK
<1>4. /\ ReqTypeOK' /\ OnlyMoves(r) /\ pc'[r] = "park"
      /\ onTxn'[r] = onTxn[r] /\ onAct'[r] = a
  BY <1>2, GotoFacts, ZenonT(30) DEF Labels, IInv, TypeOK
<1>5. Knows(r)' /\ pc'[r] \notin InProposal
  BY <1>1, <1>4 DEF Knows, InGrant, InRun, InProposal
<1>6. CASE UNCHANGED storeVars
  <2>1. StoreTypeOK' /\ act' = act /\ approval' = approval
    BY <1>6, StoreUnchanged DEF IInv, TypeOK
  <2> QED
    BY <1>3, <1>4, <1>5, <2>1, LocalStep DEF TypeOK, EnvTypeOK
<1>7. CASE CreateApproval(a)
  <2>1. /\ StoreTypeOK' /\ act' = act /\ approval'[a] = "pending"
        /\ \A b \in Actions : b # a => approval'[b] = approval[b]
    BY <1>1, <1>7 DEF CreateApproval, IInv, TypeOK, StoreTypeOK
  <2>2. ~Authorised(a)
    BY <1>1 DEF Authorised, Gated
  <2>3. RowInv'
    BY <1>1, <1>3, <2>1, <2>2 DEF IInv, RowInv, Authorised
  <2>4. ASSUME NEW q \in Requests, q # r
        PROVE  Knows(q)'
    <3>1. Knows(q) /\ pc'[q] = pc[q] /\ onTxn'[q] = onTxn[q] /\ onAct'[q] = onAct[q]
          /\ row'[q] = row[q]
      BY <1>4, <2>4 DEF IInv, ReqInv, OnlyMoves
    <3>2. CASE onAct[q] = a
      <4>1. pc[q] \notin InProposal
        BY <1>2, <2>4, <3>2, ZenonT(30) DEF IInv, OneProposer, InProposal
      <4>2. pc[q] \notin InGrant \cup InRun
        BY <1>1, <2>2, <3>1, <3>2, ZenonT(30) DEF Knows
      <4> QED
        BY <3>1, <4>1, <4>2 DEF Knows, InProposal, InGrant
    <3>3. CASE onAct[q] # a
      BY <2>1, <3>1, <3>3, KnowsStays, ZenonT(30)
    <3> QED
      BY <3>2, <3>3
  <2>5. OneProposer'
    BY <1>4, <1>5, ProposersStay DEF IInv
  <2> QED
    BY <1>3, <1>4, <1>5, <2>1, <2>3, <2>4, <2>5 DEF IInv, TypeOK, EnvTypeOK, ReqInv
<1> QED
  BY <1>2, <1>6, <1>7

\* The last statement of a handler writes the transaction's status, or fails.
LEMMA TxnWriteStep ==
  ASSUME IInv, NEW r \in Requests, NEW t \in Txns, NEW s \in TxnStatus \cup {"absent"},
         SetTxnStatus(t, s) \/ UNCHANGED storeVars, faults' = faults \/ Fault,
         Finish(r), UNCHANGED <<toolVars, crashes>>
  PROVE  IInv'
<1>1. StoreTypeOK' /\ act' = act /\ approval' = approval
  BY SetTxnStatusFacts, StoreUnchanged DEF IInv, TypeOK
<1>2. EnvTypeOK' /\ ToolsTypeOK' /\ calls' = calls
  BY EnvStays, ToolsUnchanged DEF IInv, TypeOK
<1> QED
  BY <1>1, <1>2, FinishStep

\* ProposePark keeps the invariant.
LEMMA ProposeParkKeeps ==
  ASSUME IInv, NEW r \in Requests, ProposePark(r)
  PROVE  IInv'
<1> DEFINE s == MustTransition(seen[r], "AWAITING_APPROVAL")
<1>1. onTxn[r] \in Txns
  BY DEF IInv, ReqInv, Knows, OnAction, Labels, ProposePark
<1>2. s \in TxnStatus \cup {"absent"}
  BY MoveType, ZenonT(30) DEF IInv, TypeOK, ReqTypeOK, TxnStatus
<1> HIDE DEF s
<1>3. SetTxnStatus(onTxn[r], s) \/ UNCHANGED storeVars
  BY ZenonT(30) DEF ProposePark, Exec, Query, s
<1> QED
  BY <1>1, <1>2, <1>3, TxnWriteStep, ZenonT(30) DEF ProposePark, Exec, Query

-----------------------------------------------------------------------------
(* Execute. *)

\* ExecuteAction keeps the invariant.
LEMMA ExecuteActionKeeps ==
  ASSUME IInv, NEW r \in Requests, NEW a \in Actions, ExecuteAction(r, a)
  PROVE  IInv'
<1>1. StoreTypeOK' /\ act' = act /\ approval' = approval /\ ToolsTypeOK' /\ calls' = calls
  BY StoreUnchanged, ToolsUnchanged DEF ExecuteAction, IInv, TypeOK
<1>2. PICK l \in {"approvedPath", "allowedPath"} :
        Begin(r, "execute", a, l, "absent", NoRow)
  BY DEF ExecuteAction, Query
<1>3. l \in Labels
  BY ZenonT(30) DEF Labels
<1>4. /\ ReqTypeOK' /\ OnlyMoves(r) /\ pc'[r] = l
      /\ onTxn'[r] = TxnOf(a) /\ onAct'[r] = a
  BY <1>2, <1>3, BeginFacts, NoRowType, ZenonT(30) DEF IInv, TypeOK
<1>5. Knows(r)' /\ pc'[r] \notin InProposal
  BY <1>4, ActionParts DEF Knows, InGrant, InRun, InProposal
<1>6. EnvTypeOK'
  BY EnvStays, ZenonT(30) DEF ExecuteAction, Query
<1> QED
  BY <1>1, <1>4, <1>5, <1>6, LocalStep, ZenonT(30) DEF TypeOK, EnvTypeOK

\* Only an authorised action is admitted, so the copy that run works on is one.
LEMMA AdmitStep ==
  ASSUME IInv, NEW r \in Requests, onAct[r] \in Actions, onTxn[r] \in Txns,
         NEW ok, Admit(r, ok),
         ok => act[onAct[r]].status \notin Undecided /\ Authorised(onAct[r])
  PROVE  IInv'
<1>1. StoreTypeOK' /\ act' = act /\ approval' = approval /\ ToolsTypeOK' /\ calls' = calls
  BY StoreUnchanged, ToolsUnchanged, ZenonT(30) DEF Admit, IInv, TypeOK
<1>2. CASE ~ok
  BY <1>1, <1>2, FinishStep DEF Admit, IInv, TypeOK, EnvTypeOK, envVars
<1>3. CASE ok
  <2>1. act[onAct[r]] \in ActionRow /\ "run" \in Labels /\ ReqTypeOK
        /\ HoldRow(r, act[onAct[r]]) /\ Jump(r, "run")
    BY <1>3, ZenonT(30) DEF Admit, GetAction, Labels, IInv, TypeOK, StoreTypeOK
  <2>2. /\ ReqTypeOK' /\ OnlyMoves(r) /\ pc'[r] = "run" /\ onTxn'[r] = onTxn[r]
        /\ onAct'[r] = onAct[r] /\ row'[r] = act[onAct[r]]
    BY <2>1, HoldRowFacts, ZenonT(30)
  <2>3. Knows(r)' /\ pc'[r] \notin InProposal
    BY <1>1, <1>3, <2>2, ZenonT(30) DEF Knows, InGrant, InRun, InProposal, Authorised
  <2> QED
    BY <1>1, <2>2, <2>3, LocalStep, ZenonT(30) DEF IInv, TypeOK, Admit, envVars
<1> QED
  BY <1>2, <1>3, ZenonT(30)

\* RunApproved keeps the invariant.
LEMMA RunApprovedKeeps ==
  ASSUME IInv, NEW r \in Requests, RunApproved(r)
  PROVE  IInv'
<1>1. onAct[r] \in Actions /\ onTxn[r] \in Txns
  BY DEF IInv, ReqInv, Knows, OnAction, Labels, RunApproved
<1>2. act[onAct[r]].status = "approved" =>
        act[onAct[r]].status \notin Undecided /\ Authorised(onAct[r])
  BY <1>1 DEF IInv, RowInv, Undecided
<1> QED
  BY <1>1, <1>2, AdmitStep, ZenonT(30) DEF RunApproved, GetAction

\* ExecuteAllowed keeps the invariant.
LEMMA ExecuteAllowedKeeps ==
  ASSUME IInv, NEW r \in Requests, ExecuteAllowed(r)
  PROVE  IInv'
<1> DEFINE ok == act[onAct[r]].decision = "ALLOW"
                 /\ act[onAct[r]].status \in {"allowed", "approved"}
<1>1. onAct[r] \in Actions /\ onTxn[r] \in Txns
  BY DEF IInv, ReqInv, Knows, OnAction, Labels, ExecuteAllowed
<1>2. ok => act[onAct[r]].status \notin Undecided /\ Authorised(onAct[r])
  BY DEF Undecided, Authorised
<1>3. Admit(r, ok)
  BY DEF ExecuteAllowed, GetAction
<1> QED
  BY <1>1, <1>2, <1>3, AdmitStep, ZenonT(30)

\* A request inside run that stays there.
LEMMA RunOnStep ==
  ASSUME IInv, NEW r \in Requests, pc[r] \in InRun,
         Goto(r, "dispatch"),
         StoreTypeOK', act' = act, approval' = approval, EnvTypeOK',
         UNCHANGED toolVars
  PROVE  IInv'
<1>1. /\ ReqTypeOK' /\ OnlyMoves(r) /\ pc'[r] = "dispatch" /\ onTxn'[r] = onTxn[r]
      /\ onAct'[r] = onAct[r] /\ row'[r] = row[r]
  BY GotoFacts DEF Labels, IInv, TypeOK
<1>2. pc[r] \in OnAction
  BY DEF InRun, OnAction, Labels
<1>3. Knows(r)' /\ pc'[r] \notin InProposal
  BY <1>1, <1>2 DEF IInv, ReqInv, Knows, InGrant, InRun, InProposal, Authorised
<1> QED
  BY <1>1, <1>3, LocalStep, ToolsUnchanged DEF IInv, TypeOK, EnvTypeOK

\* RunReadTxn keeps the invariant.
LEMMA RunReadTxnKeeps ==
  ASSUME IInv, NEW r \in Requests, RunReadTxn(r)
  PROVE  IInv'
<1>1. /\ StoreTypeOK' /\ act' = act /\ approval' = approval
      /\ ToolsTypeOK' /\ calls' = calls
  BY StoreUnchanged, ToolsUnchanged, ZenonT(30) DEF RunReadTxn, IInv, TypeOK
<1>2. EnvTypeOK'
  BY EnvStays, ZenonT(30) DEF RunReadTxn, Query
<1>3. onTxn[r] \in Txns /\ pc[r] \in OnAction /\ pc[r] \in InRun
  BY DEF RunReadTxn, IInv, ReqInv, Knows, OnAction, Labels, InRun
<1>4. CASE Goto(r, "dispatch")
  BY <1>1, <1>2, <1>3, <1>4, RunOnStep, ZenonT(30) DEF RunReadTxn
<1>5. ASSUME NEW l \in {"mark", "dispatch"}, HoldTxn(r, GetTxn(onTxn[r])), Jump(r, l)
      PROVE  IInv'
  <2>1. l \in Labels /\ GetTxn(onTxn[r]) \in TxnStatus \cup {"absent"}
    BY <1>3 DEF Labels, GetTxn, IInv, TypeOK, StoreTypeOK
  <2>2. /\ ReqTypeOK' /\ OnlyMoves(r) /\ pc'[r] = l /\ onTxn'[r] = onTxn[r]
        /\ onAct'[r] = onAct[r] /\ row'[r] = row[r]
    BY <1>5, <2>1, HoldTxnFacts DEF IInv, TypeOK
  <2>3. Knows(r)' /\ pc'[r] \notin InProposal
    BY <1>1, <1>3, <2>2, ZenonT(30)
       DEF IInv, ReqInv, Knows, InGrant, InRun, InProposal, Authorised
  <2> QED
    BY <1>1, <1>2, <2>2, <2>3, LocalStep, ZenonT(30) DEF TypeOK, EnvTypeOK
<1> QED
  BY <1>4, <1>5 DEF RunReadTxn, Query

\* RunMarkExecuting keeps the invariant.
LEMMA RunMarkExecutingKeeps ==
  ASSUME IInv, NEW r \in Requests, RunMarkExecuting(r)
  PROVE  IInv'
<1>1. onTxn[r] \in Txns
  BY DEF IInv, ReqInv, Knows, OnAction, Labels, RunMarkExecuting
<1>2. SetTxnStatus(onTxn[r], "EXECUTING") \/ UNCHANGED storeVars
  BY ZenonT(30) DEF RunMarkExecuting, Exec, Query
<1>3. StoreTypeOK' /\ act' = act /\ approval' = approval
  BY <1>1, <1>2, SetTxnStatusFacts, StoreUnchanged DEF IInv, TypeOK, TxnStatus
<1>4. EnvTypeOK' /\ UNCHANGED toolVars
  BY EnvStays, ZenonT(30) DEF RunMarkExecuting, Exec, Query
<1> QED
  BY <1>3, <1>4, RunOnStep DEF RunMarkExecuting, InRun

\* The one step that calls a tool: the request knows the action is authorised.
LEMMA RunDispatchKeeps ==
  ASSUME IInv, NEW r \in Requests, RunDispatch(r)
  PROVE  IInv'
<1> DEFINE a == onAct[r]
<1>1. /\ a \in Actions /\ onTxn[r] \in Txns /\ act[a].status \notin Undecided
      /\ Authorised(a) /\ row[r].decision = act[a].decision
  BY DEF IInv, ReqInv, Knows, OnAction, Labels, InRun, RunDispatch
<1>2. PICK served \in BOOLEAN : Execute(a, served) /\ HoldHit(r, served)
  BY DEF RunDispatch
<1>3. /\ ToolsTypeOK'
      /\ \A b \in Actions : b # a => calls'[b] = calls[b]
  BY <1>1, <1>2, ExecuteFacts, ZenonT(30) DEF IInv, TypeOK
<1>4. StoreTypeOK' /\ act' = act /\ approval' = approval
  BY StoreUnchanged DEF RunDispatch, IInv, TypeOK
<1>5. /\ ReqTypeOK' /\ OnlyMoves(r) /\ pc'[r] = "calling" /\ onTxn'[r] = onTxn[r]
      /\ onAct'[r] = a /\ row'[r] = row[r]
  BY <1>2, HoldHitFacts, ZenonT(30) DEF RunDispatch, Labels, IInv, TypeOK
<1>6. RowInv'
  BY <1>1, <1>3, <1>4, ZenonT(30) DEF IInv, RowInv, Authorised
<1>7. Knows(r)'
  BY <1>1, <1>4, <1>5, ZenonT(30) DEF Knows, InGrant, InRun, Authorised
<1>8. \A q \in Requests : q # r => Knows(q)'
  BY <1>4, <1>5, KnowsStays, ZenonT(30) DEF IInv, ReqInv, OnlyMoves
<1>9. OneProposer'
  <2>1. pc'[r] \notin InProposal
    BY <1>5 DEF InProposal
  <2> QED
    BY <1>5, <2>1, ProposersStay DEF IInv
<1> QED
  BY <1>3, <1>4, <1>5, <1>6, <1>7, <1>8, <1>9, ZenonT(30)
     DEF IInv, TypeOK, ReqInv, RunDispatch, envVars

\* run and Reconcile write the outcome into the row, and go on to the receipt or end.
LEMMA OutcomeStep ==
  ASSUME IInv, NEW r \in Requests, pc[r] \in InRun,
         NEW out \in {"executed", "failed", "unknown"},
         UpdateAction(onAct[r], WithStatus(row[r], out)) \/ UNCHANGED storeVars,
         Goto(r, "receipt") \/ Finish(r),
         ToolsTypeOK', calls' = calls, EnvTypeOK'
  PROVE  IInv'
<1> DEFINE a == onAct[r]
           w == WithStatus(row[r], out)
<1>1. /\ a \in Actions /\ onTxn[r] \in Txns /\ act[a].status \notin Undecided
      /\ Authorised(a) /\ row[r].decision = act[a].decision
  BY DEF IInv, ReqInv, Knows, OnAction, Labels, InRun
<1>2. w \in ActionRow /\ w.status = out /\ w.decision = act[a].decision
  <2>1. row[r] \in ActionRow /\ out \in ActionStatus
    BY DEF IInv, TypeOK, ReqTypeOK, ActionStatus
  <2> QED
    BY <1>1, <2>1, RowParts
<1>3. UpdateAction(a, w) \/ UNCHANGED storeVars
  OBVIOUS
<1> HIDE DEF w
<1>4. ReqTypeOK' /\ OnlyMoves(r) /\ Knows(r)' /\ pc'[r] \notin InProposal
  <2>1. CASE Goto(r, "receipt")
    <3>1. /\ ReqTypeOK' /\ OnlyMoves(r) /\ pc'[r] = "receipt"
          /\ onTxn'[r] = onTxn[r] /\ onAct'[r] = a
      BY <2>1, GotoFacts, ZenonT(30) DEF Labels, IInv, TypeOK
    <3> QED
      BY <1>1, <3>1 DEF Knows, InGrant, InRun, InProposal
  <2>2. CASE Finish(r)
    BY <2>2, FinishFacts, IdleKnows DEF IInv, TypeOK
  <2> QED
    BY <2>1, <2>2
<1>5. CASE UNCHANGED storeVars
  <2>1. StoreTypeOK' /\ act' = act /\ approval' = approval
    BY <1>5, StoreUnchanged DEF IInv, TypeOK
  <2> QED
    BY <1>4, <2>1, LocalStep DEF TypeOK, EnvTypeOK
<1>6. CASE UpdateAction(a, w)
  <2>1. /\ StoreTypeOK' /\ act'[a] = w
        /\ \A b \in Actions : b # a => act'[b] = act[b]
        /\ approval' = approval
    BY <1>1, <1>2, <1>6, UpdateActionFacts, ZenonT(30) DEF IInv, TypeOK
  <2>2. TypeOK'
    BY <1>4, <2>1, ZenonT(30) DEF TypeOK, EnvTypeOK
  <2>3. w.status \notin Undecided /\ w.status # "allowed"
    BY <1>2 DEF Undecided
  <2> QED
    BY <1>1, <1>2, <1>4, <2>1, <2>2, <2>3, RewriteStep, ZenonT(30)
<1> QED
  BY <1>3, <1>5, <1>6

\* RunRecord keeps the invariant.
LEMMA RunRecordKeeps ==
  ASSUME IInv, NEW r \in Requests, RunRecord(r)
  PROVE  IInv'
<1>1. PICK out \in Outcomes(hit[r]) :
        /\ Exec(UpdateAction(onAct[r], WithStatus(row[r], out)))
        /\ IF out = "executed" THEN Goto(r, "receipt") ELSE Finish(r)
        /\ IF out = "unknown" /\ ~hit[r] THEN Abandon({onAct[r]}) ELSE UNCHANGED toolVars
  BY ZenonT(30) DEF RunRecord
<1>2. out \in {"executed", "failed", "unknown"}
  BY DEF Outcomes
<1>3. /\ UpdateAction(onAct[r], WithStatus(row[r], out)) \/ UNCHANGED storeVars
      /\ Goto(r, "receipt") \/ Finish(r)
      /\ faults' = faults \/ Fault
  BY <1>1, ZenonT(30) DEF Exec, Query
<1>4. onAct[r] \in Actions /\ pc[r] \in InRun /\ crashes' = crashes
  BY ZenonT(30) DEF IInv, ReqInv, Knows, OnAction, Labels, RunRecord, InRun
<1>5. ToolsTypeOK' /\ calls' = calls
  BY <1>1, <1>4, AbandonFacts, ToolsUnchanged, ZenonT(30) DEF IInv, TypeOK
<1>6. EnvTypeOK'
  BY <1>3, <1>4, EnvStays
<1> QED
  BY <1>2, <1>3, <1>4, <1>5, <1>6, OutcomeStep, ZenonT(30)

\* RunReceipt keeps the invariant.
LEMMA RunReceiptKeeps ==
  ASSUME IInv, NEW r \in Requests, RunReceipt(r)
  PROVE  IInv'
<1>1. onAct[r] \in Actions
  BY ZenonT(30) DEF IInv, ReqInv, Knows, OnAction, Labels, RunReceipt
<1>2. /\ AppendReceipt(onAct[r]) \/ UNCHANGED storeVars
      /\ crashes' = crashes /\ (faults' = faults \/ Fault)
      /\ UNCHANGED toolVars /\ Finish(r)
  BY DEF RunReceipt, Exec, Query
<1>3. StoreTypeOK' /\ act' = act /\ approval' = approval
  <2>1. CASE AppendReceipt(onAct[r])
    <3>1. StoreTypeOK
      BY DEF IInv, TypeOK
    <3> QED
      BY <1>1, <2>1, <3>1 DEF AppendReceipt, StoreTypeOK
  <2>2. CASE UNCHANGED storeVars
    BY <2>2, StoreUnchanged DEF IInv, TypeOK
  <2> QED
    BY <1>2, <2>1, <2>2
<1>4. EnvTypeOK' /\ ToolsTypeOK' /\ calls' = calls
  BY <1>2, EnvStays, ToolsUnchanged, ZenonT(30) DEF IInv, TypeOK
<1> QED
  BY <1>2, <1>3, <1>4, FinishStep, ZenonT(30)

-----------------------------------------------------------------------------
(* Reconcile. *)

\* Reconcile keeps the invariant.
LEMMA ReconcileKeeps ==
  ASSUME IInv, NEW r \in Requests, NEW a \in Actions, Reconcile(r, a)
  PROVE  IInv'
<1>1. StoreTypeOK' /\ act' = act /\ approval' = approval /\ ToolsTypeOK' /\ calls' = calls
  BY StoreUnchanged, ToolsUnchanged DEF Reconcile, IInv, TypeOK
<1>2. act[a] \in ActionRow /\ act[a].status = "unknown"
  BY DEF IInv, TypeOK, StoreTypeOK, Reconcile, GetAction
<1>3. "ask" \in Labels
  BY DEF Labels
<1>4. /\ ReqTypeOK' /\ OnlyMoves(r) /\ pc'[r] = "ask"
      /\ onTxn'[r] = TxnOf(a) /\ onAct'[r] = a /\ row'[r] = act[a]
  <2> DEFINE w == act[a]
  <2>1. Begin(r, "reconcile", a, "ask", "absent", w) /\ ReqTypeOK /\ w \in ActionRow
    BY <1>2 DEF Reconcile, GetAction, IInv, TypeOK
  <2> HIDE DEF w
  <2>2. /\ ReqTypeOK' /\ OnlyMoves(r) /\ pc'[r] = "ask"
        /\ onTxn'[r] = TxnOf(a) /\ onAct'[r] = a /\ row'[r] = w
    BY <1>3, <2>1, ActionParts DEF Begin, MaySend, Jump, ReqTypeOK, OnlyMoves
  <2> QED
    BY <2>2, ZenonT(30) DEF w
<1>5. Authorised(a) /\ act[a].status \notin Undecided
  BY <1>2 DEF IInv, RowInv, Undecided
<1>6. Knows(r)' /\ pc'[r] \notin InProposal
  BY <1>1, <1>4, <1>5, ActionParts, ZenonT(30)
     DEF Knows, InGrant, InRun, InProposal, Authorised
<1> QED
  BY <1>1, <1>4, <1>6, LocalStep, ZenonT(30) DEF IInv, TypeOK, Reconcile, envVars

\* ReconcileAsk keeps the invariant.
LEMMA ReconcileAskKeeps ==
  ASSUME IInv, NEW r \in Requests, ReconcileAsk(r)
  PROVE  IInv'
<1>1. StoreTypeOK' /\ act' = act /\ approval' = approval /\ ToolsTypeOK'
      /\ calls' = calls /\ EnvTypeOK'
  BY StoreUnchanged, ToolsUnchanged DEF ReconcileAsk, IInv, TypeOK, EnvTypeOK, envVars
<1>2. CASE Finish(r)
  BY <1>1, <1>2, FinishStep
<1>3. CASE HoldHit(r, Found(onAct[r])) /\ Jump(r, "settle")
  <2>1. Found(onAct[r]) \in BOOLEAN /\ "settle" \in Labels
    BY DEF Found, Labels
  <2>2. /\ ReqTypeOK' /\ OnlyMoves(r) /\ pc'[r] = "settle" /\ onTxn'[r] = onTxn[r]
        /\ onAct'[r] = onAct[r] /\ row'[r] = row[r]
    BY <1>3, <2>1, HoldHitFacts, ZenonT(30) DEF IInv, TypeOK
  <2>3. pc[r] = "ask"
    BY ZenonT(30) DEF ReconcileAsk
  <2>4. Knows(r)' /\ pc'[r] \notin InProposal
    BY <1>1, <2>2, <2>3 DEF IInv, ReqInv, Knows, OnAction, Labels, InGrant, InRun,
                            InProposal, Authorised
  <2> QED
    BY <1>1, <2>2, <2>4, LocalStep, ZenonT(30) DEF TypeOK, EnvTypeOK
<1> QED
  BY <1>2, <1>3 DEF ReconcileAsk

\* ReconcileSettle keeps the invariant.
LEMMA ReconcileSettleKeeps ==
  ASSUME IInv, NEW r \in Requests, ReconcileSettle(r)
  PROVE  IInv'
<1>1. PICK out \in {"executed", "failed", "unknown"} :
        UpdateAction(onAct[r], WithStatus(row[r], out)) \/ UNCHANGED storeVars
  BY DEF ReconcileSettle, Exec, Query
<1>2. pc[r] \in InRun /\ (Goto(r, "receipt") \/ Finish(r))
  BY DEF ReconcileSettle, InRun
<1>3. EnvTypeOK' /\ ToolsTypeOK' /\ calls' = calls
  BY EnvStays, ToolsUnchanged, ZenonT(30) DEF ReconcileSettle, Exec, Query, IInv, TypeOK
<1> QED
  BY <1>1, <1>2, <1>3, OutcomeStep, ZenonT(30)

-----------------------------------------------------------------------------
(* Approvals. *)

\* Decide keeps the invariant.
LEMMA DecideKeeps ==
  ASSUME IInv, NEW r \in Requests, NEW a \in Actions, Decide(r, a)
  PROVE  IInv'
<1>1. PICK approve \in BOOLEAN :
        /\ DecideApproval(a, approve)
        /\ \/ Begin(r, "decide", a, IF approve THEN "granted" ELSE "rejected",
                    "absent", NoRow)
           \/ UNCHANGED reqVars
  BY DEF Decide, Query
<1> DEFINE l == IF approve THEN "granted" ELSE "rejected"
<1>2. EnvTypeOK' /\ ToolsTypeOK' /\ calls' = calls
  BY EnvStays, ToolsUnchanged, ZenonT(30) DEF Decide, Query, IInv, TypeOK
<1>3. /\ StoreTypeOK' /\ act' = act
      /\ approval[a] = "pending"
      /\ approval'[a] = IF approve THEN "approved" ELSE "denied"
      /\ \A b \in Actions : b # a => approval'[b] = approval[b]
  BY <1>1 DEF DecideApproval, IInv, TypeOK, StoreTypeOK
<1>4. l \in Labels
  BY DEF Labels
<1>5. /\ act[a].status # "absent" /\ act[a].decision \in Gated
      /\ ~Authorised(a)
  BY <1>3 DEF IInv, RowInv, Authorised, Gated
<1>6. RowInv'
  BY <1>2, <1>3, <1>5, ZenonT(30) DEF IInv, RowInv, Authorised
<1>7. ASSUME NEW q \in Requests, pc'[q] = pc[q], onTxn'[q] = onTxn[q],
             onAct'[q] = onAct[q], row'[q] = row[q]
      PROVE  Knows(q)'
  <2>1. Knows(q)
    BY DEF IInv, ReqInv
  <2>2. CASE onAct[q] = a
    <3>1. /\ pc[q] \notin InGrant \cup InRun
          /\ pc[q] \notin {"evaluate", "screen", "record", "approval"}
      BY <2>1, <2>2, <1>3, <1>5, ZenonT(30) DEF Knows
    <3> QED
      BY <1>7, <2>1, <3>1, <1>3, ZenonT(30) DEF Knows, InGrant
  <2>3. CASE onAct[q] # a
    BY <1>7, <2>1, <2>3, <1>2, <1>3, KnowsStays
  <2> QED
    BY <2>2, <2>3
<1>8. CASE UNCHANGED reqVars
  <2>1. ReqTypeOK' /\ ReqInv' /\ OneProposer'
    BY <1>7, <1>8 DEF IInv, TypeOK, ReqTypeOK, ReqInv, OneProposer, reqVars, localVars
  <2> QED
    BY <1>2, <1>3, <1>6, <2>1 DEF IInv, TypeOK, EnvTypeOK
<1>9. CASE Begin(r, "decide", a, l, "absent", NoRow)
  <2>1. /\ ReqTypeOK' /\ OnlyMoves(r) /\ pc'[r] = l
        /\ onTxn'[r] = TxnOf(a) /\ onAct'[r] = a
    BY <1>4, <1>9, BeginFacts, NoRowType, ZenonT(30) DEF IInv, TypeOK
  <2>2. Knows(r)' /\ pc'[r] \notin InProposal
    BY <1>3, <2>1, ActionParts, ZenonT(30) DEF Knows, InGrant, InRun, InProposal
  <2>3. \A q \in Requests : q # r => Knows(q)'
    BY <1>7, <2>1 DEF OnlyMoves
  <2>4. OneProposer'
    BY <2>1, <2>2, ProposersStay DEF IInv
  <2> QED
    BY <1>2, <1>3, <1>6, <2>1, <2>2, <2>3, <2>4 DEF IInv, TypeOK, EnvTypeOK, ReqInv
<1> QED
  BY <1>1, <1>8, <1>9

\* GrantReadAction keeps the invariant.
LEMMA GrantReadActionKeeps ==
  ASSUME IInv, NEW r \in Requests, GrantReadAction(r)
  PROVE  IInv'
<1>1. StoreTypeOK' /\ act' = act /\ approval' = approval /\ ToolsTypeOK'
      /\ calls' = calls
  BY StoreUnchanged, ToolsUnchanged DEF GrantReadAction, IInv, TypeOK
<1>2. EnvTypeOK'
  BY EnvStays, ZenonT(30) DEF GrantReadAction, Query
<1>3. CASE Finish(r)
  BY <1>1, <1>2, <1>3, FinishStep
<1>4. CASE HoldRow(r, GetAction(onAct[r])) /\ Jump(r, "approve")
  <2>1. /\ onAct[r] \in Actions /\ onTxn[r] \in Txns
        /\ approval[onAct[r]] = "approved"
    BY ZenonT(30) DEF IInv, ReqInv, Knows, OnAction, Labels, InGrant, GrantReadAction
  <2>2. act[onAct[r]] \in ActionRow /\ "approve" \in Labels
    BY <2>1 DEF IInv, TypeOK, StoreTypeOK, Labels
  <2>3. /\ ReqTypeOK' /\ OnlyMoves(r) /\ pc'[r] = "approve" /\ onTxn'[r] = onTxn[r]
        /\ onAct'[r] = onAct[r] /\ row'[r] = act[onAct[r]]
    BY <1>4, <2>2, HoldRowFacts, ZenonT(30) DEF GetAction, IInv, TypeOK
  <2>4. Knows(r)' /\ pc'[r] \notin InProposal
    BY <1>1, <2>1, <2>3, ZenonT(30) DEF Knows, InGrant, InRun, InProposal
  <2> QED
    BY <1>1, <1>2, <2>3, <2>4, LocalStep, ZenonT(30) DEF TypeOK, EnvTypeOK
<1> QED
  BY <1>3, <1>4, ZenonT(30) DEF GrantReadAction, Query

\* GrantApprove keeps the invariant.
LEMMA GrantApproveKeeps ==
  ASSUME IInv, NEW r \in Requests, GrantApprove(r)
  PROVE  IInv'
<1> DEFINE a == onAct[r]
           w == WithStatus(row[r], "approved")
<1>1. /\ a \in Actions /\ onTxn[r] \in Txns
      /\ approval[a] = "approved" /\ row[r].decision = act[a].decision
  BY ZenonT(30) DEF IInv, ReqInv, Knows, OnAction, Labels, InGrant, GrantApprove
<1>2. Authorised(a)
  BY <1>1, ZenonT(30) DEF IInv, RowInv, Authorised
<1>3. w \in ActionRow /\ w.status = "approved" /\ w.decision = act[a].decision
  <2>1. row[r] \in ActionRow /\ "approved" \in ActionStatus
    BY DEF IInv, TypeOK, ReqTypeOK, ActionStatus
  <2> QED
    BY <1>1, <2>1, RowParts
<1> HIDE DEF w
<1>4. /\ UpdateAction(a, w) \/ UNCHANGED storeVars
      /\ crashes' = crashes /\ (faults' = faults \/ Fault)
      /\ UNCHANGED toolVars /\ Goto(r, "grantTxn")
  BY ZenonT(30) DEF GrantApprove, Exec, Query, w
<1>5. /\ ReqTypeOK' /\ OnlyMoves(r) /\ pc'[r] = "grantTxn"
      /\ onTxn'[r] = onTxn[r] /\ onAct'[r] = a
  BY <1>4, GotoFacts DEF Labels, IInv, TypeOK
<1>6. Knows(r)' /\ pc'[r] \notin InProposal
  BY <1>1, <1>5, ZenonT(30) DEF Knows, InGrant, InRun, InProposal
<1>7. EnvTypeOK' /\ ToolsTypeOK' /\ calls' = calls
  BY <1>4, EnvStays, ToolsUnchanged, ZenonT(30) DEF IInv, TypeOK
<1>8. CASE UNCHANGED storeVars
  <2>1. StoreTypeOK' /\ act' = act /\ approval' = approval
    BY <1>8, StoreUnchanged DEF IInv, TypeOK
  <2> QED
    BY <1>5, <1>6, <1>7, <2>1, LocalStep DEF TypeOK, EnvTypeOK
<1>9. CASE UpdateAction(a, w)
  <2>1. /\ StoreTypeOK' /\ act'[a] = w
        /\ \A b \in Actions : b # a => act'[b] = act[b]
        /\ approval' = approval
    BY <1>1, <1>3, <1>9, UpdateActionFacts DEF IInv, TypeOK
  <2>2. TypeOK'
    BY <1>5, <1>7, <2>1, ZenonT(30) DEF TypeOK, EnvTypeOK
  <2>3. w.status \notin Undecided /\ w.status # "allowed"
    BY <1>3 DEF Undecided
  <2> QED
    BY <1>1, <1>2, <1>3, <1>5, <1>6, <1>7, <2>1, <2>2, <2>3, RewriteStep, ZenonT(30)
<1> QED
  BY <1>4, <1>8, <1>9

\* DecideReadTxn keeps the invariant.
LEMMA DecideReadTxnKeeps ==
  ASSUME IInv, NEW r \in Requests, DecideReadTxn(r)
  PROVE  IInv'
<1>1. StoreTypeOK' /\ act' = act /\ approval' = approval /\ ToolsTypeOK'
      /\ calls' = calls
  BY StoreUnchanged, ToolsUnchanged, ZenonT(30) DEF DecideReadTxn, IInv, TypeOK
<1>2. EnvTypeOK'
  BY EnvStays, ZenonT(30) DEF DecideReadTxn, Query
<1>3. CASE Finish(r)
  BY <1>1, <1>2, <1>3, FinishStep
<1>4. ASSUME NEW l \in {"grantSet", "rejectSet"}, HoldTxn(r, GetTxn(onTxn[r])), Jump(r, l)
      PROVE  IInv'
  <2>1. onAct[r] \in Actions /\ onTxn[r] \in Txns
    BY ZenonT(30) DEF IInv, ReqInv, Knows, OnAction, Labels, DecideReadTxn
  <2>2. l \in Labels /\ GetTxn(onTxn[r]) \in TxnStatus \cup {"absent"}
    BY <2>1 DEF Labels, GetTxn, IInv, TypeOK, StoreTypeOK
  <2>3. /\ ReqTypeOK' /\ OnlyMoves(r) /\ pc'[r] = l
        /\ onTxn'[r] = onTxn[r] /\ onAct'[r] = onAct[r]
    BY <1>4, <2>2, HoldTxnFacts DEF IInv, TypeOK
  <2>4. Knows(r)' /\ pc'[r] \notin InProposal
    BY <2>1, <2>3 DEF Knows, InGrant, InRun, InProposal
  <2> QED
    BY <1>1, <1>2, <2>3, <2>4, LocalStep, ZenonT(30) DEF TypeOK, EnvTypeOK
<1> QED
  BY <1>3, <1>4 DEF DecideReadTxn, Query

\* DecideSetTxn keeps the invariant.
LEMMA DecideSetTxnKeeps ==
  ASSUME IInv, NEW r \in Requests, DecideSetTxn(r)
  PROVE  IInv'
<1>1. onTxn[r] \in Txns
  BY ZenonT(30) DEF IInv, ReqInv, Knows, OnAction, Labels, DecideSetTxn
<1>2. \A s \in TxnStatus : MustTransition(seen[r], s) \in TxnStatus \cup {"absent"}
  BY MoveType DEF IInv, TypeOK, ReqTypeOK
<1>3. PICK s \in TxnStatus \cup {"absent"} :
        /\ SetTxnStatus(onTxn[r], s) \/ UNCHANGED storeVars
        /\ faults' = faults \/ Fault
  <2>1. "EXECUTING" \in TxnStatus /\ "ABORTING" \in TxnStatus
    BY DEF TxnStatus
  <2> QED
    BY <1>2, <2>1, ZenonT(30) DEF DecideSetTxn, Exec, Query
<1> QED
  BY <1>1, <1>3, TxnWriteStep, ZenonT(30) DEF DecideSetTxn

-----------------------------------------------------------------------------
(* Commit. *)

\* Commit keeps the invariant.
LEMMA CommitKeeps ==
  ASSUME IInv, NEW r \in Requests, NEW t \in Txns, Commit(r, t)
  PROVE  IInv'
<1>1. StoreTypeOK' /\ act' = act /\ approval' = approval /\ ToolsTypeOK'
      /\ calls' = calls /\ EnvTypeOK'
  BY StoreUnchanged, ToolsUnchanged DEF Commit, IInv, TypeOK, EnvTypeOK, envVars
<1>2. "check" \in Labels /\ GetTxn(t) \in TxnStatus \cup {"absent"}
  BY DEF Labels, GetTxn, IInv, TypeOK, StoreTypeOK
<1>3. ReqTypeOK' /\ OnlyMoves(r) /\ pc'[r] = "check" /\ onTxn'[r] = t
  BY <1>2, ZenonT(30) DEF Commit, Jump, ReqTypeOK, OnlyMoves, IInv, TypeOK
<1>4. Knows(r)' /\ pc'[r] \notin InProposal
  BY <1>3, ZenonT(30) DEF Knows, OnAction, InGrant, InRun, InProposal
<1> QED
  BY <1>1, <1>3, <1>4, LocalStep DEF TypeOK, EnvTypeOK

\* CommitCheck keeps the invariant.
LEMMA CommitCheckKeeps ==
  ASSUME IInv, NEW r \in Requests, CommitCheck(r)
  PROVE  IInv'
<1>1. StoreTypeOK' /\ act' = act /\ approval' = approval /\ ToolsTypeOK'
      /\ calls' = calls
  BY StoreUnchanged, ToolsUnchanged, ZenonT(30) DEF CommitCheck, IInv, TypeOK
<1>2. EnvTypeOK' /\ (Finish(r) \/ Goto(r, "commit"))
  BY EnvStays, ZenonT(30) DEF CommitCheck, Judge, Query
<1>3. CASE Finish(r)
  BY <1>1, <1>2, <1>3, FinishStep
<1>4. CASE Goto(r, "commit")
  <2>1. ReqTypeOK' /\ OnlyMoves(r) /\ pc'[r] = "commit" /\ onTxn'[r] = onTxn[r]
    BY <1>4, GotoFacts, ZenonT(30) DEF Labels, IInv, TypeOK
  <2>2. onTxn[r] \in Txns
    BY ZenonT(30) DEF IInv, ReqInv, Knows, CommitCheck
  <2>3. Knows(r)' /\ pc'[r] \notin InProposal
    BY <2>1, <2>2, ZenonT(30) DEF Knows, OnAction, InGrant, InRun, InProposal
  <2> QED
    BY <1>1, <1>2, <2>1, <2>3, LocalStep DEF TypeOK, EnvTypeOK
<1> QED
  BY <1>2, <1>3, <1>4, ZenonT(30)

\* CommitSet keeps the invariant.
LEMMA CommitSetKeeps ==
  ASSUME IInv, NEW r \in Requests, CommitSet(r)
  PROVE  IInv'
<1>1. onTxn[r] \in Txns /\ "COMMITTED" \in TxnStatus \cup {"absent"}
  BY ZenonT(30) DEF IInv, ReqInv, Knows, CommitSet, TxnStatus
<1> QED
  BY <1>1, TxnWriteStep, ZenonT(30) DEF CommitSet, Exec, Query

-----------------------------------------------------------------------------
(* Steps of no request, and the invariant. *)

\* A step of no request keeps the invariant.
LEMMA FrameStep ==
  ASSUME IInv, TypeOK', UNCHANGED <<act, approval, calls, reqVars>>
  PROVE  IInv'
BY ZenonT(30) DEF IInv, RowInv, ReqInv, OneProposer, Knows, Authorised, reqVars, localVars

\* HandleCreateTxn keeps the invariant.
LEMMA HandleCreateTxnKeeps ==
  ASSUME IInv, NEW t \in Txns, HandleCreateTxn(t)
  PROVE  IInv'
<1>1. TypeOK'
  <2>1. StoreTypeOK'
    BY DEF HandleCreateTxn, CreateTxn, IInv, TypeOK, StoreTypeOK, TxnStatus
  <2> QED
    BY <2>1, ToolsUnchanged
       DEF HandleCreateTxn, IInv, TypeOK, ReqTypeOK, reqVars, localVars, envVars
<1> QED
  BY <1>1, FrameStep DEF HandleCreateTxn, CreateTxn, toolVars

\* ProviderStep keeps the invariant.
LEMMA ProviderStepKeeps ==
  ASSUME IInv, NEW a \in Actions, ProviderStep(a)
  PROVE  IInv'
<1>1. ToolsTypeOK' /\ calls' = calls
  BY ApplyType DEF ProviderStep, LateArrival, IInv, TypeOK, ToolsTypeOK
<1>2. TypeOK'
  BY <1>1, StoreUnchanged
     DEF ProviderStep, IInv, TypeOK, ReqTypeOK, reqVars, localVars, envVars
<1> QED
  BY <1>1, <1>2, FrameStep DEF ProviderStep, storeVars

\* Crash keeps the invariant.
LEMMA CrashKeeps ==
  ASSUME IInv, Crash
  PROVE  IInv'
<1>1. StoreTypeOK' /\ act' = act /\ approval' = approval
  BY StoreUnchanged, ZenonT(30) DEF Crash, IInv, TypeOK
<1>2. ToolsTypeOK' /\ calls' = calls
  <2> DEFINE S == {onAct[r] : r \in {q \in Requests : At(q, "calling") /\ ~hit[q]}}
  <2>1. S \in SUBSET Actions
    BY DEF IInv, ReqInv, Knows, OnAction, Labels
  <2>2. Abandon(S)
    BY DEF Crash
  <2> HIDE DEF S
  <2> QED
    BY <2>1, <2>2, AbandonFacts DEF IInv, TypeOK
<1>3. ReqTypeOK'
  BY NoRowType DEF Crash, ReqTypeOK, Labels
<1>4. crashes' \in 0 .. MaxCrashes /\ faults' \in 0 .. MaxFaults
  BY GatewayAssumption DEF Crash, IInv, TypeOK
<1>5. RowInv'
  BY <1>1, <1>2, ZenonT(30) DEF IInv, RowInv, Authorised
<1>6. \A r \in Requests : Knows(r)' /\ pc'[r] \notin InProposal
  BY IdleKnows DEF Crash
<1>7. OneProposer'
  BY <1>6 DEF OneProposer
<1> QED
  BY <1>1, <1>2, <1>3, <1>4, <1>5, <1>6, <1>7 DEF IInv, TypeOK, ReqInv

\* The invariant holds initially.
LEMMA InitIInv == Init => IInv
<1> SUFFICES ASSUME Init PROVE IInv
  OBVIOUS
<1>1. StoreTypeOK /\ ToolsTypeOK
  BY NoRowType DEF Init, StoreInit, ToolsInit, StoreTypeOK, ToolsTypeOK
<1>2. ReqTypeOK /\ crashes \in 0 .. MaxCrashes /\ faults \in 0 .. MaxFaults
  BY NoRowType, GatewayAssumption DEF Init, ReqTypeOK, Labels
<1>3. RowInv
  BY DEF Init, StoreInit, ToolsInit, RowInv, NoRow
<1>4. ReqInv /\ OneProposer
  BY DEF Init, ReqInv, OneProposer, Knows, OnAction, InGrant, InRun, InProposal
<1> QED
  BY <1>1, <1>2, <1>3, <1>4 DEF IInv, TypeOK

\* Every step keeps the invariant: one lemma above for each action.
LEMMA NextIInv ==
  ASSUME IInv, [Next]_vars
  PROVE  IInv'
<1>1. CASE UNCHANGED vars
  <2>1. TypeOK'
    BY <1>1 DEF vars, storeVars, toolVars, reqVars, localVars, envVars, IInv, TypeOK,
                StoreTypeOK, ToolsTypeOK, ReqTypeOK
  <2> QED
    BY <1>1, <2>1, FrameStep DEF vars, storeVars, toolVars
<1>2. ASSUME NEW t \in Txns, HandleCreateTxn(t) PROVE IInv'
  BY <1>2, HandleCreateTxnKeeps
<1>3. ASSUME NEW r \in Requests, ClientStep(r) PROVE IInv'
  BY <1>3, ProposeKeeps, ExecuteActionKeeps, ReconcileKeeps, DecideKeeps, CommitKeeps
     DEF ClientStep
<1>4. ASSUME NEW r \in Requests, HandlerStep(r) PROVE IInv'
  BY <1>4, ProposeAddKeeps, ProposeEvaluateKeeps, ProposeScreenKeeps,
     ProposeRecordKeeps, ProposeApprovalKeeps, ProposeParkKeeps, RunApprovedKeeps,
     ExecuteAllowedKeeps, RunReadTxnKeeps, RunMarkExecutingKeeps, RunDispatchKeeps,
     RunRecordKeeps, RunReceiptKeeps, ReconcileAskKeeps, ReconcileSettleKeeps,
     GrantReadActionKeeps, GrantApproveKeeps, DecideReadTxnKeeps, DecideSetTxnKeeps,
     CommitCheckKeeps, CommitSetKeeps
     DEF HandlerStep
<1>5. ASSUME NEW a \in Actions, ProviderStep(a) PROVE IInv'
  BY <1>5, ProviderStepKeeps
<1>6. CASE Crash
  BY <1>6, CrashKeeps
<1> QED
  BY <1>1, <1>2, <1>3, <1>4, <1>5, <1>6 DEF Next

\* IInv is an inductive invariant of the gateway.
THEOREM Inductive == Spec => []IInv
BY InitIInv, NextIInv, PTL DEF Spec

\* Every store row and every handler's copy keeps its type, for any number of
\* requests, transactions and keys, with either store, through crashes and failing
\* statements.
THEOREM TypeCorrect == Spec => []TypeOK
<1>1. IInv => TypeOK
  BY DEF IInv
<1> QED
  BY <1>1, Inductive, PTL

\* Only authorised actions are called, and neither a denial nor a missing approval
\* authorises.
LEMMA InvGates == IInv => DeniedNeverDispatched /\ ApprovalGate
<1> SUFFICES ASSUME IInv
             PROVE  DeniedNeverDispatched /\ ApprovalGate
  OBVIOUS
<1>1. ASSUME NEW a \in Actions, act[a].decision = "DENY" \/ approval[a] = "denied"
      PROVE  calls[a] = 0
  <2>1. ~Authorised(a)
    BY <1>1 DEF IInv, RowInv, Authorised, Gated
  <2>2. calls[a] \in Nat
    BY DEF IInv, TypeOK, ToolsTypeOK
  <2>3. ~(calls[a] > 0)
    BY <2>1, ZenonT(30) DEF IInv, RowInv
  <2> QED
    BY <2>2, <2>3
<1>2. ApprovalGate
  BY DEF IInv, RowInv, Authorised, ApprovalGate
<1> QED
  BY <1>1, <1>2 DEF DeniedNeverDispatched

\* A denied action never reaches its tool: ExecuteAllowed and RunApproved admit
\* only authorised actions, and neither a stale row that is written back nor a write
\* that is lost makes one so.
THEOREM NoDeniedDispatch == Spec => []DeniedNeverDispatched
<1>1. IInv => DeniedNeverDispatched
  BY InvGates
<1> QED
  BY <1>1, Inductive, PTL

\* An action that needs approval is called only after its approval was granted.
THEOREM ApprovalRequired == Spec => []ApprovalGate
<1>1. IInv => ApprovalGate
  BY InvGates
<1> QED
  BY <1>1, Inductive, PTL

-----------------------------------------------------------------------------
(* A decision, once recorded, is final. *)

\* What one step may do to the row of a decided action.
DecidedStays(a) ==
  act[a].status \notin Undecided =>
    act'[a].decision = act[a].decision /\ act'[a].status \notin Undecided

\* Every write of a whole row is lost, finds the row undecided or carries the row's
\* own decision.
LEMMA WriteStays ==
  ASSUME IInv, NEW a \in Actions, NEW w \in ActionRow,
         UpdateAction(a, w) \/ UNCHANGED storeVars,
         \/ act[a].status \in Undecided
         \/ w.decision = act[a].decision /\ w.status \notin Undecided
  PROVE  \A b \in Actions : DecidedStays(b)
BY UpdateActionFacts DEF IInv, TypeOK, DecidedStays, storeVars

\* No step of a proposal changes a decision that is recorded.
LEMMA ProposalStays ==
  ASSUME IInv, NEW r \in Requests,
         ProposeAdd(r) \/ ProposeEvaluate(r) \/ ProposeScreen(r) \/ ProposeRecord(r)
  PROVE  \A b \in Actions : DecidedStays(b)
<1> DEFINE a == onAct[r]
<1>1. a \in Actions
  BY ZenonT(30) DEF IInv, ReqInv, Knows, OnAction, Labels,
         ProposeAdd, ProposeEvaluate, ProposeScreen, ProposeRecord
<1>2. CASE ProposeAdd(r)
  BY <1>1, <1>2, ZenonT(30)
     DEF ProposeAdd, Query, AddActionReplay, AddActionFresh, storeVars, DecidedStays,
         Undecided, IInv, TypeOK, StoreTypeOK
<1>3. ASSUME NEW d \in Effect, act[a].status = "proposed",
             Assign(a, [status |-> "proposed", decision |-> d])
      PROVE  \A b \in Actions : DecidedStays(b)
  <2>1. CASE Backend = "memory"
    BY <1>1, <1>3, <2>1, FreshRow, WriteStays, ZenonT(30) DEF Assign, Undecided
  <2>2. CASE Backend # "memory"
    BY <1>3, <2>2, ZenonT(30) DEF Assign, storeVars, DecidedStays
  <2> QED
    BY <2>1, <2>2
<1>4. CASE ProposeEvaluate(r)
  <2>1. act[a].status = "proposed"
    BY <1>4, ZenonT(30) DEF ProposeEvaluate, IInv, ReqInv, Knows
  <2> QED
    BY <1>3, <1>4, <2>1 DEF ProposeEvaluate
<1>5. CASE ProposeScreen(r)
  <2>1. act[a].status = "proposed"
    BY <1>5, ZenonT(30) DEF ProposeScreen, IInv, ReqInv, Knows
  <2>2. PICK d \in Effect : Assign(a, [status |-> "proposed", decision |-> d])
    BY <1>5, ZenonT(30) DEF ProposeScreen, Effect
  <2> QED
    BY <1>3, <2>1, <2>2, ZenonT(30)
<1>6. CASE ProposeRecord(r)
  <2>1. /\ act[a].status \in Undecided
        /\ row[r].decision \in Effect /\ row[r] \in ActionRow
    BY <1>6, ZenonT(30) DEF ProposeRecord, IInv, TypeOK, ReqTypeOK, ReqInv, Knows, Undecided
  <2>2. WithStatus(row[r], StatusFor(row[r].decision)) \in ActionRow
    BY <2>1, StatusForFacts, RowParts, ZenonT(30) DEF ActionStatus
  <2> QED
    BY <1>1, <1>6, <2>1, <2>2, WriteStays, ZenonT(30) DEF ProposeRecord, Exec, Query
<1> QED
  BY <1>2, <1>4, <1>5, <1>6

\* Writing an outcome keeps the decision of the row.
LEMMA OutcomeStays ==
  ASSUME IInv, NEW r \in Requests, pc[r] \in InRun \cup {"approve"},
         NEW s \in {"approved", "executed", "failed", "unknown"},
         UpdateAction(onAct[r], WithStatus(row[r], s)) \/ UNCHANGED storeVars
  PROVE  \A b \in Actions : DecidedStays(b)
<1>1. onAct[r] \in Actions /\ row[r].decision = act[onAct[r]].decision
  BY DEF IInv, ReqInv, Knows, OnAction, Labels, InRun
<1>2. /\ WithStatus(row[r], s) \in ActionRow /\ WithStatus(row[r], s).status = s
      /\ WithStatus(row[r], s).decision = row[r].decision
  BY RowParts DEF IInv, TypeOK, ReqTypeOK, ActionStatus
<1>3. s \notin Undecided
  BY DEF Undecided
<1> QED
  BY <1>1, <1>2, <1>3, WriteStays, ZenonT(30)

\* No step changes a decision that is recorded.
LEMMA NextStays ==
  ASSUME IInv, [Next]_vars
  PROVE  \A a \in Actions : DecidedStays(a)
<1>1. CASE act' = act
  BY <1>1 DEF DecidedStays
<1>2. ASSUME NEW r \in Requests, RunRecord(r)
      PROVE  \A a \in Actions : DecidedStays(a)
  <2>1. PICK s \in Outcomes(hit[r]) :
          UpdateAction(onAct[r], WithStatus(row[r], s)) \/ UNCHANGED storeVars
    BY <1>2 DEF RunRecord, Exec, Query
  <2>2. s \in {"approved", "executed", "failed", "unknown"} /\ pc[r] \in InRun
    BY <1>2, ZenonT(30) DEF Outcomes, RunRecord, InRun
  <2> QED
    BY <2>1, <2>2, OutcomeStays, ZenonT(30)
<1>3. ASSUME NEW r \in Requests, ReconcileSettle(r)
      PROVE  \A a \in Actions : DecidedStays(a)
  <2>1. PICK s \in {"executed", "failed"} :
          UpdateAction(onAct[r], WithStatus(row[r], s)) \/ UNCHANGED storeVars
    BY <1>3 DEF ReconcileSettle, Exec, Query
  <2> QED
    BY <1>3, <2>1, OutcomeStays DEF ReconcileSettle, InRun
<1>4. ASSUME NEW r \in Requests, GrantApprove(r)
      PROVE  \A a \in Actions : DecidedStays(a)
  BY <1>4, OutcomeStays DEF GrantApprove, Exec, Query
<1>5. ASSUME NEW r \in Requests, ClientStep(r)
      PROVE  act' = act
  BY <1>5 DEF ClientStep, Propose, ExecuteAction, Reconcile, Decide, DecideApproval,
              Commit, storeVars
<1>6. ASSUME NEW r \in Requests, HandlerStep(r)
      PROVE  \A a \in Actions : DecidedStays(a)
  <2>1. CASE \/ ProposeApproval(r) \/ ProposePark(r) \/ RunApproved(r)
             \/ ExecuteAllowed(r) \/ RunReadTxn(r) \/ RunMarkExecuting(r)
             \/ RunDispatch(r) \/ RunReceipt(r) \/ ReconcileAsk(r)
             \/ GrantReadAction(r) \/ DecideReadTxn(r) \/ DecideSetTxn(r)
             \/ CommitCheck(r) \/ CommitSet(r)
    BY <1>1, <2>1, ZenonT(30) DEF ProposeApproval, CreateApproval, ProposePark, RunApproved,
      ExecuteAllowed, Admit, RunReadTxn, RunMarkExecuting, RunDispatch, RunReceipt,
      AppendReceipt, ReconcileAsk, GrantReadAction, DecideReadTxn, DecideSetTxn,
      CommitCheck, CommitSet, SetTxnStatus, Exec, Query, storeVars
  <2> QED
    BY <1>2, <1>3, <1>4, <1>6, <2>1, ProposalStays DEF HandlerStep
<1>7. (\E t \in Txns : HandleCreateTxn(t)) \/ (\E a \in Actions : ProviderStep(a))
      \/ Crash \/ UNCHANGED vars => act' = act
  BY ZenonT(30) DEF HandleCreateTxn, CreateTxn, ProviderStep, Crash, storeVars, vars
<1> QED
  BY <1>1, <1>5, <1>6, <1>7 DEF Next

\* The recorded decision of an action never changes and no action returns to
\* "proposed": although every UpdateAction overwrites a whole row from a handler's
\* copy, no copy that is written back after the decision holds another one.
THEOREM DecisionsAreFinal == Spec => DecisionFinal
<1>1. ASSUME IInv, [Next]_vars
      PROVE  [\A a \in Actions :
                act[a].status \notin {"absent", "proposed"} =>
                  /\ act'[a].decision = act[a].decision
                  /\ act'[a].status \notin {"absent", "proposed"}]_vars
  BY <1>1, NextStays, ZenonT(30) DEF DecidedStays, Undecided
<1> QED
  BY <1>1, Inductive, PTL DEF Spec, DecisionFinal
==============================================================================
