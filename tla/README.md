# SettleAgent in TLA+

SettleAgent stands between autonomous agents and the tools they call. An agent
proposes an action inside a transaction; the gateway decides it under the
agent's grants and the organization's policies, asks a human where the policy
says so, calls the tool, reconciles what it cannot be sure of, and attests every
execution with a receipt in a hash chain. This directory models that path from
the Go source, checks the models with TLC on small instances and proves some of
the results with TLAPS for instances of any size.

Source paths below are relative to the repository root; `service.go` is
`internal/gateway/service.go`, `server.go` is `internal/api/server.go`.

## 1. The system

### Parts

| Part | State | Operations |
|---|---|---|
| Gateway service (`internal/gateway/service.go`) | none of its own | `ProposeAction`, `ExecuteAllowed`, `RunApproved`, `run`, `Commit`, `Reconcile`, `CompensateTransaction` |
| API handlers (`internal/api`) | none of their own | create transaction, propose, execute, decide approval, commit, reconcile, policy sets, grants, MCP, integrations |
| Stores (`internal/store`) | transactions, actions, approvals, receipts, policy sets, grants, credentials, audit events | one mutex section (MemoryStore) or a few SQL statements (PGStore) per call |
| Transaction state machine (`internal/transactions`) | transition table | `CanTransition`, `MustTransition` |
| Tool registry and providers (`internal/actions`, `internal/integrations`) | handlers, compensators, reconcilers; the world outside | `Execute`, `Compensate`, `ReconcilerFor`, `Register` |
| Receipts and keys (`internal/receipts`, `internal/keys`) | chain head, signing key | `AppendReceipt`, `signReceipt`, `UpdateReceipt`, `VerifyChain` |
| Policies and authority (`internal/policies`, `internal/gateway/authority.go`) | policy sets, grants | `Evaluate`, `CheckAuthority`, `Simulate`, create and activate sets, create and revoke grants |
| Risk screen (`internal/gateway/risk.go`, `internal/jev`) | none | counts sibling actions, asks a judge, may turn an allowance into a request for approval |
| Credentials and rate limit (`internal/auth`) | tokens, buckets | issue, rotate, revoke, `Authenticate`, `Allow` |
| MCP proxy and integration secrets (`internal/api/mcp.go`, `internal/api/integrations.go`, `internal/integrations`) | rows with sealed secrets, handlers in the registry | register a server, proxy a call, set a credential |
| Process entry point and migrations (`apps/api/main.go`, `internal/store/migrate.go`) | schema, the first organization, keys of the process | `Migrate`, `SeedOrg`, `SetPolicies`, `mustOperatorToken`, `keys.Load` |
| Audit log, observability | rows, spans | appended, read by nobody |
| Dashboard, Python SDK, examples, deployment | none that the gateway depends on | clients and descriptions |

### How they interact, and what is hard about it

Every HTTP request runs in a goroutine of its own. A *store call* is atomic, a
*handler* is not: it reads a row, decides, calls a tool over the network, and
writes the whole row back from its copy. Between any two calls another request
may run, and with PGStore the process may die and come back with the rows and
nothing else, or a statement may fail, an error most of `postgres.go` drops. The
provider may serve a call whose answer never arrives, or serve it after the gateway
has given up. `Recover` reports unfinished transactions and changes none. From this come the questions asked below:

* can an action run twice, or run although it was denied or never approved?
* does a stale copy written back undo a decision?
* does every proposal get its decision and every execution its receipt?
* does a receipt attest something that happened, and is the chain one history?
* is exactly one policy set in force, and is a decision stamped with the set it
  was really made under?
* does a compensated transaction mean what its status says?
* does a revocation hold while requests with the credential are under way, and
  how many requests can a fixed window really admit?
* does the process come up after dying anywhere on the way, and what does it then
  serve? Can it still read the secrets it stored?
* do the handlers in memory match the rows they were made from, and does a call
  ever carry one server's token to another?
* is a burst of actions judged as a burst when all are screened at once?

The hazards behind these questions are listed line by line in `PROJECT.json`.

## 2. Modules

| Module | Models | Built on |
|---|---|---|
| `Transactions` | transaction statuses and the transition table (`statemachine.go`) | |
| `Store` | rows of transactions, actions, approvals, receipts per action; the store calls | `Transactions` |
| `Tools` | registry and providers: calls, effects, lost and late calls, idempotency keys, the refund reconciler | `Store` |
| `Gateway` | every handler on the path of an action, one action per store or tool call | `Tools` |
| `Lifecycle` | the abstract life of one action | |
| `Saga` | `CompensateTransaction` beside the handlers | `Gateway` |
| `ReceiptChain` | appending, signing, verifying, for several organizations | |
| `Rules` | pure operators: grant coverage, amounts, rule matching, `Evaluate`, the seeded policies | |
| `Authorization` | policy sets, grants, registered classes, the clock and proposals being decided | `Rules`, `RiskScreen` |
| `Access` | rate limiter, authentication, issuing and revoking credentials | |
| `Startup` | the steps of `main` from migrations to serving, keys and the sealing of secrets | |
| `RiskScreen` | pure operators: score conversion and escalation | |
| `Upstreams` | MCP servers, third-party secrets, the registry, screened proposals, over the booting and crashing process | `Startup`, `RiskScreen` |
| `GatewayProofs`, `ReceiptChainProofs` | theorems | their component |
| `MCGateway`, `MCReceiptChain`, `MCSaga`, `MCAuthorization`, `MCAccess`, `MCUpstreams` | constants and symmetry for TLC | their component |

### Gateway

A request is a process: `pc` is the next call it makes, `row` and `seen` are the
copies of the action and of the transaction's status it holds, `hit` what it
learned of the provider. An action is identified by its transaction and its
idempotency key, the unique index of migration 005. `act`, `approval`, `txn` and
`receipts` are the store; `calls` and `applied` count handler invocations and
side effects at the provider; `stray` holds calls that may still arrive.

| TLA+ action | Code |
|---|---|
| `HandleCreateTxn` | `handleCreateTxn` |
| `Propose`, `ProposeAdd`, `ProposeEvaluate`, `ProposeScreen`, `ProposeRecord`, `ProposeApproval`, `ProposePark` | `handleProposeAction`, `ProposeAction` |
| `ExecuteAction`, `RunApproved`, `ExecuteAllowed` | `handleActionSub`, `RunApproved`, `ExecuteAllowed` |
| `RunReadTxn`, `RunMarkExecuting`, `RunDispatch`, `RunRecord`, `RunReceipt` | `run` |
| `Reconcile`, `ReconcileAsk`, `ReconcileSettle` | `Reconcile` |
| `Decide`, `GrantReadAction`, `GrantApprove`, `DecideReadTxn`, `DecideSetTxn` | `handleDecideApproval` |
| `Commit`, `CommitCheck`, `CommitSet` | `Commit` |
| `Crash` | process death and restart, `Recover` |
| `ProviderStep` | an abandoned call reaches the provider |

The decision is a free choice among the effects here; `Authorization` models how
it is made. `ALLOW` stands for `ALLOW` and `ALLOW_WITH_CONSTRAINTS`, which the
handlers treat alike. Audit events are written by every handler and read by
none, and are left out. `Exclusive` says that clients never have two requests
about one action in flight; nothing in the code enforces it, so it is an
assumption about clients and named in every result that uses it.

On PGStore a statement may fail, at most `MaxFaults` times. `Query` is a call whose
failure sends the handler down another path (a transaction that cannot be read is not
marked, a listing that fails shows `Commit` no actions, an INSERT that fails is taken
for a replay); `Exec` is a write whose error nobody looks at, so the handler goes on
as if it were done. A request that is refused, or given up before its first write,
changes nothing and is not a step. A row without a decision makes the receipt of its
execution panic (`service.go:257`), which `RunReceipt` ends without one.

### Lifecycle

What one action is promised: decided once, sent to its tool at most once and
only when allowed or approved, settled once, attested once. `Gateway` maps to it
by `Status` (the status column of each row); `calls` and `receipts` map to
themselves.

### ReceiptChain

The hash of a receipt is modelled by what it commits to, the sequence of payloads
up to it, so two hashes are equal exactly when the histories are. On PGStore,
`AppendReceipt` is three statements on the pool; the advisory lock is of the
first statement's own transaction and is gone when that returns. A head that cannot
be read is taken for the start of a chain, a failed INSERT or UPDATE is not noticed.
`torn` records the organizations where one append's insert came between the read and
the insert of another, or the head could not be read; `reported` counts executions
answered as attested. `VerifyChain` returns the index its store counts: among the
receipts of all organizations on MemoryStore, of this one on PGStore, and -1 when
the query fails. The payloads abstract every hashed field, including times; rows are
ordered by insertion. A signature is a filled column: whether it verifies depends on
the key alone.

### Saga

One compensation process beside the request handlers. `queue` is the part of its
snapshot still to visit, `undone` the compensators called, `late` the actions that
were recorded as executed after the snapshot, `lapsed` that the listing failed or the
record of an undone action was lost. A row that cannot be read back is a nil pointer
and ends the compensation (`SagaPanic`). `CompensateTransaction` has no caller in the
program today (only `tests/invariants_test.go`), so its schedule beside the handlers
is a free choice.

### Rules and Authorization

Amounts are kept in thousandths of the unit the caller used, because the code
truncates; where the conversion of a decimal amount may lose a cent to floating
point, `ExtractCents` is the set of both outcomes. `Evaluate` returns a set of
decisions: `sort.Slice` is not stable, so of several matching rules with the same
least priority any may win. Activating a policy set on PGStore is modelled by
statement: the first UPDATE's snapshot, the row locks it waits for, the unique
index on the active row that the second one can fail on, and a failure that rolls
everything back. `meta` is the registry's table of classes, which registering an MCP
server changes under proposals that have already looked theirs up. Reads may fail:
`missed` records which of a proposal's did. `standing` collects whether authority
covered the proposal at each moment from its start to the read of its grants.
`Simulate` evaluates through the same operators and changes nothing; it is not
modelled. The judge of the risk
screen is an external service that may answer anything in `Answers`; what becomes
of an answer is `RiskScreen`.

### Access

A request slot holds one request at a time: `Allow` or `RateLimited`, then
`AuthenticateOperator`, or `AuthenticateAgent` and `TouchCredential`, then the
handler. Registering is `CreateAgent` and `StoreCredential`, issuing
`RotateCredential` and `StoreCredential` (the program calls it rotation, and it
leaves older credentials in place), revoking `ConfirmCredential` and
`RevokeAndAnswer`. A client only uses a secret it was shown. `held` is the row a
request looked up, `admitted`, `asked`, `told` and `barred` record history for the
properties. Each store call on a credential is one critical section or one
statement, the same in both stores; a restart (PGStore) keeps the rows and loses
the requests and the limiter's buckets. Statements do not fail here.

### Startup and Upstreams

`stage` is what `main` does next, one step per statement: every migration, the
look for an organization, the five inserts of a first boot, the keys, the listener. The process
may die at each and is started again, perhaps with other values of
`AG_SIGNING_KEY` and `AG_DATA_KEY`; a statement may fail with or without having
taken effect, and what the code makes of the error (exit, or nothing at all) is part
of the step. A key is an ideal one: `Open` reads what was sealed with the same data
key under the same key id, and nothing else. `Seal` may fail for want of a nonce, and
the stores then keep the text as it is (`Sealings`). `cut` records what went wrong around
the seeding, `under` the environment a secret was stored in.

| TLA+ action | Code |
|---|---|
| `Start`, `LoadKeys`, `Listen` | `main` |
| `MigrateSkip`, `MigrateApply`, `MigrateFails`, `MigrateDone` | `Migrate` |
| `ListOrgs`, `ListOrgsFails` | `OrgIDs` as `main` uses it |
| `SeedOrg`, `SeedRow`, `SeedOrgFails`, `SeedRowFails` | `SeedOrg`, `SetPolicies`, `mustOperatorToken` |
| `RegisterMCPServer`, `UpsertMCPServer`, `UpsertMCPServerFails`, `RegisterTool` | `handleRegisterMCPServer` |
| `HandleSetIntegrationCredential` | `handleSetIntegrationCredential` |
| `MCPCall`, `MCPCallRegister` | `handleMCPCall` |
| `ProposeDirect`, `AddAction` | `handleProposeAction`, `ProposeAction` |
| `ScreenCount`, `ScreenCountFails`, `Judge` | `jevScreenRisk` |
| `Execute` | the registry's `Execute` and the handler `HandlerFor` built |

`server` is the stored row, `entry` what the registry holds, `copy` what a call has
taken from the row. The policy decision is a free choice (`Authorization` makes it)
and a decided action runs at any later time (`Gateway` says when it may).
`overlapped` says that a request held data of an older row when the row was last
written; `offered` collects what registrations were made of.

## 3. What TLC checks

| Run | Setting | Distinct states | Shows |
|---|---|---|---|
| `Gateway_memory` | 2 requests of any kind, 2 actions, MemoryStore | 464,498 | denied actions are never dispatched, approval gates the tool, receipts are backed by effects, decisions are final, a half-done row always has a handler at work on it, and a transaction makes a move outside its table only where the handler's copy of the status was replaced by another request since it was read |
| `Gateway_exclusive` | 2 requests not racing on one action, PGStore, no crash, no failing statement, fairness | 56,899 | `Gateway` implements `Lifecycle`; every proposal is decided, every execution attested |
| `Gateway_crash` | 2 requests not racing on one action, PGStore, a crash and a failing statement, one provider that honours keys | 1,239,077 | receipts stay backed; a tool is called again only after a crash or a lost write, once for each; an action is attested once, but for a lost write |
| `Chain_memory` | 2 writers, 2 organizations, MemoryStore, altered rows | 66,277 | a chain nobody altered verifies, and the altered row is the one named, by its place among the receipts of both organizations |
| `Chain_faults` | 2 writers, PGStore, 2 failing statements, a crash | 781,022 | a chain breaks only where appends overlapped between read and insert or the head could not be read; receipts reported but not stored, and receipts left unsigned, are no more than the faults and crashes there were |
| `Saga_postgres` | a compensable, an irreversible and an uncompensated action, a crash or a failing statement, PGStore | 642,274 | ROLLED_BACK is not claimed over something listed and left done; compensators run in the reverse order of proposal |
| `Authorization` | 1 proposal, 2 operators, 2 grants, a registration, a failing statement, both stores | 615,122 | one active set, never none after one; decisions follow the set they name; authority is found or refused only if it was so at some moment between the start of the proposal and the read; the seeded refund limits hold |
| `Access` | 2 requests at once, 4 in all, 2 credentials of an agent and the operator's, a limit of 2 per window of 2, a restart | 804,213 | at most 2·Limit−1 requests within any window's length and no refusal below the limit; a reported revocation holds; other credentials stay good |
| `Upstreams` | 4 events (requests, crashes, failing statements) in any mix, 2 operators and 2 calls at once, 4 environments, 2 migrations, both stores, fairness of `main` | 1,751,233 | migrations apply once and in order; a complete organization is served unless its seeding was cut; secrets stay readable under their environment; a call carries the data of one registration; the registry follows the row; a missing handler needs a restart; of two actions let through one was judged with the other counted; the process comes up |

What a passing run does not show follows from its setting, and is worth spelling out:

* `Gateway_exclusive` has no race on one action, no crash and no failing statement.
  The race is `V_double_execute`, the crash before the decision is `V_proposed_stuck`;
  a crash between `UpdateAction` and `AppendReceipt` leaves an execution unattested.
* `ReceiptBacked` is about what is attested; a call recorded as failed may still arrive.
* `Chain_memory` appends in one critical section; the race on PGStore is `V_chain_fork`.
* `ReverseOrder` is about the order of proposal on PGStore, which is not the order of
  execution; on MemoryStore the listing has no order.
* `RefundLimits` measures the amount the program extracted: a fraction of a cent it
  truncates is not seen, and a refund whose amount is not under `amount_cents` is sent
  without one, which the provider takes for the whole charge (`stripe.go:181-184`).
* `AuthorityHonoured` leaves out proposals whose grants could not be read; they are
  decided by policy alone.
* In `Access` statements do not fail: a revocation whose UPDATE fails is answered
  "revoked" all the same (`grants.go:139`), and a failed INSERT of a credential is
  answered with a secret that does not work.
* `SentAsRegistered` has one tool name, so that it tells URLs and tokens apart and not tools.
* `cut`, `overlapped` and `blind` exclude from `ServesSeeded`, `EntryFollowsRow` and
  `BurstJudged` what section 5 describes; the rounding of a score is modelled but no
  property is about it.

Three runs check what a comment or a document says and find that the code does
otherwise; each is a finding in `PROJECT.json`.

| Run | Claim | What happens |
|---|---|---|
| `V_double_execute` | `server.go:251`: retries never double-execute | two execute requests read `allowed` before either writes, and both call the tool |
| `V_proposed_stuck` | `docs/transactions.md:37`: a restart resumes from the recorded state | the process dies after `AddAction`; every retry replays the undecided row |
| `V_chain_fork` | `postgres.go:647`: the advisory lock serializes appends | two appends follow the same predecessor |

### Bounds

Two requests are enough for every race in the handlers: each is between one
handler's read and its write, with another handler's write between them. Two keys
let one action's handler disturb the transaction the other belongs to. A crash and a
failing statement together (`Gateway_crash`) let a retry of a lost call be lost again;
`Chain_faults` has two of them, so that a lost head can meet a lost insert. `MaxReports` (receipts), `MaxSets`
(policy sets), `MaxSagas`, `MaxCrashes`, `StartTime` and `MaxTime` (hours, chosen
around a grant's expiry and a policy window; in `Access`, ticks that span two
limiter windows) are guards named in the modules. Four requests (`MaxArrivals`)
fill two windows, or register, use, revoke and use again a credential. Four events
(`MaxEvents` of `Upstreams`) are two registrations, a call and a crash between them, or
two crashes and two lost acknowledgements on the way up; a legacy row gives calls
something to race with from the start.
Three runs have a CONSTRAINT that leaves out what cannot matter to their properties:
`Saga_postgres` does not follow actions the compensation passes over and takes one
crash or one fault; `Authorization` stops when the proposal is decided and does not
combine a registration with a fault or an operator's statement; `Upstreams` makes the
two like calls in turn and keeps third-party credentials apart from MCP requests.
Symmetry is used for sets of interchangeable model values in runs without
liveness properties only. `CHECK_DEADLOCK FALSE` appears where a bound ends all
activity (receipts reported, compensations made, requests sent, events used); elsewhere TLC checks that no
state is stuck.

### Fairness

`FairSpec` assumes weak fairness of each handler's next step: the Go scheduler
runs runnable goroutines, store calls return, and the tool clients have timeouts.
No fairness is assumed of clients, operators, crashes or late arrivals.
In `Upstreams` the steps of `main` are weakly fair, since `main` waits for nobody, and
so is starting it again: that is an assumption about the platform, which keeps the
service healthy (`health_check` in `deploy/tofu/main.tf`), not about the code.
`EventuallyServing` is about environments whose signing key can be decoded in the end;
with any other the program exits, as written.
`RetrySpec`, used by `V_proposed_stuck` alone, adds strong fairness of a client
repeating its proposal, so that the counterexample is not a client that gave up.

## 4. What is proved

The proofs hold for every set of requests, transactions, keys, writers,
organizations and payloads, every number of crashes and failing statements, and both
stores. They use the assumptions on the constants that their components name, and
no others but those stated in a theorem.

`GatewayProofs`: `TypeCorrect`, `NoDeniedDispatch`, `ApprovalRequired` and
`DecisionsAreFinal`, from `GatewayAssumption` only. None of the properties is
inductive: a handler about to dispatch acts on a copy read earlier, so the
invariant must say what such a copy still tells. `IInv` adds to `TypeOK`

* `RowInv`: how status, decision, approval and calls of one row fit together. A failed
  UPDATE may leave a row without the decision its approval was created for, so an
  approved action has the decision REQUIRE_APPROVAL or none (`Gated`);
* `ReqInv`: what a request at each program point knows of the row it works on
  (`Knows`), stable under every other request's writes;
* `OneProposer`: at most one request carries the proposal of an action, from
  `AddAction` until its approval is created. `AddAction` makes this true, and
  without it a second proposer could overwrite a decision.

There is one lemma per action, resting on lemmas for the shapes of step that
recur (a local step, a whole-row write, a step of the proposer); a write that may
fail is proved once for both outcomes.

`ReceiptChainProofs`: `BreaksAreExplained`, for any writers, crashes and faults, and
`SerializedChainIntact` and `AlteredRowNamed`, where appends cannot interleave and no
statement fails (`Serialized`): the critical section of MemoryStore, or one writer on
PGStore. The invariant says that in a chain that is not torn each receipt follows the
one before and its hash covers its payload exactly when it was not altered (`Links`),
that `lastHash`, or the hash a writer about to insert into such a chain has read, is
its head (`Heads`), that a writer at work has a job and signs a row that exists
(`Jobs`), and that serialized appends tear nothing (`Whole`). `V_chain_fork` shows
that the condition on PGStore cannot be dropped.

Only model-checked: liveness (`DecisionReached`, `ReceiptFollows`,
`EventuallyServing`) and the refinement of `Lifecycle`; everything about `Saga`,
`Authorization`, `Access`, `Startup` and `Upstreams`; `ReceiptBacked`,
`HalfDoneHasHandler`, `RedispatchNeedsLoss`, `AttestedOnce`, `IllegalMoveIsStale`,
`ReportedIsStored` and `UnsignedIsAttended`. Liveness under fairness is out of
the prover's reach; the safety properties among these are not.

## 5. Where the results stop

These are behaviours the code has outside the settings of the passing runs. TLC
reached each of them in the models while they were being built, except those marked
*read*, which were read from the code.

* With two racing requests, `Commit` can close a transaction over an action added
  after its check (`service.go:179-182` says it never commits with unresolved
  actions), and a status computed from an earlier read can take a transaction out
  of a terminal status (`docs/transactions.md:35`). `IllegalMoveIsStale` says that
  nothing but such an earlier read does. On PGStore a failed query in
  `ActionsForTxn` shows `Commit` no actions, and it commits.
* An approval left pending, or denied, does not stop other actions of its
  transaction from executing (`docs/transactions.md:33-34`), and ABORTING has no
  step out of it (`:37`).
* A crash between a tool call and its `UpdateAction` makes a retry call the tool
  again (`docs/adr/ADR-007-states.md:7`), and so does an UPDATE that failed, whose
  error is dropped (`postgres.go:534`); a provider that honours the idempotency key
  does nothing the second time. `RedispatchNeedsLoss` says that nothing else does it.
* When the UPDATE that records REQUIRE_APPROVAL fails, the approval is created beside a
  row that still says proposed. Once granted, the action runs from a row without a
  decision and the handler panics before its receipt (`service.go:257`).
* A reply that cannot be decoded is recorded as failed though the provider served
  the call (`docs/transactions.md:41-42`, `stripe.go:61`), and a call found absent
  by `Reconcile` can still arrive.
* The refund reconciler accepts any refund of the same charge and amount
  (`executor.go:27-29`, `stripe.go:243`), and the provider knows the key without
  its transaction (`memory.go:248-249`, `stripe.go:188`). `ReceiptBacked` is
  checked with distinct payloads and one transaction.
* Two reconciles of one action can both append a receipt
  (`tests/reconcile_test.go:88`).
* On PGStore a failed INSERT loses a receipt that is reported as made
  (`PILOT.md:5-6`), a crash before `UpdateReceipt` leaves one unsigned
  (`migrations/007:2`), a failed read of the head starts the chain anew, and
  `VerifyChain` answers intact when its query fails (`postgres.go:783`).
* *Read*: signatures made with an ephemeral key carry the id `ephemeral-dev` in every
  process and verify in their own alone.
* When `Seal` fails a secret is stored in plain text (`postgres.go:32`).
* *Read*: without `AG_SIGNING_KEY` the program always logs that stored credentials
  will not survive a restart (`keys.go:119`); with an explicit `AG_DATA_KEY` they do,
  and `SecretSurvives` checks it.
* When the query for grants fails, the agent counts as one without grants
  (`postgres.go:1037`) and policy alone decides; when the active policy set cannot be
  read, the rules of the old table do, as version 0.
* A second compensation skips what the first failed to undo and then claims
  ROLLED_BACK; on MemoryStore compensators run in map order, not in reverse
  (`ARCHITECTURE.md:23`). An action executed after the compensation took its
  snapshot is left done; `RolledBackMeansUndone` excludes it.
* *Read*: `Register` keeps the compensator it finds when it is given none
  (`executor.go:183`), so behind a live refund handler stands the stub of
  `DefaultRegistry`, and a refund nobody reversed is recorded as compensated;
  `internal/integrations/real.go:15-17` says that live integrations replace the
  mocks with "never silent mock fallback". Every compensator the program registers is
  such a stub, so `Saga` has no effect at the provider to take back.
* *Read*: a decision by default carries no policy version (`docs/policies.md:116-118`).
* *Read*: on PGStore a draft that loses the race for its version is answered 201 with
  version 0, and an activation that loses is answered 404.
* A crash or a failed statement while the first organization is seeded is final: the
  next boot finds an organization and seeds nothing, so it may have no policies
  (`main.go:45`) or no operator token, although one was printed (`postgres.go:840`).
  A failed query for organizations seeds a second one (`postgres.go:138`).
* A secret cannot be read under another signing key even when `AG_DATA_KEY` is the
  same, because the key id is bound to it (`keys.go:64`); the server row is then
  answered as not found.
* A call that read a server's row before it was replaced registers the old handler
  again, and so can the slower of two registrations; the registry then differs from
  the row until the next call. After a failed UPSERT it differs the same way
  (`postgres.go:859`).
* After a restart an MCP action that was already decided fails with an unknown tool
  unless some later call has registered its handler again.
* When the count of sibling actions cannot be read, the judge is told there are none.
* *Read*: the HTTP allowlist is kept as `[]string` by MemoryStore and read as `[]any`
  (`http.go:118`), so that everything is refused there.

## 6. Not modelled

Secrets from before key ids and the scan that finds them; times of last use; the
first 32 characters the limiter keys on, which hold the key id of a keyed secret;
credentials and MCP servers of several organizations; the HTTP domain allowlist, one
row and a pure match; which integrations `RegisterReal` puts into the registry; the form
checks on MCP names, URLs, classes and third-party secrets, which only refuse a request;
the text of the migrations; ties between receipts created in one microsecond; the
verification of signatures, a function of receipt and key; `Simulate`, which reads and
changes nothing; listings; `OrderActions`, which
nothing calls; the audit log, tracing, dashboard, SDK, examples and deployment.
`PROJECT.json` gives the
reason for each.

## 7. Plan

Done: transactions, actions and approvals, tools, reconciliation, receipts,
compensation, policies and grants, credentials and the rate limiter, start-up, keys,
MCP servers and secrets, the risk screen; the gates, finality and the chain proved.

Next, in this order:

1. Proofs: `IllegalMoveIsStale`, from what a handler knows of the status it read;
   `ReportedIsStored`; `OneActive` and `PolicyStays`; `ReceiptBacked`; `MigratedOnce`
   for any number of migrations; the safety part of the refinement of `Lifecycle` under
   `Exclusive`; `RevokedNeverServed`.
2. `Authorization` composed with `Gateway`, so that the decision a tool call rests
   on is the one the policies gave.
3. A clock in `ReceiptChain`, for rows created in one microsecond.

## 8. Running it

    tlc -workers 2 -config Gateway_memory.cfg MCGateway
    tlapm GatewayProofs.tla

`PROJECT.json` names the module and configuration of every run, the mutants each
property is tested against, and the source lines of every definition.
