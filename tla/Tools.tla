-------------------------------- MODULE Tools --------------------------------
(***************************************************************************)
(* The tool registry as the gateway uses it, and the providers behind it.  *)
(* A call may reach the provider or not, and what the handler reports      *)
(* afterwards need not tell which.  A call the handler has given up on can *)
(* still arrive later.                                                     *)
(***************************************************************************)
EXTENDS Store

CONSTANTS
  Dedup,         \* keys of actions whose provider honours the Idempotency-Key header
  Reconcilable,  \* keys of actions whose tool has a reconciler
  Payload        \* action -> what it asks of the provider (charge and amount)

VARIABLES
  calls,         \* action -> times its tool handler was invoked
  applied,       \* action -> times its side effect took place
  stray          \* actions with an abandoned call that may still reach the provider

toolVars == <<calls, applied, stray>>

ToolsTypeOK ==
  /\ calls \in [Actions -> Nat]
  /\ applied \in [Actions -> Nat]
  /\ stray \subseteq Actions

ToolsInit ==
  /\ calls = [a \in Actions |-> 0]
  /\ applied = [a \in Actions |-> 0]
  /\ stray = {}

\* The provider replays its stored answer for a key it has served; it knows
\* the key alone, not the gateway transaction the key belongs to.
Replayed(a) ==
  /\ KeyOf(a) \in Dedup
  /\ \E b \in Actions : KeyOf(b) = KeyOf(a) /\ applied[b] > 0

Apply(a) ==
  applied' = IF Replayed(a) THEN applied ELSE [applied EXCEPT ![a] = @ + 1]

\* The handler is invoked; `hit` says whether the provider has served the call
\* by the time the handler stops waiting for it.
Execute(a, hit) ==
  /\ calls' = [calls EXCEPT ![a] = @ + 1]
  /\ IF hit THEN Apply(a) ELSE UNCHANGED applied
  /\ UNCHANGED stray

\* What the handler reports: no response at all is Uncertain ("unknown"); a
\* response decodes, or fails definitively even when it is a cut-off success.
Outcomes(hit) ==
  IF hit THEN {"executed", "failed", "unknown"} ELSE {"failed", "unknown"}

\* The handler gave up without a response: the call is still on the wire.
Abandon(S) ==
  /\ stray' = stray \cup S
  /\ UNCHANGED <<calls, applied>>

LateArrival(a) ==
  /\ a \in stray
  /\ stray' = stray \ {a}
  /\ Apply(a)
  /\ UNCHANGED calls

\* The Stripe reconciler: any refund of the same charge and amount counts.
Found(a) == \E b \in Actions : Payload[b] = Payload[a] /\ applied[b] > 0
=============================================================================
