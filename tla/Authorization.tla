---------------------------- MODULE Authorization ----------------------------
(***************************************************************************)
(* How a proposal gets its decision while operators change what decides it: *)
(* authority grants, versioned policy sets, the classes of registered      *)
(* tools and the clock.  One organization.  A proposal is a process whose  *)
(* steps are the store calls of ProposeAction between AddAction and the    *)
(* recorded decision; an operator's request on PGStore is a process whose  *)
(* steps are SQL statements, on MemoryStore a single critical section.  A  *)
(* statement of PGStore may fail; the code goes on without what it asked.  *)
(***************************************************************************)
EXTENDS Rules, RiskScreen

CONSTANTS
  Backends,    \* stores to consider: a subset of {"memory", "postgres"}
  Proposals,   \* proposals, each made once
  Operators,   \* operator requests that may be in flight at the same time
  Attempts,    \* what may be asked for: records of an agent and a request
  Grants,      \* names of grants
  Terms,       \* grant -> its agent, scope, constraints and expiry
  Drafts,      \* rule sets operators may draft, other than the seeded one
  Legacy,      \* the rules of the unversioned policy_rules table
  Registrations,  \* MCP tools operators may register: <<tool, action, classes>>
  Screened,    \* TRUE: the risk screen is enabled (SETTLE_JEV)
  StartTime, MaxTime,  \* bounds of the clock, in hours
  MaxSets,     \* bound: policy sets drafted
  MaxFaults    \* bound: statements that fail

ASSUME AuthorizationAssumption ==
  /\ Backends \subseteq {"memory", "postgres"}
  /\ Screened \in BOOLEAN
  /\ StartTime \in Nat /\ MaxTime \in Nat /\ MaxSets \in Nat /\ MaxFaults \in Nat
  /\ DOMAIN Terms = Grants
  /\ DefaultSupportPolicies \notin Drafts

VARIABLES
  backend,     \* the store the process runs on
  sets,        \* the policy sets; the index is the version
  grant,       \* grant -> "absent", "live" or "revoked"
  meta,        \* the registry: <<tool, action, classes>>
  clock,
  faults,      \* statements that have failed
  opc,         \* operator request -> its next statement
  draft,       \* operator request -> the rules it drafts
  version,     \* operator request -> the version it creates or activates
  rows,        \* operator request -> active rows its first UPDATE saw, then locked
  pc,          \* proposal -> its next call
  attempt,     \* proposal -> its agent and the action row
  fallback,    \* proposal -> the rules Policies returned
  decision,    \* proposal -> its decision
  missed,      \* proposal -> what its reads failed to find: "grants", "policies"
  standing     \* proposal -> whether authority covered it, from its start to the read

opVars == <<opc, draft, version, rows>>
proposalVars == <<pc, attempt, fallback, decision, missed>>
vars == <<backend, sets, grant, meta, clock, faults, opVars, proposalVars, standing>>

Undecided == [effect |-> "", rule |-> "", version |-> 0, at |-> 0]

AuthorityExceeded == [effect |-> "DENY", rule |-> "authority", version |-> 0]

NoAttempt == [agent |-> "", action |-> ""]

\* SetPolicies has seeded and activated the default rules, or the organization
\* has no set yet.
Init ==
  /\ backend \in Backends
  /\ sets \in {<<>>, <<[rules |-> DefaultSupportPolicies, status |-> "active"]>>}
  /\ grant = [g \in Grants |-> "absent"]
  /\ meta = DefaultMeta
  /\ clock = StartTime
  /\ faults = 0
  /\ opc = [o \in Operators |-> "idle"]
  /\ draft = [o \in Operators |-> {}]
  /\ version = [o \in Operators |-> 0]
  /\ rows = [o \in Operators |-> {}]
  /\ pc = [p \in Proposals |-> "idle"]
  /\ attempt = [p \in Proposals |-> NoAttempt]
  /\ fallback = [p \in Proposals |-> {}]
  /\ decision = [p \in Proposals |-> Undecided]
  /\ missed = [p \in Proposals |-> {}]
  /\ standing = [p \in Proposals |-> {}]

\* A statement of PGStore fails.
Fault ==
  /\ backend = "postgres"
  /\ faults < MaxFaults
  /\ faults' = faults + 1

-----------------------------------------------------------------------------
(* Reads. *)

Active == {v \in DOMAIN sets : sets[v].status = "active"}

\* The version and rules of the set in force; the old table serves an organization
\* without one.
InForce == CHOOSE v \in Active : TRUE

Policies == IF Active = {} THEN Legacy ELSE sets[InForce].rules

GrantsForAgent(agent) == {g \in Grants : grant[g] # "absent" /\ Terms[g].agent = agent.name}

\* Mutant: an agent whose grants are all revoked is taken for one without grants.
CheckAuthorityLive(gs, t) ==
  LET live == {g \in gs : grant[g] = "live"} IN
  live = {} \/ \E g \in live : GrantCovers(Terms[g], TRUE, t.agent, t.action, clock)

\* Without any grant the agent is in policy-only mode; a revoked grant still counts.
CheckAuthority(gs, t) ==
  gs = {} \/ \E g \in gs : GrantCovers(Terms[g], grant[g] = "live", t.agent, t.action, clock)

\* Mutant: the rules of the first read go with the version of the second.
EvaluatedMixed(rules, t) ==
  IF Active = {} THEN Evaluate(rules, 0, t.agent, t.action, clock)
  ELSE Evaluate(rules, InForce, t.agent, t.action, clock)

\* ActivePolicySet replaces both the rules read before it and the version.
Evaluated(rules, t) ==
  IF Active = {} THEN Evaluate(rules, 0, t.agent, t.action, clock)
  ELSE Evaluate(sets[InForce].rules, InForce, t.agent, t.action, clock)

-----------------------------------------------------------------------------
(* Grants, the clock and the registry.  An INSERT or UPDATE of a grant that fails *)
(* changes nothing, whatever the operator is told.                                *)

\* Nothing was granted to the agent, or a grant in force allows what it attempts.
Covered(t) ==
  LET issued == {g \in Grants : grant[g] \in {"live", "revoked"} /\ Terms[g].agent = t.agent.name}
  IN issued # {} =>
       \E g \in issued : grant[g] = "live" /\ GrantCovers(Terms[g], TRUE, t.agent, t.action, clock)

\* The proposals whose grants are not read yet live through another moment.
Witness ==
  standing' = [p \in Proposals |->
    IF pc[p] = "authority" THEN standing[p] \cup {Covered(attempt[p])'} ELSE standing[p]]

CreateGrant(g) ==
  /\ grant[g] = "absent"
  /\ grant' = [grant EXCEPT ![g] = "live"]
  /\ UNCHANGED <<backend, sets, meta, clock, faults, opVars, proposalVars>>
  /\ Witness

RevokeGrant(g) ==
  /\ grant[g] = "live"
  /\ grant' = [grant EXCEPT ![g] = "revoked"]
  /\ UNCHANGED <<backend, sets, meta, clock, faults, opVars, proposalVars>>
  /\ Witness

Tick ==
  /\ clock < MaxTime
  /\ clock' = clock + 1
  /\ UNCHANGED <<backend, sets, grant, meta, faults, opVars, proposalVars>>
  /\ Witness

\* Register replaces the classes of a tool action; without any it is UNKNOWN.
Register(tool, action, classes) ==
  /\ meta' = {e \in meta : <<e[1], e[2]>> # <<tool, action>>}
             \cup {<<tool, action, IF classes = {} THEN {"UNKNOWN"} ELSE classes>>}
  /\ UNCHANGED <<backend, sets, grant, clock, faults, opVars, proposalVars, standing>>

-----------------------------------------------------------------------------
(* Policy sets on MemoryStore. *)

Draft(rules) == Append(sets, [rules |-> rules, status |-> "draft"])

CreatePolicySet(rules) ==
  /\ backend = "memory"
  /\ Len(sets) < MaxSets
  /\ sets' = Draft(rules)
  /\ UNCHANGED <<backend, grant, meta, clock, faults, opVars, proposalVars, standing>>

\* The sets once version v is active and the rows in off are not.
Switched(v, off) ==
  [i \in DOMAIN sets |->
     [rules |-> sets[i].rules,
      status |-> IF i = v THEN "active"
                 ELSE IF i \in off THEN "disabled" ELSE sets[i].status]]

ActivatePolicySet(v) ==
  /\ backend = "memory"
  /\ v \in DOMAIN sets
  /\ sets' = Switched(v, Active)
  /\ UNCHANGED <<backend, grant, meta, clock, faults, opVars, proposalVars, standing>>

-----------------------------------------------------------------------------
(* Policy sets on PGStore. *)

Begin(o, label, rules, v, saw) ==
  /\ backend = "postgres"
  /\ opc[o] = "idle"
  /\ opc' = [opc EXCEPT ![o] = label]
  /\ draft' = [draft EXCEPT ![o] = rules]
  /\ version' = [version EXCEPT ![o] = v]
  /\ rows' = [rows EXCEPT ![o] = saw]

End(o) ==
  /\ opc' = [opc EXCEPT ![o] = "idle"]
  /\ draft' = [draft EXCEPT ![o] = {}]
  /\ version' = [version EXCEPT ![o] = 0]
  /\ rows' = [rows EXCEPT ![o] = {}]

\* The INSERT takes the next version from its snapshot ...
DraftRead(o, rules) ==
  /\ Len(sets) < MaxSets
  /\ Begin(o, "insert", rules, Len(sets) + 1, {})
  /\ UNCHANGED <<backend, sets, grant, meta, clock, faults, proposalVars, standing>>

\* ... and fails on UNIQUE (org_id, version) when another INSERT took it meanwhile;
\* the operator is answered 201 with version 0 all the same.
DraftInsert(o) ==
  /\ opc[o] = "insert"
  /\ sets' = IF version[o] = Len(sets) + 1 THEN Draft(draft[o]) ELSE sets
  /\ End(o)
  /\ UNCHANGED <<backend, grant, meta, clock, faults, proposalVars, standing>>

\* The version exists, and the first UPDATE starts: it sees the rows active now.
ActivateRead(o, v) ==
  /\ v \in DOMAIN sets
  /\ Begin(o, "disable", {}, v, Active)
  /\ UNCHANGED <<backend, sets, grant, meta, clock, faults, proposalVars, standing>>

\* Another transaction has disabled row v and has not committed.
Locked(o, v) == \E q \in Operators \ {o} : opc[q] = "enable" /\ v \in rows[q]

\* Mutant: the statement is not part of the transaction.
ActivateDisableCommitted(o) ==
  /\ opc[o] = "disable"
  /\ \A v \in rows[o] : ~Locked(o, v)
  /\ sets' = Switched(0, rows[o] \cap Active)
  /\ opc' = [opc EXCEPT ![o] = "enable"]
  /\ rows' = [rows EXCEPT ![o] = rows[o] \cap Active]
  /\ UNCHANGED <<backend, grant, meta, clock, faults, draft, version, proposalVars, standing>>

\* It waits for the locks on those rows and disables, uncommitted, the ones that
\* are still active (READ COMMITTED looks at a row again after waiting for it).
ActivateDisable(o) ==
  /\ opc[o] = "disable"
  /\ \A v \in rows[o] : ~Locked(o, v)
  /\ opc' = [opc EXCEPT ![o] = "enable"]
  /\ rows' = [rows EXCEPT ![o] = rows[o] \cap Active]
  /\ UNCHANGED <<backend, sets, grant, meta, clock, faults, draft, version, proposalVars, standing>>

\* Mutant: there is no partial unique index on the active row.
ActivateEnableUnchecked(o) ==
  /\ opc[o] = "enable"
  /\ sets' = Switched(version[o], rows[o])
  /\ End(o)
  /\ UNCHANGED <<backend, grant, meta, clock, faults, proposalVars, standing>>

\* The second UPDATE and the commit.  The unique index on the active row makes it
\* wait for a transaction that is changing that row, and fail when another row is
\* active; then everything is rolled back and the operator is told 404.
ActivateEnable(o) ==
  /\ opc[o] = "enable"
  /\ \A v \in Active : ~Locked(o, v)
  /\ sets' = IF Active \subseteq rows[o] \cup {version[o]}
             THEN Switched(version[o], rows[o]) ELSE sets
  /\ End(o)
  /\ UNCHANGED <<backend, grant, meta, clock, faults, proposalVars, standing>>

\* A statement fails, or the process dies: what was not committed is rolled back.
OperatorFails(o) ==
  /\ opc[o] # "idle"
  /\ Fault
  /\ End(o)
  /\ UNCHANGED <<backend, sets, grant, meta, clock, proposalVars, standing>>

-----------------------------------------------------------------------------
(* Proposals.  The decision is the one ProposeAction returns; whether the row that *)
(* holds it is written is a matter of Gateway.                                     *)

others == <<backend, sets, grant, meta, clock, opVars>>

Goto(p, label) == pc' = [pc EXCEPT ![p] = label]

Record(p, d) ==
  /\ decision' = [decision EXCEPT ![p] =
       [effect |-> d.effect, rule |-> d.rule, version |-> d.version, at |-> clock]]
  /\ Goto(p, "done")

\* One of the proposal's reads finds nothing, or less than there is.
Miss(p, what) == Fault /\ missed' = [missed EXCEPT ![p] = @ \cup {what}]

Found == UNCHANGED <<faults, missed>>

\* ProposeAction has read the agent, extracted the amount, looked up the classes and
\* added the action.
Propose(p, t) ==
  /\ pc[p] = "idle"
  /\ \E a \in Proposed(meta, t.request) :
       LET row == [agent |-> t.agent, action |-> a] IN
       /\ attempt' = [attempt EXCEPT ![p] = row]
       /\ standing' = [standing EXCEPT ![p] = {Covered(row)}]
  /\ Goto(p, "authority")
  /\ Found
  /\ UNCHANGED <<others, fallback, decision>>

\* CheckAuthority on the grants GrantsForAgent returned.  A failed query returns none,
\* one that breaks off returns the rows before that.
ProposeAuthority(p) ==
  /\ pc[p] = "authority"
  /\ LET all == GrantsForAgent(attempt[p].agent) IN
     \E gs \in SUBSET all :
       /\ \/ gs = all /\ Found
          \/ gs # all /\ Miss(p, "grants")
       /\ IF CheckAuthority(gs, attempt[p])
          THEN Goto(p, "policies") /\ UNCHANGED decision
          ELSE Record(p, AuthorityExceeded)
  /\ UNCHANGED <<others, attempt, fallback, standing>>

\* When the active set cannot be read the old table is, unless that fails as well.
ProposePolicies(p) ==
  /\ pc[p] = "policies"
  /\ \E rules \in {Policies} \cup SUBSET Legacy :
       /\ \/ rules = Policies /\ Found
          \/ rules # Policies /\ Miss(p, "policies")
       /\ fallback' = [fallback EXCEPT ![p] = rules]
  /\ Goto(p, "evaluate")
  /\ UNCHANGED <<others, attempt, decision, standing>>

\* jevScreenRisk, when enabled, keeps the decision or asks for approval instead.
Screen(d) ==
  IF Screened /\ d.effect \in Allowing
  THEN {[d EXCEPT !.effect = IF Escalates(a) THEN "REQUIRE_APPROVAL" ELSE @] : a \in Answers}
  ELSE {d}

\* ActivePolicySet, Evaluate and the screen.  Without an active set, or when it cannot
\* be read, the rules read before are used, as version 0.
ProposeEvaluate(p) ==
  /\ pc[p] = "evaluate"
  /\ \/ Found /\ \E d \in Evaluated(fallback[p], attempt[p]) : \E s \in Screen(d) : Record(p, s)
     \/ /\ Miss(p, "policies")
        /\ \E d \in Evaluate(fallback[p], 0, attempt[p].agent, attempt[p].action, clock) :
             \E s \in Screen(d) : Record(p, s)
  /\ UNCHANGED <<others, attempt, fallback, standing>>

-----------------------------------------------------------------------------

OperatorStep(o) ==
  \/ \E rules \in Drafts : DraftRead(o, rules)
  \/ DraftInsert(o)
  \/ \E v \in DOMAIN sets : ActivateRead(o, v)
  \/ ActivateDisable(o)
  \/ ActivateEnable(o)
  \/ OperatorFails(o)

ProposalStep(p) ==
  \/ \E t \in Attempts : Propose(p, t)
  \/ ProposeAuthority(p)
  \/ ProposePolicies(p)
  \/ ProposeEvaluate(p)

Next ==
  \/ \E g \in Grants : CreateGrant(g) \/ RevokeGrant(g)
  \/ Tick
  \/ \E e \in Registrations : Register(e[1], e[2], e[3])
  \/ \E rules \in Drafts : CreatePolicySet(rules)
  \/ \E v \in DOMAIN sets : ActivatePolicySet(v)
  \/ \E o \in Operators : OperatorStep(o)
  \/ \E p \in Proposals : ProposalStep(p)

Spec == Init /\ [][Next]_vars

-----------------------------------------------------------------------------
(* Properties. *)

\* At most one policy set is active, however activations interleave
\* (ActivatePolicySet, idx_policy_sets_org_active).
OneActive == Cardinality(Active) <= 1

\* An organization that has an active set always has one: no activation, finished,
\* failed or in progress, leaves it without (ActivatePolicySet).
PolicyStays == [][Active # {} => Active' # {}]_vars

\* A decision stamped with a version follows from the rules of that version, the time it
\* was made and the classes the row was given, whatever was activated between the two
\* reads, registered meanwhile or could not be read (ProposeAction).
StampedByItsRules ==
  \A p \in Proposals :
    pc[p] = "done" /\ decision[p].version # 0 =>
      LET d == decision[p]
          t == attempt[p]
      IN /\ d.version \in DOMAIN sets
         /\ \E e \in Evaluate(sets[d.version].rules, d.version, t.agent, t.action, d.at) :
              \E s \in Screen(e) :
                s.effect = d.effect /\ s.rule = d.rule /\ s.version = d.version

\* A proposal is refused for want of authority only if at some moment between its start
\* and the read of its grants nothing covered it, and goes on to policy only if at some
\* such moment something did, though grants are issued, revoked and expire meanwhile.
\* Where the read failed the code lets it go on (ProposeAction, CheckAuthority).
AuthorityHonoured ==
  \A p \in Proposals : pc[p] \notin {"idle", "authority"} /\ "grants" \notin missed[p] =>
    (decision[p].rule # "authority") \in standing[p]

\* Under the rules SetPolicies seeds, whether one of them matches or the default
\* decides, a support agent's refund above $500 is denied and none above $100 is let
\* through without approval, unless the policies could not be read
\* (DefaultSupportPolicies, Evaluate).
RefundLimits ==
  \A p \in Proposals :
    LET d == decision[p]
        t == attempt[p]
        seeded == {v \in DOMAIN sets : sets[v].rules = DefaultSupportPolicies}
    IN /\ pc[p] = "done" /\ "policies" \notin missed[p]
       /\ d.version \in seeded \/ (Len(sets) = 1 /\ seeded = {1})
       /\ t.action.tool = "stripe" /\ t.action.action = "refund"
       /\ "support" \in t.agent.groups
       => /\ AmountOf(t.action) > 50000 => d.effect = "DENY"
          /\ AmountOf(t.action) > 10000 => d.effect \notin Allowing
=============================================================================
