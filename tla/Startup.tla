------------------------------- MODULE Startup -------------------------------
(***************************************************************************)
(* How the API process comes up (main): migrations, the organization a     *)
(* first boot seeds, the keys, and then requests.  The process may crash   *)
(* at every step and is started again, perhaps with another environment.   *)
(* On PGStore the rows survive and any statement may fail; what the code   *)
(* makes of the error is part of the step.  On MemoryStore nothing         *)
(* survives and nothing fails.  Recover only writes to the audit log,      *)
(* which nothing reads, and is left out.                                   *)
(***************************************************************************)
EXTENDS Integers, Sequences, FiniteSets

CONSTANTS
  Backends,    \* stores to consider: a subset of {"memory", "postgres"}
  NMigrations, \* number of files under migrations/
  Environments,\* values of AG_SIGNING_KEY and AG_DATA_KEY a deployment may set
  MaxEvents    \* bound: crashes, statements that fail and requests, together

ASSUME StartupAssumption ==
  /\ Backends \subseteq {"memory", "postgres"}
  /\ NMigrations \in Nat /\ MaxEvents \in Nat
  /\ \A e \in Environments : DOMAIN e = {"signing", "data"}

VARIABLES
  backend,     \* the store the process runs on
  env,         \* environment of the deployment
  stage,       \* what main does next; "down" when there is no process
  next,        \* the migration Migrate looks at
  schema,      \* migrations whose SQL has taken effect, in that order
  recorded,    \* rows of schema_migrations
  orgs,        \* organizations in the order of their INSERTs
  provider,    \* the keys.Provider of the running process
  loads,       \* times keys.Load has returned one
  events,      \* crashes, failed statements and requests so far
  cut          \* what went wrong while an organization was looked for or seeded

dbVars == <<schema, recorded, orgs>>
bootVars == <<backend, env, stage, next, dbVars, provider, loads, events, cut>>

\* An organization without its principal, its policies and its operator token.
Bare == [principal |-> FALSE, policy |-> "none", token |-> FALSE]

Complete == [principal |-> TRUE, policy |-> "active", token |-> TRUE]

NoProvider == [id |-> "", from |-> "", data |-> "", load |-> 0]

\* A new database, or one an earlier release has migrated so far and seeded.
StartupInit ==
  /\ backend \in Backends
  /\ env \in Environments
  /\ stage = "down"
  /\ next = 1
  /\ \E n \in IF backend = "memory" THEN {0} ELSE 0 .. NMigrations :
       /\ schema = [i \in 1 .. n |-> i]
       /\ recorded = 1 .. n
       /\ orgs = IF n = 0 THEN <<>> ELSE <<Complete>>
  /\ provider = NoProvider
  /\ loads = 0 /\ events = 0
  /\ cut = {}

-----------------------------------------------------------------------------
(* keys *)

\* AG_DATA_KEY is used when it is well formed and ignored otherwise.
ExplicitDataKey(e) == e.data \notin {"unset", "malformed"}

\* Mutant: an explicit data key is derived from the signing key all the same.
LoadDerived(e, n) ==
  [id |-> IF e.signing = "unset" THEN "ephemeral-dev" ELSE e.signing,
   from |-> "signing", data |-> e.signing,
   load |-> IF e.signing = "unset" THEN n ELSE 0]

\* Load and dataKeyFor.  Without AG_SIGNING_KEY the key is new in every process, and
\* so is a data key derived from it; the key's id is part of what Seal binds.
Load(e, n) ==
  [id |-> IF e.signing = "unset" THEN "ephemeral-dev" ELSE e.signing,
   from |-> IF ExplicitDataKey(e) THEN "explicit" ELSE "signing",
   data |-> IF ExplicitDataKey(e) THEN e.data ELSE e.signing,
   load |-> IF e.signing = "unset" /\ ~ExplicitDataKey(e) THEN n ELSE 0]

\* A stored value: the text, and the provider it is sealed with, if it is.
Plain(s) == [text |-> s, key |-> NoProvider]

Seal(p, s) == [text |-> s, key |-> p]

\* Text without the v1 prefix is returned as it is, the rest needs the data key and the
\* key id it was sealed with; {} when it cannot be read.
Open(p, v) == IF v.key \in {NoProvider, p} THEN {v.text} ELSE {}

\* What the stores make of the two; without a provider text goes in and out as it is.
seal(s) == IF s = "" \/ provider = NoProvider THEN Plain(s) ELSE Seal(provider, s)

\* Seal fails when it gets no nonce; the stores then keep the text as it is.
Sealings(s) == {seal(s), Plain(s)}

open(v) ==
  IF v = Plain("") THEN {""}
  ELSE IF provider = NoProvider THEN {IF v.key = NoProvider THEN v.text ELSE "v1:"}
  ELSE Open(provider, v)

-----------------------------------------------------------------------------
(* The steps of main. *)

Deployed == <<backend, env>>

Start ==
  /\ stage = "down"
  /\ stage' = IF backend = "postgres" THEN "migrate" ELSE "org"
  /\ next' = 1
  /\ UNCHANGED <<Deployed, dbVars, provider, loads, events, cut>>

Event == events < MaxEvents /\ events' = events + 1

Fault == backend = "postgres" /\ Event

\* log.Fatalf
Exit == stage' = "down" /\ next' = 1

\* Mutant: a migration that is already recorded is run again.
MigrateSkipAlways ==
  /\ stage = "migrate" /\ next \in recorded
  /\ Exit
  /\ UNCHANGED <<Deployed, dbVars, provider, loads, events, cut>>

MigrateSkip ==
  /\ stage = "migrate" /\ next \in recorded
  /\ next' = next + 1
  /\ UNCHANGED <<Deployed, stage, dbVars, provider, loads, events, cut>>

\* One transaction: the SQL and the row that records it.
Apply ==
  /\ schema' = Append(schema, next)
  /\ recorded' = recorded \cup {next}
  /\ UNCHANGED orgs

MigrateApply ==
  /\ stage = "migrate" /\ next \in 1 .. NMigrations \ recorded
  /\ Apply
  /\ next' = next + 1
  /\ UNCHANGED <<Deployed, stage, provider, loads, events, cut>>

\* Mutant: the SQL is not part of the transaction that records it.
MigrateFailsHalfway ==
  /\ stage = "migrate" /\ next \in 1 .. NMigrations
  /\ Fault /\ Exit
  /\ \/ UNCHANGED dbVars
     \/ next \notin recorded /\ schema' = Append(schema, next) /\ UNCHANGED <<recorded, orgs>>
  /\ UNCHANGED <<Deployed, provider, loads, cut>>

\* A statement fails and the transaction is rolled back, or the commit takes effect
\* and its acknowledgement is lost.  A failed look at schema_migrations is taken for
\* "not applied": the migration runs again, fails on what it finds, is rolled back.
MigrateFails ==
  /\ stage = "migrate" /\ next \in 1 .. NMigrations
  /\ Fault /\ Exit
  /\ UNCHANGED dbVars \/ (next \notin recorded /\ Apply)
  /\ UNCHANGED <<Deployed, provider, loads, cut>>

MigrateDone ==
  /\ stage = "migrate" /\ next > NMigrations
  /\ stage' = "list"
  /\ UNCHANGED <<Deployed, next, dbVars, provider, loads, events, cut>>

\* Mutant: every boot seeds.
ListOrgsAlwaysSeeds ==
  /\ stage = "list"
  /\ stage' = "org"
  /\ UNCHANGED <<Deployed, next, dbVars, provider, loads, events, cut>>

\* OrgIDs: with an organization there is nothing to seed.
ListOrgs ==
  /\ stage = "list"
  /\ stage' = IF orgs = <<>> THEN "org" ELSE "keys"
  /\ UNCHANGED <<Deployed, next, dbVars, provider, loads, events, cut>>

\* OrgIDs returns nil when its query fails, which reads as "no organization".
ListOrgsFails ==
  /\ stage = "list" /\ Fault
  /\ stage' = "org"
  /\ cut' = cut \cup {"listing"}
  /\ UNCHANGED <<Deployed, next, dbVars, provider, loads>>

-----------------------------------------------------------------------------
(* SeedOrg, SetPolicies and mustOperatorToken, statement by statement.  The errors *)
(* are dropped: main goes on, whether the row is missing or only the answer is.    *)

SeedStages == <<"org", "principal", "draft", "activate", "token", "keys">>

After(s) == SeedStages[CHOOSE i \in 2 .. 6 : SeedStages[i - 1] = s]

Seeded(o, s) ==
  CASE s = "principal" -> [o EXCEPT !.principal = TRUE]
    [] s = "draft" -> [o EXCEPT !.policy = "draft"]
    [] s = "activate" -> [o EXCEPT !.policy = "active"]
    [] s = "token" -> [o EXCEPT !.token = TRUE]

SeedOrg ==
  /\ stage = "org"
  /\ orgs' = Append(orgs, Bare)
  /\ stage' = "principal"
  /\ UNCHANGED <<Deployed, next, schema, recorded, provider, loads, events, cut>>

\* Without the organization's id every later statement fails too.
SeedOrgFails ==
  /\ stage = "org" /\ Fault
  /\ orgs' \in {orgs, Append(orgs, Bare)}
  /\ stage' = "keys"
  /\ cut' = cut \cup {"statement"}
  /\ UNCHANGED <<Deployed, next, schema, recorded, provider, loads>>

SeedRow ==
  /\ stage \in {"principal", "draft", "activate", "token"}
  /\ orgs' = [orgs EXCEPT ![Len(orgs)] = Seeded(@, stage)]
  /\ stage' = After(stage)
  /\ UNCHANGED <<Deployed, next, schema, recorded, provider, loads, events, cut>>

\* Without the version of the draft there is nothing to activate.
SeedRowFails ==
  /\ stage \in {"principal", "draft", "activate", "token"} /\ Fault
  /\ orgs' \in {orgs, [orgs EXCEPT ![Len(orgs)] = Seeded(@, stage)]}
  /\ stage' = IF stage = "draft" THEN "token" ELSE After(stage)
  /\ cut' = cut \cup {"statement"}
  /\ UNCHANGED <<Deployed, next, schema, recorded, provider, loads>>

\* The rows of a MemoryStore end with the process.
Lose ==
  IF backend = "memory"
  THEN schema' = <<>> /\ recorded' = {} /\ orgs' = <<>> ELSE UNCHANGED dbVars

\* keys.Load, SetSigner and SetKeyProvider; a malformed key ends the process.
LoadKeys ==
  /\ stage = "keys"
  /\ IF env.signing = "malformed"
     THEN Exit /\ Lose /\ UNCHANGED <<provider, loads>>
     ELSE /\ stage' = "listen"
          /\ loads' = loads + 1
          /\ provider' = Load(env, loads + 1)
          /\ UNCHANGED <<next, dbVars>>
  /\ UNCHANGED <<Deployed, events, cut>>

\* EnableRealIntegrations, observe.Init and ListenAndServe.
Listen ==
  /\ stage = "listen"
  /\ stage' = "serving"
  /\ UNCHANGED <<Deployed, next, dbVars, provider, loads, events, cut>>

\* Everything main does by itself.
BootStep ==
  \/ Start \/ MigrateSkip \/ MigrateApply \/ MigrateDone \/ ListOrgs
  \/ SeedOrg \/ SeedRow \/ LoadKeys \/ Listen

BootFault == MigrateFails \/ ListOrgsFails \/ SeedOrgFails \/ SeedRowFails

\* A crash, or the log.Fatalf of a step that fails: no secret for the token, no key, no
\* tracing, no listener.  Once the organization exists and before it is complete it cannot
\* be made good: the next boot finds an organization.
StartupCrash ==
  /\ stage # "down" /\ Event
  /\ Exit
  /\ provider' = NoProvider
  /\ cut' = IF backend = "postgres" /\ stage \in {"principal", "draft", "activate", "token"}
            THEN cut \cup {"crash"} ELSE cut
  /\ Lose
  /\ UNCHANGED <<Deployed, loads>>

\* The operator changes the environment between two runs of the process.
StartupRedeploy(e) ==
  /\ stage = "down" /\ e # env
  /\ env' = e
  /\ UNCHANGED <<backend, stage, next, dbVars, provider, loads, events, cut>>

Serving == stage = "serving"

-----------------------------------------------------------------------------
(* Properties. *)

\* However often the process dies on the way, the SQL of the migrations takes effect in
\* order, once each, and is what schema_migrations says; requests are served on the full
\* schema (Migrate, "Safe to run on every boot").
MigratedOnce ==
  /\ schema = [i \in 1 .. Len(schema) |-> i]
  /\ recorded = 1 .. Len(schema)
  /\ Serving /\ backend = "postgres" => Len(schema) = NMigrations

\* Requests are served for exactly one organization, with its principal, an active policy
\* set and an operator token, unless a crash or a failed statement fell into the seeding;
\* a second one is seeded only after OrgIDs failed (main).
ServesSeeded ==
  /\ Serving /\ cut = {} => orgs = <<Complete>>
  /\ Len(orgs) > 1 => "listing" \in cut

\* Once crashes and failing statements have stopped, a process whose signing key is well
\* formed comes up and stays up, however far earlier boots had come (main, Migrate).
EventuallyServing == <>[](env.signing # "malformed") => <>[]Serving
=============================================================================
