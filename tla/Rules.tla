-------------------------------- MODULE Rules --------------------------------
(***************************************************************************)
(* Delegated authority (gateway/authority.go) and policy evaluation        *)
(* (policies/engine.go) as operators.  An optional field is a set of at    *)
(* most one value; environment names are in lower case, so that the        *)
(* case-insensitive comparisons agree with the exact ones;                 *)
(* a resource is a sequence of path segments; time is counted in hours     *)
(* from a Sunday midnight, UTC.                                            *)
(***************************************************************************)
EXTENDS Integers, Sequences, FiniteSets

Effects == {"ALLOW", "REQUIRE_APPROVAL", "DENY", "ALLOW_WITH_CONSTRAINTS"}

Allowing == {"ALLOW", "ALLOW_WITH_CONSTRAINTS"}

-----------------------------------------------------------------------------
(* Authority.  A scope entry is <<"*">>, <<tool, "*">> or <<tool, action>>. *)

ScopeCovers(scope, tool, action) ==
  scope \cap {<<"*">>, <<tool, "*">>, <<tool, action>>} # {}

\* `live` is RevokedAt = nil.  An amount the gateway could not extract is not limited.
GrantCovers(g, live, agent, a, now) ==
  /\ live
  /\ \A e \in g.expires : now <= e
  /\ ScopeCovers(g.scope, a.tool, a.action)
  /\ \A max \in g.maxAmount, amount \in a.amount : amount <= max
  /\ g.environments # {} => agent.env \in g.environments
  /\ g.environment \in {"", agent.env}

-----------------------------------------------------------------------------
(* What ProposeAction makes of a request. *)

Trunc(n, d) == IF n >= 0 THEN n \div d ELSE -((-n) \div d)

\* The amounts extractCents may find in the arguments.  JSON numbers are counted in
\* thousandths.  int64(x * 100) of dollars with a fraction that has no exact binary
\* form may come out a cent short.
ExtractCents(args) ==
  LET cents == IF args.amount_cents # {} THEN args.amount_cents ELSE args.amountCents
  IN IF cents # {} THEN {{Trunc(n, 1000) : n \in cents}}
     ELSE IF args.amount = {} THEN {{}}
     ELSE {{Trunc(n, 10)} : n \in args.amount}
          \cup {{Trunc(n, 10) - 1} : n \in
                  {k \in args.amount : k > 0 /\ k % 10 = 0 /\ k % 125 # 0}}

\* The tools every registry starts with, and their classes.
DefaultMeta ==
  {<<"crm", "lookup_customer", {"READ_ONLY"}>>, <<"crm", "update_record", {"REVERSIBLE"}>>,
   <<"stripe", "refund", {"FINANCIAL", "COMPENSABLE"}>>,
   <<"email", "send", {"EXTERNAL_COMMUNICATION", "IRREVERSIBLE"}>>,
   <<"fs", "read", {"READ_ONLY"}>>, <<"fs", "write", {"REVERSIBLE"}>>,
   <<"shell", "exec", {"PRIVILEGED", "DESTRUCTIVE"}>>,
   <<"postgres", "delete_database", {"DESTRUCTIVE", "PRIVILEGED", "IRREVERSIBLE"}>>,
   <<"github", "create_issue", {"REVERSIBLE"}>>, <<"http", "fetch", {"READ_ONLY"}>>,
   <<"deploy", "deploy", {"PRIVILEGED", "COMPENSABLE"}>>,
   <<"iam", "grant", {"PRIVILEGED", "DESTRUCTIVE"}>>}

\* What a registry says of a tool action.
Classes(meta, tool, action) ==
  LET found == {e \in meta : e[1] = tool /\ e[2] = action} IN
  IF found = {} THEN {"UNKNOWN"} ELSE UNION {e[3] : e \in found}

\* The actions a request may become.
Proposed(meta, q) ==
  {[tool |-> q.tool, action |-> q.action, classes |-> Classes(meta, q.tool, q.action),
    amount |-> c, recipients |-> q.recipients, resource |-> q.resource] :
     c \in ExtractCents(q.args)}

-----------------------------------------------------------------------------
(* Policy. *)

HasPrefix(s, p) == Len(p) <= Len(s) /\ SubSeq(s, 1, Len(p)) = p

\* An amount that is not given counts as zero.
AmountOf(a) == IF a.amount = {} THEN 0 ELSE CHOOSE n \in a.amount : TRUE

InWindow(w, now) ==
  LET h == now % 24
      weekday == (now \div 24) % 7
  IN /\ w.weekdays # {} => weekday \in w.weekdays
     /\ IF w.start <= w.end THEN w.start <= h /\ h < w.end
                            ELSE w.start <= h \/ h < w.end

\* Mutant: the lower bound of the amount is exclusive.
RuleMatchesAbove(m, agent, a, now) ==
  /\ m.tool \in {"", "*", a.tool}
  /\ m.action \in {"", "*", a.action}
  /\ m.groups # {} => m.groups \cap agent.groups # {}
  /\ m.environment \in {"", agent.env}
  /\ \A max \in m.maxAmount : AmountOf(a) <= max
  /\ \A min \in m.minAmount : AmountOf(a) > min
  /\ \A n \in m.minRecipients : a.recipients >= n
  /\ m.classes # {} => m.classes \cap a.classes # {}
  /\ m.environments # {} => agent.env \in m.environments
  /\ HasPrefix(a.resource, m.resource)
  /\ \A w \in m.window : InWindow(w, now)

RuleMatches(m, agent, a, now) ==
  /\ m.tool \in {"", "*", a.tool}
  /\ m.action \in {"", "*", a.action}
  /\ m.groups # {} => m.groups \cap agent.groups # {}
  /\ m.environment \in {"", agent.env}
  /\ \A max \in m.maxAmount : AmountOf(a) <= max
  /\ \A min \in m.minAmount : AmountOf(a) >= min
  /\ \A n \in m.minRecipients : a.recipients >= n
  /\ m.classes # {} => m.classes \cap a.classes # {}
  /\ m.environments # {} => agent.env \in m.environments
  /\ HasPrefix(a.resource, m.resource)
  /\ \A w \in m.window : InWindow(w, now)

\* The decisions Evaluate may return.  sort.Slice is not stable, so any matching
\* rule of the least priority may come first.  A decision no rule made carries
\* neither a rule nor a version.
Evaluate(rules, version, agent, a, now) ==
  LET matching == {r \in rules : RuleMatches(r.match, agent, a, now)}
      first == {r \in matching : \A q \in matching : r.priority <= q.priority}
  IN IF first # {}
     THEN {[effect |-> r.effect, rule |-> r.id, version |-> version] : r \in first}
     ELSE {[effect |-> IF a.classes \subseteq {"READ_ONLY"} THEN "ALLOW"
                       ELSE "REQUIRE_APPROVAL",
            rule |-> "", version |-> 0]}

-----------------------------------------------------------------------------
(* The rules a fresh organization starts with. *)

AnyMatch ==
  [tool |-> "", action |-> "", groups |-> {}, environment |-> "", maxAmount |-> {},
   minAmount |-> {}, minRecipients |-> {}, classes |-> {}, environments |-> {},
   resource |-> <<>>, window |-> {}]

Rule(id, priority, match, effect) ==
  [id |-> id, priority |-> priority, match |-> match, effect |-> effect]

Refund == [AnyMatch EXCEPT !.groups = {"support"}, !.tool = "stripe", !.action = "refund"]

Deploy(env) ==
  [AnyMatch EXCEPT !.tool = "deploy", !.action = "deploy", !.environment = env]

DefaultSupportPolicies ==
  {Rule("pol-no-iam", 1, [AnyMatch EXCEPT !.tool = "iam"], "DENY"),
   Rule("pol-prod-db", 2,
        [AnyMatch EXCEPT !.tool = "postgres", !.action = "delete_database"],
        "REQUIRE_APPROVAL"),
   Rule("pol-refund-auto", 10, [Refund EXCEPT !.maxAmount = {10000}], "ALLOW"),
   Rule("pol-refund-approval", 11,
        [Refund EXCEPT !.minAmount = {10001}, !.maxAmount = {50000}],
        "REQUIRE_APPROVAL"),
   Rule("pol-refund-deny", 12, [Refund EXCEPT !.minAmount = {50001}], "DENY"),
   Rule("pol-crm", 20,
        [AnyMatch EXCEPT !.tool = "crm", !.action = "update_record"], "ALLOW"),
   Rule("pol-email-bulk", 30,
        [AnyMatch EXCEPT !.tool = "email", !.minRecipients = {51}], "REQUIRE_APPROVAL"),
   Rule("pol-email", 31, [AnyMatch EXCEPT !.tool = "email"], "ALLOW"),
   Rule("pol-deploy-staging", 40, Deploy("staging"), "ALLOW"),
   Rule("pol-deploy-prod", 41, Deploy("production"), "REQUIRE_APPROVAL")}
=============================================================================
