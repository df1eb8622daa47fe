--------------------------- MODULE MCAuthorization ---------------------------
(* Instances of Authorization for TLC. *)
EXTENDS Authorization, TLC

Support == [name |-> "helpdesk", groups |-> {"support"}, env |-> "production"]

Ask(tool, action, args, recipients) ==
  [agent |-> Support,
   request |-> [tool |-> tool, action |-> action, args |-> args,
                recipients |-> recipients, resource |-> <<"db", "orders">>]]

NoAmount == [amount_cents |-> {}, amountCents |-> {}, amount |-> {}]

\* Refunds on both sides of the limits, in cents and in dollars, a bulk mail, and an
\* MCP tool no default rule matches.
SomeAttempts ==
  {Ask("stripe", "refund", [NoAmount EXCEPT !.amount_cents = {10000999}], 0),
   Ask("stripe", "refund", [NoAmount EXCEPT !.amount = {100010}], 0),
   Ask("stripe", "refund", [NoAmount EXCEPT !.amountCents = {50001000}], 0),
   Ask("email", "send", NoAmount, 51),
   Ask("mcp:wiki", "search", NoAmount, 0)}

\* Its server is registered with classes and again without.
SomeRegistrations == {<<"mcp:wiki", "search", {"READ_ONLY"}>>, <<"mcp:wiki", "search", {}>>}

\* A grant limited in amount and time, and one over another scope.
SomeTerms ==
  ("g1" :> [agent |-> "helpdesk", scope |-> {<<"stripe", "*">>}, maxAmount |-> {10000},
            environments |-> {"production"}, environment |-> "", expires |-> {22}])
  @@ ("g2" :> [agent |-> "helpdesk", scope |-> {<<"email", "send">>}, maxAmount |-> {},
               environments |-> {}, environment |-> "production", expires |-> {}])

\* From 23:00 refunds need approval and everything under db is denied on Sundays; the
\* two rules of the least priority conflict.
NightRules ==
  {Rule("night", 5, [AnyMatch EXCEPT !.tool = "*", !.classes = {"FINANCIAL"},
                       !.window = {[weekdays |-> {}, start |-> 23, end |-> 5]}],
        "REQUIRE_APPROVAL"),
   Rule("sunday", 5, [AnyMatch EXCEPT !.resource = <<"db">>,
                        !.environments = {"production", "staging"},
                        !.window = {[weekdays |-> {0}, start |-> 23, end |-> 24]}],
        "DENY"),
   Rule("day", 6, [AnyMatch EXCEPT !.tool = "stripe"], "ALLOW_WITH_CONSTRAINTS")}

SomeDrafts == {NightRules}

OldRules == {Rule("legacy", 1, [AnyMatch EXCEPT !.tool = "stripe"], "ALLOW")}

\* No answer, and confident ones on both sides of the threshold.
SomeAnswers ==
  {[usable |-> FALSE, score |-> 0, confidence |-> 0],
   [usable |-> TRUE, score |-> 277, confidence |-> 50],
   [usable |-> TRUE, score |-> 278, confidence |-> 90]}

\* Nothing changes a decision or the rules of a version: once every proposal is decided
\* the run goes no further.  A registration is not followed together with a fault or
\* with a statement of an operator's.
Bound ==
  /\ \E p \in Proposals : pc[p] # "done"
  /\ meta = DefaultMeta \/ (faults = 0 /\ \A o \in Operators : opc[o] = "idle")

Symmetry == Permutations(Operators)
=============================================================================
