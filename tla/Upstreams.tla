------------------------------ MODULE Upstreams ------------------------------
(***************************************************************************)
(* Upstream MCP servers and third-party credentials, from the operator who *)
(* registers them to the call that reaches the provider.  What is stored   *)
(* is a row with a sealed secret; what executes is a handler in the tool   *)
(* registry, which is filled from rows and lives as long as the process.   *)
(* One organization, one server name, one transaction.  A request is a     *)
(* process; its steps are its store and registry calls.  Execution,        *)
(* approval and receipts are those of Gateway: here a proposed action,     *)
(* once it may run, runs at any later time.                                *)
(***************************************************************************)
EXTENDS Startup, RiskScreen

CONSTANTS
  Tools,       \* tools upstreams may list
  Bodies,      \* registrations: URL, token ("" is none), class given to the tools ("" is
               \* none) and the tools the upstream lists when asked
  Secrets,     \* third-party secrets
  LegacyRows,  \* rows of mcp_servers an earlier release may have left
  Operators,   \* requests of operators that may be in flight at the same time
  Calls        \* agents' requests, each for one action

VARIABLES
  server,      \* the row of mcp_servers
  credential,  \* the row of integration_credentials
  entry,       \* tool -> what the registry holds for it
  opc,         \* operator request -> its next step
  body,        \* operator request -> what it registers
  left,        \* operator request -> tools it still has to register
  cpc,         \* call -> its next step
  copy,        \* call -> what it took from the row
  act,         \* call -> its row of actions
  offered,     \* what registrations were made of: URL, token and a tool listed there
  overlapped   \* a request held another server's data when the row was last written

regVars == <<server, credential, entry, offered, overlapped>>
opVars == <<opc, body, left>>
callVars == <<cpc, copy, act>>
vars == <<bootVars, regVars, opVars, callVars>>

NoServer == [url |-> "none", token |-> Plain(""), tools |-> {}, class |-> "",
             under |-> [signing |-> "unset", data |-> "unset"]]

NoCredential == [sealed |-> Plain(""), under |-> NoServer.under]

NoEntry == [url |-> "none", token |-> "", class |-> "UNKNOWN"]

NoBody == [url |-> "none", token |-> "", tools |-> {}, class |-> ""]

NoAct == [tool |-> "none", mcp |-> FALSE, restarted |-> FALSE, effect |-> "", counted |-> {},
          blind |-> FALSE, answer |-> {}, result |-> "", sent |-> <<>>]

\* A row an earlier release wrote has its token in plain text.
Legacy(b) == [NoServer EXCEPT !.url = b.url, !.token = Plain(b.token),
                              !.tools = b.tools, !.class = b.class]

Init ==
  /\ StartupInit
  /\ server \in {NoServer} \cup {Legacy(b) : b \in IF orgs # <<>> THEN LegacyRows ELSE {}}
  /\ credential = NoCredential
  /\ entry = [t \in Tools |-> NoEntry]
  /\ offered = {<<server.url, server.token.text, t>> : t \in server.tools}
  /\ overlapped = FALSE
  /\ opc = [o \in Operators |-> "idle"]
  /\ body = [o \in Operators |-> NoBody]
  /\ left = [o \in Operators |-> {}]
  /\ cpc = [c \in Calls |-> "idle"]
  /\ copy = [c \in Calls |-> NoBody]
  /\ act = [c \in Calls |-> NoAct]

-----------------------------------------------------------------------------
(* The registry. *)

\* Mutant: what is registered already is kept.
RegisterOnce(t, b) ==
  entry' = IF entry[t] # NoEntry THEN entry ELSE [entry EXCEPT ![t] =
    [url |-> b.url, token |-> b.token, class |-> IF b.class = "" THEN "UNKNOWN" ELSE b.class]]

\* Register with HandlerFor(url, token, tool): class and handler at once.
Register(t, b) ==
  entry' = [entry EXCEPT ![t] =
    [url |-> b.url, token |-> b.token, class |-> IF b.class = "" THEN "UNKNOWN" ELSE b.class]]

-----------------------------------------------------------------------------
(* handleRegisterMCPServer *)

Arrive == Serving /\ Event /\ UNCHANGED <<Deployed, stage, next, dbVars, provider, loads, cut>>

\* The checks pass and the upstream answers tools/list.  What it lists is its own affair.
RegisterMCPServer(o, b) ==
  /\ opc[o] = "idle" /\ Arrive
  /\ opc' = [opc EXCEPT ![o] = "upsert"]
  /\ body' = [body EXCEPT ![o] = b]
  /\ offered' = offered \cup {<<b.url, b.token, t>> : t \in b.tools}
  /\ UNCHANGED <<server, credential, entry, overlapped, left, callVars>>

\* Some other request has taken data from a row, or for one, and not yet registered it.
Holding(o) ==
  \/ \E q \in Operators \ {o} : opc[q] = "register"
  \/ \E c \in Calls : cpc[c] = "register"

\* UpsertMCPServer replaces the whole row.
Upsert(b, token) ==
  server' = [url |-> b.url, tools |-> b.tools, class |-> b.class,
             token |-> token, under |-> env]

AfterUpsert(o) ==
  /\ opc[o] = "upsert"
  /\ opc' = [opc EXCEPT ![o] = IF body[o].tools = {} THEN "idle" ELSE "register"]
  /\ left' = [left EXCEPT ![o] = body[o].tools]
  /\ UNCHANGED <<body, credential, entry, offered, callVars>>

UpsertMCPServer(o) ==
  /\ AfterUpsert(o)
  /\ \E token \in Sealings(body[o].token) :
       /\ Upsert(body[o], token)
       /\ IF token = seal(body[o].token) THEN UNCHANGED events ELSE Event
  /\ overlapped' = Holding(o)
  /\ UNCHANGED <<Deployed, stage, next, dbVars, provider, loads, cut>>

\* The error of the statement is dropped and the handlers are registered all the same.
UpsertMCPServerFails(o) ==
  /\ AfterUpsert(o)
  /\ Fault
  /\ overlapped' = TRUE
  /\ UNCHANGED <<Deployed, stage, next, dbVars, provider, loads, cut, server>>

RegisterTool(o, t) ==
  /\ opc[o] = "register" /\ t \in left[o]
  /\ Register(t, body[o])
  /\ left' = [left EXCEPT ![o] = @ \ {t}]
  /\ IF left[o] = {t}
     THEN opc' = [opc EXCEPT ![o] = "idle"] /\ body' = [body EXCEPT ![o] = NoBody]
     ELSE UNCHANGED <<opc, body>>
  /\ UNCHANGED <<bootVars, server, credential, offered, overlapped, callVars>>

SetIntegrationCredential(s) ==
  \E sealed \in Sealings(s) : credential' = [sealed |-> sealed, under |-> env]

GetIntegrationCredential == open(credential.sealed)

\* The body's checks pass; a statement that fails changes nothing and is answered 500.
HandleSetIntegrationCredential(s) ==
  /\ Arrive
  /\ SetIntegrationCredential(s)
  /\ UNCHANGED <<server, entry, offered, overlapped, opc, body, left, callVars>>

-----------------------------------------------------------------------------
(* handleMCPCall, and POST /v1/actions for the same tools. *)

\* The row with its token opened; a token that cannot be read hides the server.
GetMCPServer ==
  {[url |-> server.url, token |-> s, tools |-> server.tools, class |-> server.class] :
     s \in IF server = NoServer THEN {} ELSE open(server.token)}

\* The server is found and lists the tool.
MCPCall(c, t) ==
  /\ cpc[c] = "idle" /\ Arrive
  /\ \E b \in GetMCPServer :
       t \in b.tools /\ copy' = [copy EXCEPT ![c] = [b EXCEPT !.tools = {t}]]
  /\ cpc' = [cpc EXCEPT ![c] = "register"]
  /\ UNCHANGED <<regVars, opVars, act>>

\* Mutant: a call relies on the registration having filled the registry.
MCPCallTrusting(c) ==
  /\ cpc[c] = "register"
  /\ cpc' = [cpc EXCEPT ![c] = "add"]
  /\ UNCHANGED <<bootVars, regVars, opVars, copy, act>>

\* Mutant: the URL is read again when the handler is built.
MCPCallRegisterRereads(c) ==
  /\ cpc[c] = "register"
  /\ \E t \in copy[c].tools : Register(t, [copy[c] EXCEPT !.url = server.url])
  /\ cpc' = [cpc EXCEPT ![c] = "add"]
  /\ UNCHANGED <<bootVars, server, credential, offered, overlapped, opVars, copy, act>>

MCPCallRegister(c) ==
  /\ cpc[c] = "register"
  /\ \E t \in copy[c].tools : Register(t, copy[c])
  /\ cpc' = [cpc EXCEPT ![c] = "add"]
  /\ UNCHANGED <<bootVars, server, credential, offered, overlapped, opVars, copy, act>>

\* handleProposeAction: the registry is left as it is.
ProposeDirect(c, t) ==
  /\ cpc[c] = "idle" /\ Arrive
  /\ copy' = [copy EXCEPT ![c] = [NoBody EXCEPT !.tools = {t}]]
  /\ cpc' = [cpc EXCEPT ![c] = "add"]
  /\ UNCHANGED <<regVars, opVars, act>>

\* ProposeAction up to the policy decision, which is Authorization's.
AddAction(c) ==
  /\ cpc[c] = "add"
  /\ \E t \in copy[c].tools, effect \in {"DENY", "REQUIRE_APPROVAL", "ALLOW"} :
       /\ act' = [act EXCEPT ![c] = [NoAct EXCEPT !.tool = t, !.mcp = copy[c].url # "none",
                    !.effect = effect]]
       /\ cpc' = [cpc EXCEPT ![c] = CASE effect = "ALLOW" -> "screen"
                                       [] effect = "DENY" -> "done"
                                       [] OTHER -> "decided"]
  /\ copy' = [copy EXCEPT ![c] = NoBody]
  /\ UNCHANGED <<bootVars, regVars, opVars>>

\* Mutant: only actions that are decided count.
SiblingsDecided(c) == {d \in Calls \ {c} : cpc[d] \in {"decided", "done"}}

Siblings(c) == {d \in Calls \ {c} : act[d] # NoAct}

CountSiblings(c, counted, blind) ==
  /\ cpc[c] = "screen"
  /\ act' = [act EXCEPT ![c].counted = counted, ![c].blind = blind]
  /\ cpc' = [cpc EXCEPT ![c] = "judge"]

\* jevScreenRisk counts the transaction's other actions.
ScreenCount(c) ==
  /\ CountSiblings(c, Siblings(c), FALSE)
  /\ UNCHANGED <<bootVars, regVars, opVars, copy>>

\* ActionsForTxn returns nil when its query fails: the judge is told of no siblings.
ScreenCountFails(c) ==
  /\ CountSiblings(c, {}, TRUE)
  /\ Fault
  /\ UNCHANGED <<Deployed, stage, next, dbVars, provider, loads, cut, regVars, opVars, copy>>

\* The judge has answered, and ProposeAction records what comes of it.
Judge(c, a) ==
  /\ cpc[c] = "judge"
  /\ act' = [act EXCEPT ![c] =
       IF Escalates(a)
       THEN [@ EXCEPT !.effect = "REQUIRE_APPROVAL", !.counted = {}, !.blind = FALSE]
       ELSE [@ EXCEPT !.answer = {a}]]
  /\ cpc' = [cpc EXCEPT ![c] = "decided"]
  /\ UNCHANGED <<bootVars, regVars, opVars, copy>>

\* Execute looks the handler up and calls it, with the URL and the token it was built with.
Execute(c) ==
  /\ Serving /\ cpc[c] = "decided"
  /\ LET e == entry[act[c].tool] IN
     act' = [act EXCEPT ![c].result = IF e = NoEntry THEN "unknown tool" ELSE "called",
                        ![c].sent = IF e = NoEntry THEN <<>>
                                    ELSE <<e.url, e.token, act[c].tool>>]
  /\ cpc' = [cpc EXCEPT ![c] = "done"]
  /\ UNCHANGED <<bootVars, regVars, opVars, copy>>

-----------------------------------------------------------------------------

\* Requests and the registry end with the process; so do the rows of a MemoryStore.
Forget ==
  /\ entry' = [t \in Tools |-> NoEntry]
  /\ overlapped' = FALSE
  /\ opc' = [o \in Operators |-> "idle"]
  /\ body' = [o \in Operators |-> NoBody]
  /\ left' = [o \in Operators |-> {}]
  /\ copy' = [c \in Calls |-> NoBody]
  /\ IF backend = "memory"
     THEN /\ server' = NoServer /\ credential' = NoCredential
          /\ cpc' = [c \in Calls |-> "idle"] /\ act' = [c \in Calls |-> NoAct]
     ELSE /\ UNCHANGED <<server, credential>>
          /\ cpc' = [c \in Calls |->
               CASE cpc[c] \in {"screen", "judge"} -> "done"
                 [] cpc[c] \in {"decided", "done"} -> cpc[c]
                 [] OTHER -> "idle"]
          /\ act' = [c \in Calls |->
               CASE act[c] = NoAct -> NoAct
                 [] cpc[c] \in {"screen", "judge"} -> [act[c] EXCEPT !.effect = "", !.counted = {}]
                 [] OTHER -> [act[c] EXCEPT !.restarted = TRUE]]

Crash == StartupCrash /\ Forget /\ UNCHANGED <<offered>>

Boot ==
  /\ BootStep \/ BootFault \/ \E e \in Environments : StartupRedeploy(e)
  /\ UNCHANGED <<regVars, opVars, callVars>>

OperatorStep(o) ==
  \/ \E b \in Bodies : RegisterMCPServer(o, b)
  \/ UpsertMCPServer(o) \/ UpsertMCPServerFails(o)
  \/ \E t \in Tools : RegisterTool(o, t)

CallStep(c) ==
  \/ \E t \in Tools : MCPCall(c, t) \/ ProposeDirect(c, t)
  \/ MCPCallRegister(c) \/ AddAction(c)
  \/ ScreenCount(c) \/ ScreenCountFails(c)
  \/ \E a \in Answers : Judge(c, a)
  \/ Execute(c)

Next ==
  \/ Boot \/ Crash
  \/ \E o \in Operators : OperatorStep(o)
  \/ \E s \in Secrets : HandleSetIntegrationCredential(s)
  \/ \E c \in Calls : CallStep(c)

\* The platform starts the process again and main runs on; clients and faults may rest.
Spec == Init /\ [][Next]_vars /\ WF_vars(BootStep /\ UNCHANGED <<regVars, opVars, callVars>>)

-----------------------------------------------------------------------------
(* Properties. *)

\* Keys that are the same in every process with this environment.
Persistent(e) == e.signing # "unset" \/ ExplicitDataKey(e)

\* A secret stored under an environment that fixes the data key can be read whenever the
\* program serves under that environment, whatever ran in between; one stored in plain
\* text, by an earlier release or because Seal failed, always can (Seal, Open, Load).
SecretSurvives ==
  Serving =>
    /\ server # NoServer
       /\ (server.token.key = NoProvider \/ (server.under = env /\ Persistent(env))) =>
         {b.token : b \in GetMCPServer} = {server.token.text}
    /\ credential.sealed.key = NoProvider \/ (credential.under = env /\ Persistent(env)) =>
         GetIntegrationCredential = {credential.sealed.text}

\* An upstream only ever sees a token it was registered with and a tool it listed then: no
\* interleaving of registrations, calls and restarts mixes the fields of two registrations
\* (HandlerFor, UpsertMCPServer, GetMCPServer).
SentAsRegistered ==
  \A c \in Calls : act[c].result = "called" => act[c].sent \in offered

\* An action proposed through the MCP endpoint fails for want of a handler only when the
\* process was restarted after it was proposed (handleMCPCall, Execute).
MissingHandlerNeedsRestart ==
  \A c \in Calls :
    act[c].mcp /\ act[c].result = "unknown tool" => act[c].restarted

\* The registry's handlers and classes for the listed tools are those of the stored row,
\* or there are none yet, whenever no request is about to register one; unless another
\* request held older data while the row was written, or the write failed
\* (handleRegisterMCPServer, handleMCPCall).
EntryFollowsRow ==
  ~overlapped /\ (\A o \in Operators : opc[o] # "register") =>
    \A t \in server.tools :
      entry[t] \in {NoEntry,
        [url |-> server.url, token |-> server.token.text,
         class |-> IF server.class = "" THEN "UNKNOWN" ELSE server.class]}

\* With the risk screen enabled an action is let through only on a confident low answer,
\* and of two actions of a transaction that are let through one was judged with the other
\* counted, unless the count could not be read (jevScreenRisk).
BurstJudged ==
  LET passed == {c \in Calls : cpc[c] \in {"decided", "done"} /\ act[c].effect = "ALLOW"}
  IN /\ \A c \in passed : \E a \in act[c].answer :
          a.usable /\ a.confidence >= 50 /\ a.score * 25 < Threshold * 100
     /\ \A c, d \in passed : c # d /\ ~act[c].blind /\ ~act[d].blind =>
          c \in act[d].counted \/ d \in act[c].counted
=============================================================================
