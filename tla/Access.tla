------------------------------- MODULE Access -------------------------------
(***************************************************************************)
(* Who may call the API: the rate limiter and the authentication every     *)
(* request passes, and the handlers by which an operator registers agents  *)
(* and issues and revokes their credentials, all running side by side.     *)
(*                                                                         *)
(* A secret is known by its key id.  Both stores keep one row per key and  *)
(* make each call in one step.  The time a credential was last used decides *)
(* nothing and is left out, and so are secrets from before key ids, which  *)
(* the program no longer issues.  One organization is modelled.            *)
(***************************************************************************)
EXTENDS Naturals, FiniteSetsExt

CONSTANTS
  Agents,
  Keys,         \* key ids NewAgentSecret may draw; it never draws one twice
  OpKey,        \* key id of the operator token made at the first start
  Requests,     \* requests that may be served at the same time
  Limit,          \* requests the limiter admits per window
  Window,       \* its length
  MaxTime,      \* bound of the clock
  MaxArrivals,  \* bound: requests made
  MaxCrashes,   \* bound: restarts
  None

Secrets == Keys \cup {OpKey}

ASSUME AccessAssumption ==
  /\ OpKey \notin Keys
  /\ None \notin Agents \cup Secrets
  /\ Limit \in Nat \ {0} /\ Window \in Nat \ {0}
  /\ MaxTime \in Nat /\ MaxArrivals \in Nat /\ MaxCrashes \in Nat

VARIABLES
  agents,       \* agents registered
  cred,         \* key id -> its agent, and "absent", "live" or "revoked"
  drawn,        \* key ids handed out by NewAgentSecret
  clock,
  bucket,       \* secret -> requests counted and start of its window
  pc,           \* request -> its next call
  secret,       \* request -> the secret it came with
  op,           \* request -> what it asks for
  agent,        \* request -> the agent it issues a credential for
  key,          \* request -> the key id it issues or revokes
  held,         \* request -> the credential it looked up
  outcome,      \* request -> how the last request of this slot was answered
  arrivals, crashes,
  shown,        \* secrets clients have been given
  admitted,     \* secret -> time -> requests the limiter let pass in this process
  asked,        \* key ids operators asked to revoke
  told,         \* key ids operators were told are revoked
  barred        \* requests that came with a secret already reported revoked

storeVars == <<agents, cred>>
localVars == <<secret, op, agent, key, held>>
historyVars == <<admitted, asked, told, barred>>
vars == <<storeVars, drawn, clock, bucket, pc, localVars, outcome, arrivals, crashes,
          shown, historyVars>>

Ops == {"call", "register", "issue", "revoke"}

NoCredential == [agent |-> None, status |-> "absent"]

\* main has made the operator token and shown it in the log.
Init ==
  /\ agents = {} /\ cred = [k \in Keys |-> NoCredential] /\ drawn = {}
  /\ clock = 0 /\ bucket = [s \in Secrets |-> [count |-> 0, start |-> 0]]
  /\ pc = [r \in Requests |-> "idle"]
  /\ secret = [r \in Requests |-> None] /\ op = [r \in Requests |-> None]
  /\ agent = [r \in Requests |-> None] /\ key = [r \in Requests |-> None]
  /\ held = [r \in Requests |-> NoCredential]
  /\ outcome = [r \in Requests |-> "none"]
  /\ arrivals = 0 /\ crashes = 0
  /\ shown = {OpKey}
  /\ admitted = [s \in Secrets |-> [t \in 0 .. MaxTime |-> 0]]
  /\ asked = {} /\ told = {} /\ barred = {}

-----------------------------------------------------------------------------

At(r, label) == pc[r] = label

Goto(r, label) ==
  /\ pc' = [pc EXCEPT ![r] = label]
  /\ UNCHANGED outcome

\* The handler answers; its local state is gone.
Answer(r, how) ==
  /\ pc' = [pc EXCEPT ![r] = "idle"]
  /\ outcome' = [outcome EXCEPT ![r] = how]
  /\ secret' = [secret EXCEPT ![r] = None]
  /\ op' = [op EXCEPT ![r] = None]
  /\ agent' = [agent EXCEPT ![r] = None]
  /\ key' = [key EXCEPT ![r] = None]
  /\ held' = [held EXCEPT ![r] = NoCredential]

\* A request comes in with a secret its client has been given.
Arrive(r, s, o, a, k) ==
  /\ At(r, "idle")
  /\ arrivals < MaxArrivals
  /\ s \in shown
  /\ a # None <=> o = "issue"
  /\ k # None <=> o = "revoke"
  /\ arrivals' = arrivals + 1
  /\ pc' = [pc EXCEPT ![r] = "limit"]
  /\ outcome' = [outcome EXCEPT ![r] = "none"]
  /\ secret' = [secret EXCEPT ![r] = s]
  /\ op' = [op EXCEPT ![r] = o]
  /\ agent' = [agent EXCEPT ![r] = a]
  /\ key' = [key EXCEPT ![r] = k]
  /\ barred' = IF s \in told THEN barred \cup {r} ELSE barred \ {r}
  /\ UNCHANGED <<storeVars, drawn, clock, bucket, held, crashes, shown, admitted,
                 asked, told>>

-----------------------------------------------------------------------------
(* The middleware. *)

\* Mutant: the window is cut short by one.
CountedEarly(b) ==
  IF clock + 1 >= b.start + Window \/ b.count = 0
  THEN {[count |-> 1, start |-> clock]}
  ELSE IF b.count >= Limit THEN {} ELSE {[count |-> b.count + 1, start |-> b.start]}

\* Mutant: the window starts anew and the count is kept.
CountedKept(b) ==
  IF b.count >= Limit THEN {}
  ELSE IF clock >= b.start + Window \/ b.count = 0
  THEN {[count |-> b.count + 1, start |-> clock]}
  ELSE {[count |-> b.count + 1, start |-> b.start]}

\* The bucket after Limiter.Allow counted one more request; none when it refuses.
\* A secret without a bucket has an empty one here.
Counted(b) ==
  IF clock >= b.start + Window \/ b.count = 0
  THEN {[count |-> 1, start |-> clock]}
  ELSE IF b.count >= Limit THEN {} ELSE {[count |-> b.count + 1, start |-> b.start]}

Allow(r) ==
  /\ At(r, "limit")
  /\ \E b \in Counted(bucket[secret[r]]) : bucket' = [bucket EXCEPT ![secret[r]] = b]
  /\ admitted' = [admitted EXCEPT ![secret[r]][clock] = @ + 1]
  /\ Goto(r, "lookup")
  /\ UNCHANGED <<storeVars, drawn, clock, localVars, arrivals, crashes, shown, asked,
                 told, barred>>

RateLimited(r) ==
  /\ At(r, "limit")
  /\ Counted(bucket[secret[r]]) = {}
  /\ Answer(r, "limited")
  /\ UNCHANGED <<storeVars, drawn, clock, bucket, arrivals, crashes, shown, historyVars>>

\* The row of a key that is there and not revoked.
GetCredential(k) == IF cred[k].status = "live" THEN cred[k] ELSE NoCredential

\* Authenticate finds the operator token, which nothing revokes, and touches it.
AuthenticateOperator(r) ==
  /\ At(r, "lookup") /\ secret[r] = OpKey
  /\ Goto(r, "handle")
  /\ UNCHANGED <<storeVars, drawn, clock, bucket, localVars, arrivals, crashes, shown,
                 historyVars>>

\* Authenticate finds the agent's credential; bcrypt takes its time before the touch.
AuthenticateAgent(r) ==
  /\ At(r, "lookup") /\ secret[r] # OpKey
  /\ GetCredential(secret[r]) # NoCredential
  /\ held' = [held EXCEPT ![r] = GetCredential(secret[r])]
  /\ Goto(r, "touch")
  /\ UNCHANGED <<storeVars, drawn, clock, bucket, secret, op, agent, key, arrivals, crashes,
                 shown, historyVars>>

InvalidCredentials(r) ==
  /\ At(r, "lookup") /\ secret[r] # OpKey
  /\ GetCredential(secret[r]) = NoCredential
  /\ Answer(r, "invalid")
  /\ UNCHANGED <<storeVars, drawn, clock, bucket, arrivals, crashes, shown, historyVars>>

\* Mutant: the row is written back as it was looked up.
TouchCredentialStale(r) ==
  /\ At(r, "touch")
  /\ cred' = [cred EXCEPT ![secret[r]] = held[r]]
  /\ Goto(r, "handle")
  /\ UNCHANGED <<agents, drawn, clock, bucket, localVars, arrivals, crashes, shown,
                 historyVars>>

\* TouchCredential writes the time into the row as it is now.
TouchCredential(r) ==
  /\ At(r, "touch")
  /\ Goto(r, "handle")
  /\ UNCHANGED <<storeVars, drawn, clock, bucket, localVars, arrivals, crashes, shown,
                 historyVars>>

-----------------------------------------------------------------------------
(* The handlers. *)

\* Any other request of an agent or an operator.
Call(r) ==
  /\ At(r, "handle") /\ op[r] = "call"
  /\ Answer(r, "served")
  /\ UNCHANGED <<storeVars, drawn, clock, bucket, arrivals, crashes, shown, historyVars>>

\* callerIsOperator fails, the agent or the credential is not there.
Refuse(r) ==
  /\ At(r, "handle") /\ op[r] # "call"
  /\ \/ secret[r] # OpKey
     \/ op[r] = "issue" /\ agent[r] \notin agents
     \/ op[r] = "revoke" /\ GetCredential(key[r]) = NoCredential
  /\ Answer(r, "refused")
  /\ UNCHANGED <<storeVars, drawn, clock, bucket, arrivals, crashes, shown, historyVars>>

\* NewAgentSecret, kept by a request that goes on to StoreCredential.
Draw(r) ==
  \E k \in Keys \ drawn :
    /\ drawn' = drawn \cup {k}
    /\ key' = [key EXCEPT ![r] = k]
    /\ Goto(r, "store")
    /\ UNCHANGED <<secret, op, held>>

\* handleRegisterAgent up to CreateAgent, which makes a new agent each time.
CreateAgent(r) ==
  /\ At(r, "handle") /\ op[r] = "register" /\ secret[r] = OpKey
  /\ \E a \in Agents \ agents :
       /\ agents' = agents \cup {a}
       /\ agent' = [agent EXCEPT ![r] = a]
  /\ Draw(r)
  /\ UNCHANGED <<cred, clock, bucket, arrivals, crashes, shown, historyVars>>

\* handleRotateCredential up to NewAgentSecret.
RotateCredential(r) ==
  /\ At(r, "handle") /\ op[r] = "issue" /\ secret[r] = OpKey
  /\ agent[r] \in agents
  /\ Draw(r)
  /\ UNCHANGED <<agent, storeVars, clock, bucket, arrivals, crashes, shown, historyVars>>

\* The credential is stored and its secret shown.
StoreCredential(r) ==
  /\ At(r, "store")
  /\ cred' = [cred EXCEPT ![key[r]] = [agent |-> agent[r], status |-> "live"]]
  /\ shown' = shown \cup {key[r]}
  /\ Answer(r, "served")
  /\ UNCHANGED <<agents, drawn, clock, bucket, arrivals, crashes, historyVars>>

\* handleRevokeCredential has found the credential.
ConfirmCredential(r) ==
  /\ At(r, "handle") /\ op[r] = "revoke" /\ secret[r] = OpKey
  /\ GetCredential(key[r]) # NoCredential
  /\ asked' = asked \cup {key[r]}
  /\ Goto(r, "revoke")
  /\ UNCHANGED <<storeVars, drawn, clock, bucket, localVars, arrivals, crashes, shown,
                 admitted, told, barred>>

Revoked(c) == [agent |-> c.agent, status |-> "revoked"]

\* Mutant: every credential of the agent goes.
RevokeCredentialOfAgent(k) ==
  cred' = [j \in Keys |-> IF cred[j].agent = cred[k].agent THEN Revoked(cred[j]) ELSE cred[j]]

RevokeCredential(k) ==
  cred' = IF cred[k].status = "live" THEN [cred EXCEPT ![k] = Revoked(cred[k])] ELSE cred

RevokeAndAnswer(r) ==
  /\ At(r, "revoke")
  /\ RevokeCredential(key[r])
  /\ told' = told \cup {key[r]}
  /\ Answer(r, "served")
  /\ UNCHANGED <<agents, drawn, clock, bucket, arrivals, crashes, shown, admitted, asked,
                 barred>>

-----------------------------------------------------------------------------

Tick ==
  /\ clock < MaxTime
  /\ clock' = clock + 1
  /\ UNCHANGED <<storeVars, drawn, bucket, pc, localVars, outcome, arrivals, crashes, shown,
                 historyVars>>

\* The process restarts: rows stay, requests and the limiter's buckets do not.
Crash ==
  /\ crashes < MaxCrashes
  /\ crashes' = crashes + 1
  /\ bucket' = [s \in Secrets |-> [count |-> 0, start |-> 0]]
  /\ pc' = [r \in Requests |-> "idle"]
  /\ secret' = [r \in Requests |-> None] /\ op' = [r \in Requests |-> None]
  /\ agent' = [r \in Requests |-> None] /\ key' = [r \in Requests |-> None]
  /\ held' = [r \in Requests |-> NoCredential]
  /\ outcome' = [r \in Requests |-> "none"]
  /\ admitted' = [s \in Secrets |-> [t \in 0 .. MaxTime |-> 0]]
  /\ barred' = {}
  /\ UNCHANGED <<storeVars, drawn, clock, arrivals, shown, asked, told>>

HandlerStep(r) ==
  \/ Allow(r) \/ RateLimited(r)
  \/ AuthenticateOperator(r) \/ AuthenticateAgent(r) \/ InvalidCredentials(r)
  \/ TouchCredential(r)
  \/ Call(r) \/ Refuse(r) \/ CreateAgent(r) \/ RotateCredential(r) \/ StoreCredential(r)
  \/ ConfirmCredential(r) \/ RevokeAndAnswer(r)

Next ==
  \/ \E r \in Requests : HandlerStep(r)
  \/ \E r \in Requests, s \in Secrets, o \in Ops, a \in Agents \cup {None},
       k \in Keys \cup {None} : Arrive(r, s, o, a, k)
  \/ Tick
  \/ Crash

Spec == Init /\ [][Next]_vars

-----------------------------------------------------------------------------
(* Properties. *)

\* Requests of a secret admitted in the window that ends with t.
Recent(s, t) ==
  MapThenSumSet(LAMBDA u : admitted[s][u], {u \in 0 .. t : u + Window > t})

\* Whatever the alignment of its windows, Limiter.Allow lets at most 2 Limit - 1 requests
\* of a secret pass within the length of one: the first of a bucket falls out of any
\* such stretch that reaches the next bucket.
WindowBound == \A s \in Secrets : \A t \in 0 .. clock : Recent(s, t) <= 2 * Limit - 1

\* Only a client that has used up its allowance within the last window is refused.
RefusedWhenFull ==
  [][\A r \in Requests : At(r, "limit") /\ outcome'[r] = "limited" =>
       Recent(secret[r], clock) >= Limit]_vars

\* A request that comes with a credential already reported revoked is not served, even
\* when an earlier request with it is still under way (Authenticate, TouchCredential).
RevokedNeverServed == \A r \in barred : outcome[r] # "served"

\* Replacing a credential leaves no gap: a secret handed out is good until somebody asks
\* to revoke that very one (handleRotateCredential, handleRevokeCredential).
SecretGoodUntilRevoked ==
  [][\A r \in Requests : At(r, "lookup") /\ outcome'[r] = "invalid" =>
       secret[r] \in asked]_vars
=============================================================================
