---------------------------- MODULE ReceiptChain ----------------------------
(***************************************************************************)
(* The hash-chained, signed receipts of one store.  A writer is a handler  *)
(* (run or Reconcile) attesting an execution: it appends a receipt to the  *)
(* chain of its organization, signs it, and stores the signature.          *)
(*                                                                         *)
(* SHA-256 is modelled by what it commits to: the hash of a receipt is the *)
(* sequence of payloads up to it, so hashes are equal exactly when the     *)
(* histories they cover are.                                               *)
(***************************************************************************)
EXTENDS Integers, Sequences, FiniteSets

CONSTANTS
  Orgs,
  Writers,      \* handlers that may be attesting at the same time
  Payloads,     \* what a receipt says: transaction, action, tool, outcome, times
  Backend,      \* "memory" (MemoryStore) or "postgres" (PGStore)
  MaxFaults,    \* bound: statements of PGStore that fail; every error is dropped
  Corruptible,  \* TRUE: a stored row may be altered behind the store's back
  MaxReports,   \* bound: executions reported per organization before a new one starts
  MaxCrashes,   \* bound: process crashes (PGStore only)
  NoJob         \* what an idle writer works on

Job == [org : Orgs, payload : Payloads]

ASSUME ChainAssumption ==
  /\ NoJob \notin Job
  /\ Backend \in {"memory", "postgres"}
  /\ MaxFaults \in Nat
  /\ Corruptible \in BOOLEAN
  /\ MaxReports \in Nat
  /\ MaxCrashes \in Nat

VARIABLES
  chain,      \* organization -> its receipts, oldest first
  stored,     \* receipts of all organizations (the length of receiptsList)
  lastHash,   \* organization -> MemoryStore.lastHash
  pc,         \* writer -> next call to make
  job,        \* writer -> organization and payload it is attesting
  prev,       \* writer -> hash it read as the head of the chain
  slot,       \* writer -> index of the receipt it will sign, 0 when it was lost
  reported,   \* organization -> executions reported to their clients as attested
  altered,    \* organization -> index of its altered receipt, or 0
  torn,       \* organizations where an append overtook another between its read and
              \* its insert, or could not read the head
  boot,       \* restarts so far
  faults      \* statements that failed so far

localVars == <<pc, job, prev, slot>>
vars == <<chain, stored, lastHash, localVars, reported, altered, torn, boot, faults>>

Hash == Seq(Payloads)
Genesis == <<>>

ChainHash(prevHash, payload) == Append(prevHash, payload)

\* A row: what is hashed, the two hashes, its place among the receipts of all
\* organizations, and whether the columns of the signature are filled.
Receipt ==
  [payload : Payloads, prev : Hash, hash : Hash, at : Nat, signed : BOOLEAN]

TypeOK ==
  /\ chain \in [Orgs -> Seq(Receipt)]
  /\ stored \in Nat
  /\ lastHash \in [Orgs -> Hash]
  /\ pc \in [Writers -> {"idle", "read", "insert", "sign", "update"}]
  /\ job \in [Writers -> Job \cup {NoJob}]
  /\ prev \in [Writers -> Hash]
  /\ slot \in [Writers -> Nat]
  /\ reported \in [Orgs -> Nat]
  /\ altered \in [Orgs -> Nat]
  /\ torn \subseteq Orgs
  /\ boot \in Nat
  /\ faults \in 0 .. MaxFaults

Init ==
  /\ chain = [o \in Orgs |-> <<>>]
  /\ stored = 0
  /\ lastHash = [o \in Orgs |-> Genesis]
  /\ pc = [w \in Writers |-> "idle"]
  /\ job = [w \in Writers |-> NoJob]
  /\ prev = [w \in Writers |-> Genesis]
  /\ slot = [w \in Writers |-> 0]
  /\ reported = [o \in Orgs |-> 0]
  /\ altered = [o \in Orgs |-> 0]
  /\ torn = {}
  /\ boot = 0
  /\ faults = 0

Fault == faults < MaxFaults /\ faults' = faults + 1

-----------------------------------------------------------------------------
(* Appending. *)

Link(prevHash, payload) ==
  [payload |-> payload, prev |-> prevHash, hash |-> ChainHash(prevHash, payload),
   at |-> stored, signed |-> FALSE]

Store(w, o, r) ==
  /\ chain' = [chain EXCEPT ![o] = Append(chain[o], r)]
  /\ stored' = stored + 1
  /\ slot' = [slot EXCEPT ![w] = Len(chain[o]) + 1]

HeadHash(o) ==
  IF chain[o] = <<>> THEN Genesis ELSE chain[o][Len(chain[o])].hash

\* Mutant: the head of the chain is not advanced.
AppendReceiptKeepsHead(w, j) ==
  /\ Backend = "memory"
  /\ pc[w] = "idle"
  /\ reported[j.org] < MaxReports
  /\ Store(w, j.org, Link(lastHash[j.org], j.payload))
  /\ job' = [job EXCEPT ![w] = j]
  /\ pc' = [pc EXCEPT ![w] = "sign"]
  /\ UNCHANGED <<lastHash, prev, reported, altered, torn, boot, faults>>

\* MemoryStore.AppendReceipt: one critical section.
AppendReceipt(w, j) ==
  /\ Backend = "memory"
  /\ pc[w] = "idle"
  /\ reported[j.org] < MaxReports
  /\ Store(w, j.org, Link(lastHash[j.org], j.payload))
  /\ lastHash' = [lastHash EXCEPT ![j.org] = ChainHash(lastHash[j.org], j.payload)]
  /\ job' = [job EXCEPT ![w] = j]
  /\ pc' = [pc EXCEPT ![w] = "sign"]
  /\ UNCHANGED <<prev, reported, altered, torn, boot, faults>>

\* PGStore.AppendReceipt: three statements, each a transaction of its own.  The
\* advisory lock is a transaction-level one, so it is released when the first
\* statement returns, or fails, and keeps nobody out of the other two.
TakeLock(w, j) ==
  /\ Backend = "postgres"
  /\ pc[w] = "idle"
  /\ reported[j.org] < MaxReports
  /\ job' = [job EXCEPT ![w] = j]
  /\ pc' = [pc EXCEPT ![w] = "read"]
  /\ UNCHANGED <<chain, stored, lastHash, prev, slot, reported, altered, torn, boot, faults>>

\* Mutant: the oldest receipt is taken for the latest.
ReadPrevOldest(w) ==
  /\ pc[w] = "read"
  /\ prev' = [prev EXCEPT ![w] = IF chain[job[w].org] = <<>> THEN Genesis
                                 ELSE chain[job[w].org][1].hash]
  /\ pc' = [pc EXCEPT ![w] = "insert"]
  /\ UNCHANGED <<chain, stored, lastHash, job, slot, reported, altered, torn, boot, faults>>

\* A failed query leaves prev as it was declared, "", as an empty one does.
ReadPrev(w) ==
  /\ pc[w] = "read"
  /\ \/ prev' = [prev EXCEPT ![w] = HeadHash(job[w].org)] /\ UNCHANGED <<torn, faults>>
     \/ Fault /\ prev' = [prev EXCEPT ![w] = Genesis] /\ torn' = torn \cup {job[w].org}
  /\ pc' = [pc EXCEPT ![w] = "insert"]
  /\ UNCHANGED <<chain, stored, lastHash, job, slot, reported, altered, boot>>

\* Other appends of the organization have read the head that this one is to replace.
Overtaken(w) ==
  \E v \in Writers \ {w} : pc[v] = "insert" /\ job[v].org = job[w].org

\* Mutant: a receipt whose head has moved on is silently given up.
InsertUnlessStale(w) ==
  /\ pc[w] = "insert"
  /\ IF prev[w] = HeadHash(job[w].org)
     THEN Store(w, job[w].org, Link(prev[w], job[w].payload))
     ELSE slot' = [slot EXCEPT ![w] = 0] /\ UNCHANGED <<chain, stored>>
  /\ pc' = [pc EXCEPT ![w] = "update"]
  /\ UNCHANGED <<lastHash, job, prev, reported, altered, torn, boot, faults>>

\* A failed insert is not noticed: the caller goes on with a receipt nobody has.
Insert(w) ==
  /\ pc[w] = "insert"
  /\ \/ /\ Store(w, job[w].org, Link(prev[w], job[w].payload))
        /\ torn' = IF Overtaken(w) THEN torn \cup {job[w].org} ELSE torn
        /\ UNCHANGED faults
     \/ /\ Fault /\ slot' = [slot EXCEPT ![w] = 0]
        /\ UNCHANGED <<chain, stored, torn>>
  /\ pc' = [pc EXCEPT ![w] = "update"]
  /\ UNCHANGED <<lastHash, job, prev, reported, altered, boot>>

Signed(r) ==
  [payload |-> r.payload, prev |-> r.prev, hash |-> r.hash, at |-> r.at, signed |-> TRUE]

\* The row of a receipt, if it is there, gets its signature.
Sign(o, i) ==
  chain' = IF i = 0 THEN chain
           ELSE [chain EXCEPT ![o] = [chain[o] EXCEPT ![i] = Signed(chain[o][i])]]

\* signReceipt signs the receipt AppendReceipt returned.  MemoryStore returned the
\* stored row itself; PGStore a copy, and what the handler does to it is its own.
SignReceipt(w) ==
  /\ pc[w] = "sign"
  /\ Sign(job[w].org, slot[w])
  /\ pc' = [pc EXCEPT ![w] = "update"]
  /\ UNCHANGED <<stored, lastHash, job, prev, slot, reported, altered, torn, boot, faults>>

\* The handler answers its client.
Answer(w) ==
  /\ reported' = [reported EXCEPT ![job[w].org] = reported[job[w].org] + 1]
  /\ pc' = [pc EXCEPT ![w] = "idle"]
  /\ job' = [job EXCEPT ![w] = NoJob]
  /\ prev' = [prev EXCEPT ![w] = Genesis]
  /\ slot' = [slot EXCEPT ![w] = 0]

\* Mutant: the signature stays in the handler.
UpdateReceiptForgotten(w) ==
  /\ pc[w] = "update"
  /\ Answer(w)
  /\ UNCHANGED <<chain, stored, lastHash, altered, torn, boot, faults>>

\* UpdateReceipt stores the signature; an error is dropped.
UpdateReceipt(w) ==
  /\ pc[w] = "update"
  /\ \/ Sign(job[w].org, slot[w]) /\ UNCHANGED faults
     \/ Backend = "postgres" /\ Fault /\ UNCHANGED chain
  /\ Answer(w)
  /\ UNCHANGED <<stored, lastHash, altered, torn, boot>>

-----------------------------------------------------------------------------
(* The environment. *)

\* The process dies and starts again; the rows survive, the handlers do not.
Crash ==
  /\ Backend = "postgres"
  /\ boot < MaxCrashes
  /\ boot' = boot + 1
  /\ pc' = [w \in Writers |-> "idle"]
  /\ job' = [w \in Writers |-> NoJob]
  /\ prev' = [w \in Writers |-> Genesis]
  /\ slot' = [w \in Writers |-> 0]
  /\ UNCHANGED <<chain, stored, lastHash, reported, altered, torn, faults>>

\* A field the hash covers changes in one stored row, once per organization.
Corrupt(o, i, p) ==
  /\ Corruptible
  /\ altered[o] = 0
  /\ p # chain[o][i].payload
  /\ chain' = [chain EXCEPT ![o] = [chain[o] EXCEPT ![i] =
       [payload |-> p, prev |-> chain[o][i].prev, hash |-> chain[o][i].hash,
        at |-> chain[o][i].at, signed |-> chain[o][i].signed]]]
  /\ altered' = [altered EXCEPT ![o] = i]
  /\ UNCHANGED <<stored, lastHash, localVars, reported, torn, boot, faults>>

WriterStep(w) == ReadPrev(w) \/ Insert(w) \/ SignReceipt(w) \/ UpdateReceipt(w)

Next ==
  \/ \E w \in Writers : \/ \E j \in Job : AppendReceipt(w, j) \/ TakeLock(w, j)
                        \/ WriterStep(w)
  \/ Crash
  \/ \E o \in Orgs, p \in Payloads : \E i \in DOMAIN chain[o] : Corrupt(o, i, p)

Spec == Init /\ [][Next]_vars

-----------------------------------------------------------------------------
(* Verifying. *)

\* The hash the loop of VerifyChain carries when it comes to receipt i.
Carried(o, i) == IF i = 1 THEN Genesis ELSE chain[o][i - 1].hash

\* Mutant: the payload is not hashed again.
BrokenLinksOnly(o) == {i \in DOMAIN chain[o] : chain[o][i].prev # Carried(o, i)}

Broken(o) ==
  {i \in DOMAIN chain[o] :
     \/ chain[o][i].prev # Carried(o, i)
     \/ chain[o][i].hash # ChainHash(Carried(o, i), chain[o][i].payload)}

\* The index of receipt i: MemoryStore counts among the receipts of all
\* organizations, PGStore among those of this one, both from 0.
Index(o, i) == IF Backend = "memory" THEN chain[o][i].at ELSE i - 1

FirstBroken(o) == CHOOSE i \in Broken(o) : \A k \in Broken(o) : i <= k

\* The answers VerifyChain may give: the first broken index, -1 when there is none;
\* -1 too when the query of PGStore fails, at once or before that row.
VerifyChain(o) ==
  (IF Broken(o) = {} THEN {-1} ELSE {Index(o, FirstBroken(o))})
  \cup {a \in {-1} : Backend = "postgres" /\ MaxFaults > 0}

-----------------------------------------------------------------------------
(* Properties. *)

\* VerifyChain finds the receipts the handlers wrote intact, however they
\* interleave and wherever the process stops.
ChainIntact == \A o \in Orgs : altered[o] = 0 => VerifyChain(o) = {-1}

\* A row that was altered is the one VerifyChain reports, whatever was appended
\* and signed since, for this and for other organizations.
CorruptionReported ==
  \A o \in Orgs : altered[o] # 0 => VerifyChain(o) = {Index(o, altered[o])}

\* VerifyChain names a receipt of PGStore only where a row was altered, where one append's
\* insert came between the read and the insert of another, or where the head could not be
\* read (AppendReceipt): no crash, no lost insert and no overlap before the read does it.
BreakIsExplained ==
  \A o \in Orgs : VerifyChain(o) = {-1} \/ altered[o] # 0 \/ o \in torn

\* An execution is reported as attested only with a receipt in the store, but for one
\* per failed statement (the INSERT whose error AppendReceipt drops).
ReportedIsStored == \A o \in Orgs : reported[o] <= Len(chain[o]) + faults

\* Unsigned receipts that no handler is about to sign.
Forsaken(o) ==
  {i \in DOMAIN chain[o] :
     /\ ~chain[o][i].signed
     /\ ~\E w \in Writers : /\ pc[w] \in {"sign", "update"}
                            /\ job[w] # NoJob /\ job[w].org = o /\ slot[w] = i}

\* A receipt stays unsigned for ever only through a failed UPDATE or a crash between
\* AppendReceipt and UpdateReceipt, which takes at most one receipt of each handler.
UnsignedIsAttended ==
  \A o \in Orgs : Cardinality(Forsaken(o)) <= faults + boot * Cardinality(Writers)
=============================================================================
