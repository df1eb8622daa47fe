------------------------- MODULE ReceiptChainProofs -------------------------
(***************************************************************************)
(* VerifyChain and the receipts that the handlers of ReceiptChain write:   *)
(* for any number of organizations, writers, payloads, receipts, crashes   *)
(* and failing statements a chain breaks only where an append was          *)
(* overtaken, could not read the head, or a row was altered; and where     *)
(* appends are serialized it names the altered row.                        *)
(***************************************************************************)
EXTENDS ReceiptChain, TLAPS

\* Appends are serialized: by the mutex of MemoryStore, or because PGStore has one
\* handler at work and no statement fails.
Serialized ==
  \/ Backend = "memory"
  \/ MaxFaults = 0 /\ \A v, w \in Writers : v = w

\* A receipt follows its predecessor, and its hash covers its payload unless the
\* payload was altered.
Linked(o) ==
  \A i \in 1 .. Len(chain[o]) :
    /\ chain[o][i].prev = Carried(o, i)
    /\ i # altered[o] <=>
         chain[o][i].hash = ChainHash(chain[o][i].prev, chain[o][i].payload)

\* The chain of an organization is linked as long as no append tore it.
Links ==
  \A o \in Orgs : altered[o] <= Len(chain[o]) /\ (o \notin torn => Linked(o))

\* A handler about to append to such a chain knows its head.
Heads ==
  /\ Backend = "memory" => /\ \A o \in Orgs : lastHash[o] = HeadHash(o)
                           /\ \A w \in Writers : pc[w] \in {"idle", "sign", "update"}
  /\ \A w \in Writers :
       pc[w] = "insert" /\ job[w].org \notin torn => prev[w] = HeadHash(job[w].org)

\* A handler at work has a job and, once it signs, a row of that organization or none.
Jobs ==
  \A w \in Writers :
    pc[w] # "idle" =>
      /\ job[w] \in Job
      /\ pc[w] \in {"sign", "update"} => slot[w] <= Len(chain[job[w].org])

\* Serialized appends tear nothing.
Whole == Serialized => torn = {}

IInv == TypeOK /\ Links /\ Heads /\ Jobs /\ Whole

-----------------------------------------------------------------------------
(* How the three ways a chain changes affect the links. *)

\* The hash of a payload determines the payload.
LEMMA ChainHashInjective ==
  ASSUME NEW h \in Hash, NEW p \in Payloads, NEW q \in Payloads,
         ChainHash(h, p) = ChainHash(h, q)
  PROVE  p = q
<1>1. Append(h, p)[Len(h) + 1] = p /\ Append(h, q)[Len(h) + 1] = q
  BY DEF Hash
<1> QED BY <1>1 DEF ChainHash

\* ChainHash makes hashes.
LEMMA ChainHashType ==
  ASSUME NEW h \in Hash, NEW p \in Payloads
  PROVE  ChainHash(h, p) \in Hash
BY DEF ChainHash, Hash

\* The head of a chain is a hash.
LEMMA HeadHashType ==
  ASSUME TypeOK, NEW o \in Orgs
  PROVE  HeadHash(o) \in Hash
<1>1. chain[o] \in Seq(Receipt) BY DEF TypeOK
<1>2. Genesis \in Hash BY DEF Genesis, Hash
<1>3. CASE chain[o] = <<>> BY <1>2, <1>3 DEF HeadHash
<1>4. CASE chain[o] # <<>>
  <2>1. Len(chain[o]) \in 1 .. Len(chain[o]) BY <1>1, <1>4
  <2>2. chain[o][Len(chain[o])] \in Receipt BY <1>1, <2>1
  <2> QED BY <1>4, <2>2 DEF HeadHash, Receipt
<1> QED BY <1>3, <1>4

\* Link makes a receipt.
LEMMA LinkFacts ==
  ASSUME TypeOK, NEW h \in Hash, NEW p \in Payloads
  PROVE  /\ Link(h, p) \in Receipt
         /\ Link(h, p).prev = h
         /\ Link(h, p).payload = p
         /\ Link(h, p).hash = ChainHash(h, p)
BY ChainHashType DEF TypeOK, Link, Receipt

\* Appending a receipt that follows the head keeps the links (AppendReceipt).
LEMMA StoreStep ==
  ASSUME TypeOK, NEW w \in Writers, NEW o \in Orgs, NEW h \in Hash,
         NEW p \in Payloads, Store(w, o, Link(h, p)), UNCHANGED altered,
         altered[o] <= Len(chain[o])
  PROVE  /\ chain' \in [Orgs -> Seq(Receipt)]
         /\ stored' \in Nat
         /\ slot' \in [Writers -> Nat]
         /\ HeadHash(o)' = ChainHash(h, p)
         /\ \A x \in Orgs \ {o} : chain'[x] = chain[x] /\ HeadHash(x)' = HeadHash(x)
         /\ Len(chain'[o]) = Len(chain[o]) + 1
         /\ slot' = [slot EXCEPT ![w] = Len(chain[o]) + 1]
         /\ altered'[o] <= Len(chain'[o])
         /\ Linked(o) /\ h = HeadHash(o) => Linked(o)'
<1> DEFINE r == Link(h, p)
<1>1. r \in Receipt /\ r.prev = h /\ r.payload = p /\ r.hash = ChainHash(h, p)
  BY LinkFacts
<1> HIDE DEF r
<1>2. chain[o] \in Seq(Receipt) /\ chain \in [Orgs -> Seq(Receipt)] BY DEF TypeOK
<1>3. chain' = [chain EXCEPT ![o] = Append(chain[o], r)] BY DEF Store, r
<1>4. /\ chain'[o] = Append(chain[o], r)
      /\ \A x \in Orgs \ {o} : chain'[x] = chain[x]
  BY <1>2, <1>3
<1>5. /\ Append(chain[o], r) \in Seq(Receipt)
      /\ Len(Append(chain[o], r)) = Len(chain[o]) + 1
      /\ \A i \in 1 .. Len(chain[o]) : Append(chain[o], r)[i] = chain[o][i]
      /\ Append(chain[o], r)[Len(chain[o]) + 1] = r
  BY <1>1, <1>2
<1>6. chain' \in [Orgs -> Seq(Receipt)] BY <1>2, <1>3, <1>5
<1>7. Len(chain[o]) \in Nat BY <1>2
<1>8. /\ slot' \in [Writers -> Nat] /\ slot' = [slot EXCEPT ![w] = Len(chain[o]) + 1]
      /\ stored' \in Nat
  BY <1>7 DEF TypeOK, Store
<1>9. HeadHash(o)' = ChainHash(h, p)
  <2>1. chain'[o] # <<>> BY <1>4, <1>5, <1>7
  <2> QED BY <2>1, <1>1, <1>4, <1>5 DEF HeadHash
<1>10. \A x \in Orgs \ {o} : HeadHash(x)' = HeadHash(x) BY <1>4 DEF HeadHash
<1>11. altered'[o] = altered[o] /\ altered[o] \in Nat BY DEF TypeOK
<1>12. ASSUME Linked(o), h = HeadHash(o), NEW i \in 1 .. Len(chain'[o])
       PROVE  /\ chain'[o][i].prev = Carried(o, i)'
              /\ i # altered'[o] <=> chain'[o][i].hash
                   = ChainHash(chain'[o][i].prev, chain'[o][i].payload)
  <2>1. CASE i \in 1 .. Len(chain[o])
    <3>1. chain'[o][i] = chain[o][i] BY <2>1, <1>4, <1>5
    <3>2. i # 1 => i - 1 \in 1 .. Len(chain[o]) BY <2>1, <1>7
    <3>3. Carried(o, i)' = Carried(o, i) BY <3>2, <1>4, <1>5 DEF Carried
    <3> QED BY <2>1, <3>1, <3>3, <1>11, <1>12 DEF Linked
  <2>2. CASE i = Len(chain[o]) + 1
    <3>1. chain'[o][i] = r BY <2>2, <1>4, <1>5
    <3>2. Carried(o, i)' = h
      <4>1. CASE chain[o] = <<>>
        <5>1. i = 1 /\ h = Genesis BY <2>2, <4>1, <1>12 DEF HeadHash
        <5> QED BY <5>1 DEF Carried
      <4>2. CASE chain[o] # <<>>
        <5>1. Len(chain[o]) \in 1 .. Len(chain[o]) /\ i # 1 /\ i - 1 = Len(chain[o])
          BY <1>2, <1>7, <2>2, <4>2
        <5>2. h = chain[o][Len(chain[o])].hash BY <4>2, <1>12 DEF HeadHash
        <5> QED BY <5>1, <5>2, <1>4, <1>5 DEF Carried
      <4> QED BY <4>1, <4>2
    <3>3. i # altered'[o] BY <2>2, <1>7, <1>11
    <3> QED BY <3>1, <3>2, <3>3, <1>1
  <2>3. i \in 1 .. Len(chain[o]) + 1 BY <1>4, <1>5
  <2> QED BY <2>1, <2>2, <2>3, <1>7
<1>13. altered'[o] <= Len(chain'[o]) BY <1>11, <1>4, <1>5, <1>7
<1>14. Linked(o) /\ h = HeadHash(o) => Linked(o)' BY <1>12 DEF Linked
<1> QED BY <1>4, <1>5, <1>6, <1>8, <1>9, <1>10, <1>13, <1>14

\* A chain no row of which changes stays linked.
LEMMA SameChain ==
  ASSUME NEW o \in Orgs, chain'[o] = chain[o], altered'[o] = altered[o]
  PROVE  HeadHash(o)' = HeadHash(o) /\ (Linked(o)' <=> Linked(o))
BY DEF Linked, Carried, HeadHash

\* What appending does to the links and to the handlers that are not at it.
LEMMA AppendKeeps ==
  ASSUME IInv, NEW w \in Writers, NEW o \in Orgs, NEW h \in Hash,
         NEW p \in Payloads, Store(w, o, Link(h, p)), UNCHANGED altered,
         o \in torn \/ h = HeadHash(o), torn \subseteq torn'
  PROVE  Links'
<1>1. altered[o] <= Len(chain[o]) BY DEF IInv, Links
<1>2. /\ \A x \in Orgs \ {o} : chain'[x] = chain[x]
      /\ altered'[o] <= Len(chain'[o])
      /\ Linked(o) /\ h = HeadHash(o) => Linked(o)'
  BY <1>1, StoreStep DEF IInv
<1>3. o \notin torn' => Linked(o)' BY <1>2 DEF IInv, Links
<1>4. ASSUME NEW x \in Orgs, x # o
      PROVE  altered'[x] <= Len(chain'[x]) /\ (x \notin torn' => Linked(x)')
  <2>1. chain'[x] = chain[x] /\ altered'[x] = altered[x] BY <1>2, <1>4
  <2> QED BY <2>1, SameChain DEF IInv, Links
<1> QED BY <1>2, <1>3, <1>4 DEF Links

\* The handlers keep their rows when chains only grow.
LEMMA JobsStay ==
  ASSUME IInv, chain' \in [Orgs -> Seq(Receipt)],
         \A o \in Orgs : Len(chain[o]) <= Len(chain'[o]),
         NEW v \in Writers, pc'[v] = pc[v], job'[v] = job[v], slot'[v] = slot[v],
         pc[v] # "idle"
  PROVE  /\ job'[v] \in Job
         /\ pc'[v] \in {"sign", "update"} => slot'[v] <= Len(chain'[job'[v].org])
<1>1. job[v] \in Job /\ (pc[v] \in {"sign", "update"} => slot[v] <= Len(chain[job[v].org]))
  BY DEF IInv, Jobs
<1>2. job[v].org \in Orgs BY <1>1 DEF Job
<1>3. slot[v] \in Nat /\ Len(chain[job[v].org]) \in Nat /\ Len(chain'[job[v].org]) \in Nat
  BY <1>2 DEF IInv, TypeOK
<1>4. Len(chain[job[v].org]) <= Len(chain'[job[v].org]) BY <1>2
<1> QED BY <1>1, <1>3, <1>4

\* Row i of the chain of o becomes r.
Rewrite(o, i, r) == chain' = [chain EXCEPT ![o] = [chain[o] EXCEPT ![i] = r]]

\* Rewriting a row without touching its hashes keeps every head and every link
\* (UpdateReceipt, and a corrupted row).
LEMMA RowStep ==
  ASSUME TypeOK, NEW o \in Orgs, NEW i \in 1 .. Len(chain[o]), NEW r \in Receipt,
         r.prev = chain[o][i].prev, r.hash = chain[o][i].hash,
         Rewrite(o, i, r)
  PROVE  /\ chain' \in [Orgs -> Seq(Receipt)]
         /\ \A x \in Orgs :
              /\ Len(chain'[x]) = Len(chain[x])
              /\ HeadHash(x)' = HeadHash(x)
              /\ \A k \in 1 .. Len(chain[x]) :
                   /\ Carried(x, k)' = Carried(x, k)
                   /\ chain'[x][k] = IF x = o /\ k = i THEN r ELSE chain[x][k]
<1>1. chain[o] \in Seq(Receipt) /\ chain \in [Orgs -> Seq(Receipt)] BY DEF TypeOK
<1> DEFINE s == [chain[o] EXCEPT ![i] = r]
<1>2. /\ s \in Seq(Receipt)
      /\ Len(s) = Len(chain[o])
      /\ \A k \in 1 .. Len(chain[o]) : s[k] = IF k = i THEN r ELSE chain[o][k]
  BY <1>1
<1>3. chain' = [chain EXCEPT ![o] = s] BY DEF Rewrite
<1> HIDE DEF s
<1>4. chain' \in [Orgs -> Seq(Receipt)] BY <1>1, <1>2, <1>3
<1>5. chain'[o] = s /\ \A x \in Orgs \ {o} : chain'[x] = chain[x] BY <1>1, <1>3
<1>6. ASSUME NEW x \in Orgs
      PROVE  /\ Len(chain'[x]) = Len(chain[x])
             /\ \A k \in 1 .. Len(chain[x]) :
                  /\ chain'[x][k] = IF x = o /\ k = i THEN r ELSE chain[x][k]
                  /\ chain'[x][k].hash = chain[x][k].hash
  BY <1>2, <1>5
<1>7. ASSUME NEW x \in Orgs PROVE HeadHash(x)' = HeadHash(x)
  <2>1. chain[x] \in Seq(Receipt) /\ chain'[x] \in Seq(Receipt) BY <1>1, <1>4
  <2>2. chain[x] = <<>> <=> chain'[x] = <<>> BY <2>1, <1>6
  <2>3. chain[x] # <<>> => Len(chain[x]) \in 1 .. Len(chain[x]) BY <2>1
  <2> QED BY <2>2, <2>3, <1>6 DEF HeadHash
<1>8. ASSUME NEW x \in Orgs, NEW k \in 1 .. Len(chain[x])
      PROVE  Carried(x, k)' = Carried(x, k)
  <2>1. Len(chain[x]) \in Nat BY <1>1
  <2>2. k # 1 => k - 1 \in 1 .. Len(chain[x]) BY <2>1
  <2> QED BY <2>2, <1>6 DEF Carried
<1> QED BY <1>4, <1>6, <1>7, <1>8

-----------------------------------------------------------------------------
(* One lemma per action. *)

\* MemoryStore.AppendReceipt keeps the invariant: lastHash is the head.
LEMMA AppendReceiptStep ==
  ASSUME IInv, NEW w \in Writers, NEW j \in Job, AppendReceipt(w, j)
  PROVE  IInv'
<1>1. j.org \in Orgs /\ j.payload \in Payloads BY DEF Job
<1>2. /\ Backend = "memory" /\ UNCHANGED <<prev, reported, altered, torn, boot, faults>>
      /\ lastHash' = [lastHash EXCEPT ![j.org] = ChainHash(lastHash[j.org], j.payload)]
      /\ job' = [job EXCEPT ![w] = j]
      /\ pc' = [pc EXCEPT ![w] = "sign"]
      /\ Store(w, j.org, Link(lastHash[j.org], j.payload))
  BY DEF AppendReceipt
<1>3. lastHash[j.org] = HeadHash(j.org) /\ lastHash[j.org] \in Hash
  BY <1>1, <1>2 DEF IInv, Heads, TypeOK
<1>4. altered[j.org] <= Len(chain[j.org]) BY <1>1 DEF IInv, Links
<1>5. /\ chain' \in [Orgs -> Seq(Receipt)]
      /\ stored' \in Nat
      /\ slot' \in [Writers -> Nat]
      /\ HeadHash(j.org)' = ChainHash(lastHash[j.org], j.payload)
      /\ \A x \in Orgs \ {j.org} :
           chain'[x] = chain[x] /\ HeadHash(x)' = HeadHash(x)
      /\ Len(chain'[j.org]) = Len(chain[j.org]) + 1
      /\ slot' = [slot EXCEPT ![w] = Len(chain[j.org]) + 1]
  BY <1>1, <1>2, <1>3, <1>4, StoreStep DEF IInv
<1>6. Links' BY <1>1, <1>2, <1>3, AppendKeeps
<1>7. ChainHash(lastHash[j.org], j.payload) \in Hash BY <1>1, <1>3, ChainHashType
<1>8. TypeOK' BY <1>2, <1>5, <1>7 DEF IInv, TypeOK
<1>9. Heads' BY <1>1, <1>2, <1>5 DEF IInv, Heads, TypeOK
<1>10. \A x \in Orgs : Len(chain[x]) \in Nat /\ Len(chain'[x]) \in Nat
  BY <1>5 DEF IInv, TypeOK
<1>11. \A x \in Orgs : Len(chain[x]) <= Len(chain'[x]) BY <1>1, <1>5, <1>10
<1>12. ASSUME NEW v \in Writers, pc'[v] # "idle"
       PROVE  /\ job'[v] \in Job
              /\ pc'[v] \in {"sign", "update"} => slot'[v] <= Len(chain'[job'[v].org])
  <2>1. CASE v = w BY <2>1, <1>1, <1>2, <1>5, <1>10 DEF IInv, TypeOK
  <2>2. CASE v # w
    <3>1. pc'[v] = pc[v] /\ job'[v] = job[v] /\ slot'[v] = slot[v]
      BY <2>2, <1>2, <1>5 DEF IInv, TypeOK
    <3> QED BY <3>1, <1>5, <1>11, <1>12, JobsStay
  <2> QED BY <2>1, <2>2
<1>13. Jobs' BY <1>12 DEF Jobs
<1>14. Whole' BY <1>2 DEF IInv, Whole
<1> QED BY <1>6, <1>8, <1>9, <1>13, <1>14 DEF IInv

\* A step that touches no row keeps the links and the heads.
LEMMA SameRows ==
  ASSUME Links, UNCHANGED <<chain, altered>>, torn \subseteq torn'
  PROVE  Links' /\ \A o \in Orgs : HeadHash(o)' = HeadHash(o)
BY SameChain DEF Links

\* Taking the lock only starts the job.
LEMMA TakeLockStep ==
  ASSUME IInv, NEW w \in Writers, NEW j \in Job, TakeLock(w, j)
  PROVE  IInv'
<1>1. /\ Backend # "memory"
      /\ UNCHANGED <<chain, stored, lastHash, prev, slot, reported, altered, torn, boot,
                     faults>>
      /\ job' = [job EXCEPT ![w] = j]
      /\ pc' = [pc EXCEPT ![w] = "read"]
  BY DEF TakeLock
<1>2. TypeOK' BY <1>1 DEF IInv, TypeOK
<1>3. Links' /\ \A o \in Orgs : HeadHash(o)' = HeadHash(o) BY <1>1, SameRows DEF IInv
<1>4. Jobs' BY <1>1 DEF IInv, Jobs, TypeOK
<1>5. ASSUME NEW v \in Writers, pc'[v] = "insert", job'[v].org \notin torn'
      PROVE  prev'[v] = HeadHash(job[v].org)' /\ job'[v] = job[v]
  <2>1. v # w /\ pc[v] = "insert" /\ job'[v] = job[v] BY <1>1, <1>5 DEF IInv, TypeOK
  <2>2. job[v].org \in Orgs BY <2>1 DEF IInv, Jobs, Job
  <2> QED BY <1>1, <1>3, <1>5, <2>1, <2>2 DEF IInv, Heads
<1>6. Heads' BY <1>1, <1>5 DEF Heads
<1>7. Whole' BY <1>1 DEF IInv, Whole
<1> QED BY <1>2, <1>3, <1>4, <1>6, <1>7 DEF IInv

\* What ReadPrev reads is the head, or the read fails and tears the chain.
LEMMA ReadPrevStep ==
  ASSUME IInv, NEW w \in Writers, ReadPrev(w)
  PROVE  IInv'
<1>1. /\ pc[w] = "read"
      /\ UNCHANGED <<chain, stored, lastHash, job, slot, reported, altered, boot>>
      /\ pc' = [pc EXCEPT ![w] = "insert"]
  BY DEF ReadPrev
<1>2. \/ /\ prev' = [prev EXCEPT ![w] = HeadHash(job[w].org)]
         /\ torn' = torn /\ faults' = faults
      \/ /\ prev' = [prev EXCEPT ![w] = Genesis]
         /\ torn' = torn \cup {job[w].org} /\ Fault
  BY DEF ReadPrev
<1>3. Backend # "memory" BY <1>1 DEF IInv, Heads
<1>4. job[w].org \in Orgs BY <1>1 DEF IInv, Jobs, Job
<1>5. HeadHash(job[w].org) \in Hash /\ Genesis \in Hash
  BY <1>4, HeadHashType DEF IInv, Genesis, Hash
<1>6. faults' \in 0 .. MaxFaults BY <1>2, ChainAssumption DEF IInv, TypeOK, Fault
<1>7. TypeOK' BY <1>1, <1>2, <1>4, <1>5, <1>6 DEF IInv, TypeOK
<1>8. torn \subseteq torn' BY <1>2
<1>9. Links' /\ \A o \in Orgs : HeadHash(o)' = HeadHash(o)
  BY <1>1, <1>8, SameRows DEF IInv
<1>10. Jobs' BY <1>1 DEF IInv, Jobs, TypeOK
<1>11. ASSUME NEW v \in Writers, pc'[v] = "insert", job[v].org \notin torn'
       PROVE  prev'[v] = HeadHash(job[v].org)'
  <2>1. CASE v = w BY <2>1, <1>1, <1>2, <1>4, <1>9, <1>11 DEF IInv, TypeOK
  <2>2. CASE v # w
    <3>1. pc[v] = "insert" /\ prev'[v] = prev[v] /\ job[v].org \notin torn
      BY <2>2, <1>1, <1>2, <1>8, <1>11 DEF IInv, TypeOK
    <3>2. job[v].org \in Orgs BY <3>1 DEF IInv, Jobs, Job
    <3> QED BY <3>1, <3>2, <1>1, <1>9 DEF IInv, Heads
  <2> QED BY <2>1, <2>2
<1>12. Heads' BY <1>1, <1>3, <1>11 DEF Heads
<1>13. Whole'
  <2>1. Serialized => ~Fault BY <1>3 DEF Serialized, Fault, IInv, TypeOK
  <2> QED BY <2>1, <1>2 DEF IInv, Whole
<1> QED BY <1>7, <1>9, <1>10, <1>12, <1>13 DEF IInv

\* The insert links to the head that was read; who else read that head is overtaken,
\* and the chain torn.
LEMMA InsertStep ==
  ASSUME IInv, NEW w \in Writers, Insert(w)
  PROVE  IInv'
<1> DEFINE o == job[w].org
<1>1. /\ pc[w] = "insert"
      /\ UNCHANGED <<lastHash, job, prev, reported, altered, boot>>
      /\ pc' = [pc EXCEPT ![w] = "update"]
  BY DEF Insert
<1>2. Backend # "memory" BY <1>1 DEF IInv, Heads
<1>3. o \in Orgs /\ job[w].payload \in Payloads /\ job[w] \in Job
  BY <1>1 DEF IInv, Jobs, Job
<1>4. prev[w] \in Hash /\ (o \in torn \/ prev[w] = HeadHash(o))
  BY <1>1 DEF IInv, Heads, TypeOK
<1>5. \A v \in Writers : v # w => pc'[v] = pc[v] /\ job'[v] = job[v] /\ prev'[v] = prev[v]
  BY <1>1 DEF IInv, TypeOK
<1>6. CASE Fault /\ slot' = [slot EXCEPT ![w] = 0] /\ UNCHANGED <<chain, stored, torn>>
  <2>1. faults' \in 0 .. MaxFaults BY <1>6, ChainAssumption DEF IInv, TypeOK, Fault
  <2>2. TypeOK' BY <1>1, <1>6, <2>1 DEF IInv, TypeOK
  <2>3. Links' /\ \A x \in Orgs : HeadHash(x)' = HeadHash(x)
    BY <1>1, <1>6, SameRows DEF IInv
  <2>4. ASSUME NEW v \in Writers, pc'[v] = "insert", job[v].org \notin torn'
        PROVE  prev'[v] = HeadHash(job[v].org)'
    <3>1. v # w BY <1>1, <2>4 DEF IInv, TypeOK
    <3>2. pc[v] = "insert" /\ prev'[v] = prev[v] BY <3>1, <1>5, <2>4
    <3>3. job[v].org \in Orgs BY <3>2 DEF IInv, Jobs, Job
    <3> QED BY <1>1, <1>6, <2>3, <2>4, <3>2, <3>3 DEF IInv, Heads
  <2>5. Heads' BY <1>1, <1>2, <2>4 DEF Heads
  <2>6. Len(chain[o]) \in Nat BY <1>3 DEF IInv, TypeOK
  <2>7. Jobs' BY <1>1, <1>3, <1>6, <2>6 DEF IInv, Jobs, TypeOK
  <2>8. Whole' BY <1>6 DEF IInv, Whole
  <2> QED BY <2>2, <2>3, <2>5, <2>7, <2>8 DEF IInv
<1>7. CASE /\ Store(w, o, Link(prev[w], job[w].payload))
           /\ torn' = (IF Overtaken(w) THEN torn \cup {o} ELSE torn)
           /\ UNCHANGED faults
  <2>1. altered[o] <= Len(chain[o]) BY <1>3 DEF IInv, Links
  <2>2. /\ chain' \in [Orgs -> Seq(Receipt)]
        /\ stored' \in Nat
        /\ slot' \in [Writers -> Nat]
        /\ \A x \in Orgs \ {o} : chain'[x] = chain[x] /\ HeadHash(x)' = HeadHash(x)
        /\ Len(chain'[o]) = Len(chain[o]) + 1
        /\ slot' = [slot EXCEPT ![w] = Len(chain[o]) + 1]
    BY <1>1, <1>3, <1>4, <1>7, <2>1, StoreStep DEF IInv
  <2>3. torn \subseteq torn' /\ torn' \subseteq Orgs BY <1>3, <1>7 DEF IInv, TypeOK
  <2>4. Links' BY <1>1, <1>3, <1>4, <1>7, <2>3, AppendKeeps
  <2>5. TypeOK' BY <1>1, <1>7, <2>2, <2>3 DEF IInv, TypeOK
  <2>6. ASSUME NEW v \in Writers, pc'[v] = "insert", job[v].org \notin torn'
        PROVE  prev'[v] = HeadHash(job[v].org)'
    <3>1. v # w BY <1>1, <2>6 DEF IInv, TypeOK
    <3>2. pc[v] = "insert" /\ prev'[v] = prev[v] BY <3>1, <1>5, <2>6
    <3>3. job[v].org \in Orgs BY <3>2 DEF IInv, Jobs, Job
    <3>4. job[v].org # o BY <1>7, <2>6, <3>1, <3>2 DEF Overtaken
    <3> QED BY <1>1, <2>2, <2>3, <2>6, <3>2, <3>3, <3>4 DEF IInv, Heads
  <2>7. Heads' BY <1>1, <1>2, <2>6 DEF Heads
  <2>8. \A x \in Orgs : Len(chain[x]) \in Nat BY DEF IInv, TypeOK
  <2>9. \A x \in Orgs : Len(chain[x]) <= Len(chain'[x]) BY <1>3, <2>2, <2>8
  <2>10. ASSUME NEW v \in Writers, pc'[v] # "idle"
         PROVE  /\ job'[v] \in Job
                /\ pc'[v] \in {"sign", "update"} => slot'[v] <= Len(chain'[job'[v].org])
    <3>1. CASE v = w BY <3>1, <1>1, <1>3, <2>2, <2>8 DEF IInv, TypeOK
    <3>2. CASE v # w
      <4>1. pc'[v] = pc[v] /\ job'[v] = job[v] /\ slot'[v] = slot[v]
        BY <3>2, <1>5, <2>2 DEF IInv, TypeOK
      <4> QED BY <4>1, <2>2, <2>9, <2>10, JobsStay
    <3> QED BY <3>1, <3>2
  <2>11. Jobs' BY <2>10 DEF Jobs
  <2>12. Whole'
    <3>1. Serialized => ~Overtaken(w) BY <1>2 DEF Serialized, Overtaken
    <3> QED BY <3>1, <1>7 DEF IInv, Whole
  <2> QED BY <2>4, <2>5, <2>7, <2>11, <2>12 DEF IInv
<1> QED BY <1>6, <1>7 DEF Insert

\* A step after which some writers have signed or are as they were and the others idle.
LEMMA IdleStep ==
  ASSUME IInv, UNCHANGED <<lastHash, torn>>,
         \A o \in Orgs : Len(chain'[o]) = Len(chain[o]) /\ HeadHash(o)' = HeadHash(o),
         \A v \in Writers :
           \/ pc'[v] = "idle"
           \/ /\ pc'[v] = pc[v] \/ (pc[v] = "sign" /\ pc'[v] = "update")
              /\ job'[v] = job[v] /\ prev'[v] = prev[v] /\ slot'[v] = slot[v]
  PROVE  Heads' /\ Jobs' /\ Whole'
<1>1. \A v \in Writers : pc[v] # "idle" => job[v].org \in Orgs BY DEF IInv, Jobs, Job
<1>2. ASSUME NEW v \in Writers, pc'[v] = "insert", job'[v].org \notin torn'
      PROVE  prev'[v] = HeadHash(job[v].org)' /\ job'[v] = job[v]
  BY <1>1, <1>2 DEF IInv, Heads
<1>3. Heads' BY <1>2 DEF IInv, Heads
<1>4. Jobs' BY <1>1 DEF IInv, Jobs
<1>5. Whole' BY DEF IInv, Whole
<1> QED BY <1>3, <1>4, <1>5

\* Filling the signature of a row, or failing to, leaves its link and the rest alone.
LEMMA SignKeeps ==
  ASSUME IInv, NEW o \in Orgs, NEW i \in Nat, i <= Len(chain[o]),
         Sign(o, i) \/ UNCHANGED chain, UNCHANGED <<altered, torn>>
  PROVE  /\ chain' \in [Orgs -> Seq(Receipt)] /\ Links'
         /\ \A x \in Orgs : Len(chain'[x]) = Len(chain[x]) /\ HeadHash(x)' = HeadHash(x)
<1>1. CASE UNCHANGED chain BY <1>1, SameRows DEF IInv, TypeOK
<1>2. CASE i # 0 /\ Sign(o, i)
  <2> DEFINE r == Signed(chain[o][i])
  <2>1. chain[o] \in Seq(Receipt) BY DEF IInv, TypeOK
  <2>2. i \in 1 .. Len(chain[o]) BY <1>2, <2>1
  <2>3. chain[o][i] \in Receipt BY <2>1, <2>2
  <2>4. /\ r \in Receipt /\ r.prev = chain[o][i].prev /\ r.hash = chain[o][i].hash
        /\ r.payload = chain[o][i].payload
    BY <2>3 DEF Signed, Receipt
  <2>5. Rewrite(o, i, r) BY <1>2 DEF Sign, Rewrite
  <2> HIDE DEF r
  <2>6. /\ chain' \in [Orgs -> Seq(Receipt)]
        /\ \A x \in Orgs :
             /\ Len(chain'[x]) = Len(chain[x])
             /\ HeadHash(x)' = HeadHash(x)
             /\ \A k \in 1 .. Len(chain[x]) :
                  /\ Carried(x, k)' = Carried(x, k)
                  /\ chain'[x][k] = IF x = o /\ k = i THEN r ELSE chain[x][k]
    <3>1. TypeOK BY DEF IInv
    <3> QED BY <2>2, <2>4, <2>5, <3>1, RowStep
  <2>7. ASSUME NEW x \in Orgs, NEW k \in 1 .. Len(chain[x])
        PROVE  /\ chain'[x][k].prev = chain[x][k].prev
               /\ chain'[x][k].hash = chain[x][k].hash
               /\ chain'[x][k].payload = chain[x][k].payload
    BY <2>4, <2>6
  <2>8. ASSUME NEW x \in Orgs, x \notin torn' PROVE Linked(x)'
    <3>1. Linked(x) BY <2>8 DEF IInv, Links
    <3>2. altered'[x] = altered[x] /\ Len(chain'[x]) = Len(chain[x]) BY <2>6
    <3>3. ASSUME NEW k \in 1 .. Len(chain[x])
          PROVE  /\ chain'[x][k].prev = Carried(x, k)'
                 /\ k # altered'[x] <=> chain'[x][k].hash
                      = ChainHash(chain'[x][k].prev, chain'[x][k].payload)
      <4>1. Carried(x, k)' = Carried(x, k) BY <2>6
      <4> QED BY <4>1, <3>1, <3>2, <2>7 DEF Linked
    <3> QED BY <3>2, <3>3 DEF Linked
  <2>9. \A x \in Orgs : altered'[x] <= Len(chain'[x]) BY <2>6 DEF IInv, Links
  <2> QED BY <2>6, <2>8, <2>9 DEF Links
<1> QED BY <1>1, <1>2 DEF Sign

\* SignReceipt keeps the invariant.
LEMMA SignReceiptStep ==
  ASSUME IInv, NEW w \in Writers, SignReceipt(w)
  PROVE  IInv'
<1> DEFINE o == job[w].org
           i == slot[w]
<1>1. /\ pc[w] = "sign" /\ Sign(o, i)
      /\ pc' = [pc EXCEPT ![w] = "update"]
      /\ UNCHANGED <<stored, lastHash, job, prev, slot, reported, altered, torn, boot,
                     faults>>
  BY DEF SignReceipt
<1>2. o \in Orgs /\ i \in Nat /\ i <= Len(chain[o])
  BY <1>1 DEF IInv, Jobs, Job, TypeOK
<1> HIDE DEF o, i
<1>3. /\ chain' \in [Orgs -> Seq(Receipt)] /\ Links'
      /\ \A x \in Orgs : Len(chain'[x]) = Len(chain[x]) /\ HeadHash(x)' = HeadHash(x)
  BY <1>1, <1>2, SignKeeps
<1>4. TypeOK' BY <1>1, <1>3 DEF IInv, TypeOK
<1>5. Heads' /\ Jobs' /\ Whole' BY <1>1, <1>3, IdleStep DEF IInv, TypeOK
<1> QED BY <1>3, <1>4, <1>5 DEF IInv

\* UpdateReceipt keeps the invariant.
LEMMA UpdateReceiptStep ==
  ASSUME IInv, NEW w \in Writers, UpdateReceipt(w)
  PROVE  IInv'
<1> DEFINE o == job[w].org
           i == slot[w]
<1>1. /\ pc[w] = "update"
      /\ Sign(o, i) \/ UNCHANGED chain
      /\ faults' = faults \/ Fault
      /\ reported' = [reported EXCEPT ![o] = reported[o] + 1]
      /\ pc' = [pc EXCEPT ![w] = "idle"]
      /\ job' = [job EXCEPT ![w] = NoJob]
      /\ prev' = [prev EXCEPT ![w] = Genesis]
      /\ slot' = [slot EXCEPT ![w] = 0]
      /\ UNCHANGED <<stored, lastHash, altered, torn, boot>>
  BY DEF UpdateReceipt, Answer
<1>2. o \in Orgs /\ i \in Nat /\ i <= Len(chain[o])
  BY <1>1 DEF IInv, Jobs, Job, TypeOK
<1> HIDE DEF o, i
<1>3. /\ chain' \in [Orgs -> Seq(Receipt)] /\ Links'
      /\ \A x \in Orgs : Len(chain'[x]) = Len(chain[x]) /\ HeadHash(x)' = HeadHash(x)
  BY <1>1, <1>2, SignKeeps
<1>4. reported' \in [Orgs -> Nat] BY <1>1, <1>2 DEF IInv, TypeOK
<1>5. Genesis \in Hash BY DEF Genesis, Hash
<1>6. faults' \in 0 .. MaxFaults BY <1>1, ChainAssumption DEF IInv, TypeOK, Fault
<1>7. TypeOK' BY <1>1, <1>3, <1>4, <1>5, <1>6 DEF IInv, TypeOK
<1>8. Heads' /\ Jobs' /\ Whole' BY <1>1, <1>3, IdleStep DEF IInv, TypeOK
<1> QED BY <1>3, <1>7, <1>8 DEF IInv

\* A crash loses the handlers, not the rows.
LEMMA CrashStep ==
  ASSUME IInv, Crash
  PROVE  IInv'
<1>1. Genesis \in Hash BY DEF Genesis, Hash
<1>2. TypeOK' BY <1>1 DEF IInv, TypeOK, Crash
<1>3. Links' /\ \A o \in Orgs : HeadHash(o)' = HeadHash(o) BY SameRows DEF IInv, Crash
<1>4. Heads' /\ Jobs' /\ Whole' BY <1>3, IdleStep DEF Crash
<1> QED BY <1>2, <1>3, <1>4 DEF IInv

\* The altered row is the one whose hash no longer covers its payload.
LEMMA CorruptStep ==
  ASSUME IInv, NEW o \in Orgs, NEW p \in Payloads, NEW i \in DOMAIN chain[o],
         Corrupt(o, i, p)
  PROVE  IInv'
<1> DEFINE r == [payload |-> p, prev |-> chain[o][i].prev, hash |-> chain[o][i].hash,
                 at |-> chain[o][i].at, signed |-> chain[o][i].signed]
<1>1. chain[o] \in Seq(Receipt) BY DEF IInv, TypeOK
<1>2. i \in 1 .. Len(chain[o]) /\ i \in Nat BY <1>1
<1>3. chain[o][i] \in Receipt BY <1>1, <1>2
<1>4. /\ altered[o] = 0 /\ p # chain[o][i].payload
      /\ Rewrite(o, i, r)
      /\ altered' = [altered EXCEPT ![o] = i]
      /\ UNCHANGED <<stored, lastHash, localVars, reported, torn, boot, faults>>
  BY DEF Corrupt, Rewrite
<1>5. /\ r \in Receipt /\ r.prev = chain[o][i].prev /\ r.hash = chain[o][i].hash
      /\ r.payload = p
  BY <1>3 DEF Receipt
<1> HIDE DEF r
<1>6. /\ chain' \in [Orgs -> Seq(Receipt)]
      /\ \A x \in Orgs :
           /\ Len(chain'[x]) = Len(chain[x])
           /\ HeadHash(x)' = HeadHash(x)
           /\ \A k \in 1 .. Len(chain[x]) :
                /\ Carried(x, k)' = Carried(x, k)
                /\ chain'[x][k] = IF x = o /\ k = i THEN r ELSE chain[x][k]
  <2>1. TypeOK BY DEF IInv
  <2> QED BY <1>2, <1>4, <1>5, <2>1, RowStep
<1>7. /\ altered'[o] = i
      /\ \A x \in Orgs \ {o} : altered'[x] = altered[x]
      /\ altered' \in [Orgs -> Nat]
  BY <1>2, <1>4 DEF IInv, TypeOK
<1>8. ASSUME o \notin torn
      PROVE  /\ Linked(o)
             /\ chain[o][i].hash = ChainHash(chain[o][i].prev, chain[o][i].payload)
             /\ r.hash # ChainHash(r.prev, r.payload)
  <2>1. Linked(o) BY <1>8 DEF IInv, Links
  <2>2. chain[o][i].hash = ChainHash(chain[o][i].prev, chain[o][i].payload)
    BY <1>2, <1>4, <2>1 DEF Linked
  <2>3. chain[o][i].prev \in Hash /\ chain[o][i].payload \in Payloads
    BY <1>3 DEF Receipt
  <2> QED BY <2>1, <2>2, <2>3, <1>4, <1>5, ChainHashInjective
<1>9. ASSUME o \notin torn, NEW k \in 1 .. Len(chain[o])
      PROVE  /\ chain'[o][k].prev = Carried(o, k)'
             /\ k # altered'[o] <=> chain'[o][k].hash
                  = ChainHash(chain'[o][k].prev, chain'[o][k].payload)
  <2>1. Carried(o, k)' = Carried(o, k) BY <1>6
  <2>2. chain[o][k].prev = Carried(o, k) BY <1>8, <1>9 DEF Linked
  <2>3. CASE k = i
    <3>1. chain'[o][k] = r BY <2>3, <1>6
    <3> QED BY <3>1, <2>1, <2>2, <2>3, <1>5, <1>7, <1>8, <1>9
  <2>4. CASE k # i
    <3>1. chain'[o][k] = chain[o][k] BY <2>4, <1>6
    <3>2. chain[o][k].hash = ChainHash(chain[o][k].prev, chain[o][k].payload)
      BY <2>4, <1>4, <1>8, <1>9 DEF Linked
    <3> QED BY <3>1, <3>2, <2>1, <2>2, <2>4, <1>7
  <2> QED BY <2>3, <2>4
<1>10. o \notin torn => Linked(o)' BY <1>6, <1>9 DEF Linked
<1>11. Len(chain[o]) \in Nat BY <1>1
<1>12. ASSUME NEW x \in Orgs, x # o
       PROVE  Linked(x)' <=> Linked(x)
  <2>1. chain'[x] = chain[x] BY <1>12 DEF Corrupt, IInv, TypeOK
  <2> QED BY <2>1, <1>7, <1>12, SameChain
<1>13. Links'
  <2>1. ASSUME NEW x \in Orgs PROVE altered'[x] <= Len(chain'[x])
    BY <1>2, <1>6, <1>7, <1>11 DEF IInv, Links
  <2>2. ASSUME NEW x \in Orgs, x \notin torn' PROVE Linked(x)'
    <3>1. torn' = torn BY <1>4
    <3> QED BY <2>2, <3>1, <1>10, <1>12 DEF IInv, Links
  <2> QED BY <2>1, <2>2 DEF Links
<1>14. TypeOK' BY <1>4, <1>6, <1>7 DEF IInv, TypeOK, localVars
<1>15. Heads' /\ Jobs' /\ Whole' BY <1>4, <1>6, IdleStep DEF localVars
<1> QED BY <1>13, <1>14, <1>15 DEF IInv

-----------------------------------------------------------------------------
(* The theorems. *)

\* The chains of a new store are empty.
LEMMA InitHolds == Init => IInv
<1> SUFFICES ASSUME Init PROVE IInv OBVIOUS
<1>1. Genesis \in Hash BY DEF Genesis, Hash
<1>2. <<>> \in Seq(Receipt) /\ Len(<<>>) = 0 OBVIOUS
<1>3. \A o \in Orgs : chain[o] = <<>> /\ altered[o] = 0 BY DEF Init
<1>4. TypeOK BY <1>1, <1>2, ChainAssumption DEF Init, TypeOK
<1>5. \A o \in Orgs : Len(chain[o]) = 0 BY <1>2, <1>3, Zenon
<1>6. Links
  <2>1. \A i \in 1 .. 0 : FALSE OBVIOUS
  <2>2. \A o \in Orgs : altered[o] <= Len(chain[o])
    <3>1. 0 <= 0 OBVIOUS
    <3> QED BY <3>1, <1>3, <1>5, Zenon
  <2>3. \A o \in Orgs : \A i \in 1 .. Len(chain[o]) : FALSE BY <1>5, <2>1, Zenon
  <2> QED BY <2>2, <2>3, Zenon DEF Links, Linked
<1>7. \A o \in Orgs : HeadHash(o) = Genesis BY <1>3 DEF HeadHash
<1>8. Heads /\ Jobs /\ Whole BY <1>7 DEF Init, Heads, Jobs, Whole
<1> QED BY <1>4, <1>6, <1>8 DEF IInv

\* Every step keeps the invariant.
LEMMA NextHolds == IInv /\ [Next]_vars => IInv'
<1> SUFFICES ASSUME IInv, [Next]_vars PROVE IInv' OBVIOUS
<1>1. ASSUME NEW w \in Writers, NEW j \in Job, AppendReceipt(w, j) PROVE IInv'
  BY <1>1, AppendReceiptStep
<1>2. ASSUME NEW w \in Writers, NEW j \in Job, TakeLock(w, j) PROVE IInv'
  BY <1>2, TakeLockStep
<1>3. ASSUME NEW w \in Writers, WriterStep(w) PROVE IInv'
  BY <1>3, ReadPrevStep, InsertStep, SignReceiptStep, UpdateReceiptStep DEF WriterStep
<1>4. CASE Crash BY <1>4, CrashStep
<1>5. ASSUME NEW o \in Orgs, NEW p \in Payloads, NEW i \in DOMAIN chain[o],
             Corrupt(o, i, p)
      PROVE  IInv'
  BY <1>5, CorruptStep
<1>6. CASE UNCHANGED vars
  <2>1. UNCHANGED <<chain, stored, lastHash, pc, job, prev, slot, reported, altered, torn,
                    boot, faults>>
    BY <1>6 DEF vars, localVars
  <2>2. TypeOK' BY <2>1 DEF IInv, TypeOK
  <2>3. Links' /\ \A o \in Orgs : HeadHash(o)' = HeadHash(o) BY <2>1, SameRows DEF IInv
  <2>4. Heads' /\ Jobs' /\ Whole' BY <2>1, <2>3, IdleStep
  <2> QED BY <2>2, <2>3, <2>4 DEF IInv
<1> QED BY <1>1, <1>2, <1>3, <1>4, <1>5, <1>6 DEF Next

\* The invariant holds, serialized or not.
THEOREM LinksHold == Spec => []IInv
BY InitHolds, NextHolds, PTL DEF Spec

\* A chain that is not torn has no broken receipt but the altered one.
LEMMA BrokenFacts ==
  ASSUME IInv, NEW o \in Orgs, o \notin torn
  PROVE  /\ altered[o] = 0 => Broken(o) = {}
         /\ altered[o] # 0 => Broken(o) = {altered[o]} /\ FirstBroken(o) = altered[o]
<1>1. chain[o] \in Seq(Receipt) /\ altered[o] \in Nat BY DEF IInv, TypeOK
<1>2. DOMAIN chain[o] = 1 .. Len(chain[o]) /\ Len(chain[o]) \in Nat BY <1>1
<1>3. \A i \in DOMAIN chain[o] : i \in Broken(o) <=> i = altered[o]
  BY <1>2 DEF IInv, Links, Linked, Broken
<1>4. Broken(o) \subseteq DOMAIN chain[o] BY DEF Broken
<1>5. ASSUME altered[o] = 0 PROVE Broken(o) = {} BY <1>2, <1>3, <1>4, <1>5
<1>6. ASSUME altered[o] # 0
      PROVE  Broken(o) = {altered[o]} /\ FirstBroken(o) = altered[o]
  <2>1. altered[o] \in DOMAIN chain[o] BY <1>1, <1>2, <1>6 DEF IInv, Links
  <2>2. Broken(o) = {altered[o]} BY <1>3, <1>4, <2>1
  <2> QED BY <1>1, <2>2 DEF FirstBroken
<1> QED BY <1>5, <1>6

\* VerifyChain names a receipt only where a row was altered or the chain was torn,
\* with any number of handlers at work, crashes and failing statements
\* (AppendReceipt, VerifyChain).
THEOREM BreaksAreExplained == Spec => []BreakIsExplained
<1>1. IInv => BreakIsExplained BY BrokenFacts DEF BreakIsExplained, VerifyChain
<1> QED BY <1>1, LinksHold, PTL

\* Under serialized appends VerifyChain gives one answer: the altered row, or nothing.
LEMMA SerializedAnswers ==
  ASSUME Serialized, IInv, NEW o \in Orgs
  PROVE  /\ altered[o] = 0 => VerifyChain(o) = {-1}
         /\ altered[o] # 0 => VerifyChain(o) = {Index(o, altered[o])}
<1>1. o \notin torn BY DEF IInv, Whole
<1>2. {a \in {-1} : Backend = "postgres" /\ MaxFaults > 0} = {} BY DEF Serialized
<1> QED BY <1>1, <1>2, BrokenFacts DEF VerifyChain

\* The chain a serialized store writes verifies (AppendReceipt, VerifyChain).
THEOREM SerializedChainIntact == Serialized /\ Spec => []ChainIntact
<1>1. CASE Serialized
  <2>1. IInv => ChainIntact BY <1>1, SerializedAnswers DEF ChainIntact
  <2> QED BY <2>1, LinksHold, PTL
<1> QED BY <1>1

\* VerifyChain names the row that was altered, and no other.
THEOREM AlteredRowNamed == Serialized /\ Spec => []CorruptionReported
<1>1. CASE Serialized
  <2>1. IInv => CorruptionReported BY <1>1, SerializedAnswers DEF CorruptionReported
  <2> QED BY <2>1, LinksHold, PTL
<1> QED BY <1>1
=============================================================================
