---------------------------- MODULE RecordsProofs ----------------------------
(***************************************************************************)
(* What is recorded of a company while several requests are open, for any  *)
(* number of jobs, callers, indexers, sources and rows: no transaction of  *)
(* Plaid is skipped and the completed log rows add up to the records       *)
(* (module IntegrationSync), an interview's dialogue keeps its order       *)
(* (module Interview), and the documents and chunks of the company brain   *)
(* keep saying the same (module Knowledge).  The proofs have one shape: an *)
(* open request has read something before another one commits, and the     *)
(* inductive invariant says what of it is still true.  Of a sync, cursor   *)
(* and records become visible together, so what has to hold of an open one *)
(* is that the records it has in hand make up for the cursor it brings     *)
(* (Ahead), and that what it has inserted is with nobody else (Fresh).     *)
(***************************************************************************)
EXTENDS IntegrationSync, Interview, Knowledge, FiniteSetTheorems, WellFoundedInduction, TLAPS

-----------------------------------------------------------------------------
(* Integrations (services/integrations, workers/integration_tasks.py)     *)

\* What is open has a provider and a number, and only syncs carry items.
JobsOK ==
    \A j \in SyncJobs :
        /\ job[j].phase # "idle" => job[j].provider \in Providers /\ job[j].began \in 1..began
        /\ job[j].kind = "none" => job[j].phase = "idle"
        /\ job[j].kind = "legacy" => job[j].provider = "quickbooks"
        /\ job[j].kind \in {"exchange", "disconnect"} => job[j].items = {}

\* The cursor a sync will commit stands for records that are there or in its hands.
Ahead ==
    \A j \in SyncJobs : job[j].provider = "plaid" =>
        1..job[j].cursor \subseteq rawItems["plaid"] \union job[j].items

\* What a transaction has inserted is neither committed nor inserted by another.
Fresh ==
    \A j \in SyncJobs : job[j].phase = "stored" =>
        /\ job[j].items \intersect rawItems[Book(j)] = {}
        /\ \A i \in SyncJobs \ {j} : job[i].phase = "stored" /\ Book(i) = Book(j) =>
                job[i].items \intersect job[j].items = {}

LegacyOpen(p) == {j \in SyncJobs : job[j].kind = "legacy" /\ job[j].provider = p}

\* Every open run of the older task has its row "running".
Counted == \A p \in Providers : Cardinality(LegacyOpen(p)) <= syncLog[p].running

SyncIInv ==
    SyncTypeOK /\ JobsOK /\ Ahead /\ Fresh /\ Counted /\ LogsAddUp /\ NothingSkipped

-----------------------------------------------------------------------------
(* The newest of the active credentials                                    *)

LessNat == {p \in Nat \X Nat : p[1] < p[2]}

LEMMA LessNatWellFounded == IsWellFoundedOn(LessNat, Nat)
<1>1. LessNat = OpToRel(<, Nat)
  BY DEF LessNat, OpToRel
<1> QED
  BY <1>1, NatLessThanWellFounded

\* A bounded set of numbers that is not empty has its maximum.
LEMMA MaxIsMember ==
    ASSUME NEW n \in Nat, NEW T \in SUBSET (0..n), T # {}
    PROVE  Max(T) \in T
<1> DEFINE U == {k \in Nat : n - k \in T}
<1>1. U \subseteq Nat /\ U # {}
  <2>1. PICK x \in T : TRUE
    OBVIOUS
  <2>2. n - x \in U
    BY <2>1
  <2> QED
    BY <2>2
<1>2. PICK k \in U : \A y \in U : ~(<<y, k>> \in LessNat)
  <2> HIDE DEF U
  <2> QED
    BY <1>1, LessNatWellFounded, WFMin
<1>3. n - k \in T /\ k \in Nat
  OBVIOUS
<1>4. ASSUME NEW y \in T PROVE y <= n - k
  <2>1. n - y \in U
    BY <1>4
  <2>2. ~(n - y < k)
    BY <1>2, <1>3, <2>1 DEF LessNat
  <2> QED
    BY <1>3, <2>2
<1>5. \E x \in T : \A y \in T : x >= y
  BY <1>3, <1>4
<1> QED
  BY <1>5 DEF Max

LEMMA ActiveCredentialIsActive ==
    ASSUME SyncTypeOK, NEW p \in Providers
    PROVE  /\ ActiveCredential(p) \in 0..MaxTx
           /\ ActiveCredential(p) # NoCred => ActiveCredential(p) \in cred[p].active
<1>1. cred[p].active \in SUBSET (0..MaxTx) /\ MaxTx \in Nat
  BY SyncAssumption DEF SyncTypeOK, Rows
<1>2. CASE cred[p].active = {}
  BY <1>1, <1>2 DEF ActiveCredential, NoCred
<1>3. CASE cred[p].active # {}
  BY <1>1, <1>3, MaxIsMember DEF ActiveCredential
<1> QED
  BY <1>2, <1>3

-----------------------------------------------------------------------------
(* Counting                                                                *)

LEMMA LegacyOpenFinite ==
    ASSUME NEW p
    PROVE  IsFiniteSet(LegacyOpen(p)) /\ Cardinality(LegacyOpen(p)) \in Nat
<1>1. LegacyOpen(p) \in SUBSET SyncJobs
  BY DEF LegacyOpen
<1> QED
  BY <1>1, SyncAssumption, FS_Subset, FS_CardinalityType

LEMMA ItemsFinite ==
    ASSUME NEW T \in SUBSET Items
    PROVE  IsFiniteSet(T) /\ Cardinality(T) \in Nat
<1>1. IsFiniteSet(Items)
  BY SyncAssumption, FS_Interval DEF Items
<1> QED
  BY <1>1, FS_Subset, FS_CardinalityType

\* A job of kind "none" or one that ends counts no more.
LEMMA LegacyLeaves ==
    ASSUME SyncTypeOK, NEW j \in SyncJobs, job' = [job EXCEPT ![j] = NoJob], NEW p
    PROVE  Cardinality(LegacyOpen(p))' =
              IF job[j].kind = "legacy" /\ job[j].provider = p
              THEN Cardinality(LegacyOpen(p)) - 1 ELSE Cardinality(LegacyOpen(p))
<1>1. LegacyOpen(p)' = LegacyOpen(p) \ {j}
  BY DEF SyncTypeOK, LegacyOpen, NoJob
<1>2. j \in LegacyOpen(p) <=> job[j].kind = "legacy" /\ job[j].provider = p
  BY DEF LegacyOpen
<1> QED
  BY <1>1, <1>2, LegacyOpenFinite, FS_RemoveElement

LEMMA LegacyStays ==
    ASSUME SyncTypeOK, NEW j \in SyncJobs, NEW t, job' = [job EXCEPT ![j] = t],
           \/ t.kind = job[j].kind /\ t.provider = job[j].provider
           \/ t.kind # "legacy" /\ job[j].kind # "legacy",
           NEW p
    PROVE  LegacyOpen(p)' = LegacyOpen(p)
  BY DEF SyncTypeOK, LegacyOpen

LEMMA LegacyEnters ==
    ASSUME SyncTypeOK, NEW j \in SyncJobs, job[j] = NoJob, NEW t,
           job' = [job EXCEPT ![j] = t], t.kind = "legacy", NEW p
    PROVE  Cardinality(LegacyOpen(p))' =
              IF t.provider = p THEN Cardinality(LegacyOpen(p)) + 1 ELSE Cardinality(LegacyOpen(p))
<1>1. j \notin LegacyOpen(p)
  BY DEF LegacyOpen, NoJob
<1>2. LegacyOpen(p)' = IF t.provider = p THEN LegacyOpen(p) \union {j} ELSE LegacyOpen(p)
  BY <1>1 DEF SyncTypeOK, LegacyOpen
<1> QED
  BY <1>1, <1>2, LegacyOpenFinite, FS_AddElement

\* Records that are new to a book add up.
LEMMA NewRecordsAdd ==
    ASSUME NEW S \in SUBSET Items, NEW T \in SUBSET Items, S \intersect T = {}
    PROVE  Cardinality(S \union T) = Cardinality(S) + Cardinality(T)
<1>1. Cardinality(S \intersect T) = 0
  BY FS_EmptySet
<1>2. IsFiniteSet(S) /\ IsFiniteSet(T) /\ Cardinality(S) \in Nat /\ Cardinality(T) \in Nat
  BY ItemsFinite
<1>3. Cardinality(S \union T) = Cardinality(S) + Cardinality(T) - Cardinality(S \intersect T)
  BY <1>2, FS_Union
<1> QED
  BY <1>1, <1>2, <1>3

LogRecords == [running: Nat, completed: Nat, failed: Nat, ingested: Nat]

LEMMA LogUpdate ==
    ASSUME NEW r \in LogRecords, NEW a \in Nat, NEW b \in Nat
    PROVE  [r EXCEPT !.running = a] \in LogRecords /\ [r EXCEPT !.running = a, !.failed = b] \in LogRecords
  BY DEF LogRecords

-----------------------------------------------------------------------------
(* The steps                                                               *)

\* What provider_adds, trigger_sync and the scheduler leave alone is all the invariant
\* speaks about.
LEMMA QuietStepPreserves ==
    ASSUME SyncIInv, UNCHANGED <<began, cred, rawItems, syncLog, job, failures>>,
           feed' \in [Providers -> 0..MaxFeed],
           posted' \in [Providers -> [0..SyncRetries -> Nat]]
    PROVE  SyncIInv'
  BY DEF SyncIInv, SyncTypeOK, JobsOK, Ahead, Fresh, Counted, LegacyOpen, LogsAddUp,
         NothingSkipped, Book

\* A transaction begins with nothing in its hands; the older task's leaves its log row.
LEMMA BeginPreserves ==
    ASSUME SyncIInv, NEW j \in SyncJobs, NEW kind \in JobKinds \ {"none"}, NEW p \in Providers,
           NEW retries \in 0..SyncRetries, Begin(j, kind, p, retries),
           kind = "legacy" => p = "quickbooks",
           syncLog' = IF kind = "legacy" THEN [syncLog EXCEPT ![p].running = @ + 1] ELSE syncLog,
           posted' \in [Providers -> [0..SyncRetries -> Nat]],
           UNCHANGED <<feed, cred, rawItems, failures>>
    PROVE  SyncIInv'
<1> DEFINE t == [NoJob EXCEPT !.kind = kind, !.phase = "started", !.provider = p,
                              !.began = began + 1, !.retries = retries]
<1>1. job[j] = NoJob /\ began' = began + 1 /\ began' \in 0..MaxTx /\ job' = [job EXCEPT ![j] = t]
  BY SyncAssumption DEF Begin, SyncIInv, SyncTypeOK
<1>2. /\ t \in JobRecords
      /\ t.kind = kind /\ t.phase = "started" /\ t.provider = p /\ t.began = began + 1
      /\ t.cursor = 0 /\ t.items = {}
  BY <1>1, SyncAssumption DEF NoJob, NoCred, JobRecords, Phases, SyncIInv, SyncTypeOK
<1>3. job[j].kind = "none" /\ job[j].phase = "idle"
  BY <1>1 DEF NoJob
<1> HIDE DEF t
<1>4. job' \in [SyncJobs -> JobRecords] /\ job'[j] = t /\ \A i \in SyncJobs \ {j} : job'[i] = job[i]
  BY <1>1, <1>2 DEF SyncIInv, SyncTypeOK
<1>5. syncLog' \in [Providers -> [running: Nat, completed: Nat, failed: Nat, ingested: Nat]]
  <2>1. syncLog[p] \in LogRecords /\ syncLog[p].running + 1 \in Nat
    BY DEF LogRecords, SyncIInv, SyncTypeOK
  <2>2. [syncLog[p] EXCEPT !.running = syncLog[p].running + 1] \in LogRecords
    BY <2>1, LogUpdate
  <2> QED
    BY <2>2 DEF LogRecords, SyncIInv, SyncTypeOK
<1>6. \A q \in Providers : /\ syncLog'[q].ingested = syncLog[q].ingested
                           /\ syncLog'[q].running = IF kind = "legacy" /\ q = p
                                THEN syncLog[q].running + 1 ELSE syncLog[q].running
  BY DEF SyncIInv, SyncTypeOK
<1>7. SyncTypeOK'
  <2>1. \A q \in Providers : cred'[q].active \subseteq 1..began'
    <3>1. began \in Nat /\ \A q \in Providers : cred[q].active \subseteq 1..began
      <4>1. MaxTx \in Nat
        BY SyncAssumption
      <4>2. began \in 0..MaxTx /\ \A q \in Providers : cred[q].active \subseteq 1..began
        BY DEF SyncIInv, SyncTypeOK
      <4> QED
        BY <4>1, <4>2
    <3>2. 1..began \subseteq 1..(began + 1)
      BY <3>1
    <3> QED
      BY <1>1, <3>1, <3>2
  <2> QED
    BY <1>1, <1>4, <1>5, <2>1 DEF SyncIInv, SyncTypeOK
<1>8. JobsOK'
  BY <1>1, <1>2, <1>4 DEF SyncIInv, SyncTypeOK, JobsOK
<1>9. Ahead'
  BY <1>2, <1>4 DEF SyncIInv, Ahead
<1>10. Fresh'
  <2> SUFFICES ASSUME NEW i \in SyncJobs, job'[i].phase = "stored"
               PROVE  /\ job'[i].items \intersect rawItems'[Book(i)'] = {}
                      /\ \A k \in SyncJobs \ {i} :
                            job'[k].phase = "stored" /\ Book(k)' = Book(i)' =>
                                job'[k].items \intersect job'[i].items = {}
    BY DEF Fresh, Book
  <2>1. i # j /\ \A k \in SyncJobs : job'[k].phase = "stored" => k # j
    BY <1>2, <1>4
  <2>2. \A k \in SyncJobs \ {j} : Book(k)' = Book(k)
    BY <1>4 DEF Book
  <2> QED
    BY <1>4, <2>1, <2>2 DEF SyncIInv, Fresh
<1>11. Counted'
  <2> SUFFICES ASSUME NEW q \in Providers
               PROVE  Cardinality(LegacyOpen(q))' <= syncLog'[q].running
    BY DEF Counted
  <2>1. syncLog[q].running \in Nat /\ Cardinality(LegacyOpen(q)) <= syncLog[q].running
    BY DEF SyncIInv, SyncTypeOK, Counted
  <2>2. CASE kind = "legacy"
    <3>1. Cardinality(LegacyOpen(q))' =
              IF p = q THEN Cardinality(LegacyOpen(q)) + 1 ELSE Cardinality(LegacyOpen(q))
      BY <1>1, <1>2, <2>2, LegacyEnters DEF SyncIInv
    <3>2. Cardinality(LegacyOpen(q)) \in Nat
      BY LegacyOpenFinite
    <3> QED
      BY <1>6, <2>1, <2>2, <3>1, <3>2
  <2>3. CASE kind # "legacy"
    <3>1. LegacyOpen(q)' = LegacyOpen(q)
      BY <1>1, <1>2, <1>3, <2>3, LegacyStays DEF SyncIInv
    <3> QED
      BY <1>6, <2>1, <2>3, <3>1
  <2> QED
    BY <2>2, <2>3
<1>12. LogsAddUp' /\ NothingSkipped'
  BY <1>6 DEF SyncIInv, LogsAddUp, NothingSkipped
<1> QED
  BY <1>7, <1>8, <1>9, <1>10, <1>11, <1>12 DEF SyncIInv

\* An open transaction goes on.
LEMMA JobMovePreserves ==
    ASSUME SyncIInv, NEW j \in SyncJobs, NEW t \in JobRecords, job' = [job EXCEPT ![j] = t],
           UNCHANGED <<feed, began, cred, rawItems, syncLog, posted, failures>>,
           job[j].phase # "idle",
           t.kind = job[j].kind, t.provider = job[j].provider, t.began = job[j].began,
           t.kind \in {"exchange", "disconnect"} => t.items = {},
           t.provider = "plaid" => 1..t.cursor \subseteq rawItems["plaid"] \union t.items,
           t.phase = "stored" =>
              /\ t.items \intersect rawItems[Book(j)] = {}
              /\ \A i \in SyncJobs \ {j} : job[i].phase = "stored" /\ Book(i) = Book(j) =>
                    job[i].items \intersect t.items = {}
    PROVE  SyncIInv'
<1>1. job' \in [SyncJobs -> JobRecords] /\ job'[j] = t /\ \A i \in SyncJobs \ {j} : job'[i] = job[i]
  BY DEF SyncIInv, SyncTypeOK
<1>2. \A i \in SyncJobs : Book(i)' = Book(i)
  BY <1>1 DEF Book
<1>3. SyncTypeOK' /\ LogsAddUp' /\ NothingSkipped'
  BY <1>1 DEF SyncIInv, SyncTypeOK, LogsAddUp, NothingSkipped
<1>4. JobsOK'
  BY <1>1 DEF SyncIInv, JobsOK
<1>5. Ahead'
  BY <1>1 DEF SyncIInv, Ahead
<1>6. Fresh'
  <2> SUFFICES ASSUME NEW i \in SyncJobs, job'[i].phase = "stored"
               PROVE  /\ job'[i].items \intersect rawItems[Book(i)] = {}
                      /\ \A k \in SyncJobs \ {i} : job'[k].phase = "stored" /\ Book(k) = Book(i) =>
                                job'[k].items \intersect job'[i].items = {}
    BY <1>2 DEF Fresh
  <2>1. CASE i = j
    BY <1>1, <2>1
  <2>2. CASE i # j
    BY <1>1, <2>2 DEF SyncIInv, Fresh
  <2> QED
    BY <2>1, <2>2
<1>7. Counted'
  BY LegacyStays DEF SyncIInv, Counted
<1> QED
  BY <1>3, <1>4, <1>5, <1>6, <1>7 DEF SyncIInv

\* A transaction ends without a commit: its log row may go from "running" to "failed".
LEMMA EndPreserves ==
    ASSUME SyncIInv, NEW j \in SyncJobs, job' = [job EXCEPT ![j] = NoJob],
           UNCHANGED <<feed, began, cred, rawItems>>,
           NEW told \in BOOLEAN, told => job[j].kind = "legacy",
           job[j].phase # "idle",
           syncLog' = IF told THEN [syncLog EXCEPT ![job[j].provider].running = @ - 1,
                                                   ![job[j].provider].failed = @ + 1]
                      ELSE syncLog,
           posted' \in [Providers -> [0..SyncRetries -> Nat]],
           failures' \in [Providers -> Nat]
    PROVE  SyncIInv'
<1> DEFINE p == job[j].provider
<1>1. /\ NoJob \in JobRecords /\ NoJob.kind = "none" /\ NoJob.phase = "idle"
      /\ NoJob.provider = "none" /\ NoJob.items = {}
  BY SyncAssumption DEF NoJob, NoCred, JobRecords, JobKinds, Phases, SyncIInv, SyncTypeOK
<1>2. /\ job' \in [SyncJobs -> JobRecords] /\ job'[j] = NoJob
      /\ \A i \in SyncJobs \ {j} : job'[i] = job[i]
  BY <1>1 DEF SyncIInv, SyncTypeOK
<1>3. p \in Providers
  BY DEF SyncIInv, JobsOK
<1>4. /\ \A q \in Providers : syncLog[q].running \in Nat /\ Cardinality(LegacyOpen(q)) \in Nat
      /\ told => Cardinality(LegacyOpen(p)) > 0
  <2>1. ASSUME told PROVE Cardinality(LegacyOpen(p)) # 0
    <3>1. j \in LegacyOpen(p)
      BY <2>1 DEF LegacyOpen
    <3> QED
      BY <3>1, LegacyOpenFinite, FS_EmptySet
  <2>2. ASSUME NEW q \in Providers PROVE syncLog[q].running \in Nat
    BY DEF SyncIInv, SyncTypeOK
  <2>3. \A q : Cardinality(LegacyOpen(q)) \in Nat
    BY LegacyOpenFinite
  <2> QED
    BY <2>1, <2>2, <2>3
<1>5. told => syncLog[p].running > 0
  BY <1>3, <1>4 DEF SyncIInv, Counted
<1>6. \A q \in Providers : /\ syncLog'[q].ingested = syncLog[q].ingested
                           /\ syncLog'[q].running = IF told /\ q = p
                                THEN syncLog[q].running - 1 ELSE syncLog[q].running
  BY <1>3 DEF SyncIInv, SyncTypeOK
<1>7. syncLog' \in [Providers -> [running: Nat, completed: Nat, failed: Nat, ingested: Nat]]
  <2>1. CASE told
    <3>1. /\ syncLog[p] \in LogRecords
          /\ syncLog[p].running - 1 \in Nat /\ syncLog[p].failed + 1 \in Nat
      BY <1>3, <1>5, <2>1 DEF LogRecords, SyncIInv, SyncTypeOK
    <3> DEFINE r == [syncLog[p] EXCEPT !.running = syncLog[p].running - 1,
                                       !.failed = syncLog[p].failed + 1]
    <3>2. r \in LogRecords
      BY <3>1, LogUpdate
    <3>3. syncLog' = [syncLog EXCEPT ![p] = r]
      BY <1>3, <2>1 DEF SyncIInv, SyncTypeOK
    <3> QED
      BY <1>3, <3>2, <3>3 DEF LogRecords, SyncIInv, SyncTypeOK
  <2>2. CASE ~told
    BY <2>2 DEF SyncIInv, SyncTypeOK
  <2> QED
    BY <2>1, <2>2
<1>8. SyncTypeOK'
  BY <1>2, <1>7 DEF SyncIInv, SyncTypeOK
<1>9. JobsOK' /\ Ahead'
  BY <1>1, <1>2 DEF SyncIInv, JobsOK, Ahead
<1>10. Fresh'
  BY <1>1, <1>2 DEF SyncIInv, Fresh, Book
<1>11. Counted'
  <2> SUFFICES ASSUME NEW q \in Providers
               PROVE  Cardinality(LegacyOpen(q))' <= syncLog'[q].running
    BY DEF Counted
  <2>1. Cardinality(LegacyOpen(q)) <= syncLog[q].running
    BY DEF SyncIInv, Counted
  <2>2. Cardinality(LegacyOpen(q))' = IF job[j].kind = "legacy" /\ p = q
              THEN Cardinality(LegacyOpen(q)) - 1 ELSE Cardinality(LegacyOpen(q))
    BY LegacyLeaves DEF SyncIInv
  <2>3. syncLog[q].running \in Nat /\ Cardinality(LegacyOpen(q)) \in Nat
    BY <1>4
  <2>4. syncLog'[q].running = IF told /\ q = p THEN syncLog[q].running - 1 ELSE syncLog[q].running
    BY <1>6
  <2>5. CASE told /\ q = p
    BY <2>1, <2>2, <2>3, <2>4, <2>5
  <2>6. CASE ~(told /\ q = p)
    BY <2>1, <2>2, <2>3, <2>4, <2>6
  <2> QED
    BY <2>5, <2>6
<1>12. LogsAddUp' /\ NothingSkipped'
  BY <1>6 DEF SyncIInv, LogsAddUp, NothingSkipped
<1> QED
  BY <1>8, <1>9, <1>10, <1>11, <1>12 DEF SyncIInv

\* What a sync leaves in its log: one more completed run, with what it has inserted.
LEMMA LogAfterValue ==
    ASSUME SyncIInv, NEW j \in SyncJobs, job[j].phase = "stored", Syncs(j)
    PROVE  LET p == job[j].provider IN
           /\ p \in Providers
           /\ LogAfter(j) \in LogRecords
           /\ LogAfter(j).ingested = syncLog[p].ingested + Cardinality(job[j].items)
           /\ LogAfter(j).running = IF job[j].kind = "legacy" THEN syncLog[p].running - 1
                                    ELSE syncLog[p].running
<1> DEFINE p == job[j].provider
<1>1. p \in Providers /\ syncLog[p] \in LogRecords /\ job[j].items \in SUBSET Items
  BY DEF SyncIInv, SyncTypeOK, JobsOK, LogRecords, JobRecords
<1>2. job[j].kind = "legacy" => syncLog[p].running - 1 \in Nat
  <2>1. ASSUME job[j].kind = "legacy" PROVE Cardinality(LegacyOpen(p)) # 0
    <3>1. j \in LegacyOpen(p)
      BY <2>1 DEF LegacyOpen
    <3> QED
      BY <3>1, LegacyOpenFinite, FS_EmptySet
  <2>2. /\ syncLog[p].running \in Nat /\ Cardinality(LegacyOpen(p)) \in Nat
        /\ Cardinality(LegacyOpen(p)) <= syncLog[p].running
    BY <1>1, LegacyOpenFinite DEF LogRecords, SyncIInv, Counted
  <2> QED
    BY <2>1, <2>2
<1>3. Cardinality(job[j].items) \in Nat
  BY <1>1, ItemsFinite
<1>4. syncLog[p].completed + 1 \in Nat /\ syncLog[p].ingested + Cardinality(job[j].items) \in Nat
  BY <1>1, <1>3 DEF LogRecords
<1>5. PICK n \in Nat : n = IF job[j].kind = "legacy" THEN syncLog[p].running - 1 ELSE syncLog[p].running
  BY <1>1, <1>2 DEF LogRecords
<1>6. LogAfter(j) = [syncLog[p] EXCEPT !.completed = syncLog[p].completed + 1, !.running = n,
                                       !.ingested = syncLog[p].ingested + Cardinality(job[j].items)]
  BY <1>5 DEF LogAfter
<1>7. /\ LogAfter(j) \in LogRecords /\ LogAfter(j).running = n
      /\ LogAfter(j).ingested = syncLog[p].ingested + Cardinality(job[j].items)
  <2>1. PICK r \in LogRecords : r = syncLog[p]
    BY <1>1
  <2>2. PICK a \in Nat : a = syncLog[p].completed + 1
    BY <1>4
  <2>3. PICK c \in Nat : c = syncLog[p].ingested + Cardinality(job[j].items)
    BY <1>4
  <2>4. PICK s : s = LogAfter(j)
    OBVIOUS
  <2>5. s = [r EXCEPT !.completed = a, !.running = n, !.ingested = c]
    BY <1>6, <2>1, <2>2, <2>3, <2>4
  <2>6. s \in LogRecords /\ s.running = n /\ s.ingested = c
    BY <2>5 DEF LogRecords
  <2> QED
    BY <2>3, <2>4, <2>6
<1> QED
  BY <1>1, <1>5, <1>7

\* Cursor, credential, records and log become visible together.
LEMMA SyncCommitPreserves ==
    ASSUME SyncIInv, NEW j \in SyncJobs, job_commit(j)
    PROVE  SyncIInv'
<1> DEFINE p == job[j].provider
           items == job[j].items
<1>1. /\ NoJob \in JobRecords /\ NoJob.kind = "none" /\ NoJob.phase = "idle"
      /\ NoJob.provider = "none" /\ NoJob.items = {}
  BY SyncAssumption DEF NoJob, NoCred, JobRecords, JobKinds, Phases, SyncIInv, SyncTypeOK
<1>2. /\ job' = [job EXCEPT ![j] = NoJob] /\ job' \in [SyncJobs -> JobRecords] /\ job'[j] = NoJob
      /\ \A i \in SyncJobs \ {j} : job'[i] = job[i]
  BY <1>1 DEF job_commit, SyncIInv, SyncTypeOK
<1>3. /\ job[j].phase = "stored" /\ p \in Providers /\ items \in SUBSET Items
      /\ job[j].began \in 1..began /\ job[j].began \in Rows /\ job[j].cursor \in 0..MaxFeed
  <2>1. job[j].phase = "stored" /\ job[j] \in JobRecords
    BY DEF job_commit, SyncIInv, SyncTypeOK
  <2>2. p \in Providers /\ job[j].began \in 1..began
    BY <2>1 DEF SyncIInv, JobsOK
  <2>3. MaxTx \in Nat /\ began \in 0..MaxTx
    BY SyncAssumption DEF SyncIInv, SyncTypeOK
  <2>4. job[j].began \in Rows
    BY <2>2, <2>3 DEF Rows
  <2>5. items \in SUBSET Items /\ job[j].cursor \in 0..MaxFeed
    BY <2>1 DEF JobRecords
  <2> QED
    BY <2>1, <2>2, <2>4, <2>5
<1>4. Book(j) \in Books /\ (job[j].kind # "legacy" => Book(j) = p)
  BY <1>3 DEF Book, Books
<1>5. /\ rawItems' \in [Books -> SUBSET Items]
      /\ \A b \in Books : rawItems'[b] = IF b = Book(j) THEN rawItems[b] \union items ELSE rawItems[b]
  BY <1>3, <1>4 DEF job_commit, SyncIInv, SyncTypeOK
<1>6. Credentials(j) \in [active: SUBSET Rows, cursor: [Rows -> 0..MaxFeed]]
      /\ Credentials(j).active \subseteq cred[p].active \union {job[j].began}
      /\ \A r \in Rows : Credentials(j).cursor[r] =
            IF r = job[j].began THEN job[j].cursor ELSE cred[p].cursor[r]
  BY <1>3 DEF Credentials, SyncIInv, SyncTypeOK
<1>7. cred' = [cred EXCEPT ![p] = Credentials(j)]
  BY DEF job_commit
<1>8. syncLog' \in [Providers -> LogRecords]
      /\ \A q \in Providers :
            /\ syncLog'[q].ingested = IF q = p THEN syncLog[q].ingested + Cardinality(items)
                                               ELSE syncLog[q].ingested
            /\ syncLog'[q].running = IF q = p /\ job[j].kind = "legacy"
                                     THEN syncLog[q].running - 1 ELSE syncLog[q].running
  <2>1. syncLog \in [Providers -> LogRecords] /\ \A q \in Providers : syncLog[q].ingested \in Nat
    BY DEF SyncIInv, SyncTypeOK, LogRecords
  <2>2. CASE Syncs(j)
    <3>1. syncLog' = [syncLog EXCEPT ![p] = LogAfter(j)]
      BY <2>2 DEF job_commit
    <3> QED
      BY <1>3, <2>1, <2>2, <3>1, LogAfterValue
  <2>3. CASE ~Syncs(j)
    <3>1. job[j].kind \in {"none", "exchange", "disconnect"}
      BY <2>3 DEF Syncs, SyncIInv, SyncTypeOK, JobRecords, JobKinds
    <3>2. items = {} /\ job[j].kind # "legacy" /\ syncLog' = syncLog
      BY <2>3, <3>1 DEF job_commit, SyncIInv, JobsOK
    <3>3. Cardinality(items) = 0
      BY <3>2, FS_EmptySet
    <3> QED
      BY <2>1, <3>2, <3>3
  <2> QED
    BY <2>2, <2>3
<1>9. SyncTypeOK'
  <2>1. \A q \in Providers : cred'[q].active \subseteq 1..began
    BY <1>3, <1>6, <1>7 DEF SyncIInv, SyncTypeOK
  <2>2. cred' \in [Providers -> [active: SUBSET Rows, cursor: [Rows -> 0..MaxFeed]]]
    BY <1>3, <1>6, <1>7 DEF SyncIInv, SyncTypeOK
  <2> QED
    BY <1>2, <1>5, <1>8, <2>1, <2>2 DEF job_commit, LogRecords, SyncIInv, SyncTypeOK
<1>10. JobsOK'
  BY <1>1, <1>2 DEF job_commit, SyncIInv, JobsOK
<1>11. "plaid" \in Providers => rawItems["plaid"] \subseteq rawItems'["plaid"]
  BY <1>5 DEF Books
<1>12. Ahead'
  <2> SUFFICES ASSUME NEW i \in SyncJobs, job'[i].provider = "plaid"
               PROVE  1..job'[i].cursor \subseteq rawItems'["plaid"] \union job'[i].items
    BY DEF Ahead
  <2>1. i # j /\ job'[i] = job[i]
    BY <1>1, <1>2
  <2>2. "plaid" \in Providers
    BY <2>1 DEF SyncIInv, SyncTypeOK, JobRecords
  <2>3. 1..job[i].cursor \subseteq rawItems["plaid"] \union job[i].items
    BY <2>1 DEF SyncIInv, Ahead
  <2> QED
    BY <1>11, <2>1, <2>2, <2>3
<1>13. Fresh'
  <2> SUFFICES ASSUME NEW i \in SyncJobs, job'[i].phase = "stored"
               PROVE  /\ job'[i].items \intersect rawItems'[Book(i)'] = {}
                      /\ \A k \in SyncJobs \ {i} :
                            job'[k].phase = "stored" /\ Book(k)' = Book(i)' =>
                                job'[k].items \intersect job'[i].items = {}
    BY DEF Fresh, Book
  <2>1. i # j /\ \A k \in SyncJobs : job'[k].phase = "stored" => k # j
    BY <1>1, <1>2
  <2>2. \A k \in SyncJobs \ {j} : Book(k)' = Book(k) /\ job'[k] = job[k]
    BY <1>2 DEF Book
  <2>3. Book(i) \in Books
    BY <2>1, <2>2 DEF Book, Books, SyncIInv, JobsOK
  <2>4. job[i].items \intersect rawItems'[Book(i)] = {}
    BY <1>3, <1>5, <2>1, <2>2, <2>3 DEF SyncIInv, Fresh
  <2> QED
    BY <2>1, <2>2, <2>4 DEF SyncIInv, Fresh
<1>14. Counted'
  <2> SUFFICES ASSUME NEW q \in Providers
               PROVE  Cardinality(LegacyOpen(q))' <= syncLog'[q].running
    BY DEF Counted
  <2>1. Cardinality(LegacyOpen(q)) <= syncLog[q].running /\ syncLog[q].running \in Nat
    BY DEF SyncIInv, SyncTypeOK, Counted
  <2>2. Cardinality(LegacyOpen(q))' = IF job[j].kind = "legacy" /\ p = q
              THEN Cardinality(LegacyOpen(q)) - 1 ELSE Cardinality(LegacyOpen(q))
    BY <1>2, LegacyLeaves DEF SyncIInv
  <2>3. Cardinality(LegacyOpen(q)) \in Nat
    BY LegacyOpenFinite
  <2>4. syncLog'[q].running = IF q = p /\ job[j].kind = "legacy"
                              THEN syncLog[q].running - 1 ELSE syncLog[q].running
    BY <1>8
  <2> QED
    BY <2>1, <2>2, <2>3, <2>4
<1>15. LogsAddUp'
  <2>1. Cardinality(rawItems'[Book(j)]) = Cardinality(rawItems[Book(j)]) + Cardinality(items)
    <3>1. rawItems[Book(j)] \in SUBSET Items /\ rawItems[Book(j)] \intersect items = {}
      BY <1>3, <1>4 DEF SyncIInv, SyncTypeOK, Fresh
    <3> QED
      BY <1>3, <1>4, <1>5, <3>1, NewRecordsAdd
  <2>2. \A b \in Books : Cardinality(rawItems[b]) \in Nat
    BY ItemsFinite DEF SyncIInv, SyncTypeOK
  <2>3. Cardinality(items) \in Nat
    BY <1>3, ItemsFinite
  <2>4. \A b \in Books : b # Book(j) => Cardinality(rawItems'[b]) = Cardinality(rawItems[b])
    BY <1>5
  <2>5. SUFFICES ASSUME NEW q \in Providers
                 PROVE  syncLog'[q].ingested = Cardinality(rawItems'[q]) +
                            (IF q = "quickbooks" THEN Cardinality(rawItems'["legacy"]) ELSE 0)
    BY DEF LogsAddUp
  <2>6. /\ syncLog[q].ingested = Cardinality(rawItems[q]) +
               (IF q = "quickbooks" THEN Cardinality(rawItems["legacy"]) ELSE 0)
        /\ syncLog'[q].ingested = IF q = p THEN syncLog[q].ingested + Cardinality(items)
                                            ELSE syncLog[q].ingested
    BY <1>8 DEF SyncIInv, LogsAddUp
  <2>7. q \in Books /\ "legacy" \in Books /\ q # "legacy"
    BY SyncAssumption DEF Books
  <2>8. CASE job[j].kind = "legacy"
    <3>1. Book(j) = "legacy" /\ p = "quickbooks"
      BY <2>8 DEF Book, SyncIInv, JobsOK
    <3> QED
      BY <2>1, <2>2, <2>3, <2>4, <2>6, <2>7, <3>1
  <2>9. CASE job[j].kind # "legacy"
    <3>1. Book(j) = p /\ p # "legacy"
      BY <1>3, <1>4, <2>9, SyncAssumption
    <3> QED
      BY <2>1, <2>2, <2>3, <2>4, <2>6, <2>7, <3>1
  <2> QED
    BY <2>8, <2>9
<1>16. NothingSkipped'
  <2> SUFFICES ASSUME "plaid" \in Providers, NEW r \in cred'["plaid"].active
               PROVE  1..cred'["plaid"].cursor[r] \subseteq rawItems'["plaid"]
    BY DEF NothingSkipped
  <2>1. CASE p # "plaid"
    <3>1. cred'["plaid"] = cred["plaid"]
      BY <1>7, <2>1 DEF SyncIInv, SyncTypeOK
    <3> QED
      BY <1>11, <3>1 DEF SyncIInv, NothingSkipped
  <2>2. CASE p = "plaid"
    <3>1. cred'["plaid"] = Credentials(j)
      BY <1>3, <1>7, <2>2 DEF SyncIInv, SyncTypeOK
    <3>2. CASE r = job[j].began
      <4>1. Credentials(j).cursor[r] = job[j].cursor
        BY <1>3, <1>6, <3>2
      <4>2. Book(j) = "plaid"
        BY <2>2 DEF Book, SyncIInv, JobsOK
      <4>3. rawItems'["plaid"] = rawItems["plaid"] \union items
        BY <1>4, <1>5, <4>2
      <4> QED
        BY <2>2, <3>1, <4>1, <4>3 DEF SyncIInv, Ahead
    <3>3. CASE r # job[j].began
      <4>1. r \in cred["plaid"].active /\ r \in Rows
        BY <1>6, <2>2, <3>1, <3>3 DEF SyncIInv, SyncTypeOK
      <4>2. Credentials(j).cursor[r] = cred["plaid"].cursor[r]
        BY <1>6, <2>2, <3>3, <4>1
      <4> QED
        BY <1>11, <3>1, <4>1, <4>2 DEF SyncIInv, NothingSkipped
    <3> QED
      BY <3>2, <3>3
  <2> QED
    BY <2>1, <2>2
<1> QED
  BY <1>9, <1>10, <1>12, <1>13, <1>14, <1>15, <1>16 DEF SyncIInv

\* Plaid's answer is what came after the newest cursor, and up to there nothing is missing.
LEMMA FetchPreserves ==
    ASSUME SyncIInv, NEW j \in SyncJobs, fetch(j)
    PROVE  SyncIInv'
<1> DEFINE p == job[j].provider
           c == ActiveCredential(p)
           t == [job[j] EXCEPT !.phase = IF p = "plaid" THEN "prior" ELSE "replaced",
                               !.items = Listed(p, cred[p].cursor[c]), !.cursor = feed[p]]
<1>1. /\ job[j] \in JobRecords /\ p \in Providers /\ job[j].phase # "idle"
      /\ job[j].kind \in {"task", "inline", "legacy"} /\ c # NoCred
  BY DEF fetch, SyncIInv, SyncTypeOK, JobsOK
<1>2. c \in cred[p].active /\ c \in Rows
  BY <1>1, ActiveCredentialIsActive DEF SyncIInv, SyncTypeOK
<1>3. Listed(p, cred[p].cursor[c]) \in SUBSET Items
  BY <1>1, SyncAssumption DEF Listed
<1>4. feed[p] \in 0..MaxFeed /\ MaxFeed \in Nat
  BY <1>1, SyncAssumption DEF SyncIInv, SyncTypeOK
<1>5. /\ t \in JobRecords /\ t.kind = job[j].kind /\ t.provider = p /\ t.began = job[j].began
      /\ t.phase \in {"prior", "replaced"} /\ t.cursor = feed[p]
      /\ t.items = Listed(p, cred[p].cursor[c])
  BY <1>1, <1>3, <1>4 DEF JobRecords, Phases
<1>6. job' = [job EXCEPT ![j] = t]
  BY DEF fetch, SyncIInv, SyncTypeOK
<1>7. ASSUME p = "plaid" PROVE 1..feed[p] \subseteq rawItems["plaid"] \union t.items
  <2>1. 1..cred["plaid"].cursor[c] \subseteq rawItems["plaid"]
    BY <1>1, <1>2, <1>7 DEF SyncIInv, NothingSkipped
  <2>2. cred["plaid"].cursor[c] \in 0..MaxFeed
    BY <1>1, <1>2, <1>7 DEF SyncIInv, SyncTypeOK
  <2>3. t.items = {i \in Items : cred["plaid"].cursor[c] < i /\ i <= feed["plaid"]}
    BY <1>5, <1>7 DEF Listed
  <2> HIDE DEF t, c, p
  <2> QED
    BY <1>4, <1>7, <2>1, <2>2, <2>3 DEF Items
<1> HIDE DEF t
<1> QED
  BY <1>1, <1>5, <1>6, <1>7, JobMovePreserves DEF fetch

LEMMA CredentialMovesPreserve ==
    ASSUME SyncIInv, NEW j \in SyncJobs, prior_read(j) \/ store_tokens(j)
    PROVE  SyncIInv'
<1> DEFINE p == job[j].provider
<1>1. job[j] \in JobRecords /\ job[j].phase # "idle" /\ p \in Providers
  BY DEF prior_read, store_tokens, SyncIInv, SyncTypeOK, JobsOK
<1>2. CASE prior_read(j)
  <2> DEFINE t == [job[j] EXCEPT !.phase = "replacing", !.prior = ActiveCredential(p)]
  <2>1. /\ t \in JobRecords /\ t.kind = job[j].kind /\ t.provider = p
        /\ t.began = job[j].began /\ t.phase # "stored" /\ t.cursor = job[j].cursor
        /\ t.items = job[j].items
    BY <1>1, ActiveCredentialIsActive DEF JobRecords, Phases, SyncIInv
  <2>2. job' = [job EXCEPT ![j] = t]
    BY <1>2 DEF prior_read, SyncIInv, SyncTypeOK
  <2> HIDE DEF t
  <2>5. UNCHANGED <<feed, began, cred, rawItems, syncLog, posted, failures>>
    BY <1>2 DEF prior_read
  <2>6. t.kind \in {"exchange", "disconnect"} => t.items = {}
    BY <2>1 DEF SyncIInv, JobsOK
  <2>7. t.provider = "plaid" => 1..t.cursor \subseteq rawItems["plaid"] \union t.items
    BY <2>1 DEF SyncIInv, Ahead
  <2> QED
    BY <1>1, <2>1, <2>2, <2>5, <2>6, <2>7, JobMovePreserves
<1>3. CASE store_tokens(j)
  <2> DEFINE t == [job[j] EXCEPT !.drop = job[j].prior,
                                 !.phase = IF job[j].kind \in {"exchange", "disconnect"}
                                           THEN "stored" ELSE "replaced"]
  <2>1. /\ t \in JobRecords /\ t.kind = job[j].kind /\ t.provider = p
        /\ t.began = job[j].began /\ t.cursor = job[j].cursor /\ t.items = job[j].items
        /\ t.phase = "stored" => t.kind \in {"exchange", "disconnect"}
    BY <1>1 DEF JobRecords, Phases
  <2>2. job' = [job EXCEPT ![j] = t]
    BY <1>3 DEF store_tokens, SyncIInv, SyncTypeOK
  <2> HIDE DEF t
  <2>5. UNCHANGED <<feed, began, cred, rawItems, syncLog, posted, failures>>
    BY <1>3 DEF store_tokens
  <2>6. t.kind \in {"exchange", "disconnect"} => t.items = {}
    BY <2>1 DEF SyncIInv, JobsOK
  <2>7. t.provider = "plaid" => 1..t.cursor \subseteq rawItems["plaid"] \union t.items
    BY <2>1 DEF SyncIInv, Ahead
  <2>8. t.phase = "stored" => t.items = {}
    BY <2>1, <2>6
  <2> QED
    BY <1>1, <2>1, <2>2, <2>5, <2>6, <2>7, <2>8, JobMovePreserves
<1> QED
  BY <1>2, <1>3

\* What the check drops is known: it is there already.
LEMMA PersistPreserves ==
    ASSUME SyncIInv, NEW j \in SyncJobs, persist_check(j) \/ persist_insert(j)
    PROVE  SyncIInv'
<1> DEFINE p == job[j].provider
<1>1. job[j] \in JobRecords /\ job[j].phase # "idle" /\ p \in Providers
  BY DEF persist_check, persist_insert, SyncIInv, SyncTypeOK, JobsOK
<1>2. CASE persist_check(j)
  <2> DEFINE t == [job[j] EXCEPT !.phase = "checked", !.items = job[j].items \ KnownTo(j)]
  <2>1. /\ t \in JobRecords /\ t.kind = job[j].kind /\ t.provider = p
        /\ t.began = job[j].began /\ t.phase = "checked" /\ t.cursor = job[j].cursor
        /\ t.items = job[j].items \ KnownTo(j)
    BY <1>1 DEF JobRecords, Phases
  <2>2. job' = [job EXCEPT ![j] = t]
    BY <1>2 DEF persist_check, SyncIInv, SyncTypeOK
  <2>3. ASSUME p = "plaid" PROVE KnownTo(j) = rawItems["plaid"]
    BY <2>3 DEF KnownTo, Book, SyncIInv, JobsOK
  <2> HIDE DEF t
  <2>5. UNCHANGED <<feed, began, cred, rawItems, syncLog, posted, failures>>
    BY <1>2 DEF persist_check
  <2>6. t.kind \in {"exchange", "disconnect"} => t.items = {}
    BY <2>1 DEF SyncIInv, JobsOK
  <2>7. t.provider = "plaid" => 1..t.cursor \subseteq rawItems["plaid"] \union t.items
    BY <2>1, <2>3 DEF SyncIInv, Ahead
  <2> QED
    BY <1>1, <2>1, <2>2, <2>5, <2>6, <2>7, JobMovePreserves
<1>3. CASE persist_insert(j)
  <2> DEFINE t == [job[j] EXCEPT !.phase = "stored"]
  <2>1. /\ t \in JobRecords /\ t.kind = job[j].kind /\ t.provider = p
        /\ t.began = job[j].began /\ t.cursor = job[j].cursor /\ t.items = job[j].items
    BY <1>1 DEF JobRecords, Phases
  <2>2. job' = [job EXCEPT ![j] = t]
    BY <1>3 DEF persist_insert, SyncIInv, SyncTypeOK
  <2>3. job[j].items \intersect rawItems[Book(j)] = {}
    BY <1>3 DEF persist_insert, ChecksumTaken
  <2>4. \A i \in SyncJobs \ {j} : job[i].phase = "stored" /\ Book(i) = Book(j) =>
            job[i].items \intersect job[j].items = {}
    BY <1>3 DEF persist_insert
  <2> HIDE DEF t
  <2>5. UNCHANGED <<feed, began, cred, rawItems, syncLog, posted, failures>>
    BY <1>3 DEF persist_insert
  <2>6. t.kind \in {"exchange", "disconnect"} => t.items = {}
    BY <2>1 DEF SyncIInv, JobsOK
  <2>7. t.provider = "plaid" => 1..t.cursor \subseteq rawItems["plaid"] \union t.items
    BY <2>1 DEF SyncIInv, Ahead
  <2> QED
    BY <1>1, <2>1, <2>2, <2>3, <2>4, <2>5, <2>6, <2>7, JobMovePreserves
<1> QED
  BY <1>2, <1>3

LEMMA PostedOnce ==
    ASSUME SyncTypeOK, NEW p \in Providers, NEW k \in 0..SyncRetries, NEW n \in Nat,
           posted' = [posted EXCEPT ![p][k] = n]
    PROVE  posted' \in [Providers -> [0..SyncRetries -> Nat]]
  BY DEF SyncTypeOK

LEMMA PostedType ==
    ASSUME SyncTypeOK, NEW p \in Providers, NEW k \in 0..SyncRetries
    PROVE  posted[p][k] \in Nat
<1> DEFINE R == 0..SyncRetries
<1>1. posted \in [Providers -> [R -> Nat]] /\ k \in R
  BY DEF SyncTypeOK
<1> HIDE DEF R
<1>2. posted[p] \in [R -> Nat]
  BY <1>1
<1> QED
  BY <1>1, <1>2

LEMMA EndsPreserve ==
    ASSUME SyncIInv, NEW j \in SyncJobs, sync_fail(j) \/ job_lost(j)
    PROVE  SyncIInv'
<1> DEFINE p == job[j].provider
<1>1. /\ job[j] \in JobRecords /\ job[j].phase # "idle" /\ p \in Providers
      /\ job[j].retries \in 0..SyncRetries /\ SyncRetries \in Nat
  BY SyncAssumption DEF sync_fail, job_lost, SyncIInv, SyncTypeOK, JobsOK, JobRecords
<1>2. CASE sync_fail(j)
  <2> DEFINE told == job[j].kind = "legacy" /\ job[j].phase = "started"
  <2>1. posted' \in [Providers -> [0..SyncRetries -> Nat]]
    <3>1. CASE job[j].kind = "task" /\ job[j].retries < SyncRetries
      <4>1. job[j].retries + 1 \in 0..SyncRetries
        BY <1>1, <3>1
      <4>2. posted[p][job[j].retries + 1] + 1 \in Nat
        BY <1>1, <4>1, PostedType DEF SyncIInv
      <4>3. posted' = [posted EXCEPT ![p][job[j].retries + 1] = posted[p][job[j].retries + 1] + 1]
        BY <1>2, <3>1 DEF sync_fail
      <4> QED
        BY <1>1, <4>1, <4>2, <4>3, PostedOnce DEF SyncIInv
    <3>2. CASE ~(job[j].kind = "task" /\ job[j].retries < SyncRetries)
      BY <1>2, <3>2 DEF sync_fail, SyncIInv, SyncTypeOK
    <3> QED
      BY <3>1, <3>2
  <2>2. failures' \in [Providers -> Nat]
    <3>1. failures \in [Providers -> Nat]
      BY DEF SyncIInv, SyncTypeOK
    <3>2. failures' = [failures EXCEPT ![p] = @ + 1]
      BY <1>2 DEF sync_fail
    <3> QED
      BY <1>1, <3>1, <3>2
  <2>3. told \in BOOLEAN /\ (told => job[j].kind = "legacy")
    OBVIOUS
  <2>4. syncLog' = IF told THEN [syncLog EXCEPT ![job[j].provider].running = @ - 1,
                                                ![job[j].provider].failed = @ + 1]
                   ELSE syncLog
    BY <1>2 DEF sync_fail
  <2> HIDE DEF told
  <2> QED
    BY <1>1, <1>2, <2>1, <2>2, <2>3, <2>4, EndPreserves DEF sync_fail
<1>3. CASE job_lost(j)
  <2>1. posted' \in [Providers -> [0..SyncRetries -> Nat]]
    <3>1. CASE job[j].kind = "task"
      <4>1. posted[p][job[j].retries] + 1 \in Nat
        BY <1>1, PostedType DEF SyncIInv
      <4>2. posted' = [posted EXCEPT ![p][job[j].retries] = posted[p][job[j].retries] + 1]
        BY <1>3, <3>1 DEF job_lost
      <4> QED
        BY <1>1, <4>1, <4>2, PostedOnce DEF SyncIInv
    <3>2. CASE job[j].kind # "task"
      BY <1>3, <3>2 DEF job_lost, SyncIInv, SyncTypeOK
    <3> QED
      BY <3>1, <3>2
  <2>2. /\ job' = [job EXCEPT ![j] = NoJob]
        /\ UNCHANGED <<feed, began, cred, rawItems, syncLog, failures>>
    BY <1>3 DEF job_lost
  <2>3. FALSE \in BOOLEAN /\ syncLog' = IF FALSE
                   THEN [syncLog EXCEPT ![job[j].provider].running = @ - 1,
                                        ![job[j].provider].failed = @ + 1]
                   ELSE syncLog
    BY <2>2
  <2>4. failures' \in [Providers -> Nat]
    BY <2>2 DEF SyncIInv, SyncTypeOK
  <2> QED
    BY <1>1, <2>1, <2>2, <2>3, <2>4, EndPreserves
<1> QED
  BY <1>2, <1>3

LEMMA StartsPreserve ==
    ASSUME SyncIInv, NEW j \in SyncJobs, JobStart(j)
    PROVE  SyncIInv'
<1>1. SyncRetries \in 0..SyncRetries /\ 0 \in 0..SyncRetries
  BY SyncAssumption
<1>2. posted \in [Providers -> [0..SyncRetries -> Nat]]
  BY DEF SyncIInv, SyncTypeOK
<1>3. ASSUME NEW p \in Providers, NEW k \in 0..SyncRetries, sync_start(j, p, k)
      PROVE  SyncIInv'
  <2>1. posted[p][k] - 1 \in Nat /\ posted' = [posted EXCEPT ![p][k] = posted[p][k] - 1]
    BY <1>3, PostedType DEF sync_start, SyncIInv
  <2>2. posted' \in [Providers -> [0..SyncRetries -> Nat]]
    BY <2>1, PostedOnce DEF SyncIInv
  <2>3. "task" \in JobKinds \ {"none"}
    BY DEF JobKinds
  <2> QED
    BY <1>3, <2>2, <2>3, BeginPreserves DEF sync_start
<1>4. ASSUME NEW p \in Providers, sync_inline(j, p) PROVE SyncIInv'
  <2>1. "inline" \in JobKinds \ {"none"}
    BY DEF JobKinds
  <2> QED
    BY <1>1, <1>2, <1>4, <2>1, BeginPreserves DEF sync_inline
<1>5. ASSUME NEW p \in Providers, exchange(j, p) PROVE SyncIInv'
  <2>1. "exchange" \in JobKinds \ {"none"}
    BY DEF JobKinds
  <2> QED
    BY <1>1, <1>2, <1>5, <2>1, BeginPreserves DEF exchange
<1>6. ASSUME NEW p \in Providers, disconnect(j, p) PROVE SyncIInv'
  <2>1. "disconnect" \in JobKinds \ {"none"}
    BY DEF JobKinds
  <2> QED
    BY <1>1, <1>2, <1>6, <2>1, BeginPreserves DEF disconnect
<1>7. ASSUME sync_quickbooks(j) PROVE SyncIInv'
  <2>1. "legacy" \in JobKinds \ {"none"} /\ "quickbooks" \in Providers
    BY <1>7 DEF JobKinds, sync_quickbooks
  <2> QED
    BY <1>1, <1>2, <1>7, <2>1, BeginPreserves DEF sync_quickbooks
<1> QED
  BY <1>3, <1>4, <1>5, <1>6, <1>7 DEF JobStart

LEMMA QuietActionsPreserve ==
    ASSUME SyncIInv,
           \/ \E p \in Providers : provider_adds(p) \/ trigger_sync(p)
           \/ sync_all_integrations
    PROVE  SyncIInv'
<1>1. /\ MaxFeed \in Nat /\ 0 \in 0..SyncRetries
      /\ feed \in [Providers -> 0..MaxFeed] /\ posted \in [Providers -> [0..SyncRetries -> Nat]]
  BY SyncAssumption DEF SyncIInv, SyncTypeOK
<1>2. ASSUME NEW p \in Providers, provider_adds(p) PROVE SyncIInv'
  <2>1. feed' \in [Providers -> 0..MaxFeed]
    BY <1>1, <1>2 DEF provider_adds
  <2> QED
    BY <1>1, <1>2, <2>1, QuietStepPreserves DEF provider_adds
<1>3. ASSUME NEW p \in Providers, trigger_sync(p) PROVE SyncIInv'
  <2>1. posted[p][0] + 1 \in Nat /\ posted' = [posted EXCEPT ![p][0] = posted[p][0] + 1]
    BY <1>1, <1>3, PostedType DEF trigger_sync, SyncIInv
  <2>2. posted' \in [Providers -> [0..SyncRetries -> Nat]]
    BY <1>1, <2>1, PostedOnce DEF SyncIInv
  <2> QED
    BY <1>1, <1>3, <2>2, QuietStepPreserves DEF trigger_sync
<1>4. ASSUME sync_all_integrations PROVE SyncIInv'
  <2>1. ASSUME NEW p \in Providers
        PROVE  [posted[p] EXCEPT ![0] = IF is_connected(p) THEN @ + 1 ELSE @] \in [0..SyncRetries -> Nat]
    <3>1. posted[p] \in [0..SyncRetries -> Nat] /\ posted[p][0] \in Nat
      BY <1>1, PostedType DEF SyncIInv
    <3>2. PICK n \in Nat : n = IF is_connected(p) THEN posted[p][0] + 1 ELSE posted[p][0]
      BY <3>1
    <3>3. [posted[p] EXCEPT ![0] = n] \in [0..SyncRetries -> Nat]
      BY <3>1
    <3> QED
      BY <3>2, <3>3
  <2>2. posted' \in [Providers -> [0..SyncRetries -> Nat]]
    BY <1>4, <2>1 DEF sync_all_integrations
  <2> QED
    BY <1>1, <1>4, <2>2, QuietStepPreserves DEF sync_all_integrations
<1> QED
  BY <1>2, <1>3, <1>4

-----------------------------------------------------------------------------
LEMMA SyncInitOK == SyncInit => SyncIInv
<1> SUFFICES ASSUME SyncInit PROVE SyncIInv
  OBVIOUS
<1>1. 0 \in 0..MaxTx /\ 0 \in 0..MaxFeed /\ 0 \in 0..SyncRetries
  BY SyncAssumption
<1>2. NoJob \in JobRecords /\ \A j \in SyncJobs : job[j] = NoJob
  BY <1>1 DEF SyncInit, NoJob, NoCred, JobRecords, JobKinds, Phases
<1>3. NoJob.kind = "none" /\ NoJob.phase = "idle" /\ NoJob.provider = "none" /\ NoJob.items = {}
  BY DEF NoJob
<1>4. SyncTypeOK
  BY <1>1, <1>2 DEF SyncInit, SyncTypeOK
<1>5. JobsOK /\ Ahead /\ Fresh
  BY <1>2, <1>3 DEF JobsOK, Ahead, Fresh
<1>6. Counted
  <2> SUFFICES ASSUME NEW p \in Providers
               PROVE  Cardinality(LegacyOpen(p)) <= syncLog[p].running
    BY DEF Counted
  <2>1. LegacyOpen(p) = {}
    BY <1>2, <1>3 DEF LegacyOpen
  <2>2. Cardinality(LegacyOpen(p)) = 0 /\ syncLog[p].running = 0
    BY <2>1, FS_EmptySet DEF SyncInit
  <2> QED
    BY <2>2
<1>7. LogsAddUp
  <2>1. \A b \in Books : Cardinality(rawItems[b]) = 0
    BY FS_EmptySet DEF SyncInit
  <2> QED
    BY <2>1 DEF SyncInit, LogsAddUp, Books
<1>8. NothingSkipped
  BY DEF SyncInit, NothingSkipped
<1> QED
  BY <1>4, <1>5, <1>6, <1>7, <1>8 DEF SyncIInv

LEMMA SyncNextOK == SyncIInv /\ [SyncNext]_syncVars => SyncIInv'
<1> SUFFICES ASSUME SyncIInv, [SyncNext]_syncVars PROVE SyncIInv'
  OBVIOUS
<1>1. ASSUME NEW j \in SyncJobs, JobStep(j) PROVE SyncIInv'
  BY <1>1, FetchPreserves, CredentialMovesPreserve, PersistPreserves, SyncCommitPreserves, EndsPreserve
     DEF JobStep
<1>2. CASE UNCHANGED syncVars
  BY <1>2, QuietStepPreserves DEF syncVars, SyncIInv, SyncTypeOK
<1> QED
  BY <1>1, <1>2, StartsPreserve, QuietActionsPreserve DEF SyncNext

\* The strengthened invariant, for every value of the constants.
THEOREM SyncInvariant == SyncSpec => []SyncIInv
  BY SyncInitOK, SyncNextOK, PTL DEF SyncSpec

\* No transaction of Plaid is skipped (plaid_connector.py:90), however many syncs of a
\* company run at once, fail, are retried or die.
THEOREM NothingSkippedHolds == SyncSpec => []NothingSkipped
<1>1. SyncIInv => NothingSkipped
  BY DEF SyncIInv
<1> QED
  BY <1>1, SyncInvariant, PTL

\* The completed rows of sync_logs add up to the records in raw_records.
THEOREM SyncInvHolds == SyncSpec => []SyncInv
<1>1. SyncIInv => SyncInv
  BY DEF SyncIInv, SyncInv
<1> QED
  BY <1>1, SyncInvariant, PTL

-----------------------------------------------------------------------------
(* Interviews (routers/interview.py)                                       *)

Calls == [verb: {"none", "create", "answer", "complete"},
          status: {"absent", "active", "completed"}, seq: Nat, seen: Nat, asked: Nat]

\* The numbers that are in use are those up to k, the last of them a question's, and there
\* are questions enough for the odd ones among them.
NumberedTo(k) ==
    /\ Seqs = 1..k
    /\ k <= Cardinality(dialogue)
    /\ dialogue # {} => k % 2 = 1 /\ 2 * AskedSoFar >= k + 1
    /\ dialogue = {} => k = 0

\* Each answer, whatever its number, has a question after it.
AnswersFollowed ==
    \A s \in Nat \ {0} : s % 2 = 0 => OfSeq(s, "interviewee") = OfSeq(s + 1, "assistant")

\* What the open requests have read still bounds what is there: an answer is numbered next
\* to a question at most, and it counted the questions before it.
CallsKnow ==
    \A c \in Callers :
        /\ call[c].verb = "create" =>
              interview = "absent" /\ \A b \in Callers : call[b].verb = "create" => b = c
        /\ call[c].verb = "answer" =>
              /\ interview # "absent"
              /\ call[c].seq % 2 = 0 /\ call[c].seq # 0 /\ call[c].seq - 1 \in Seqs
              /\ 2 * call[c].asked >= call[c].seq
        /\ call[c].verb = "complete" =>
              /\ interview # "absent" /\ call[c].status # "absent"
              /\ call[c].status = "completed" => interview = "completed"
              /\ call[c].seen \in 1..Cardinality(dialogue)

InterviewIInv ==
    /\ InterviewInv
    /\ IsFiniteSet(dialogue)
    /\ \A m \in dialogue : m.row <= Cardinality(dialogue)
    /\ dialogue # {} => Cardinality(dialogue) \in MsgRows
    /\ call \in [Callers -> Calls]
    /\ interview = "absent" => dialogue = {} /\ insights = {}
    /\ interview # "absent" => dialogue # {}
    /\ \E k \in Nat : NumberedTo(k)
    /\ AnswersFollowed
    /\ CallsKnow

-----------------------------------------------------------------------------
LEMMA MaxOfInterval ==
    ASSUME NEW k \in Nat \ {0}
    PROVE  Max(1..k) = k
<1>1. k \in 1..k /\ \A y \in 1..k : k >= y
  OBVIOUS
<1>2. Max(1..k) \in 1..k /\ \A y \in 1..k : Max(1..k) >= y
  BY <1>1 DEF Max
<1> QED
  BY <1>1, <1>2

\* Two numbers, the even one and the odd one after it.
LEMMA Parity ==
    ASSUME NEW s \in Nat, s % 2 = 0
    PROVE  /\ (s + 1) % 2 = 1
           /\ (s \div 2) \in Nat /\ s = 2 * (s \div 2)
  OBVIOUS

LEMMA ParityOdd ==
    ASSUME NEW s \in Nat, s % 2 = 1
    PROVE  (s + 1) % 2 = 0
  OBVIOUS

\* The next number is one more than the last.
LEMMA NextSeqIs ==
    ASSUME NEW k \in Nat, NumberedTo(k)
    PROVE  next_seq = k + 1
<1>1. CASE dialogue = {}
  BY <1>1 DEF NumberedTo, next_seq
<1>2. CASE dialogue # {}
  BY <1>2, MaxOfInterval DEF NumberedTo, next_seq
<1> QED
  BY <1>1, <1>2

LEMMA NumbersCounted ==
    ASSUME NEW k \in Nat, NumberedTo(k)
    PROVE  Seqs = 1..Cardinality(Seqs)
  BY FS_Interval DEF NumberedTo

-----------------------------------------------------------------------------
\* Nobody's message and a question have been stored.
Stored(a, b) == dialogue' = dialogue \union {a, b}

\* Storing two new rows adds two, and one to what each of them counts towards.
LEMMA StoredCounts ==
    ASSUME IsFiniteSet(dialogue), \A m \in dialogue : m.row <= Cardinality(dialogue),
           NEW q \in Nat, NEW x \in Nat, NEW a, NEW b,
           a = Message(Cardinality(dialogue) + 1, q, "interviewee", 0),
           b = Message(Cardinality(dialogue) + 2, q + 1, "assistant", x),
           Stored(a, b)
    PROVE  /\ IsFiniteSet(dialogue')
           /\ Cardinality(dialogue') = Cardinality(dialogue) + 2
           /\ Cardinality(dialogue) \in Nat
           /\ AskedSoFar' = AskedSoFar + 1 /\ AskedSoFar \in Nat
           /\ Seqs' = Seqs \union {q, q + 1}
           /\ \A s \in Nat :
                /\ OfSeq(s, "interviewee") \in Nat /\ OfSeq(s, "assistant") \in Nat
                /\ OfSeq(s, "interviewee")' = IF s = q THEN OfSeq(s, "interviewee") + 1
                                              ELSE OfSeq(s, "interviewee")
                /\ OfSeq(s, "assistant")' = IF s = q + 1 THEN OfSeq(s, "assistant") + 1
                                            ELSE OfSeq(s, "assistant")
<1> DEFINE n == Cardinality(dialogue)
<1>1. n \in Nat
  BY FS_CardinalityType
<1>2. /\ a.row = n + 1 /\ a.seq = q /\ a.sender = "interviewee"
      /\ b.row = n + 2 /\ b.seq = q + 1 /\ b.sender = "assistant"
  BY DEF Message
<1> HIDE DEF n
<1>3. a \notin dialogue /\ b \notin dialogue /\ a # b
  BY <1>1, <1>2 DEF n
<1>4. dialogue' = (dialogue \union {a}) \union {b}
  BY DEF Stored
<1>5. IsFiniteSet(dialogue') /\ Cardinality(dialogue') = n + 2
  <2>1. IsFiniteSet(dialogue \union {a}) /\ Cardinality(dialogue \union {a}) = n + 1
    BY <1>3, FS_AddElement DEF n
  <2>2. b \notin dialogue \union {a}
    BY <1>3
  <2> QED
    BY <1>1, <1>4, <2>1, <2>2, FS_AddElement
<1>6. Seqs' = Seqs \union {q, q + 1}
  BY <1>2, <1>4 DEF Seqs
<1>7. AskedSoFar' = AskedSoFar + 1 /\ AskedSoFar \in Nat
  <2> DEFINE Old == {m \in dialogue : m.sender = "assistant"}
  <2>1. {m \in dialogue' : m.sender = "assistant"} = Old \union {b}
    BY <1>2, <1>4
  <2>2. IsFiniteSet(Old) /\ b \notin Old
    BY <1>3, FS_Subset
  <2>3. Cardinality(Old \union {b}) = Cardinality(Old) + 1 /\ Cardinality(Old) \in Nat
    BY <2>2, FS_AddElement, FS_CardinalityType
  <2>4. AskedSoFar = Cardinality(Old) /\ AskedSoFar' = Cardinality(Old \union {b})
    BY <2>1 DEF AskedSoFar
  <2> QED
    BY <2>3, <2>4
<1>8. ASSUME NEW s \in Nat
      PROVE  /\ OfSeq(s, "interviewee") \in Nat
             /\ OfSeq(s, "interviewee")' = IF s = q THEN OfSeq(s, "interviewee") + 1
                                           ELSE OfSeq(s, "interviewee")
  <2> DEFINE Old == {m \in dialogue : m.seq = s /\ m.sender = "interviewee"}
  <2>1. {m \in dialogue' : m.seq = s /\ m.sender = "interviewee"}
            = IF s = q THEN Old \union {a} ELSE Old
    BY <1>2, <1>4
  <2>2. IsFiniteSet(Old) /\ a \notin Old
    BY <1>3, FS_Subset
  <2>3. Cardinality(Old \union {a}) = Cardinality(Old) + 1 /\ Cardinality(Old) \in Nat
    BY <2>2, FS_AddElement, FS_CardinalityType
  <2>4. /\ OfSeq(s, "interviewee") = Cardinality(Old)
        /\ OfSeq(s, "interviewee")' = IF s = q THEN Cardinality(Old \union {a}) ELSE Cardinality(Old)
    BY <2>1 DEF OfSeq
  <2> QED
    BY <2>3, <2>4
<1>9. ASSUME NEW s \in Nat
      PROVE  /\ OfSeq(s, "assistant") \in Nat
             /\ OfSeq(s, "assistant")' = IF s = q + 1 THEN OfSeq(s, "assistant") + 1
                                         ELSE OfSeq(s, "assistant")
  <2> DEFINE Old == {m \in dialogue : m.seq = s /\ m.sender = "assistant"}
  <2>1. {m \in dialogue' : m.seq = s /\ m.sender = "assistant"}
            = IF s = q + 1 THEN Old \union {b} ELSE Old
    BY <1>2, <1>4
  <2>2. IsFiniteSet(Old) /\ b \notin Old
    BY <1>3, FS_Subset
  <2>3. Cardinality(Old \union {b}) = Cardinality(Old) + 1 /\ Cardinality(Old) \in Nat
    BY <2>2, FS_AddElement, FS_CardinalityType
  <2>4. /\ OfSeq(s, "assistant") = Cardinality(Old)
        /\ OfSeq(s, "assistant")' = IF s = q + 1 THEN Cardinality(Old \union {b}) ELSE Cardinality(Old)
    BY <2>1 DEF OfSeq
  <2> QED
    BY <2>3, <2>4
<1> QED
  BY <1>1, <1>5, <1>6, <1>7, <1>8, <1>9 DEF n

LEMMA AnswerPreserves ==
    ASSUME InterviewIInv, NEW c \in Callers, answer_commit(c)
    PROVE  InterviewIInv'
<1> DEFINE n == Cardinality(dialogue)
           q == call[c].seq
           x == Question(call[c].asked)
           a == Message(n + 1, q, "interviewee", 0)
           b == Message(n + 2, q + 1, "assistant", x)
<1>1. /\ call[c].verb = "answer" /\ n + 2 \in MsgRows
      /\ dialogue' = dialogue \union {a, b}
      /\ call' = [call EXCEPT ![c] = NoCall]
      /\ UNCHANGED <<interview, insights>>
  BY DEF answer_commit
<1>2. /\ q \in Nat /\ call[c].asked \in Nat
      /\ interview # "absent" /\ q % 2 = 0 /\ q # 0 /\ q - 1 \in Seqs
      /\ 2 * call[c].asked >= q
  BY <1>1 DEF InterviewIInv, CallsKnow, Calls
<1>3. x \in 0..Script /\ x >= Question(q \div 2)
  <2>1. q \div 2 \in Nat /\ q = 2 * (q \div 2)
    BY <1>2, Parity
  <2> QED
    BY <1>2, <2>1, InterviewAssumption DEF Question
<1> HIDE DEF x
<1>4. /\ IsFiniteSet(dialogue')
      /\ Cardinality(dialogue') = n + 2 /\ n \in Nat
      /\ AskedSoFar' = AskedSoFar + 1 /\ AskedSoFar \in Nat
      /\ Seqs' = Seqs \union {q, q + 1}
      /\ \A s \in Nat :
           /\ OfSeq(s, "interviewee") \in Nat /\ OfSeq(s, "assistant") \in Nat
           /\ OfSeq(s, "interviewee")' = IF s = q THEN OfSeq(s, "interviewee") + 1
                                         ELSE OfSeq(s, "interviewee")
           /\ OfSeq(s, "assistant")' = IF s = q + 1 THEN OfSeq(s, "assistant") + 1
                                       ELSE OfSeq(s, "assistant")
  <2>1. x \in Nat
    BY <1>3, InterviewAssumption
  <2> QED
    BY <1>1, <1>2, <2>1, StoredCounts DEF InterviewIInv, Stored
<1>5. /\ a.row = n + 1 /\ a.seq = q /\ a.sender = "interviewee" /\ a.question = 0
      /\ b.row = n + 2 /\ b.seq = q + 1 /\ b.sender = "assistant" /\ b.question = x
  BY DEF Message
<1> HIDE DEF a, b, n
<1>6. PICK k \in Nat : NumberedTo(k)
  BY DEF InterviewIInv
<1>7. dialogue # {} /\ k % 2 = 1 /\ q - 1 <= k /\ k <= n /\ 2 * AskedSoFar >= k + 1
  BY <1>2, <1>6 DEF InterviewIInv, NumberedTo, n
<1> HIDE DEF q
<1>7a. PICK j \in Nat : j = IF q + 1 > k THEN q + 1 ELSE k
  BY <1>2
<1>8. NumberedTo(j)'
  <2>1. j <= k + 2 /\ k <= j
    BY <1>2, <1>7, <1>7a
  <2>2. j % 2 = 1
    BY <1>2, <1>7, <1>7a, Parity
  <2>3. Seqs' = 1..j
    <3>1. Seqs' = 1..k \union {q, q + 1}
      BY <1>4, <1>6 DEF NumberedTo
    <3>2. 1..k \union {q, q + 1} = 1..j
      BY <1>2, <1>7, <1>7a
    <3> QED
      BY <3>1, <3>2
  <2>4. dialogue' # {}
    BY <1>1
  <2> QED
    <3>1. j <= Cardinality(dialogue')
      BY <1>4, <1>7, <2>1
    <3>2. 2 * AskedSoFar' >= j + 1
      BY <1>4, <1>7, <2>1
    <3> QED
      BY <2>2, <2>3, <2>4, <3>1, <3>2 DEF NumberedTo
<1>9. AnswersFollowed'
  <2> SUFFICES ASSUME NEW s \in Nat \ {0}, s % 2 = 0
               PROVE  OfSeq(s, "interviewee")' = OfSeq(s + 1, "assistant")'
    BY DEF AnswersFollowed
  <2>1. OfSeq(s, "interviewee") = OfSeq(s + 1, "assistant")
    BY DEF InterviewIInv, AnswersFollowed
  <2>2. OfSeq(s, "interviewee")' = IF s = q THEN OfSeq(s, "interviewee") + 1
                                         ELSE OfSeq(s, "interviewee")
    BY <1>4
  <2>3. OfSeq(s + 1, "assistant")' = IF s + 1 = q + 1 THEN OfSeq(s + 1, "assistant") + 1
                                       ELSE OfSeq(s + 1, "assistant")
    <3>1. s + 1 \in Nat
      OBVIOUS
    <3> QED
      BY <1>4, <3>1
  <2> QED
    BY <1>2, <2>1, <2>2, <2>3
<1>10. \A m \in dialogue' : m.row <= Cardinality(dialogue') /\ m.row \in MsgRows
  <2>1. \A m \in dialogue : m.row \in MsgRows /\ m.row <= n
    BY DEF InterviewIInv, InterviewInv, InterviewTypeOK, n
  <2>2. \A m \in dialogue : m.row <= n + 2
    BY <1>4, <2>1 DEF MsgRows
  <2>3. n + 1 \in MsgRows /\ n + 2 \in MsgRows /\ n + 1 <= n + 2 /\ n + 2 <= n + 2
    BY <1>1, <1>4, InterviewAssumption DEF MsgRows
  <2> QED
    BY <1>1, <1>4, <1>5, <2>1, <2>2, <2>3
<1>11. \A m \in dialogue' :
          /\ m.seq \in MsgRows /\ m.sender \in {"assistant", "interviewee"}
          /\ m.question \in 0..Script
          /\ m.sender = "interviewee" <=> m.seq % 2 = 0
          /\ m.sender = "assistant" => m.question >= Question((m.seq - 1) \div 2)
  <2>1. \A m \in dialogue :
          /\ m.seq \in MsgRows /\ m.sender \in {"assistant", "interviewee"}
          /\ m.question \in 0..Script
          /\ m.sender = "interviewee" <=> m.seq % 2 = 0
          /\ m.sender = "assistant" => m.question >= Question((m.seq - 1) \div 2)
    BY DEF InterviewIInv, InterviewInv, InterviewTypeOK, ConversationReadable
  <2>2. q \in MsgRows /\ q + 1 \in MsgRows
    BY <1>1, <1>2, <1>4, <1>7, InterviewAssumption DEF MsgRows
  <2>3. (q + 1) % 2 = 1 /\ (q + 1) - 1 = q
    BY <1>2, Parity
  <2> QED
    BY <1>1, <1>2, <1>3, <1>5, <2>1, <2>2, <2>3, InterviewAssumption
<1>12. call' \in [Callers -> Calls]
  BY <1>1 DEF InterviewIInv, Calls, NoCall
<1>13. CallsKnow'
  <2>1. \A d \in Callers : call'[d] = IF d = c THEN NoCall ELSE call[d]
    BY <1>1 DEF InterviewIInv
  <2>2. NoCall.verb = "none"
    BY DEF NoCall
  <2>3. \A y : y \in 1..n => y \in 1..Cardinality(dialogue')
    BY <1>4
  <2> QED
    BY <1>1, <1>2, <1>4, <2>1, <2>2, <2>3 DEF InterviewIInv, CallsKnow, n
<1>14. CompletedHasInsights'
  <2>1. \A y : y \in 1..n => y \in 1..Cardinality(dialogue')
    BY <1>4
  <2> QED
    BY <1>1, <2>1 DEF InterviewIInv, InterviewInv, CompletedHasInsights, n
<1>15. InterviewTypeOK'
  BY <1>1, <1>10, <1>11, <1>12 DEF InterviewTypeOK, InterviewIInv, InterviewInv, Calls
<1>16. ConversationReadable'
  <2>1. Seqs' = 1..Cardinality(Seqs')
    BY <1>8, FS_Interval DEF NumberedTo
  <2>2. \A s \in Seqs' : s \in Nat \ {0}
    BY <1>8 DEF NumberedTo
  <2> QED
    BY <1>9, <1>11, <2>1, <2>2 DEF ConversationReadable, AnswersFollowed
<1> QED
  BY <1>1, <1>2, <1>4, <1>8, <1>9, <1>10, <1>12, <1>13, <1>14, <1>15, <1>16
  DEF InterviewIInv, InterviewInv

-----------------------------------------------------------------------------
\* A step that only opens or drops a request.
LEMMA CallStepPreserves ==
    ASSUME InterviewIInv, UNCHANGED <<interview, dialogue, insights>>,
           call' \in [Callers -> Calls], CallsKnow'
    PROVE  InterviewIInv'
<1>1. /\ AskedSoFar' = AskedSoFar /\ Seqs' = Seqs
      /\ \A s, sender : OfSeq(s, sender)' = OfSeq(s, sender)
  BY DEF AskedSoFar, Seqs, OfSeq
<1>2. \E k \in Nat : NumberedTo(k)'
  BY <1>1 DEF InterviewIInv, NumberedTo
<1>3. ConversationReadable' /\ AnswersFollowed'
  BY <1>1 DEF InterviewIInv, InterviewInv, ConversationReadable, AnswersFollowed
<1>4. CompletedHasInsights'
  BY DEF InterviewIInv, InterviewInv, CompletedHasInsights
<1>5. InterviewTypeOK'
  BY DEF InterviewIInv, InterviewInv, InterviewTypeOK, Calls
<1> QED
  BY <1>2, <1>3, <1>4, <1>5 DEF InterviewIInv, InterviewInv

LEMMA CreateSessionPreserves ==
    ASSUME InterviewIInv, NEW c \in Callers, create_session(c)
    PROVE  InterviewIInv'
<1>1. /\ interview = "absent" /\ \A b \in Callers : call[b].verb # "create"
      /\ UNCHANGED <<interview, dialogue, insights>>
      /\ call' = [call EXCEPT ![c].verb = "create"]
      /\ call \in [Callers -> Calls]
  BY DEF create_session, InterviewIInv
<1>2. call' \in [Callers -> Calls]
  BY <1>1 DEF Calls
<1>3. \A b \in Callers : b # c => call'[b] = call[b]
  BY <1>1
<1>4. call'[c].verb = "create"
  BY <1>1 DEF Calls
<1>5. Seqs' = Seqs
  BY <1>1 DEF Seqs
<1>6. CallsKnow'
  BY <1>1, <1>3, <1>4, <1>5 DEF InterviewIInv, CallsKnow
<1> QED
  BY <1>1, <1>2, <1>6, CallStepPreserves

\* What an answer reads: the number after the last, and how much has been asked.
LEMMA SubmitAnswerPreserves ==
    ASSUME InterviewIInv, NEW c \in Callers, submit_answer(c)
    PROVE  InterviewIInv'
<1> DEFINE new == [verb |-> "answer", status |-> interview, seq |-> next_seq,
                   seen |-> Cardinality(dialogue), asked |-> AskedSoFar]
<1>1. /\ interview = "active" /\ call' = [call EXCEPT ![c] = new]
      /\ UNCHANGED <<interview, dialogue, insights>>
  BY DEF submit_answer
<1>2. PICK k \in Nat : NumberedTo(k)
  BY DEF InterviewIInv
<1>3. next_seq = k + 1
  BY <1>2, NextSeqIs
<1>4. Cardinality(dialogue) \in Nat /\ AskedSoFar \in Nat
  <2>1. IsFiniteSet(dialogue) /\ IsFiniteSet({m \in dialogue : m.sender = "assistant"})
    BY FS_Subset DEF InterviewIInv
  <2> QED
    BY <2>1, FS_CardinalityType DEF AskedSoFar
<1>5. k % 2 = 1 /\ k \in Seqs /\ 2 * AskedSoFar >= k + 1
  <2>1. k % 2 = 1 /\ Seqs = 1..k /\ 2 * AskedSoFar >= k + 1
    BY <1>1, <1>2 DEF InterviewIInv, NumberedTo
  <2> QED
    BY <2>1
<1>6. /\ new.verb = "answer" /\ new.seq = k + 1 /\ new.asked = AskedSoFar
      /\ new \in Calls
  BY <1>1, <1>3, <1>4 DEF Calls
<1> HIDE DEF new
<1>7. /\ new.seq % 2 = 0 /\ new.seq # 0 /\ new.seq - 1 \in Seqs
      /\ 2 * new.asked >= new.seq
  BY <1>5, <1>6, ParityOdd
<1>8. call' \in [Callers -> Calls]
  BY <1>1, <1>6 DEF InterviewIInv
<1>9. \A b \in Callers : call'[b] = IF b = c THEN new ELSE call[b]
  BY <1>1 DEF InterviewIInv
<1>10. Seqs' = Seqs
  BY <1>1 DEF Seqs
<1>11. CallsKnow'
  BY <1>1, <1>6, <1>7, <1>9, <1>10 DEF InterviewIInv, CallsKnow
<1> QED
  BY <1>1, <1>8, <1>11, CallStepPreserves

LEMMA CompleteSessionPreserves ==
    ASSUME InterviewIInv, NEW c \in Callers, complete_session(c)
    PROVE  InterviewIInv'
<1> DEFINE new == [verb |-> "complete", status |-> interview, seq |-> 0,
                   seen |-> Cardinality(dialogue), asked |-> AskedSoFar]
<1>1. /\ interview # "absent" /\ call' = [call EXCEPT ![c] = new]
      /\ UNCHANGED <<interview, dialogue, insights>>
      /\ interview \in {"absent", "active", "completed"}
  BY DEF complete_session, InterviewIInv, InterviewInv, InterviewTypeOK
<1>2. Cardinality(dialogue) \in Nat \ {0} /\ AskedSoFar \in Nat
  <2>1. IsFiniteSet(dialogue) /\ IsFiniteSet({m \in dialogue : m.sender = "assistant"})
    BY FS_Subset DEF InterviewIInv
  <2>2. dialogue # {}
    BY <1>1 DEF InterviewIInv
  <2> QED
    BY <2>1, <2>2, FS_CardinalityType, FS_EmptySet DEF AskedSoFar
<1>3. /\ new.verb = "complete" /\ new.status = interview /\ new \in Calls
      /\ new.seen \in 1..Cardinality(dialogue)
  BY <1>1, <1>2 DEF Calls
<1> HIDE DEF new
<1>4. call' \in [Callers -> Calls]
  BY <1>1, <1>3 DEF InterviewIInv
<1>5. \A b \in Callers : call'[b] = IF b = c THEN new ELSE call[b]
  BY <1>1 DEF InterviewIInv
<1>6. Seqs' = Seqs
  BY <1>1 DEF Seqs
<1>7. CallsKnow'
  BY <1>1, <1>3, <1>5, <1>6 DEF InterviewIInv, CallsKnow
<1> QED
  BY <1>1, <1>4, <1>7, CallStepPreserves

LEMMA CallAbortPreserves ==
    ASSUME InterviewIInv, NEW c \in Callers, call_abort(c)
    PROVE  InterviewIInv'
<1>1. call' = [call EXCEPT ![c] = NoCall] /\ UNCHANGED <<interview, dialogue, insights>>
  BY DEF call_abort
<1>2. call' \in [Callers -> Calls]
  BY <1>1 DEF InterviewIInv, Calls, NoCall
<1>3. \A b \in Callers : call'[b] = IF b = c THEN NoCall ELSE call[b]
  BY <1>1 DEF InterviewIInv
<1>4. Seqs' = Seqs
  BY <1>1 DEF Seqs
<1>5. CallsKnow'
  BY <1>1, <1>3, <1>4 DEF InterviewIInv, CallsKnow, NoCall
<1> QED
  BY <1>1, <1>2, <1>5, CallStepPreserves

\* The first question of an interview that nobody else has created.
LEMMA CreateCommitPreserves ==
    ASSUME InterviewIInv, NEW c \in Callers, create_commit(c)
    PROVE  InterviewIInv'
<1> DEFINE m1 == Message(1, 1, "assistant", 0)
<1>1. /\ call[c].verb = "create" /\ interview = "absent" /\ insights = {}
      /\ interview' = "active" /\ dialogue' = {m1} /\ insights' = insights
      /\ call' = [call EXCEPT ![c] = NoCall]
      /\ \A b \in Callers : call[b].verb = "create" => b = c
  BY DEF create_commit, InterviewIInv, CallsKnow
<1>2. m1.row = 1 /\ m1.seq = 1 /\ m1.sender = "assistant" /\ m1.question = 0
  BY DEF Message
<1> HIDE DEF m1
<1>3. IsFiniteSet(dialogue') /\ Cardinality(dialogue') = 1
  BY <1>1, FS_Singleton
<1>4. Seqs' = 1..1
  BY <1>1, <1>2 DEF Seqs
<1>5. AskedSoFar' = 1
  <2>1. {m \in dialogue' : m.sender = "assistant"} = {m1}
    BY <1>1, <1>2
  <2> QED
    BY <2>1, FS_Singleton DEF AskedSoFar
<1>6. NumberedTo(1)'
  BY <1>1, <1>3, <1>4, <1>5 DEF NumberedTo
<1>7. 1 \in MsgRows
  BY InterviewAssumption DEF MsgRows
<1>8. AnswersFollowed'
  <2> SUFFICES ASSUME NEW s \in Nat \ {0}, s % 2 = 0
               PROVE  OfSeq(s, "interviewee")' = OfSeq(s + 1, "assistant")'
    BY DEF AnswersFollowed
  <2>1. {m \in dialogue' : m.seq = s /\ m.sender = "interviewee"} = {}
    BY <1>1, <1>2
  <2>2. {m \in dialogue' : m.seq = s + 1 /\ m.sender = "assistant"} = {}
    BY <1>1, <1>2
  <2> QED
    BY <2>1, <2>2 DEF OfSeq
<1>9. call' \in [Callers -> Calls]
  BY <1>1 DEF InterviewIInv, Calls, NoCall
<1>10. \A b \in Callers : call'[b] = IF b = c THEN NoCall ELSE call[b]
  BY <1>1 DEF InterviewIInv
<1>11. CallsKnow'
  <2>1. \A b \in Callers : call'[b].verb = "none"
    BY <1>1, <1>10 DEF InterviewIInv, CallsKnow, NoCall, Calls
  <2> QED
    BY <2>1 DEF CallsKnow
<1>12. InterviewTypeOK'
  BY <1>1, <1>2, <1>7, <1>9, InterviewAssumption DEF InterviewTypeOK, Calls
<1>13. ConversationReadable'
  <2>1. Seqs' = 1..Cardinality(Seqs')
    <3>1. Cardinality(1..1) = 1
      <4>1. 1..1 = {1}
        OBVIOUS
      <4> QED
        BY <4>1, FS_Singleton
    <3>2. Seqs' = 1..1
      BY <1>4
    <3> QED
      BY <3>1, <3>2
  <2>2. \A s \in Seqs' : s % 2 # 0
    BY <1>4
  <2>3. Question((1 - 1) \div 2) = 0
    BY InterviewAssumption DEF Question
  <2> QED
    BY <1>1, <1>2, <2>1, <2>2, <2>3 DEF ConversationReadable
<1>14. CompletedHasInsights'
  BY <1>1 DEF CompletedHasInsights
<1> QED
  BY <1>1, <1>2, <1>3, <1>6, <1>7, <1>8, <1>9, <1>11, <1>12, <1>13, <1>14
  DEF InterviewIInv, InterviewInv

LEMMA CompletePreserves ==
    ASSUME InterviewIInv, NEW c \in Callers, complete_commit(c)
    PROVE  InterviewIInv'
<1> DEFINE batch == Cardinality(Batches) + 1
           new == [batch |-> batch, seen |-> call[c].seen]
<1>1. /\ call[c].verb = "complete" /\ batch <= MaxCompletes
      /\ interview' = IF call[c].status = "active" THEN "completed" ELSE interview
      /\ insights' = insights \union {new}
      /\ call' = [call EXCEPT ![c] = NoCall]
      /\ dialogue' = dialogue
  BY DEF complete_commit
<1>2. /\ interview # "absent" /\ call[c].status # "absent"
      /\ call[c].status = "completed" => interview = "completed"
      /\ call[c].status \in {"absent", "active", "completed"}
      /\ call[c].seen \in 1..Cardinality(dialogue)
  BY <1>1 DEF InterviewIInv, CallsKnow, Calls
<1>3. interview' = "completed"
  BY <1>1, <1>2
<1>4. batch \in 1..MaxCompletes
  <2>1. Batches \in SUBSET (1..MaxCompletes)
    BY DEF Batches, InterviewIInv, InterviewInv, InterviewTypeOK
  <2>2. Cardinality(Batches) \in Nat
    <3>1. MaxCompletes \in Int
      BY InterviewAssumption
    <3>2. IsFiniteSet(1..MaxCompletes)
      BY <3>1, FS_Interval
    <3>3. IsFiniteSet(Batches)
      BY <2>1, <3>2, FS_Subset
    <3> QED
      BY <3>3, FS_CardinalityType
  <2> QED
    BY <1>1, <2>2, InterviewAssumption
<1>5. new.batch \in 1..MaxCompletes /\ new.seen \in 1..Cardinality(dialogue)
  BY <1>2, <1>4
<1> HIDE DEF new, batch
<1>6. new.seen \in MsgRows
  <2>1. Cardinality(dialogue) \in MsgRows
    BY <1>2 DEF InterviewIInv
  <2> QED
    BY <1>5, <2>1, InterviewAssumption DEF MsgRows
<1>7. /\ AskedSoFar' = AskedSoFar /\ Seqs' = Seqs
      /\ \A s, sender : OfSeq(s, sender)' = OfSeq(s, sender)
  BY <1>1 DEF AskedSoFar, Seqs, OfSeq
<1>8. \E k \in Nat : NumberedTo(k)'
  BY <1>1, <1>7 DEF InterviewIInv, NumberedTo
<1>9. ConversationReadable' /\ AnswersFollowed'
  BY <1>1, <1>7 DEF InterviewIInv, InterviewInv, ConversationReadable, AnswersFollowed
<1>10. call' \in [Callers -> Calls]
  BY <1>1 DEF InterviewIInv, Calls, NoCall
<1>11. \A b \in Callers : call'[b] = IF b = c THEN NoCall ELSE call[b]
  BY <1>1 DEF InterviewIInv
<1>12. CallsKnow'
  BY <1>1, <1>2, <1>3, <1>7, <1>11 DEF InterviewIInv, CallsKnow, NoCall
<1>13. CompletedHasInsights'
  BY <1>1, <1>3, <1>5 DEF InterviewIInv, InterviewInv, CompletedHasInsights
<1>14. InterviewTypeOK'
  BY <1>1, <1>3, <1>5, <1>6, <1>10 DEF InterviewIInv, InterviewInv, InterviewTypeOK, Calls
<1> QED
  BY <1>1, <1>2, <1>3, <1>8, <1>9, <1>10, <1>12, <1>13, <1>14 DEF InterviewIInv, InterviewInv

LEMMA InterviewIInvInit == InterviewInit => InterviewIInv
<1> SUFFICES ASSUME InterviewInit PROVE InterviewIInv
  OBVIOUS
<1>1. IsFiniteSet(dialogue) /\ Cardinality(dialogue) = 0
  BY FS_EmptySet DEF InterviewInit
<1>2. Seqs = {} /\ 1..0 = {}
  BY DEF InterviewInit, Seqs
<1>3. NumberedTo(0)
  BY <1>1, <1>2 DEF NumberedTo, InterviewInit
<1>4. AnswersFollowed
  <2>1. \A s, sender : OfSeq(s, sender) = Cardinality({})
    BY DEF OfSeq, InterviewInit
  <2> QED
    BY <2>1 DEF AnswersFollowed
<1>5. ConversationReadable
  BY <1>3, NumbersCounted, <1>2 DEF ConversationReadable, InterviewInit
<1> QED
  BY <1>1, <1>3, <1>4, <1>5
  DEF InterviewInit, InterviewIInv, InterviewInv, InterviewTypeOK, CompletedHasInsights,
      CallsKnow, Calls, NoCall

LEMMA InterviewIInvNext == InterviewIInv /\ [InterviewNext]_interviewVars => InterviewIInv'
<1> SUFFICES ASSUME InterviewIInv, [InterviewNext]_interviewVars PROVE InterviewIInv'
  OBVIOUS
<1>1. CASE UNCHANGED interviewVars
  <2>1. UNCHANGED <<interview, dialogue, insights, call>>
    BY <1>1 DEF interviewVars
  <2>2. CallsKnow'
    BY <2>1 DEF InterviewIInv, CallsKnow, Seqs
  <2> QED
    BY <2>1, <2>2, CallStepPreserves DEF InterviewIInv
<1> QED
  BY <1>1, CreateSessionPreserves, SubmitAnswerPreserves, CompleteSessionPreserves,
     CreateCommitPreserves, AnswerPreserves, CompletePreserves, CallAbortPreserves
  DEF InterviewNext

\* Every reachable state of an interview satisfies the inductive invariant, whatever
\* answers and completions overlap.
THEOREM InterviewInvariant == InterviewSpec => []InterviewIInv
  BY InterviewIInvInit, InterviewIInvNext, PTL DEF InterviewSpec

\* The rows of an interview read as a conversation and its insights fit it, for any number
\* of callers, any script and any bounds.
THEOREM InterviewInvHolds == InterviewSpec => []InterviewInv
<1>1. InterviewIInv => InterviewInv
  BY DEF InterviewIInv
<1> QED
  BY <1>1, InterviewInvariant, PTL

-----------------------------------------------------------------------------
(* The company brain (services/knowledge/)                                 *)

Writes == [id: Docs, ref: Refs, version: 1..MaxVersion, embedded: BOOLEAN]
Requests == [phase: {"idle", "next", "read", "found", "flushed"}, todo: SUBSET Refs,
             ref: Refs \union {"none"}, version: Versions,
             found: SUBSET [id: Docs, version: Versions], doc: 0..MaxDocs, wrote: SUBSET Writes]

\* The request works on one source_ref.
Working(x) == indexer[x].phase \in {"read", "found", "flushed"}

\* What the request has read or flushed still holds of the rows, whatever the others have
\* committed since: a document keeps its source_ref.
ReadStillTrue(x) ==
    /\ Working(x) => indexer[x].ref \in Refs /\ indexer[x].version \in 1..MaxVersion
    /\ indexer[x].phase \in {"found", "flushed"} =>
          \A f \in indexer[x].found : doc[f.id].ref = indexer[x].ref
    /\ IF indexer[x].phase = "flushed"
       THEN /\ indexer[x].doc \in Docs
            /\ indexer[x].found = {} => doc[indexer[x].doc] = NoDoc
            /\ indexer[x].found # {} => doc[indexer[x].doc].ref = indexer[x].ref
       ELSE indexer[x].doc = 0
    /\ \A w \in indexer[x].wrote : doc[w.id] = NoDoc \/ doc[w.id].ref = w.ref

\* A transaction writes each source_ref and each row once.
WritesOnce(x) ==
    /\ \A w \in indexer[x].wrote :
          /\ w.id # indexer[x].doc
          /\ w.ref \notin indexer[x].todo
          /\ Working(x) => w.ref # indexer[x].ref
    /\ Working(x) => indexer[x].ref \notin indexer[x].todo
    /\ \A v, w \in indexer[x].wrote : v.id = w.id \/ v.ref = w.ref => v = w

\* Two transactions write no row in common.
RowsLocked == \A x, y \in Indexers : x # y => WrittenBy(x) \intersect WrittenBy(y) \subseteq {0}

\* The request has found no document of r and may add one, or has added one already.
Adds(x, r) ==
    \/ indexer[x].phase \in {"found", "flushed"} /\ indexer[x].ref = r /\ indexer[x].found = {}
    \/ \E w \in indexer[x].wrote : w.ref = r /\ doc[w.id] = NoDoc

Adders(r) == {x \in Indexers : Adds(x, r)}

\* The documents there are and the ones that may still be added.
RacesBounded ==
    \A r \in Refs : Cardinality(DocsOf(r)) + Cardinality(Adders(r)) <= Cardinality(Indexers)

KnowledgeIInv ==
    /\ KnowledgeTypeOK
    /\ indexer \in [Indexers -> Requests]
    /\ \A x \in Indexers : ReadStillTrue(x) /\ WritesOnce(x)
    /\ RowsLocked
    /\ ChunksMatchDocument
    /\ RacesBounded

-----------------------------------------------------------------------------
LEMMA CountsAreNat ==
    ASSUME NEW r
    PROVE  /\ IsFiniteSet(DocsOf(r)) /\ Cardinality(DocsOf(r)) \in Nat
           /\ IsFiniteSet(Adders(r)) /\ Cardinality(Adders(r)) \in Nat
           /\ Cardinality(Indexers) \in Nat
           /\ Cardinality(Adders(r)) <= Cardinality(Indexers)
<1>1. IsFiniteSet(Docs)
  <2>1. MaxDocs \in Int
    BY KnowledgeAssumption
  <2> QED
    BY <2>1, FS_Interval DEF Docs
<1>2. DocsOf(r) \in SUBSET Docs /\ Adders(r) \in SUBSET Indexers
  BY DEF DocsOf, Adders
<1>3. IsFiniteSet(DocsOf(r))
  BY <1>1, <1>2, FS_Subset
<1>4. IsFiniteSet(Adders(r)) /\ Cardinality(Adders(r)) <= Cardinality(Indexers)
  BY <1>2, FS_Subset, KnowledgeAssumption
<1> QED
  BY <1>3, <1>4, FS_CardinalityType, KnowledgeAssumption

\* A row has a source_ref once it is there.
LEMMA RowsOfRefs ==
    ASSUME KnowledgeIInv, NEW d \in Docs
    PROVE  /\ doc[d] # NoDoc => doc[d].ref \in Refs
           /\ doc[d] = NoDoc => doc[d].ref \notin Refs
           /\ doc[d].version \in Versions
  BY KnowledgeAssumption DEF KnowledgeIInv, KnowledgeTypeOK, NoDoc, Refs, Versions

\* Fewer adders, or no document yet: the bound stays.
LEMMA BoundStays ==
    ASSUME NEW r \in Refs, RacesBounded,
           DocsOf(r)' = DocsOf(r),
           Adders(r)' \subseteq Adders(r) \/ DocsOf(r) = {}
    PROVE  Cardinality(DocsOf(r)') + Cardinality(Adders(r)') <= Cardinality(Indexers)
<1>1. Cardinality(DocsOf(r)) + Cardinality(Adders(r)) <= Cardinality(Indexers)
  BY DEF RacesBounded
<1>2. Adders(r)' \in SUBSET Indexers
  BY DEF Adders
<1>3. /\ Cardinality(Adders(r)') \in Nat
      /\ Cardinality(Adders(r)') <= Cardinality(Indexers)
  BY <1>2, FS_Subset, FS_CardinalityType, KnowledgeAssumption
<1>4. CASE DocsOf(r) = {}
  <2>1. Cardinality(DocsOf(r)') = 0
    BY <1>4, FS_EmptySet
  <2> QED
    BY <1>3, <2>1, CountsAreNat
<1>5. CASE Adders(r)' \subseteq Adders(r)
  <2>1. Adders(r)' \in SUBSET Adders(r)
    BY <1>5
  <2>2. Cardinality(Adders(r)') <= Cardinality(Adders(r))
    BY <2>1, CountsAreNat, FS_Subset
  <2> QED
    BY <1>1, <1>3, <2>2, CountsAreNat
<1> QED
  BY <1>4, <1>5

\* A step of one request that writes no row keeps the invariant when what it knows and has
\* claimed afterwards is sound, and when it may add a document only where there is none.
LEMMA RequestStep ==
    ASSUME KnowledgeIInv, NEW x \in Indexers,
           indexer' \in [Indexers -> Requests],
           \A y \in Indexers \ {x} : indexer'[y] = indexer[y],
           UNCHANGED <<artifact, doc, chunks>>,
           ReadStillTrue(x)', WritesOnce(x)',
           \A d \in WrittenBy(x)' : d \in WrittenBy(x) \/ d = 0 \/ ~LockedFor(x, d),
           \A r \in Refs : Adds(x, r)' => Adds(x, r) \/ DocsOf(r) = {}
    PROVE  KnowledgeIInv'
<1>1. KnowledgeTypeOK'
  BY DEF KnowledgeIInv, KnowledgeTypeOK, Requests
<1>2. \A y \in Indexers \ {x} : ReadStillTrue(y)' /\ WritesOnce(y)'
  BY DEF KnowledgeIInv, ReadStillTrue, WritesOnce, Working
<1>3. RowsLocked'
  <2>1. \A y \in Indexers \ {x} : WrittenBy(y)' = WrittenBy(y)
    BY DEF WrittenBy
  <2>2. \A y \in Indexers \ {x} : WrittenBy(x)' \intersect WrittenBy(y) \subseteq {0}
    BY DEF KnowledgeIInv, RowsLocked, LockedFor
  <2> QED
    BY <2>1, <2>2 DEF KnowledgeIInv, RowsLocked
<1>4. ChunksMatchDocument'
  BY DEF KnowledgeIInv, ChunksMatchDocument
<1>5. RacesBounded'
  <2> SUFFICES ASSUME NEW r \in Refs
               PROVE  Cardinality(DocsOf(r)') + Cardinality(Adders(r)') <= Cardinality(Indexers)
    BY DEF RacesBounded
  <2>1. DocsOf(r)' = DocsOf(r)
    BY DEF DocsOf
  <2>2. \A y \in Indexers \ {x} : Adds(y, r)' <=> Adds(y, r)
    BY DEF Adds
  <2>3. Adders(r)' \subseteq Adders(r) \/ DocsOf(r) = {}
    BY <2>2 DEF Adders
  <2> QED
    BY <2>1, <2>3, BoundStays DEF KnowledgeIInv
<1> QED
  BY <1>1, <1>2, <1>3, <1>4, <1>5 DEF KnowledgeIInv

-----------------------------------------------------------------------------
LEMMA InitKnowledge == KnowledgeInit => KnowledgeIInv
<1> SUFFICES ASSUME KnowledgeInit
             PROVE  KnowledgeIInv
  OBVIOUS
<1>1. Idle \in Requests
  BY KnowledgeAssumption DEF Idle, Requests, Versions
<1>2. /\ artifact \in [Sources -> Versions]
      /\ doc = [d \in Docs |-> NoDoc] /\ chunks = [d \in Docs |-> {}]
      /\ indexer \in [Indexers -> Requests]
      /\ \A x \in Indexers : indexer[x] = Idle
  BY <1>1, KnowledgeAssumption DEF KnowledgeInit, Versions
<1>3. KnowledgeTypeOK
  BY <1>2 DEF KnowledgeTypeOK, Idle
<1>4. \A x \in Indexers : ReadStillTrue(x) /\ WritesOnce(x)
  BY <1>2 DEF ReadStillTrue, WritesOnce, Working, Idle
<1>5. \A x \in Indexers : WrittenBy(x) = {0}
  BY <1>2 DEF WrittenBy, Idle
<1>6. RowsLocked
  BY <1>5 DEF RowsLocked
<1>7. ChunksMatchDocument
  BY <1>2 DEF ChunksMatchDocument
<1>8. RacesBounded
  <2> SUFFICES ASSUME NEW r \in Refs
               PROVE  Cardinality(DocsOf(r)) + Cardinality(Adders(r)) <= Cardinality(Indexers)
    BY DEF RacesBounded
  <2>1. DocsOf(r) = {}
    BY <1>2, KnowledgeAssumption DEF DocsOf, NoDoc, Refs
  <2> QED
    BY <2>1, FS_EmptySet, CountsAreNat
<1> QED
  BY <1>2, <1>3, <1>4, <1>6, <1>7, <1>8 DEF KnowledgeIInv

LEMMA ArtifactPreserves ==
    ASSUME KnowledgeIInv, NEW s \in Sources, artifact_changes(s)
    PROVE  KnowledgeIInv'
<1>1. KnowledgeTypeOK'
  BY KnowledgeAssumption DEF KnowledgeIInv, KnowledgeTypeOK, artifact_changes, Versions
<1>2. UNCHANGED <<doc, chunks, indexer>>
  BY DEF artifact_changes
<1>3. ChunksMatchDocument' /\ RowsLocked'
  BY <1>2 DEF KnowledgeIInv, ChunksMatchDocument, RowsLocked, WrittenBy
<1>4. \A x \in Indexers : ReadStillTrue(x)' /\ WritesOnce(x)'
  BY <1>2 DEF KnowledgeIInv, ReadStillTrue, WritesOnce, Working
<1>5. RacesBounded'
  <2>1. \A r : DocsOf(r)' = DocsOf(r) /\ Adders(r)' = Adders(r)
    BY <1>2 DEF DocsOf, Adders, Adds
  <2> QED
    BY <2>1 DEF KnowledgeIInv, RacesBounded
<1> QED
  BY <1>1, <1>2, <1>3, <1>4, <1>5 DEF KnowledgeIInv

\* A request that begins, or that ends without writing, claims nothing.
LEMMA IdlePreserves ==
    ASSUME KnowledgeIInv, NEW x \in Indexers, NEW t \in SUBSET Refs,
           UNCHANGED <<artifact, doc, chunks>>,
           \/ indexer' = [indexer EXCEPT ![x] = Idle]
           \/ /\ indexer[x] = Idle
              /\ indexer' = [indexer EXCEPT ![x].phase = "next", ![x].todo = t]
    PROVE  KnowledgeIInv'
<1>1. Idle \in Requests
  BY KnowledgeAssumption DEF Idle, Requests, Versions
<1>2. /\ indexer' \in [Indexers -> Requests]
      /\ \A y \in Indexers \ {x} : indexer'[y] = indexer[y]
      /\ indexer'[x].phase \in {"idle", "next"} /\ indexer'[x].doc = 0 /\ indexer'[x].wrote = {}
  BY <1>1 DEF KnowledgeIInv, Idle, Requests
<1>3. ReadStillTrue(x)' /\ WritesOnce(x)'
  BY <1>2 DEF ReadStillTrue, WritesOnce, Working
<1>4. WrittenBy(x)' = {0}
  BY <1>2 DEF WrittenBy
<1>5. \A r \in Refs : ~Adds(x, r)'
  BY <1>2 DEF Adds
<1> QED
  BY <1>2, <1>3, <1>4, <1>5, RequestStep

LEMMA ReadPreserves ==
    ASSUME KnowledgeIInv, NEW x \in Indexers, NEW ref \in Refs, NEW version \in 1..MaxVersion,
           read_artifact(x, ref, version)
    PROVE  KnowledgeIInv'
<1>1. indexer[x] \in Requests /\ indexer[x].phase = "next" /\ ref \in indexer[x].todo
  BY DEF KnowledgeIInv, read_artifact
<1>2. /\ indexer' \in [Indexers -> Requests]
      /\ \A y \in Indexers \ {x} : indexer'[y] = indexer[y]
      /\ indexer'[x].phase = "read" /\ indexer'[x].ref = ref /\ indexer'[x].version = version
      /\ indexer'[x].todo = indexer[x].todo \ {ref}
      /\ indexer'[x].doc = indexer[x].doc /\ indexer'[x].wrote = indexer[x].wrote
      /\ UNCHANGED <<artifact, doc, chunks>>
  BY <1>1, KnowledgeAssumption DEF KnowledgeIInv, read_artifact, Requests, Versions
<1>3. ReadStillTrue(x)' /\ WritesOnce(x)'
  BY <1>1, <1>2 DEF KnowledgeIInv, ReadStillTrue, WritesOnce, Working
<1>4. WrittenBy(x)' = WrittenBy(x)
  BY <1>2 DEF WrittenBy
<1>5. \A r \in Refs : Adds(x, r)' => Adds(x, r)
  BY <1>2 DEF Adds
<1> QED
  BY <1>2, <1>3, <1>4, <1>5, RequestStep

LEMMA SkipPreserves ==
    ASSUME KnowledgeIInv, NEW x \in Indexers, NEW ref \in Sources, skip_artifact(x, ref)
    PROVE  KnowledgeIInv'
<1>1. indexer[x] \in Requests /\ indexer[x].phase = "next"
  BY DEF KnowledgeIInv, skip_artifact
<1>2. /\ indexer' \in [Indexers -> Requests]
      /\ \A y \in Indexers \ {x} : indexer'[y] = indexer[y]
      /\ indexer'[x].phase = "next" /\ indexer'[x].todo = indexer[x].todo \ {ref}
      /\ indexer'[x].doc = indexer[x].doc /\ indexer'[x].wrote = indexer[x].wrote
      /\ UNCHANGED <<artifact, doc, chunks>>
  BY <1>1 DEF KnowledgeIInv, skip_artifact, Requests
<1>3. ReadStillTrue(x)' /\ WritesOnce(x)'
  BY <1>1, <1>2 DEF KnowledgeIInv, ReadStillTrue, WritesOnce, Working
<1>4. WrittenBy(x)' = WrittenBy(x)
  BY <1>2 DEF WrittenBy
<1>5. \A r \in Refs : Adds(x, r)' => Adds(x, r)
  BY <1>2 DEF Adds
<1> QED
  BY <1>2, <1>3, <1>4, <1>5, RequestStep

LEMMA LookupPreserves ==
    ASSUME KnowledgeIInv, NEW x \in Indexers, lookup(x)
    PROVE  KnowledgeIInv'
<1> DEFINE rows == {[id |-> d, version |-> doc[d].version] : d \in DocsOf(indexer[x].ref)}
<1>1. indexer[x] \in Requests /\ indexer[x].phase = "read"
  BY DEF KnowledgeIInv, lookup
<1>2. rows \in SUBSET [id: Docs, version: Versions]
  BY RowsOfRefs DEF DocsOf
<1>3. /\ \A f \in rows : doc[f.id].ref = indexer[x].ref
      /\ rows = {} => DocsOf(indexer[x].ref) = {}
  <2>1. \A f \in rows : \E d \in DocsOf(indexer[x].ref) : f = [id |-> d, version |-> doc[d].version]
    OBVIOUS
  <2>2. \A f \in rows : f.id \in DocsOf(indexer[x].ref)
    BY <2>1
  <2>3. \A d \in DocsOf(indexer[x].ref) : [id |-> d, version |-> doc[d].version] \in rows
    OBVIOUS
  <2> HIDE DEF rows
  <2> QED
    BY <2>2, <2>3 DEF DocsOf
<1>4. /\ indexer' = [indexer EXCEPT ![x].phase = "found", ![x].found = rows]
      /\ UNCHANGED <<artifact, doc, chunks>>
  BY DEF lookup
<1> HIDE DEF rows
<1>5. /\ indexer' \in [Indexers -> Requests]
      /\ \A y \in Indexers \ {x} : indexer'[y] = indexer[y]
      /\ indexer'[x].phase = "found" /\ indexer'[x].found = rows
      /\ indexer'[x].todo = indexer[x].todo
      /\ indexer'[x].ref = indexer[x].ref /\ indexer'[x].version = indexer[x].version
      /\ indexer'[x].doc = indexer[x].doc /\ indexer'[x].wrote = indexer[x].wrote
  BY <1>1, <1>2, <1>4 DEF KnowledgeIInv, Requests
<1>6. ReadStillTrue(x)' /\ WritesOnce(x)'
  BY <1>1, <1>3, <1>4, <1>5 DEF KnowledgeIInv, ReadStillTrue, WritesOnce, Working
<1>7. WrittenBy(x)' = WrittenBy(x)
  BY <1>5 DEF WrittenBy
<1>8. \A r \in Refs : Adds(x, r)' => Adds(x, r) \/ DocsOf(r) = {}
  BY <1>3, <1>4, <1>5 DEF Adds
<1> QED
  BY <1>4, <1>5, <1>6, <1>7, <1>8, RequestStep

LEMMA UnchangedPreserves ==
    ASSUME KnowledgeIInv, NEW x \in Indexers, unchanged(x)
    PROVE  KnowledgeIInv'
<1>1. indexer[x] \in Requests /\ indexer[x].phase = "found"
  BY DEF KnowledgeIInv, unchanged
<1>2. /\ indexer' \in [Indexers -> Requests]
      /\ \A y \in Indexers \ {x} : indexer'[y] = indexer[y]
      /\ indexer'[x].phase = "next" /\ indexer'[x].todo = indexer[x].todo
      /\ indexer'[x].doc = indexer[x].doc /\ indexer'[x].wrote = indexer[x].wrote
      /\ UNCHANGED <<artifact, doc, chunks>>
  BY <1>1 DEF KnowledgeIInv, unchanged, Requests
<1>3. ReadStillTrue(x)' /\ WritesOnce(x)'
  BY <1>1, <1>2 DEF KnowledgeIInv, ReadStillTrue, WritesOnce, Working
<1>4. WrittenBy(x)' = WrittenBy(x)
  BY <1>2 DEF WrittenBy
<1>5. \A r \in Refs : Adds(x, r)' => Adds(x, r)
  BY <1>2 DEF Adds
<1> QED
  BY <1>2, <1>3, <1>4, <1>5, RequestStep

\* An insert takes a row that is not there, an update the one document that was found.
LEMMA FlushPreserves ==
    ASSUME KnowledgeIInv, NEW x \in Indexers, NEW d \in Docs, flush_document(x, d)
    PROVE  KnowledgeIInv'
<1>1. /\ indexer[x] \in Requests /\ indexer[x].phase = "found"
      /\ ~LockedFor(x, d) /\ \A w \in indexer[x].wrote : w.id # d
      /\ indexer' = [indexer EXCEPT ![x].phase = "flushed", ![x].doc = d]
      /\ UNCHANGED <<artifact, doc, chunks>>
  BY DEF KnowledgeIInv, flush_document
<1>2. /\ indexer[x].found = {} => doc[d] = NoDoc
      /\ indexer[x].found # {} => \E f \in indexer[x].found : f.id = d
  BY DEF flush_document
<1>3. /\ indexer' \in [Indexers -> Requests]
      /\ \A y \in Indexers \ {x} : indexer'[y] = indexer[y]
      /\ indexer'[x].phase = "flushed" /\ indexer'[x].doc = d
      /\ indexer'[x].todo = indexer[x].todo
      /\ indexer'[x].ref = indexer[x].ref /\ indexer'[x].version = indexer[x].version
      /\ indexer'[x].found = indexer[x].found /\ indexer'[x].wrote = indexer[x].wrote
  <2> DEFINE j == [indexer[x] EXCEPT !.phase = "flushed", !.doc = d]
  <2>1. d \in 0..MaxDocs
    BY KnowledgeAssumption DEF Docs
  <2>2. j \in Requests
    BY <1>1, <2>1 DEF Requests
  <2>3. indexer' = [indexer EXCEPT ![x] = j]
    BY <1>1 DEF KnowledgeIInv
  <2> QED
    BY <1>1, <2>2, <2>3 DEF KnowledgeIInv, Requests
<1>4. ReadStillTrue(x)' /\ WritesOnce(x)'
  <2>1. ReadStillTrue(x)'
    BY <1>1, <1>2, <1>3 DEF KnowledgeIInv, ReadStillTrue, Working
  <2>2. WritesOnce(x)'
    BY <1>1, <1>3 DEF KnowledgeIInv, WritesOnce, Working
  <2> QED
    BY <2>1, <2>2
<1>5. \A e \in WrittenBy(x)' : e \in WrittenBy(x) \/ e = d
  BY <1>3 DEF WrittenBy
<1>6. \A r \in Refs : Adds(x, r)' => Adds(x, r)
  BY <1>1, <1>3 DEF Adds
<1> QED
  BY <1>1, <1>3, <1>4, <1>5, <1>6, RequestStep

LEMMA RebuildPreserves ==
    ASSUME KnowledgeIInv, NEW x \in Indexers, NEW embedded \in BOOLEAN, rebuild_chunks(x, embedded)
    PROVE  KnowledgeIInv'
<1> DEFINE i == indexer[x]
           new == [id |-> i.doc, ref |-> i.ref, version |-> i.version, embedded |-> embedded]
<1>1. /\ i \in Requests /\ i.phase = "flushed"
      /\ indexer' = [indexer EXCEPT ![x].phase = "next", ![x].doc = 0, ![x].wrote = @ \union {new}]
      /\ UNCHANGED <<artifact, doc, chunks>>
  BY DEF KnowledgeIInv, rebuild_chunks
<1>2. ReadStillTrue(x) /\ WritesOnce(x)
  BY DEF KnowledgeIInv
<1>3. i.ref \in Refs /\ i.version \in 1..MaxVersion /\ i.doc \in Docs
  BY <1>1, <1>2 DEF ReadStillTrue, Working
<1>4. new \in Writes /\ new.id = i.doc /\ new.ref = i.ref
  BY <1>3 DEF Writes
<1>5. /\ \A w \in i.wrote : w.id # new.id /\ w.ref # new.ref
      /\ new.ref \notin i.todo
  BY <1>1, <1>2 DEF WritesOnce, Working
<1>6. /\ i.found = {} => doc[new.id] = NoDoc
      /\ i.found # {} => doc[new.id].ref = new.ref
  BY <1>1, <1>2 DEF ReadStillTrue
<1> HIDE DEF new
<1>7. /\ indexer' \in [Indexers -> Requests]
      /\ \A y \in Indexers \ {x} : indexer'[y] = indexer[y]
      /\ indexer'[x].phase = "next" /\ indexer'[x].todo = i.todo /\ indexer'[x].doc = 0
      /\ indexer'[x].wrote = i.wrote \union {new}
  <2> DEFINE j == [i EXCEPT !.phase = "next", !.doc = 0, !.wrote = @ \union {new}]
  <2>1. 0 \in 0..MaxDocs
    BY KnowledgeAssumption
  <2>2. j \in Requests
    BY <1>1, <1>4, <2>1 DEF Requests
  <2>3. indexer' = [indexer EXCEPT ![x] = j]
    BY <1>1 DEF KnowledgeIInv
  <2> QED
    BY <1>1, <2>2, <2>3 DEF KnowledgeIInv, Requests
<1>8. ReadStillTrue(x)'
  BY <1>1, <1>2, <1>6, <1>7 DEF ReadStillTrue, Working
<1>9. WritesOnce(x)'
  <2>1. \A w \in indexer'[x].wrote : w.id # 0
    BY <1>1, <1>4, <1>7, KnowledgeAssumption DEF Requests, Writes, Docs
  <2>2. \A w \in indexer'[x].wrote : w.ref \notin indexer'[x].todo
    BY <1>2, <1>5, <1>7 DEF WritesOnce
  <2>3. \A v, w \in indexer'[x].wrote : v.id = w.id \/ v.ref = w.ref => v = w
    BY <1>2, <1>5, <1>7 DEF WritesOnce
  <2> QED
    BY <1>7, <2>1, <2>2, <2>3 DEF WritesOnce, Working
<1>10. \A d \in WrittenBy(x)' : d \in WrittenBy(x) \/ d = 0
  BY <1>4, <1>7 DEF WrittenBy
<1>11. \A r \in Refs : Adds(x, r)' => Adds(x, r)
  <2> SUFFICES ASSUME NEW r \in Refs, Adds(x, r)', ~\E w \in i.wrote : w.ref = r /\ doc[w.id] = NoDoc
               PROVE  i.ref = r /\ i.found = {}
    BY <1>1 DEF Adds
  <2>1. new.ref = r /\ doc[new.id] = NoDoc
    BY <1>1, <1>7 DEF Adds
  <2>2. doc[new.id].ref \notin Refs
    BY <1>3, <1>4, <2>1, RowsOfRefs
  <2> QED
    BY <1>4, <1>6, <2>1, <2>2
<1> QED
  BY <1>1, <1>7, <1>8, <1>9, <1>10, <1>11, RequestStep

-----------------------------------------------------------------------------
\* What the commit of a request leaves in a row: the one entry it has of it, or the row.
LEMMA CommitRow ==
    ASSUME KnowledgeIInv, NEW x \in Indexers, indexer_commit(x), NEW d \in Docs
    PROVE  /\ \A w \in indexer[x].wrote : w.id = d =>
                /\ doc'[d] = [ref |-> w.ref, version |-> w.version]
                /\ chunks'[d] = Pieces(w)
           /\ d \notin {w.id : w \in indexer[x].wrote} =>
                doc'[d] = doc[d] /\ chunks'[d] = chunks[d]
<1> DEFINE mine == {w \in indexer[x].wrote : w.id = d}
<1>1. doc'[d] = DocAfter(x, d) /\ chunks'[d] = ChunksAfter(x, d)
  BY DEF indexer_commit
<1>2. ASSUME NEW w \in indexer[x].wrote, w.id = d
      PROVE  /\ doc'[d] = [ref |-> w.ref, version |-> w.version]
             /\ chunks'[d] = Pieces(w)
  <2>1. mine = {w}
    BY <1>2 DEF KnowledgeIInv, WritesOnce
  <2>2. (CHOOSE v \in mine : TRUE) = w
    BY <2>1
  <2>3. DocAfter(x, d) = [ref |-> w.ref, version |-> w.version]
    BY <2>1, <2>2 DEF DocAfter
  <2>4. ChunksAfter(x, d) = Pieces(w)
    BY <2>1 DEF ChunksAfter
  <2> QED
    BY <1>1, <2>3, <2>4
<1>3. ASSUME d \notin {w.id : w \in indexer[x].wrote}
      PROVE  doc'[d] = doc[d] /\ chunks'[d] = chunks[d]
  <2>1. mine = {}
    BY <1>3
  <2> QED
    BY <1>1, <2>1 DEF DocAfter, ChunksAfter
<1> QED
  BY <1>2, <1>3

\* A commit adds at most one document of a source_ref, and then one race less is open.
LEMMA CommitBounded ==
    ASSUME KnowledgeIInv, NEW x \in Indexers, indexer_commit(x), NEW r \in Refs,
           \A y \in Indexers \ {x} : Adds(y, r)' <=> Adds(y, r),
           ~Adds(x, r)'
    PROVE  Cardinality(DocsOf(r)') + Cardinality(Adders(r)') <= Cardinality(Indexers)
<1> DEFINE inserts == {w \in indexer[x].wrote : w.ref = r /\ doc[w.id] = NoDoc}
<1>1. indexer[x] \in Requests
  BY DEF KnowledgeIInv
<1>2. Adders(r)' = Adders(r) \ {x}
  BY DEF Adders
<1>3. \A w \in indexer[x].wrote : w.id \in Docs /\ doc'[w.id].ref = w.ref
  <2> SUFFICES ASSUME NEW w \in indexer[x].wrote
               PROVE  w.id \in Docs /\ doc'[w.id].ref = w.ref
    OBVIOUS
  <2>1. w.id \in Docs
    BY <1>1 DEF Requests, Writes
  <2>2. doc'[w.id] = [ref |-> w.ref, version |-> w.version]
    BY <2>1, CommitRow
  <2> QED
    BY <2>1, <2>2
<1>4. \A d \in Docs : d \notin {w.id : w \in indexer[x].wrote} => doc'[d] = doc[d]
  BY CommitRow
<1>5. \A w \in indexer[x].wrote : doc[w.id] = NoDoc \/ doc[w.id].ref = w.ref
  BY DEF KnowledgeIInv, ReadStillTrue
<1>6. \A w \in indexer[x].wrote : doc[w.id] = NoDoc => w.id \notin DocsOf(r)
  BY <1>3, RowsOfRefs DEF DocsOf
<1>7. CASE inserts = {}
  <2>1. DocsOf(r)' = DocsOf(r)
    <3>1. ASSUME NEW d \in Docs PROVE doc'[d].ref = r <=> doc[d].ref = r
      BY <1>3, <1>4, <1>5, <1>6, <1>7 DEF DocsOf
    <3> QED
      BY <3>1 DEF DocsOf
  <2>2. Adders(r)' \subseteq Adders(r)
    BY <1>2
  <2> QED
    BY <2>1, <2>2, BoundStays DEF KnowledgeIInv
<1>8. CASE inserts # {}
  <2>1. PICK w \in indexer[x].wrote : w.ref = r /\ doc[w.id] = NoDoc
    BY <1>8
  <2>2. \A v \in indexer[x].wrote : v.ref = r => v = w
    BY <2>1 DEF KnowledgeIInv, WritesOnce
  <2>3. DocsOf(r)' = DocsOf(r) \union {w.id}
    <3>1. ASSUME NEW d \in Docs PROVE doc'[d].ref = r <=> doc[d].ref = r \/ d = w.id
      BY <1>3, <1>4, <1>5, <1>6, <2>1, <2>2 DEF DocsOf
    <3> QED
      BY <1>3, <3>1 DEF DocsOf
  <2>4. Cardinality(DocsOf(r)') = Cardinality(DocsOf(r)) + 1
    BY <1>6, <2>1, <2>3, CountsAreNat, FS_AddElement
  <2>5. x \in Adders(r)
    BY <2>1 DEF Adders, Adds
  <2>6. Cardinality(Adders(r)') = Cardinality(Adders(r)) - 1
    BY <1>2, <2>5, CountsAreNat, FS_RemoveElement
  <2>7. Cardinality(DocsOf(r)) + Cardinality(Adders(r)) <= Cardinality(Indexers)
    BY DEF KnowledgeIInv, RacesBounded
  <2> QED
    BY <2>4, <2>6, <2>7, CountsAreNat
<1> QED
  BY <1>7, <1>8

LEMMA CommitPreserves ==
    ASSUME KnowledgeIInv, NEW x \in Indexers, indexer_commit(x)
    PROVE  KnowledgeIInv'
<1>1. indexer[x] \in Requests /\ ReadStillTrue(x) /\ WritesOnce(x)
  BY DEF KnowledgeIInv
<1>2. /\ indexer' = [indexer EXCEPT ![x] = Idle] /\ artifact' = artifact
  BY DEF indexer_commit
<1>3. /\ indexer' \in [Indexers -> Requests]
      /\ \A y \in Indexers \ {x} : indexer'[y] = indexer[y]
      /\ indexer'[x] = Idle
  <2>1. Idle \in Requests
    BY KnowledgeAssumption DEF Idle, Requests, Versions
  <2> QED
    BY <1>2, <2>1 DEF KnowledgeIInv
<1>4. \A w \in indexer[x].wrote : /\ w \in Writes /\ w.id \in Docs /\ w.version \in 1..MaxVersion
                                  /\ w.version \in Versions /\ w.embedded \in BOOLEAN /\ w.ref \in Refs
  BY <1>1, KnowledgeAssumption DEF Requests, Writes, Versions
<1>5. KnowledgeTypeOK'
  <2>1. ASSUME NEW d \in Docs
        PROVE  /\ doc'[d] = NoDoc \/ doc'[d] \in [ref: Refs, version: 1..MaxVersion]
               /\ \A c \in chunks'[d] : c.of \in Versions /\ c.embedded \in BOOLEAN
    <3>1. CASE \E w \in indexer[x].wrote : w.id = d
      <4>1. PICK w \in indexer[x].wrote : w.id = d
        BY <3>1
      <4>2. /\ doc'[d] = [ref |-> w.ref, version |-> w.version]
            /\ chunks'[d] = Pieces(w)
        BY <4>1, CommitRow
      <4> QED
        BY <1>4, <4>2 DEF Pieces
    <3>2. CASE d \notin {w.id : w \in indexer[x].wrote}
      BY <3>2, CommitRow DEF KnowledgeIInv, KnowledgeTypeOK
    <3> QED
      BY <3>1, <3>2
  <2> QED
    BY <1>2, <1>3, <2>1 DEF KnowledgeIInv, KnowledgeTypeOK, Requests
<1>6. ChunksMatchDocument'
  <2> SUFFICES ASSUME NEW d \in Docs
               PROVE  {c.of : c \in chunks'[d]} =
                        IF doc'[d] = NoDoc \/ doc'[d].version \in Blank THEN {} ELSE {doc'[d].version}
    BY DEF ChunksMatchDocument
  <2>1. ASSUME NEW w \in indexer[x].wrote, w.id = d
        PROVE  {c.of : c \in chunks'[d]} =
                 IF doc'[d] = NoDoc \/ doc'[d].version \in Blank THEN {} ELSE {doc'[d].version}
    <3>1. /\ doc'[d] = [ref |-> w.ref, version |-> w.version]
          /\ chunks'[d] = Pieces(w)
      BY <2>1, CommitRow
    <3>2. doc'[d] # NoDoc
      BY <1>4, <3>1, KnowledgeAssumption DEF NoDoc, Refs
    <3>3. CASE w.version \in Blank
      <4>1. chunks'[d] = {} /\ doc'[d].version \in Blank
        BY <3>1, <3>3 DEF Pieces
      <4> QED
        BY <4>1
    <3>4. CASE w.version \notin Blank
      <4>1. /\ chunks'[d] = {[of |-> w.version, embedded |-> w.embedded]}
            /\ doc'[d].version = w.version
        BY <3>1, <3>4 DEF Pieces
      <4> QED
        BY <3>2, <3>4, <4>1
    <3> QED
      BY <3>3, <3>4
  <2>2. CASE d \notin {w.id : w \in indexer[x].wrote}
    BY <2>2, CommitRow DEF KnowledgeIInv, ChunksMatchDocument
  <2> QED
    BY <2>1, <2>2
<1>7. \A d \in Docs : doc[d] # NoDoc => doc'[d].ref = doc[d].ref
  <2> SUFFICES ASSUME NEW d \in Docs, doc[d] # NoDoc
               PROVE  doc'[d].ref = doc[d].ref
    OBVIOUS
  <2>1. ASSUME NEW w \in indexer[x].wrote, w.id = d PROVE doc'[d].ref = doc[d].ref
    <3>1. doc[d].ref = w.ref
      BY <1>1, <2>1 DEF ReadStillTrue
    <3>2. doc'[d] = [ref |-> w.ref, version |-> w.version]
      BY <2>1, CommitRow
    <3> QED
      BY <3>1, <3>2
  <2>2. CASE d \notin {w.id : w \in indexer[x].wrote}
    BY <2>2, CommitRow
  <2> QED
    BY <2>1, <2>2
<1>8. \A y \in Indexers \ {x} : /\ \A w \in indexer[y].wrote : w.id \in Docs /\ doc'[w.id] = doc[w.id]
                                /\ indexer[y].doc # 0 => doc'[indexer[y].doc] = doc[indexer[y].doc]
  <2> SUFFICES ASSUME NEW y \in Indexers \ {x}, NEW d \in WrittenBy(y), d \in Docs
               PROVE  doc'[d] = doc[d]
    BY KnowledgeAssumption DEF KnowledgeIInv, WrittenBy, Requests, Writes, Docs
  <2>1. d # 0
    BY KnowledgeAssumption DEF Docs
  <2>2. d \notin WrittenBy(x)
    BY <2>1 DEF KnowledgeIInv, RowsLocked
  <2> QED
    BY <2>2, CommitRow DEF WrittenBy
<1>9. ASSUME NEW y \in Indexers \ {x} PROVE ReadStillTrue(y)' /\ WritesOnce(y)'
  <2>1. ReadStillTrue(y) /\ WritesOnce(y) /\ indexer'[y] = indexer[y] /\ indexer[y] \in Requests
    BY <1>3 DEF KnowledgeIInv
  <2>2. WritesOnce(y)'
    BY <2>1 DEF WritesOnce, Working
  <2>3. indexer[y].phase \in {"found", "flushed"} =>
          \A f \in indexer[y].found : f.id \in Docs /\ doc[f.id] # NoDoc
    BY <2>1, KnowledgeAssumption DEF ReadStillTrue, Working, Requests, NoDoc, Refs
  <2>4. indexer[y].phase \in {"found", "flushed"} =>
          \A f \in indexer[y].found : doc'[f.id].ref = indexer[y].ref
    BY <1>7, <2>1, <2>3 DEF ReadStillTrue
  <2>5. indexer[y].phase = "flushed" => doc'[indexer[y].doc] = doc[indexer[y].doc]
    BY <1>8, <2>1, KnowledgeAssumption DEF ReadStillTrue, Docs
  <2>6. \A w \in indexer[y].wrote : doc'[w.id] = NoDoc \/ doc'[w.id].ref = w.ref
    BY <1>8, <2>1 DEF ReadStillTrue
  <2>7. ReadStillTrue(y)'
    BY <2>1, <2>4, <2>5, <2>6 DEF ReadStillTrue, Working
  <2> QED
    BY <2>2, <2>7
<1>10. ReadStillTrue(x)' /\ WritesOnce(x)'
  BY <1>3 DEF ReadStillTrue, WritesOnce, Working, Idle
<1>11. RowsLocked'
  <2>1. \A y \in Indexers \ {x} : WrittenBy(y)' = WrittenBy(y)
    BY <1>3 DEF WrittenBy
  <2>2. WrittenBy(x)' = {0}
    BY <1>3 DEF WrittenBy, Idle
  <2> QED
    BY <2>1, <2>2 DEF KnowledgeIInv, RowsLocked
<1>12. RacesBounded'
  <2>1. ASSUME NEW r \in Refs, NEW y \in Indexers \ {x} PROVE Adds(y, r)' <=> Adds(y, r)
    BY <1>3, <1>8 DEF Adds
  <2>2. ASSUME NEW r \in Refs PROVE ~Adds(x, r)'
    BY <1>3 DEF Adds, Idle
  <2> QED
    BY <2>1, <2>2, CommitBounded DEF RacesBounded
<1> QED
  BY <1>3, <1>5, <1>6, <1>9, <1>10, <1>11, <1>12 DEF KnowledgeIInv

-----------------------------------------------------------------------------
LEMMA NextKnowledge == KnowledgeIInv /\ [KnowledgeNext]_knowledgeVars => KnowledgeIInv'
<1> SUFFICES ASSUME KnowledgeIInv, [KnowledgeNext]_knowledgeVars
             PROVE  KnowledgeIInv'
  OBVIOUS
<1>1. ASSUME NEW s \in Sources, artifact_changes(s) PROVE KnowledgeIInv'
  BY <1>1, ArtifactPreserves
<1>2. ASSUME NEW x \in Indexers, reindex(x) PROVE KnowledgeIInv'
  <2>1. Sources \in SUBSET Refs
    BY DEF Refs
  <2> QED
    BY <1>2, <2>1, IdlePreserves DEF reindex
<1>3. ASSUME NEW x \in Indexers, NEW ref \in Syntheses, ingest_one(x, ref) PROVE KnowledgeIInv'
  <2>1. {ref} \in SUBSET Refs
    BY DEF Refs
  <2> QED
    BY <1>3, <2>1, IdlePreserves DEF ingest_one
<1>4. ASSUME NEW x \in Indexers, IndexerStep(x) PROVE KnowledgeIInv'
  <2>1. CASE \E ref \in Refs, version \in 1..MaxVersion : read_artifact(x, ref, version)
    BY <2>1, ReadPreserves
  <2>2. CASE \E ref \in Sources : skip_artifact(x, ref)
    BY <2>2, SkipPreserves
  <2>3. CASE lookup(x)
    BY <2>3, LookupPreserves
  <2>4. CASE lookup_fails(x)
    BY <2>4, IdlePreserves DEF lookup_fails
  <2>5. CASE unchanged(x)
    BY <2>5, UnchangedPreserves
  <2>6. CASE \E d \in Docs : flush_document(x, d)
    BY <2>6, FlushPreserves
  <2>7. CASE \E embedded \in BOOLEAN : rebuild_chunks(x, embedded)
    BY <2>7, RebuildPreserves
  <2>8. CASE indexer_commit(x)
    BY <2>8, CommitPreserves
  <2>9. CASE indexer_abort(x)
    BY <2>9, IdlePreserves DEF indexer_abort
  <2> QED
    BY <1>4, <2>1, <2>2, <2>3, <2>4, <2>5, <2>6, <2>7, <2>8, <2>9 DEF IndexerStep
<1>5. CASE UNCHANGED knowledgeVars
  <2>1. UNCHANGED <<artifact, doc, chunks, indexer>>
    BY <1>5 DEF knowledgeVars
  <2>2. \A r : DocsOf(r)' = DocsOf(r) /\ Adders(r)' = Adders(r)
    BY <2>1 DEF DocsOf, Adders, Adds
  <2>3. RacesBounded'
    BY <2>2 DEF KnowledgeIInv, RacesBounded
  <2>4. \A x \in Indexers : ReadStillTrue(x)' /\ WritesOnce(x)'
    BY <2>1 DEF KnowledgeIInv, ReadStillTrue, WritesOnce, Working
  <2>5. KnowledgeTypeOK' /\ ChunksMatchDocument' /\ RowsLocked'
    BY <2>1 DEF KnowledgeIInv, KnowledgeTypeOK, ChunksMatchDocument, RowsLocked, WrittenBy
  <2> QED
    BY <2>1, <2>3, <2>4, <2>5 DEF KnowledgeIInv
<1> QED
  BY <1>1, <1>2, <1>3, <1>4, <1>5 DEF KnowledgeNext

\* The inductive invariant of the company brain (services/knowledge/ingest.py): what an
\* open request has found, flushed and written is still true of the rows, no two of them
\* write one row, and the documents a source_ref has and may still get are no more than
\* the requests.
THEOREM KnowledgeInvariant == KnowledgeSpec => []KnowledgeIInv
<1>1. KnowledgeInit => KnowledgeIInv
  BY InitKnowledge
<1>2. KnowledgeIInv /\ [KnowledgeNext]_knowledgeVars => KnowledgeIInv'
  BY NextKnowledge
<1> QED
  BY <1>1, <1>2, PTL DEF KnowledgeSpec

\* However many sources, syntheses, requests and rows there are: chunks are cut from the
\* content their document has, and a source_ref has no more documents than there are
\* requests that could race for it.
THEOREM KnowledgeInvHolds == KnowledgeSpec => []KnowledgeInv
<1>1. KnowledgeIInv => KnowledgeInv
  <2> SUFFICES ASSUME KnowledgeIInv
               PROVE  DuplicatesBounded
    BY DEF KnowledgeIInv, KnowledgeInv
  <2> SUFFICES ASSUME NEW r \in Refs
               PROVE  Cardinality(DocsOf(r)) <= Cardinality(Indexers)
    BY DEF DuplicatesBounded
  <2>1. Cardinality(DocsOf(r)) + Cardinality(Adders(r)) <= Cardinality(Indexers)
    BY DEF KnowledgeIInv, RacesBounded
  <2> QED
    BY <2>1, CountsAreNat
<1> QED
  BY <1>1, KnowledgeInvariant, PTL

=============================================================================
