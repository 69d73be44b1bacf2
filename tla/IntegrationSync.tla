-------------------------- MODULE IntegrationSync --------------------------
(***************************************************************************)
(* Syncing one company with its providers (services/integrations,          *)
(* workers/integration_tasks.py, routers/integrations.py) and the older    *)
(* QuickBooks task (workers/ingestion_tasks.py).  A sync is one long       *)
(* transaction around calls to the provider; meanwhile other syncs run,    *)
(* and an operator connects and disconnects.  Credentials are never        *)
(* changed but replaced, and ordered by the begin of their transaction.    *)
(***************************************************************************)
EXTENDS Naturals, FiniteSets, FiniteSetsExt

CONSTANTS
    Providers,   \* subset of {"plaid", "quickbooks", "gmail"}
    SyncJobs,    \* transactions open at the same time
    Page,        \* items a provider lists at most (1000 invoices, 100 messages)
    SyncRetries, \* max_retries of the sync task
    Schemas,     \* what databases may admit in raw_records.source_system, each a set of
                 \* providers: with the CHECK of migration 001, or made from the models
    ForeignItems,\* items whose checksum another company has in raw_records already
    MaxFeed,     \* bound: items a provider ever has, numbered from the oldest
    MaxTx        \* bound: transactions that ever begin, numbered as they do

ASSUME SyncAssumption ==
    /\ Providers \subseteq {"plaid", "quickbooks", "gmail"}
    /\ {Page, SyncRetries, MaxFeed, MaxTx} \subseteq Nat
    /\ Schemas \subseteq SUBSET Providers
    /\ ForeignItems \subseteq Nat
    /\ IsFiniteSet(SyncJobs)

VARIABLES
    feed,      \* how many items each provider has
    began,     \* transactions begun so far
    cred,      \* integration_credentials: the active rows, and the cursor in each row
    rawItems,  \* raw_records: the connectors' by provider, and those of the older task
    syncLog,   \* sync_logs: rows by status, and the records_ingested they add up to
    posted,    \* sync_integration messages, by retries they have behind them
    job,       \* the open transactions
    failures,  \* history: sync attempts that failed
    admitted   \* the providers this database admits, chosen once

syncVars == <<feed, began, cred, rawItems, syncLog, posted, job, failures, admitted>>

Books == Providers \union {"legacy"}
Rows == 1..MaxTx
Items == 1..MaxFeed
Phases == {"idle", "started", "prior", "replacing", "replaced", "checked", "stored"}
JobKinds == {"none", "task", "inline", "legacy", "exchange", "disconnect"}
NoCred == 0
NoJob == [kind |-> "none", phase |-> "idle", provider |-> "none", began |-> 0, retries |-> 0,
          prior |-> NoCred, drop |-> NoCred, cursor |-> 0, items |-> {}]

JobRecords ==
    [kind: JobKinds, phase: Phases, provider: Providers \union {"none"}, began: 0..MaxTx,
     retries: 0..SyncRetries, prior: 0..MaxTx, drop: 0..MaxTx, cursor: 0..MaxFeed,
     items: SUBSET Items]

\* Rows exist for transactions that began, statuses are those the code assigns.
SyncTypeOK ==
    /\ began \in 0..MaxTx
    /\ feed \in [Providers -> 0..MaxFeed]
    /\ cred \in [Providers -> [active: SUBSET Rows, cursor: [Rows -> 0..MaxFeed]]]
    /\ \A p \in Providers : cred[p].active \subseteq 1..began
    /\ rawItems \in [Books -> SUBSET Items]
    /\ syncLog \in [Providers -> [running: Nat, completed: Nat, failed: Nat, ingested: Nat]]
    /\ posted \in [Providers -> [0..SyncRetries -> Nat]]
    /\ job \in [SyncJobs -> JobRecords]
    /\ failures \in [Providers -> Nat]

SyncInit ==
    /\ feed = [p \in Providers |-> 0]
    /\ began = 0
    /\ cred = [p \in Providers |-> [active |-> {}, cursor |-> [r \in Rows |-> 0]]]
    /\ rawItems = [b \in Books |-> {}]
    /\ syncLog = [p \in Providers |-> [running |-> 0, completed |-> 0, failed |-> 0,
                                       ingested |-> 0]]
    /\ posted = [p \in Providers |-> [k \in 0..SyncRetries |-> 0]]
    /\ job = [j \in SyncJobs |-> NoJob]
    /\ failures = [p \in Providers |-> 0]
    /\ admitted \in Schemas

\* _active_credential: the newest active row.
ActiveCredential(p) == IF cred[p].active = {} THEN NoCred ELSE Max(cred[p].active)

is_connected(p) == ActiveCredential(p) # NoCred

Begin(j, kind, p, retries) ==
    /\ job[j] = NoJob
    /\ began < MaxTx
    /\ began' = began + 1
    /\ job' = [job EXCEPT ![j] = [NoJob EXCEPT !.kind = kind, !.phase = "started",
                                  !.provider = p, !.began = began + 1, !.retries = retries]]

-----------------------------------------------------------------------------
(* Starting a sync                                                         *)

\* More of the provider's items appear.
provider_adds(p) ==
    /\ feed[p] < MaxFeed
    /\ feed' = [feed EXCEPT ![p] = @ + 1]
    /\ UNCHANGED <<began, cred, rawItems, syncLog, posted, job, failures>>

Pending(p) == FoldSet(LAMBDA k, n : n + posted[p][k], 0, 0..SyncRetries)

\* A sync by hand is sent to the workers whether or not the provider is connected.
trigger_sync(p) ==
    /\ Pending(p) = 0
    /\ posted' = [posted EXCEPT ![p][0] = @ + 1]
    /\ UNCHANGED <<feed, began, cred, rawItems, syncLog, job, failures>>

\* Every six hours: one message for each provider with an active credential.
sync_all_integrations ==
    /\ \A p \in Providers : Pending(p) = 0
    /\ \E p \in Providers : is_connected(p)
    /\ posted' = [p \in Providers |->
                        [posted[p] EXCEPT ![0] = IF is_connected(p) THEN @ + 1 ELSE @]]
    /\ UNCHANGED <<feed, began, cred, rawItems, syncLog, job, failures>>

\* The log row "running" is written with the sync and seen by nobody before its commit.
sync_start(j, p, k) ==
    /\ posted[p][k] > 0
    /\ posted' = [posted EXCEPT ![p][k] = @ - 1]
    /\ Begin(j, "task", p, k)
    /\ UNCHANGED <<feed, cred, rawItems, syncLog, failures>>

\* Without a broker the request syncs itself.
sync_inline(j, p) ==
    /\ Begin(j, "inline", p, SyncRetries)
    /\ UNCHANGED <<feed, cred, rawItems, syncLog, posted, failures>>

\* The older task commits its log row at once.
sync_quickbooks(j) ==
    /\ "quickbooks" \in Providers
    /\ Begin(j, "legacy", "quickbooks", SyncRetries)
    /\ syncLog' = [syncLog EXCEPT !["quickbooks"].running = @ + 1]
    /\ UNCHANGED <<feed, cred, rawItems, posted, failures>>

-----------------------------------------------------------------------------
(* Fetching                                                                *)

\* Plaid gives what came after the cursor, QuickBooks its first page, Gmail its newest.
\* No page is followed by another.
Listed(p, cursor) ==
    CASE p = "plaid" -> {i \in Items : cursor < i /\ i <= feed[p]}
      [] p = "quickbooks" -> {i \in Items : i <= feed[p] /\ i <= Page}
      [] p = "gmail" -> {i \in Items : i <= feed[p] /\ i + Page > feed[p]}

\* Plaid's answer goes with a new cursor, which replaces the credential; the others go
\* straight to the records.
fetch(j) ==
    LET p == job[j].provider
        c == ActiveCredential(p)
    IN /\ job[j].phase = "started"
       /\ job[j].kind \in {"task", "inline", "legacy"}
       /\ c # NoCred
       /\ job[j].kind = "legacy" => Cardinality(cred[p].active) = 1
       /\ job' = [job EXCEPT ![j].phase = IF p = "plaid" THEN "prior" ELSE "replaced",
                             ![j].items = Listed(p, cred[p].cursor[c]),
                             ![j].cursor = feed[p]]
       /\ UNCHANGED <<feed, began, cred, rawItems, syncLog, posted, failures>>

-----------------------------------------------------------------------------
(* Credentials                                                             *)

\* The authorisation code is exchanged for tokens without a cursor.
exchange(j, p) ==
    /\ Begin(j, "exchange", p, 0)
    /\ UNCHANGED <<feed, cred, rawItems, syncLog, posted, failures>>

disconnect(j, p) ==
    /\ Begin(j, "disconnect", p, 0)
    /\ UNCHANGED <<feed, cred, rawItems, syncLog, posted, failures>>

\* store_tokens and disconnect look for the credential that is active now.
prior_read(j) ==
    /\ \/ job[j].phase = "prior"
       \/ job[j].kind \in {"exchange", "disconnect"} /\ job[j].phase = "started"
    /\ job' = [job EXCEPT ![j].phase = "replacing",
                          ![j].prior = ActiveCredential(job[j].provider)]
    /\ UNCHANGED <<feed, began, cred, rawItems, syncLog, posted, failures>>

RowLockedByOther(j, row) ==
    \E i \in SyncJobs \ {j} : job[i].provider = job[j].provider /\ job[i].drop = row /\ row # NoCred

\* Its UPDATE waits for the row; the new row is seen after the commit only.
store_tokens(j) ==
    /\ job[j].phase = "replacing"
    /\ ~RowLockedByOther(j, job[j].prior)
    /\ job' = [job EXCEPT ![j].drop = job[j].prior,
                          ![j].phase = IF job[j].kind \in {"exchange", "disconnect"}
                                       THEN "stored" ELSE "replaced"]
    /\ UNCHANGED <<feed, began, cred, rawItems, syncLog, posted, failures>>

\* What a transaction makes of the credentials when it commits.
Credentials(j) ==
    LET c == cred[job[j].provider]
        replaces == job[j].kind = "exchange" \/ job[j].provider = "plaid"
    IN [active |-> (c.active \ {job[j].drop}) \union
                   (IF replaces /\ job[j].kind # "disconnect" THEN {job[j].began} ELSE {}),
        cursor |-> [c.cursor EXCEPT ![job[j].began] = job[j].cursor]]

-----------------------------------------------------------------------------
(* Records                                                                 *)

\* The older task computes its checksums in another way, so that its rows and the
\* connectors' never meet, and looks for duplicates in all companies.
Book(j) == IF job[j].kind = "legacy" THEN "legacy" ELSE job[j].provider

KnownTo(j) == rawItems[Book(j)] \union (IF job[j].kind = "legacy" THEN ForeignItems ELSE {})

persist_check(j) ==
    /\ job[j].phase = "replaced"
    /\ job' = [job EXCEPT ![j].phase = "checked", ![j].items = @ \ KnownTo(j)]
    /\ UNCHANGED <<feed, began, cred, rawItems, syncLog, posted, failures>>

\* The unique index on checksums spans all companies.
ChecksumTaken(j) ==
    job[j].items \intersect (rawItems[Book(j)] \union ForeignItems) # {}

\* The CHECK of migration 001 names neither plaid nor gmail.
Inadmissible(j) == job[j].provider \notin admitted /\ job[j].items # {}

\* An INSERT waits for one of the same checksum that is not committed yet.
persist_insert(j) ==
    /\ job[j].phase = "checked"
    /\ \A i \in SyncJobs \ {j} : job[i].phase = "stored" /\ Book(i) = Book(j) =>
            job[i].items \intersect job[j].items = {}
    /\ ~ChecksumTaken(j)
    /\ ~Inadmissible(j)
    /\ job' = [job EXCEPT ![j].phase = "stored"]
    /\ UNCHANGED <<feed, began, cred, rawItems, syncLog, posted, failures>>

-----------------------------------------------------------------------------
(* The end of a transaction                                                *)

Syncs(j) == job[j].kind \in {"task", "inline", "legacy"}

\* Variant of LogAfter for mutation: records_ingested is what was fetched.
LogAfterFetched(j) ==
    LET log == syncLog[job[j].provider]
    IN [log EXCEPT !.completed = @ + 1,
                   !.running = IF job[j].kind = "legacy" THEN @ - 1 ELSE @,
                   !.ingested = @ + feed[job[j].provider]]

LogAfter(j) ==
    LET log == syncLog[job[j].provider]
    IN [log EXCEPT !.completed = @ + 1,
                   !.running = IF job[j].kind = "legacy" THEN @ - 1 ELSE @,
                   !.ingested = @ + Cardinality(job[j].items)]

job_commit(j) ==
    LET p == job[j].provider IN
    /\ job[j].phase = "stored"
    /\ cred' = [cred EXCEPT ![p] = Credentials(j)]
    /\ rawItems' = [rawItems EXCEPT ![Book(j)] = @ \union job[j].items]
    /\ syncLog' = IF Syncs(j) THEN [syncLog EXCEPT ![p] = LogAfter(j)] ELSE syncLog
    /\ job' = [job EXCEPT ![j] = NoJob]
    /\ UNCHANGED <<feed, began, posted, failures>>

\* Not connected, the provider answers an error or too late, a row is refused: sync
\* marks its log row failed, raises, and the rollback takes the row with everything
\* else.  The older task's row is committed, unless it was the INSERT that failed: then
\* its session is unusable and the row stays "running".  Celery retries three times.
sync_fail(j) ==
    LET p == job[j].provider
        told == job[j].kind = "legacy" /\ job[j].phase = "started"
    IN /\ Syncs(j)
       /\ \/ job[j].phase = "started"
          \/ job[j].phase = "checked" /\ (ChecksumTaken(j) \/ Inadmissible(j))
       /\ syncLog' = IF told THEN [syncLog EXCEPT ![p].running = @ - 1, ![p].failed = @ + 1]
                             ELSE syncLog
       /\ failures' = [failures EXCEPT ![p] = @ + 1]
       /\ posted' = IF job[j].kind = "task" /\ job[j].retries < SyncRetries
                      THEN [posted EXCEPT ![p][job[j].retries + 1] = @ + 1] ELSE posted
       /\ job' = [job EXCEPT ![j] = NoJob]
       /\ UNCHANGED <<feed, began, cred, rawItems>>

\* Variant of job_lost for mutation: the cursor survives the records it stands for.
job_lost_cursor(j) ==
    /\ job[j].phase # "idle"
    /\ cred' = IF job[j].phase = "checked" THEN [cred EXCEPT ![job[j].provider] = Credentials(j)]
                                           ELSE cred
    /\ posted' = IF job[j].kind = "task"
                   THEN [posted EXCEPT ![job[j].provider][job[j].retries] = @ + 1]
                   ELSE posted
    /\ job' = [job EXCEPT ![j] = NoJob]
    /\ UNCHANGED <<feed, began, rawItems, syncLog, failures>>

\* A request is dropped, or a worker dies and its message is delivered again.
job_lost(j) ==
    /\ job[j].phase # "idle"
    /\ posted' = IF job[j].kind = "task"
                   THEN [posted EXCEPT ![job[j].provider][job[j].retries] = @ + 1]
                   ELSE posted
    /\ job' = [job EXCEPT ![j] = NoJob]
    /\ UNCHANGED <<feed, began, cred, rawItems, syncLog, failures>>

-----------------------------------------------------------------------------
JobStep(j) ==
    \/ fetch(j)
    \/ prior_read(j)
    \/ store_tokens(j)
    \/ persist_check(j)
    \/ persist_insert(j)
    \/ job_commit(j)
    \/ sync_fail(j)
    \/ job_lost(j)

JobStart(j) ==
    \/ \E p \in Providers : \/ \E k \in 0..SyncRetries : sync_start(j, p, k)
                            \/ sync_inline(j, p)
                            \/ exchange(j, p)
                            \/ disconnect(j, p)
    \/ sync_quickbooks(j)

SyncNext ==
    /\ \/ \E p \in Providers : provider_adds(p) \/ trigger_sync(p)
       \/ sync_all_integrations
       \/ \E j \in SyncJobs : JobStart(j) \/ JobStep(j)
    /\ UNCHANGED admitted

SyncSpec == SyncInit /\ [][SyncNext]_syncVars

-----------------------------------------------------------------------------
(* Properties                                                              *)

\* No transaction is skipped: what Plaid's cursor stands for in any active credential is
\* in raw_records, although cursor and records are written by several transactions that
\* fail, wait for and overtake each other (plaid_connector.py: "Persist the cursor so
\* the next sync only pulls new transactions").  Where the database refuses the records,
\* the cursor stays behind with them.
NothingSkipped ==
    "plaid" \in Providers =>
        \A r \in cred["plaid"].active : 1..cred["plaid"].cursor[r] \subseteq rawItems["plaid"]

\* The completed log rows add up to the records there are: none is counted twice, and
\* none comes without its log.
LogsAddUp ==
    \A p \in Providers :
        syncLog[p].ingested = Cardinality(rawItems[p]) +
            (IF p = "quickbooks" THEN Cardinality(rawItems["legacy"]) ELSE 0)

\* docs/acceptance_criteria.md: "Sync log created for every sync attempt (success or
\* failure)".
EveryAttemptLogged ==
    \A p \in Providers : syncLog[p].failed >= failures[p]

\* The invariant of the log: well-formed rows, and counts that the records bear out.
SyncInv == SyncTypeOK /\ LogsAddUp

=============================================================================
