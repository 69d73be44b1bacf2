------------------------------ MODULE Ingestion ------------------------------
(***************************************************************************)
(* File ingestion: upload_file (routers/ingestion.py) creates a raw record *)
(* and hands it to a Celery worker, which stages what it extracts          *)
(* (workers/ingestion_tasks.py).  The request's transaction commits only   *)
(* after the message is out, messages are acknowledged late, and the       *)
(* database refuses a second original with the same checksum whoever owns  *)
(* it, while the code looks for one among the company's own records.       *)
(***************************************************************************)
EXTENDS Confidence

CONSTANTS
    Companies,
    Checksums,     \* the files' contents
    MaxRaws,       \* bound: how many rows raw_records may ever hold
    MaxStaged,     \* bound: how many rows staged_records may ever hold
    Uploads,       \* concurrent upload requests
    Processors,    \* worker processes running process_uploaded_file
    MaxTaskRetries,\* Celery max_retries (3 in the code)
    MaxFaults      \* bound: how many failures and crashes workers have

Raws == 1..MaxRaws
StagedRows == 1..MaxStaged
NoRow == 0

ASSUME IngestionAssumption ==
    /\ Companies # {} /\ Checksums # {}
    /\ IsFiniteSet(Processors)
    /\ MaxRaws \in Nat
    /\ MaxStaged \in Nat
    /\ MaxTaskRetries \in Nat
    /\ MaxFaults \in Nat

VARIABLES
    raw,          \* each raw record: its row's state, its owner, its checksum
    upload,       \* the open upload requests
    published,    \* raw records whose message reached the broker
    inbox,        \* raw records whose message waits in the broker
    tries,        \* retries so far, as the message of each raw record says
    job,          \* what each worker process is doing
    staged,       \* each staged record: its status and its raw record
    faults,       \* history: failures and crashes so far
    redelivered,  \* history: how often a message was delivered again
    lost          \* history: raw records whose message is gone for good

ingestVars == <<raw, upload, published, inbox, tries, job, staged, faults,
                redelivered, lost>>

\* A row is "open" while the transaction that inserted it is, "gone" if that was
\* rolled back.
RawStates == [state: {"absent", "open", "committed", "gone"},
              company: Companies, checksum: Checksums]

UploadStates == [phase: {"idle", "checked", "inserted", "sent", "refused"},
                 company: Companies, checksum: Checksums, row: Raws \union {NoRow}]

JobStates == [phase: {"idle", "taken", "scored", "stored"}, row: Raws \union {NoRow}]

StagedStatuses == {"absent", "pending", "needs_review", "auto_approved",
                   "approved", "rejected"}

IngestionTypeOK ==
    /\ raw \in [Raws -> RawStates]
    /\ upload \in [Uploads -> UploadStates]
    /\ published \subseteq Raws
    /\ inbox \subseteq published
    /\ tries \in [Raws -> 0..MaxTaskRetries]
    /\ job \in [Processors -> JobStates]
    /\ staged \in [StagedRows -> [status: StagedStatuses, row: Raws \union {NoRow}]]
    /\ faults \in 0..MaxFaults
    /\ redelivered \in [Raws -> 0..MaxFaults]
    /\ lost \subseteq published

SomeCompany == CHOOSE c \in Companies : TRUE
SomeChecksum == CHOOSE k \in Checksums : TRUE

IdleUpload == [phase |-> "idle", company |-> SomeCompany, checksum |-> SomeChecksum,
               row |-> NoRow]
IdleJob == [phase |-> "idle", row |-> NoRow]

IngestionInit ==
    /\ raw = [r \in Raws |-> [state |-> "absent", company |-> SomeCompany,
                              checksum |-> SomeChecksum]]
    /\ upload = [u \in Uploads |-> IdleUpload]
    /\ published = {}
    /\ inbox = {}
    /\ tries = [r \in Raws |-> 0]
    /\ job = [p \in Processors |-> IdleJob]
    /\ staged = [s \in StagedRows |-> [status |-> "absent", row |-> NoRow]]
    /\ faults = 0
    /\ redelivered = [r \in Raws |-> 0]
    /\ lost = {}

-----------------------------------------------------------------------------
(* Uploading                                                               *)

\* The originals with a checksum: rows of any company, and of one company.
WithChecksum(k, state) == {r \in Raws : raw[r].checksum = k /\ raw[r].state = state}
OriginalsOf(c, k) == {r \in WithChecksum(k, "committed") : raw[r].company = c}

\* upload_file finds no original of this company and content.  When it finds one
\* it answers with it and writes nothing.
upload_check(u, c, k) ==
    /\ upload[u].phase = "idle"
    /\ OriginalsOf(c, k) = {}
    /\ upload' = [upload EXCEPT ![u] = [phase |-> "checked", company |-> c,
                                        checksum |-> k, row |-> NoRow]]
    /\ UNCHANGED <<raw, published, inbox, tries, job, staged, faults, redelivered, lost>>

\* Variant of ChecksumFree for mutation: an INSERT does not wait for another one.
ChecksumFreeUnlocked(k) == WithChecksum(k, "committed") = {}

\* The unique index lets an INSERT through only when no row, of any company, has
\* the checksum; it makes the INSERT wait for a transaction that is adding one.
ChecksumFree(k) ==
    WithChecksum(k, "committed") = {} /\ WithChecksum(k, "open") = {}

upload_insert(u) ==
    LET up == upload[u] IN
    /\ up.phase = "checked"
    /\ ChecksumFree(up.checksum)
    /\ \E r \in Raws :
        /\ raw[r].state = "absent"
        /\ \A q \in Raws : q < r => raw[q].state # "absent"
        /\ raw' = [raw EXCEPT ![r] = [state |-> "open", company |-> up.company,
                                      checksum |-> up.checksum]]
        /\ upload' = [upload EXCEPT ![u].phase = "inserted", ![u].row = r]
    /\ UNCHANGED <<published, inbox, tries, job, staged, faults, redelivered, lost>>

\* IntegrityError: the request fails and nothing is kept.
upload_refused(u) ==
    /\ upload[u].phase = "checked"
    /\ WithChecksum(upload[u].checksum, "committed") # {}
    /\ upload' = [upload EXCEPT ![u].phase = "refused"]
    /\ UNCHANGED <<raw, published, inbox, tries, job, staged, faults, redelivered, lost>>

\* process_uploaded_file.delay(raw.id), before the commit.
upload_send(u) ==
    LET r == upload[u].row IN
    /\ upload[u].phase = "inserted"
    /\ upload' = [upload EXCEPT ![u].phase = "sent"]
    /\ published' = published \union {r}
    /\ inbox' = inbox \union {r}
    /\ UNCHANGED <<raw, tries, job, staged, faults, redelivered, lost>>

\* The broker cannot be reached; the exception is swallowed.
upload_unsent(u) ==
    /\ upload[u].phase = "inserted"
    /\ upload' = [upload EXCEPT ![u].phase = "sent"]
    /\ UNCHANGED <<raw, published, inbox, tries, job, staged, faults, redelivered, lost>>

upload_commit(u) ==
    /\ upload[u].phase = "sent"
    /\ raw' = [raw EXCEPT ![upload[u].row].state = "committed"]
    /\ upload' = [upload EXCEPT ![u] = IdleUpload]
    /\ UNCHANGED <<published, inbox, tries, job, staged, faults, redelivered, lost>>

\* The request is dropped before its commit; the row goes, the message stays.
upload_abort(u) ==
    /\ upload[u].phase # "idle"
    /\ raw' = IF upload[u].phase \in {"inserted", "sent"}
              THEN [raw EXCEPT ![upload[u].row].state = "gone"]
              ELSE raw
    /\ upload' = [upload EXCEPT ![u] = IdleUpload]
    /\ UNCHANGED <<published, inbox, tries, job, staged, faults, redelivered, lost>>

-----------------------------------------------------------------------------
(* Processing                                                              *)

process_take(p, r) ==
    /\ job[p].phase = "idle"
    /\ r \in inbox
    /\ inbox' = inbox \ {r}
    /\ job' = [job EXCEPT ![p] = [phase |-> "taken", row |-> r]]
    /\ UNCHANGED <<raw, upload, published, tries, staged, faults, redelivered, lost>>

\* "RawRecord not found" is returned as a result: the task has succeeded.
process_not_found(p) ==
    /\ job[p].phase = "taken"
    /\ raw[job[p].row].state # "committed"
    /\ lost' = lost \union {job[p].row}
    /\ job' = [job EXCEPT ![p] = IdleJob]
    /\ UNCHANGED <<raw, upload, published, inbox, tries, staged, faults, redelivered>>

process_score(p) ==
    /\ job[p].phase = "taken"
    /\ raw[job[p].row].state = "committed"
    /\ job' = [job EXCEPT ![p].phase = "scored"]
    /\ UNCHANGED <<raw, upload, published, inbox, tries, staged, faults, redelivered, lost>>

\* All an uploaded record's payload holds is the file's name and type.
UploadPayload == [filename |-> "value", content_type |-> "value"]

UploadSources == {"quickbooks", "bank_csv", "payroll", "swept", "email", "manual"}

UploadRoutes == {Route(ScoreOf(source, UploadPayload)) : source \in UploadSources}

\* The INSERT of the staged record and its commit; nothing keeps a second one out.
process_store(p) ==
    /\ job[p].phase = "scored"
    /\ \E s \in StagedRows, route \in UploadRoutes :
        /\ staged[s].status = "absent"
        /\ \A q \in StagedRows : q < s => staged[q].status # "absent"
        /\ staged' = [staged EXCEPT ![s] = [status |-> route, row |-> job[p].row]]
    /\ job' = [job EXCEPT ![p].phase = "stored"]
    /\ UNCHANGED <<raw, upload, published, inbox, tries, faults, redelivered, lost>>

\* task_acks_late: the message is acknowledged once the task has returned.
process_ack(p) ==
    /\ job[p].phase = "stored"
    /\ job' = [job EXCEPT ![p] = IdleJob]
    /\ UNCHANGED <<raw, upload, published, inbox, tries, staged, faults, redelivered, lost>>

\* Variant of process_retry for mutation: retried after its commit, too.
process_retry_stored(p) ==
    LET r == job[p].row IN
    /\ job[p].phase # "idle"
    /\ faults < MaxFaults
    /\ tries[r] < MaxTaskRetries
    /\ tries' = [tries EXCEPT ![r] = @ + 1]
    /\ inbox' = inbox \union {r}
    /\ job' = [job EXCEPT ![p] = IdleJob]
    /\ faults' = faults + 1
    /\ UNCHANGED <<raw, upload, published, staged, redelivered, lost>>

\* Variant of process_retry for mutation: the exception is swallowed.
process_retry_swallowed(p) ==
    /\ job[p].phase \in {"taken", "scored"}
    /\ faults < MaxFaults
    /\ tries[job[p].row] < MaxTaskRetries
    /\ job' = [job EXCEPT ![p] = IdleJob]
    /\ faults' = faults + 1
    /\ UNCHANGED <<raw, upload, published, inbox, tries, staged, redelivered, lost>>

\* An exception before the commit: self.retry sends the message again.
process_retry(p) ==
    LET r == job[p].row IN
    /\ job[p].phase \in {"taken", "scored"}
    /\ faults < MaxFaults
    /\ tries[r] < MaxTaskRetries
    /\ tries' = [tries EXCEPT ![r] = @ + 1]
    /\ inbox' = inbox \union {r}
    /\ job' = [job EXCEPT ![p] = IdleJob]
    /\ faults' = faults + 1
    /\ UNCHANGED <<raw, upload, published, staged, redelivered, lost>>

\* ... until the retries are used up and the task has failed.
process_give_up(p) ==
    /\ job[p].phase \in {"taken", "scored"}
    /\ faults < MaxFaults
    /\ tries[job[p].row] = MaxTaskRetries
    /\ lost' = lost \union {job[p].row}
    /\ job' = [job EXCEPT ![p] = IdleJob]
    /\ faults' = faults + 1
    /\ UNCHANGED <<raw, upload, published, inbox, tries, staged, redelivered>>

\* The worker goes down and the broker delivers the unacknowledged message again.
worker_lost(p) ==
    LET r == job[p].row IN
    /\ job[p].phase # "idle"
    /\ faults < MaxFaults
    /\ inbox' = inbox \union {r}
    /\ redelivered' = [redelivered EXCEPT ![r] = @ + 1]
    /\ job' = [job EXCEPT ![p] = IdleJob]
    /\ faults' = faults + 1
    /\ UNCHANGED <<raw, upload, published, tries, staged, lost>>

\* Only the child process dies: Celery acknowledges the message and the task has
\* failed, task_reject_on_worker_lost being off.
child_lost(p) ==
    /\ job[p].phase # "idle"
    /\ faults < MaxFaults
    /\ lost' = IF job[p].phase = "stored" THEN lost ELSE lost \union {job[p].row}
    /\ job' = [job EXCEPT ![p] = IdleJob]
    /\ faults' = faults + 1
    /\ UNCHANGED <<raw, upload, published, inbox, tries, staged, redelivered>>

-----------------------------------------------------------------------------
UploadStep(u) ==
    \/ \E c \in Companies, k \in Checksums : upload_check(u, c, k)
    \/ upload_insert(u)
    \/ upload_refused(u)
    \/ upload_send(u)
    \/ upload_unsent(u)
    \/ upload_commit(u)
    \/ upload_abort(u)

ProcessStep(p) ==
    \/ process_not_found(p)
    \/ process_score(p)
    \/ process_store(p)
    \/ process_ack(p)

IngestionNext ==
    \/ \E u \in Uploads : UploadStep(u)
    \/ \E p \in Processors, r \in Raws : process_take(p, r)
    \/ \E p \in Processors :
        \/ ProcessStep(p)
        \/ process_retry(p)
        \/ process_give_up(p)
        \/ worker_lost(p)
        \/ child_lost(p)

IngestionSpec == IngestionInit /\ [][IngestionNext]_ingestVars

\* Requests end and workers take messages and carry them through.
IngestionFairness ==
    /\ \A u \in Uploads : WF_ingestVars(upload_commit(u))
    /\ \A p \in Processors :
        /\ WF_ingestVars(ProcessStep(p))
        /\ \A r \in Raws : SF_ingestVars(process_take(p, r))

FairIngestionSpec == IngestionSpec /\ IngestionFairness

-----------------------------------------------------------------------------
(* Properties                                                              *)

StagedOf(r) == {s \in StagedRows : staged[s].row = r}
Committed == {r \in Raws : raw[r].state = "committed"}

\* However many requests upload the same content at once, and whichever of them
\* are dropped half way, there is one original of it.
OneOriginal ==
    \A r, q \in Committed : raw[r].checksum = raw[q].checksum => r = q

\* Retries never stage a record twice; only a message the broker delivers again
\* does, and once per delivery at most.
StagedPerDelivery ==
    \A r \in Raws : Cardinality(StagedOf(r)) <= 1 + redelivered[r]

\* Nothing is staged for an upload that was rolled back, although its message may
\* be taken before, between or after.
StagedIsCommitted == \A r \in Raws : StagedOf(r) # {} => raw[r].state = "committed"

\* A message that reached the broker is worked off: its record is staged or the
\* message was lost in one of the ways that are final.
MessagesWorkedOff ==
    \A r \in Raws : r \in published ~> (StagedOf(r) # {} \/ r \in lost)

\* "create a RawRecord, then enqueue async processing": where no worker fails, an
\* uploaded record whose message reached the broker gets staged.
UploadedIsStaged ==
    \A r \in Raws : (r \in published /\ raw[r].state = "committed") ~> StagedOf(r) # {}

\* The invariant of ingestion: well-formed rows, one original of each content, and nothing
\* staged for what was rolled back.
IngestionInv == IngestionTypeOK /\ OneOriginal /\ StagedIsCommitted

=============================================================================
