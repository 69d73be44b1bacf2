# TLA+ models of YBS

YBS is the back office of a small services business: a FastAPI application over
PostgreSQL, Celery workers, an AI COO, scheduled agents, a monitor that watches them, and
agents that work through a queue of tasks under human approval. These modules model the
parts where several requests, workers, agents and reviewers meet on the same rows, and
the calculations whose results people decide on. TLC checks them on small instances;
TLAPS proves the invariants that carry the system for every value of the constants.

## The system

Requests run in one database session each (`database.py`, `get_db`): what a handler
reads and writes is one transaction at READ COMMITTED, committed after the handler
has returned, or rolled back if it raises. Almost no query locks what it reads, so
between a handler's SELECT and its UPDATE any other session may commit. Celery tasks
open sessions of their own, messages are acknowledged late (`celery_app.py`), and
agents are processes outside this repository that use `task_queue.py`.

| Component | State | Operations | What is hard about it | Correct means |
|---|---|---|---|---|
| Agent task queue (`services/agents/task_queue.py`, `routers/agents.py`) | `agent_tasks`, `agent_action_logs` | enqueue, claim, complete, fail with backoff, park, cancel | claims race; every write is blind to the status it overwrites; agents crash | one holder per task, retries counted exactly, nothing comes back after it has left, only more urgent work keeps a task waiting for ever |
| Approval gate (`routers/approvals.py`) | `approval_requests`, `audit_logs` | request, approve, reject, lapse | two reviewers, a canceller and the deadline race; the check precedes the lock | nothing runs without its approval, the audit log tells what happened |
| Automation roadmap (`services/automation/roadmap.py`, `routers/automation.py`) | `automation_items` | build, dispatch | a backlog read before a dispatch and written after it; two dispatches | an item becomes a gated task, and stays dispatched |
| File ingestion (`routers/ingestion.py`, `workers/ingestion_tasks.py`) | `raw_records`, the broker, `staged_records` | upload, process | message before commit, retries, redelivery, lost workers, a unique index wider than the look-up | one original per content, staged once per delivery, nothing staged for what was rolled back |
| Confidence scoring (`services/staging/confidence.py`) | none | extract, score, route | thresholds and missing fields | nothing approved without a human that should not be |
| Staging review (`routers/staging.py`) | `staged_records`, `audit_logs` | approve, reject, match, bulk approve | two of the four look at no status | decisions undone only knowingly, and audited |
| Integrations (`services/integrations`, `workers/integration_tasks.py`, `routers/integrations.py`) | credentials with cursors, `sync_logs`, `raw_records` | connect, disconnect, sync by hand, by schedule, without a broker | cursor and credential races, retries, redelivery, rollback of the log | nothing skipped, each record stored and counted once |
| COO assistant (`routers/coo.py`, `services/coo`) | conversations, `coo_actions`, `employee_tasks`, `employee_messages` | message, approve and execute, reject, complete a task | e-mail sent before the commit, numbers read without a lock | what was carried out is on record, what is decided settles |
| Ops loops (`workers/ops_loop_tasks.py`, `services/ops_loops`) | `ops_loops`, `ops_loop_runs`, the tray | tick, run now, switch | late, crowded or failing ticks; one commit for all loops of a tick | a fire is answered again only where runs of a loop overlap, the tray holds what runs report |
| Monitor (`services/monitor`, `routers/monitor.py`, `workers/monitor_tasks.py`) | observations, diagnoses, pull requests | collect, diagnose, approve, reject | a rollback inside a helper, overlapping runs, deadlocks, a pull request before the commit | every failure diagnosed, none anew; decisions settle |
| Decisions, add-backs and package (`routers/decisions.py`, `routers/esop.py`) | `decisions`, add-backs, the QoE run, `audit_logs` | approve, reject, create, build | guards on one side only | status and approver are what the audit log says |
| Interviews (`routers/interview.py`, `services/interview`) | session, messages, insights | create, answer, complete | numbers read before the model is asked, repeated completion | a readable conversation, insights that fit it |
| Knowledge base (`services/knowledge`, `routers/knowledge.py`) | documents, chunks | index, reindex, synthesize, retrieve | look-up then insert, delete then insert | chunks say what their document says |
| Financial calculations (`services/financial`, `cash`, `qoe`, `growth`, `metrics`) | none | DSO, forecast, margins, bids, valuation, growth, advice, KPIs | rounding, boundaries, missing values | sums add up, ramps arrive, advice settles |
| Fuzzy matching (`services/staging/fuzzy_match.py`) | none | match customers and payments | ties, thresholds, customers with several names | suggestions are ranked, each customer once, and something found is something shown |
| Daily agent loop, access control, CRUD, frontend | | | see "Not modelled" | |

The components interact through rows: a dispatched item creates a task and a request
(`AutomationDispatch` over `ApprovalGate` over `TaskQueue`); an upload creates a raw
record and a message, the worker a staged record, an operator decides on it
(`StagingReview` over `Ingestion` over `Confidence`); what fails in queue, tray and
gate is what `Monitor` observes (its `Sources`); and what `OpsLoops` proposes is what
`CooActions` lets the owner decide.

## Modules

```
WorkLedger <-- refined by -- TaskQueue <-- ApprovalGate <-- AutomationDispatch
                                                                  |
                                                       AutomationDispatchProofs

TaskStream   (the order of an endless stream of tasks)

Docket <-- refined by -- ApprovalGate (and AutomationDispatch), CooActions, Monitor

Confidence <-- Ingestion <-- StagingReview <-- StagingReviewProofs
OpsLoops, CooActions, Decisions <-- OfficeProofs          Monitor <-- MonitorProofs
IntegrationSync, Interview, Knowledge <-- RecordsProofs

Confidence, Receivables, Profitability, Matching, TextPipeline    (operators)
            |
       Calculations <-- CalculationProofs <-- TextProofs
                              Folding --'         (MCCalculations gives Calculations its inputs)
```

`MC*.tla` give the constants their values for TLC. `MCQueues`, `MCBackground`, `MCOffice`,
`MCRecords`, `MCAutomationDispatch` and `MCCalculations` each hold several scenes or
topics, chosen in the initial state; a scene runs one module with its own bounds while
the variables of the others stand still. A definition whose comment starts with
"Variant of" is not part of the model: it is a plausible mistake in the code, used to
make sure that a property would notice it.

Conventions. A SELECT and the UPDATE that follows from it are separate actions wherever
another session can commit in between; an UPDATE and its commit are one action where the
row lock keeps other writers out. Dropped requests (client gone, server stopped) are
`*_abort` actions. The ORM writes only the columns whose value differs from what was
read; `StagingReview` and `Decisions` depend on that and model it. An audit log that a
module keeps as a sequence is a history in the order of the commits; the table's
`created_at` is the begin of the transaction. Access checks, text
and timestamps that no property is about are left out; what a language model answers is
an input.

**WorkLedger** is the abstract specification of the queue: jobs that are new, open, taken
by one owner, or off; handed out at most `MaxAttempts` times; never back once off.

**Docket** is the abstract specification of what people decide: a matter is raised once,
only an open one is taken up, whoever has taken it up may act on it once and then rules on
it or leaves it. Two who took it up together may overrule each other and both act; when
the last of them is through, the matter is settled. Three components refine it. In
`ApprovalGate` the matters are requests, the rulings their status, and what is done about
them their audit rows; in `CooActions` the actions of the tray, status and result, and
e-mails sent plus executions; in `Monitor` the diagnoses, their rows, and the pull requests
GitHub has opened. Two components with decisions do not, and should not: match and bulk
approval look at no status (`StagingReview`), and `reject_decision` has no guard
(`Decisions`), so a matter that is settled may be ruled on again.

**TaskQueue**. `status`, `retry_count` and `wait` are columns of `agent_tasks` (`wait` is
the number of minutes until `scheduled_at`); rows are numbered by `created_at`. `held` and
`step` say what each agent has in hand, `seen` is the `retry_count` that `fail_task` read,
`cancelling` the row an open `cancel_task` read. `attempts` is a history variable.
`claim_next_task` is atomic (`FOR UPDATE SKIP LOCKED`), and `Lane`/`Serves` abstract its
filter on `agent_id` and `task_types`. Agents are external: the model lets one settle a
claim once (complete, park, fail) or crash; a crashed agent's row stays "running", since
no code takes it back. That the row stays "running" for good is not caught by any property:
in the ledger a crashed agent's job goes off. `fail_task` is three steps: the read, the Telegram notice, the
write. "failed" is a documented status the code never writes.

**TaskStream** is the same queue seen from one lane with no end of tasks: one that is over
makes room for a new one, with any priority and delay. It asks who can wait for ever, which
a few rows cannot show. Retries come back after their backoff with their old `created_at`;
reads and writes of a request are one step, as the races are `TaskQueue`'s matter.

**ApprovalGate** adds `approval_requests`. A review is three steps: it reads the request
(and the deadline, for an approval), then the query for the task flushes the UPDATE of
the request, waiting for its row lock, and reads the task, and the commit writes the task
only if that read said "awaiting_approval". The status "expired" is assigned just before
an exception that rolls it back, so it never reaches the table.

**AutomationDispatch** adds `automation_items`. A build reads all items, then inserts new
candidates and refreshes those it read as proposed; the unique title makes one of two
racing builds roll back. Which candidates a build finds is an arbitrary set, and
`revision` counts changes of the signals behind them. A dispatch reads an item and, in its
commit, inserts task and request and marks the item.

**Confidence** is `score_extraction` with the extraction before it and the thresholds after
it, in units of 1/12000 so that every score is an exact whole number. A field holds
nothing, None or "", an empty list, or something: that is all the code distinguishes.

**Ingestion** has `raw` rows that are open until their upload commits, the messages in the
broker, workers that take, score, store and acknowledge, retries up to `max_retries`,
redelivery when a worker is lost before its acknowledgement, and the loss of a message
when only the child process dies (`task_reject_on_worker_lost` is off). An upload that
finds an original answers with it and writes nothing, hence no action. An upload's
payload holds the file's name and type only, so everything uploaded routes to "pending":
`UploadRoutes` computes that with `Confidence` instead of assuming it. A retry that is
published by a worker that is lost right after is not distinguished from a redelivery.

**StagingReview** adds the four decisions of `routers/staging.py` to `Ingestion`.

**IntegrationSync** is one company and its providers. A sync (`job`) is one transaction
around calls to the provider: it fetches what the provider lists after its cursor,
replaces the credential by one with the new cursor (Plaid only; `prior_read`,
`store_tokens`), looks for duplicates, inserts and commits. Meanwhile other syncs run,
an operator exchanges a code or disconnects, a broker delivers retries (`posted`), and
workers die. Credentials are rows numbered by the begin of their transaction
(`created_at` is the transaction's time), several of which can be active at once; the
newest is used. The older QuickBooks task of `workers/ingestion_tasks.py` takes part with
its own checksums and its own log row. Which providers' rows the CHECK of
migration 001 admits depends on how the database was made (migrated: QuickBooks only;
created from the models: all), so `admitted` is one of `Schemas` and stays what it is;
what the unique index refuses for other companies is `ForeignItems`.

**CooActions** is one conversation with the AI COO and the tray of the actions it
proposes. `send_message` is open while the assistant answers: its user row is in the
database but unseen until the commit, which adds the pair of rows and the proposals at
once. An approval reads the action, calls SendGrid if it is an e-mail, and writes status,
result and log row in one commit: the status "approved" is assigned and replaced before
any flush, so the table never holds it. `outbox` counts what SendGrid has taken, which no
rollback takes back; a time-out answers "failed" whether or not it had. The answers of
the assistant and of SendGrid are inputs.

**OpsLoops**. A tick reads the loops whose cron expression fired within the window before
it and that have not run since its begin, runs them one after the other and commits all
of them at once; run-now is a session with one loop. `answer` is a run whose UPDATE of
`last_run_at` waits for the row lock another session holds (`LoopLocked`). A failing model
leaves a failed run and no stamp, an abort leaves nothing. `fires` is a history: which fires
committed ticks have answered, which of them while another run of the loop had its stamp
but no commit, and which a later tick took up again. A loop's schedule is the constant
`Fires`: that a PATCH may change `schedule_cron` is left out.

**Monitor**. A run goes through what has failed (`broken`), looks for each observation and
inserts it; the unique index makes an INSERT wait for another run's, and a conflict rolls
back everything this run has inserted while its counts and its loop go on
(`observation_conflict`). Then all new observations are diagnosed with a second opinion,
each UPDATE waiting for the row. Runs of the hourly loop commit between the two halves,
those of a request do not. Circles of waiting end as PostgreSQL ends them. Approvals ask
GitHub before their commit, and a request that is dropped leaves its pull request open.

**Decisions** is five handlers over decisions, add-backs and the QoE run, with the audit
log as a sequence in the order of the commits.

**Interview** is one session: rows numbered by insertion, each with the `seq` computed
before the model was asked. Answers that race share a number.

**Knowledge** is the upsert of documents by `source_ref` and the rebuild of their chunks,
for reindexing, single uploads and the daily synthesis. A look-up that finds two
documents raises, and so does every later one. A content in `Blank` has no text in it, so
the old chunks go and no new ones come.

**Receivables** (`dso_engine`, `forecast_builder`, the stress test of `routers/cash.py`),
**Profitability** (margins, bids, quality of earnings, valuation, growth ramp,
recommendations, KPI cards), **Matching** (selection and ranking; rapidfuzz's scores are
inputs) and **TextPipeline** (chunker, transcript parsers, ranking and cutting of what
retrieval finds) are operators in exact units: cents, hundredths, days from today, each
with the rounding of the code it stands for (`HalfUp` is `utils/money.py`, `HalfEven` is
`Decimal.quantize` without an argument). What several of them need of lists is in **Lists**.

**Calculations** makes a specification of them: `Inputs`, a constant, maps each topic to the
inputs that are looked at, the initial state chooses one of them, a single step computes the
result, and the properties say what results are good for. `InputsAssumption` says what an
input is made of (lists of any length, amounts of any size and sign); `MCCalculations` gives
`Inputs` the sets TLC goes through, the proofs leave them open.

## Runs

| Run | Question | Bounds |
|---|---|---|
| `queues` | Scene "tasks": one holder, exact retries, cancellations, refinement of `WorkLedger`. "stream": tasks without end; under fairness, only more urgent work keeps one queued for ever. "review": 2 reviews of 2 staged records, one a redelivered duplicate | 3 tasks, one more urgent, 2 agents, `max_retries` 2, 1 cancel request; 3 tasks at a time of 2 priorities, 2 agents, `max_retries` 2, delays up to 2 minutes; 1 upload, 1 failure |
| `gate` | Scene "gate": reviews against each other, a cancellation, an agent and the deadline. Scene "roadmap": 2 dispatches and 2 builds of one item over a gate with a review. In both the gate implements `Docket` | 2 tasks around the gate, 3 with the roadmap, 3 requests, 2 reviews, 1 change of the signals |
| `background` | Scene "uploads": 2 uploads of one content by 2 companies. Scenes "monitor" and "tray": monitor runs that overlap, conflict, deadlock and get lost; every decision on what they find, as an implementation of `Docket`. Under fairness, messages are worked off and failures diagnosed | 2 raw and 3 staged records, 2 workers, 2 failures; 2 sources, 2 runs, 1 overlap, 1 lost run, 2 pull requests per diagnosis |
| `office` | Scenes "loops": ticks that come late, crowd and fail. "talk" and "tray": the conversation, and the tray as an implementation of `Docket`. "decisions": analysts' decisions with their audit log | 2 loops, 2 sessions, window 2, time 4, 2 runs; 3 answered messages ("tray": 2), 2 actions, 2 e-mails per action; 1 decision, 1 add-back, 1 file, 2 analysts, 2 requests, 3 audit rows |
| `records` | Scene "sync": Plaid and QuickBooks with the CHECK of the migration, which admits QuickBooks' rows only. "plaid": Plaid alone with the CHECK of the models, so that cursors move while syncs overlap, fail and reconnect. "interview", "knowledge" | 2 open jobs, feeds of 2, 3 transactions ("plaid": 4), 1 retry; 3 callers, script of 2 questions, 4 answers, 2 completions; 1 source, 1 synthesis, 3 contents of which one is blank, 3 documents, 2 indexers |
| `calculations` | Each calculation against a reference definition | every input of the sets in `MCCalculations`: both sides of each boundary the code names, zero, negative and missing values, up to two elements per list (valuations three periods, candidates four) |

Two of each racing party are enough for the interleavings at stake: every race here is
between one stale reader and one writer, and a third party only repeats one of the two
(the interview has three callers because creation needs one). Row counts are chosen so
that no bound stops a behaviour a property is about: one row per attempt to create one,
`max_retries` reached, a window in which a loop can fire, run and be due again.
`CHECK_DEADLOCK FALSE` is set because a system with bounded rows and nothing left to do
stops. Requests, sessions and jobs that are interchangeable are permuted where no
liveness is checked.

What a run's invariants mean beyond their comments: `GateInv` contains `QueueInv`;
`OpsInv`, `CooInv`, `DecisionsInv`, `SyncInv`, `InterviewInv`, `KnowledgeInv` and
`IngestionInv` are each the module's typing and its named parts.

The runs with `expect: violation` show where the code and a document, comment or
docstring disagree; `PROJECT.json` quotes the line for each:

* a stale cancel overwrites a completed task (`FinishedIsFinal`);
* a rejection committed after a racing approval leaves the task approved
  (`RejectedStopsTask`);
* an approved task never resumes (`ApprovedResumes`);
* a worker faster than the upload's commit drops the record (`UploadedIsStaged`);
* a sync that fails leaves no row in `sync_logs` (`EveryAttemptLogged`);
* a loop runs again for a fire that was answered before, when a session that was stamped
  first commits last (`NeverFiredAgain`).

Seen while modelling and plain from the code, hence not runs:

* Queue and gate: nothing ages, so a steady stream of more urgent tasks starves the
  others (`OnlyUrgencyStarves` says that nothing else does), and a crashed agent's task stays
  "running"; a failed attempt leaves no action log (`fail_task`); an expired request
  is answered with an error whose rollback takes the status "expired" with it, and nothing
  escalates it; agents' action logs carry no company.
* Roadmap: two dispatches that both read an item as proposed make two tasks
  (`DispatchBounded`), and a build that read it before rewrites its texts afterwards,
  never its status.
* Ingestion and review: a file that another company holds is refused, because the look-up
  is per company (`ingestion.py:82`) and the unique index is not; a bulk approval writes no
  audit row.
* Integrations: Plaid's modified and removed transactions are ignored and no page after
  the first is fetched from Gmail and QuickBooks; the OAuth callback of
  `routers/ingestion.py` stores the user's id as the company and the tokens as `str(dict)`,
  which no connector finds; a sync in flight brings a disconnected credential back; on a
  migrated database the CHECK refuses the rows of Plaid and Gmail; an IntegrityError leaves
  the older task's log row "running".
* COO and loops: two approvals of one action that are open together both send their
  e-mail, and one that is rolled back after sending leaves the action pending (the bound
  is `ExecutionsBounded`); two ticks that overlap answer a fire twice, and a run that
  commits late sets `last_run_at` back (`NeverFiredAgain`).
* Monitor: two approvals open together open two pull requests; `open_draft_pr` names the
  same branch as head and base.
* Decisions: a package may be built with add-backs nobody approved, building it is not
  audited and replaces the evidence bundle; migrated tables lack columns the models name.
* Interviews and knowledge: racing answers share a `seq`; two documents of one source make
  every later look-up raise; chunks stored without embeddings are never repaired.
* Calculations: a forecast started through Celery begins with no cash; the comment of
  `forecast_builder.py:152` says 15 % overhead, the code takes 10 %; a baseline forecast can
  collect an invoice more than once; `payroll_covered_through` is always the end of the
  horizon and `ar_delay_days` is unused; the price a reprice recommends does not reach its
  20 % when costs are shares of the price; percentages of 100 and more do not fit
  `NUMERIC(8, 6)` and fail the run; a customer with several names is shown with the lowest
  score, although the comment says "keeping best score", because a score kept as a fraction
  of one is compared with the next one in hundredths (`fuzzy_match.py:56`); of two periods
  that share a label the first is valued; the pain points come without ORDER BY
  (`profit_advisor.py:152`), so of two with one title either may be the one shown; a VTT cue
  with two voices is credited to the last.

## Fairness

Time passes. An agent that is idle keeps polling and one that holds a task settles it or
hands it back: in the stream of tasks weak fairness of `stream_claim(a)` and of
`stream_retry(a)` or `stream_finish(a)` (`StreamFairness`), where finishing includes to die,
and for the disagreement about approved tasks the same of the gate's agents (`GateFairness`),
where a review that has begun is carried through, too: a handler runs to its end or is
aborted. Nobody has to enqueue a task, or to open a review, a cancellation or an upload. In `Ingestion` a commit that is due happens,
a worker finishes what it took (weak), and each message that is in the broker again and
again is taken at last (strong, `process_take(p, r)`), as a broker queue is first in
first out. Failures are bounded by `MaxFaults`, since no message survives endless failure.
The monitor is started every hour (`monitor_start(r, "loop")`) and a run that is not lost
goes on (`MonStep(r)`), both weak; lost runs and overlaps are bounded for the same reason.
In `queues` only the scene of the stream is under fairness, in `background` each scene
is under that of its own module. No liveness is
claimed for the other components: nothing in the code makes a request, an approval or a
sync happen.

## Proofs

Each proof module strengthens the properties of its module to an inductive invariant,
has one lemma per action or group of actions, and derives the properties.

`AutomationDispatchProofs` has a part for each of the three modules. The part about
`TaskQueue` proves `QueueSpec => []QueueInv` for all values of the constants under
`QueueAssumption` and `BackoffAssumption` (powers of two are natural numbers, a fact that
is true but beyond the provers). `SingleHolder` is not inductive alone: it
needs that a held task is not queued (`HeldRuns`), which in turn survives a stale write
only because an agent that let go of a task can no longer write to it. `AttemptAccounting`
needs what `fail_task` read to equal what is there (`HeldCounts`), and that a waiting task
has attempts left (`WaitingCounts`). From `QueueInv` follow each safety property,
`CancelUndoneOnlyByHolder`, and `QueueImplementsLedger`: with a task's place read off
holders and status, every step is a step of `WorkLedger` or leaves it alone.

The part about `ApprovalGate` reuses those lemmas: the queue's own steps preserve
`QueueInv` by the same facts, and `park_task`'s and the review's are added.
`GateInv` adds that a request names a task, that a task has at most one, and that such a task never runs again. The
last two carry each other: only a task in an agent's hands can ask for approval, and
no transition leads from "awaiting_approval", "approved" or "rejected" back to an agent.
`UnapprovedNeverRuns`, `OnePendingRequest`, `ApprovedByReview`, `AuditTellsStatus`,
`CancelUndoneOnlyByReader` and the refinements of `WorkLedger` and `Docket` follow.

The last part puts the roadmap on top and reuses `GateInv` for every step of
gate and queue. Its invariant adds that a task posted for an item has a request from the
start (`SubjectsGated`), and that the tasks of an item and the dispatches still open on it
are together no more than there are dispatches (`DispatchesPay`): a commit trades one for
the other. `DispatchInv`, `DispatchIsFinal`, `DispatchedRefreshedOnlyByReader` and, for
the composition, `UnapprovedNeverRuns` and both refinements follow.

`StagingReviewProofs` covers ingestion and reviews. `OneOriginal` needs that rows which are
open count like committed ones (`OneLive`) and that an upload's open row is its own
(`UploadsHold`). `StagedPerDelivery` is a count: what is staged of a record, plus the
worker that has it, plus its message, never exceeds one for the upload and one for each
redelivery (`DeliveriesPay`). For the reviews, what was read as decided is decided still
(`SeenDecided`) and a single approval has read its record undecided (`ApprovesUndecided`);
`RejectedLeavesTrail`, `MatchedIsDecided` and `RejectionUndoneKnowingly` follow, the last
for records of any route, not only "pending".

`OfficeProofs` covers the three modules of the run `office`.

* The tray: that an action is carried out no more often than there are requests
  (`ExecutionsBounded`) is not inductive. What is, is the number of traces it has left plus
  the number of requests open on it, since a commit trades the one for the other and a
  new request needs a pending action, which has left none. `OutcomeOnRecord` is part of
  `CooInv`, and `DecisionSettles` follows from it. The refinement of `Docket`
  (`CooImplementsDocket`) needs of the invariant only types and that a request names an
  action there is: a commit is a ruling that leaves one more trace or none, and an e-mail
  SendGrid has taken is an act that no rollback takes back.
* The conversation: `ConversationInv` says that the numbers in use have no gap and that
  questions are odd. The prefix that is in use always ends with an answer, and a message in
  flight holds an odd number that is in use or the next one (`TurnsInv`), so an answer
  that is stored brings its question or finds it there.
* The loops: `FireAnsweredOnce` holds since neither `last_run_at` nor a stamp that is still
  to be committed is before a fire that was answered with no other run under way (`Kept`),
  which needs that a run is stamped no earlier than its session began (`Stamps`). `OpsInv` needs that a session has at most one run of each of
  its loops and none of a loop still to do (`RunsOnce`), or else one commit would count a
  run's proposals and not stamp them.
* Decisions: `DecisionsInv` relates rows to the last entry about them in a sequence. An
  approval that read a pending decision may commit after another one, so the invariant
  keeps what an open request has read (`RequestsKnow`): an approver of an add-back that
  was read is in the log for good. A pending decision has no approver.

`RecordsProofs` covers the three modules of the run `records`.

* `InterviewInv`: the numbers in use are 1..k with a question last, and there are enough
  questions for the odd ones (`NumberedTo`); an open answer is numbered next to a question
  that is in use and counted the questions before it (`CallsKnow`), so that, late or
  twice, it leaves no gap and its follow-up is far enough in the script.
* `KnowledgeInv`: the documents of a source plus the indexers that looked and found none
  are no more than the indexers (`RacesBounded`); what an indexer has flushed is locked
  (`RowsLocked`) and what it read is still true (`ReadStillTrue`), so chunks and content
  change together.
* `NothingSkipped` and `SyncInv`: records and cursor become visible together, so an open
  sync must have in hand what makes up for the cursor it brings (`Ahead`), and what it has
  inserted is with nobody else (`Fresh`), so that the counts of the log add up. The newest
  credential is a maximum over rows; that it is one of them is proved from the
  well-foundedness of the natural numbers.

`MonitorProofs` proves `NoSecondDiagnosis`, `DiagnosisSettles` and the refinement of
`Docket`, which needs that what a request has taken up stays in the table (`HeardExist`)
and that what a run commits is appended and proposed. The first rests on
`MineIsNew`, what a run has inserted is inserted by no other and seen by none, and
`WorkKnown`, what a run works on is its own or committed. `MonTypeOK` bounds the diagnoses
of a source by the runs: those that exist plus the runs that may still commit one
(`DiagnosesBounded`), since a run drafts one diagnosis of what it took up
(`DiagnosesOnce`) and takes up only what is new.

`Folding` is what the proofs about the calculations rest on. The calculations are folds and
chains in which each value is computed from the one before it, and the provers cannot apply
a fact about every operator to one of them, so induction cannot be cited from the library.
`Folding` has the operator and the invariant as CONSTANTS instead: it proves, from the
well-foundedness of the natural numbers, that a fold is the last value of a run
(`FoldRuns`) and that what holds of the base and survives every element holds of every
value of a run (`RunInduction`) and of the fold (`FoldInduction`). A calculation takes these
facts from an `INSTANCE` with its own operator and invariant put in.

`CalculationProofs` proves the properties of `Calculations` for all inputs that
`InputsAssumption` admits.

* Receivables (`ReceivablesAreRight`): a total is the end of a running sum, and sums of
  what is kept of a list are sums over the list with zeros for the rest. The ages share the
  numbers out without gap or overlap, so the buckets and the total hold the same cents. The
  thirteen weeks are a chain that begins each week with what the last one left
  (`WeeksChain`), their low is a fold of its own (`LowestIs`), and a stressed week is
  compared with the week it was.
* Earnings (`EarningsAreRight`): the company's gross profit is the sum of lines that are
  rounded already. The bridge is a sum over add-backs, split by level. A dearer bid never
  scores worse because rounding is monotone (`NearestGrows`; `HalfUp` is pinned down by two
  inequalities, `Nearest`), and a reprice without costs that are shares of the price reaches
  its margin to a hundredth of a percent because price and margin are each off by half a
  unit at most, which is little of a labor of 25.00 or more. That the period valued is the
  last full year, or the first with its label, follows from what the ends of a filtered list
  are (`KeptEnds`).
* Goals (`GoalsAreMeasured`): each month adds what the straight line to the target still
  lacks, whatever churned (`LastGrossAdds`), so the last one ends at the target or above.
* Advice (`AdviceIsSettled`): the invariant of a building is `Settled`: a row holds what was
  decided, else the last idea so far with its title, else what was there before. To settle
  what is settled changes a row only for a title whose last idea is another one
  (`SettledAgain`), and in whatever order the pain points come, that idea is the same
  unless two different ones share the title (`LastIdea`).
* Scores (`ScoresSound`, and `ScoresAreSound` for the runs' property): since the extraction
  passes no match suggestions, the best score is 0.885 and nothing is approved unseen; with
  two required fields missing it is below 0.70; and a key that is filled in takes no field
  away from either count, whichever of two keys the extraction falls back on. The prover
  cannot compute these scores: the proof bounds each of the four weighted parts by itself.
* Rankings (`MatchesAreRanked`): an element's rank counts those ahead of it; that every rank
  is taken once, and so that the sorted list is the list, is a pigeonhole argument over
  cardinalities. Of a customer's names the lowest score found is kept, as every later one
  wins or is lower already (`KeepingLowest`), so none comes twice; an exact
  amount close in time scores 80 at least, which only a reference can beat; and cutting to
  a budget keeps the first block.

`TextProofs` proves `TextIsKept`. For transcripts, the words of the turns so far with those
of the turn in hand are the words of the lines so far, and outside VTT each is said by the
speaker named last before its line. For documents, what is printed is what a text has
besides white space. Each stage (hard cuts, sentences, packing into chunks) is a fold or a
chain whose invariant says that the pieces so far with the piece in hand print what went in
so far, and how long a piece can be; an overlap is taken from the end of the chunk before, so
stripping it gives the chunk back.

Assumptions used are the named ASSUMEs of the modules: bounds and parameters are natural
numbers; processors, dispatches, sources, runs, jobs, requests and indexers are finite;
companies and checksums exist; the calculations' inputs are of the types the columns and
arguments have (`InputsAssumption`); decisions, add-backs and the package are different subjects
of the audit log, nobody is no analyst, and no source is called "none".

`DecisionSettles`, `DiagnosisSettles` and `AuditTellsStatus` are theorems that no run checks
by itself: TLC checks the refinements of `Docket`, which promise that what is decided
settles, and `AuditTellsStatus` is a conjunct of `GateInv`.

Only model-checked: the liveness properties `OnlyUrgencyStarves`, `MessagesWorkedOff` and
`FailuresDiagnosed` (they need fairness and ENABLED, which the prover does not handle), and
the six disagreements, which are counterexamples. Every other property of a passing run,
invariants, action properties and refinements, is also a theorem. Not
proved is that the model's sums, sorts and folds are the ones Python computes: that is what
`PROJECT.json` maps line by line.

## Plan

1. The daily agent loop over `Ingestion`, once something in it changes state.
2. Properties of single calculations beyond those the runs check, which the lemmas of
   `CalculationProofs` about sums, rounding and rankings now make short to prove.

## Not modelled

* The daily agent loop (`workers/agent_tasks.py`): almost all of it reads and reports; its
  automatic approval selects pending records with a score of at least 0.92, which no
  extraction reaches (`ScoresSound`) and the routing would not leave pending.
* Access control (`security/`, `routers/auth.py`, `routers/tenants.py`): checks before each
  handler that change no state of the models. That agents may not write some tables is in
  `TaskQueue`.
* Single-row CRUD, the frontend, seed data, migrations other than the constraints the
  models use: no protocol of their own.
* In ingestion the OAuth callback, in the calculations the texts of reports, benchmark
  data and the seeding of metrics; string similarity, embeddings and everything a
  language model writes are inputs wherever they appear.
