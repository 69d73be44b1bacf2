------------------------------ MODULE TaskQueue ------------------------------
(***************************************************************************)
(* The agent task queue: rows of agent_tasks, the agents that claim them   *)
(* through services/agents/task_queue.py, and the cancel requests of       *)
(* routers/agents.py.  One action is what one database session does        *)
(* between two points where another session can get in: a SELECT is one    *)
(* step and the UPDATE that commits is another, because get_db() runs at   *)
(* READ COMMITTED and only claim_next_task locks what it reads.  An UPDATE *)
(* and its commit are one step, its row lock keeps other writers out.      *)
(***************************************************************************)
EXTENDS Naturals

CONSTANTS
    MaxTasks,      \* bound: how many rows agent_tasks may ever hold
    MaxRetries,    \* AgentTask.max_retries (3 in the code)
    Workers,       \* agent processes that claim tasks
    Lanes,         \* classes of tasks an agent filters on: (agent_id, task_type)
    Cancels,       \* concurrent cancel_task requests
    Delays,        \* minutes until scheduled_at that an enqueuer may ask for
    Tables,        \* tables an agent may say it has written
    AGENT_WRITE_PROHIBITED,
    Priority,      \* priority of each task, fixed at creation
    Lane,          \* lane of each task, fixed at creation
    Serves         \* the lanes each worker asks for

\* Rows are numbered in the order of created_at.
Tasks == 1..MaxTasks
NoTask == 0

ASSUME QueueAssumption ==
    /\ MaxTasks \in Nat
    /\ MaxRetries \in Nat \ {0}
    /\ Delays \subseteq Nat
    /\ AGENT_WRITE_PROHIBITED \subseteq Tables
    /\ Priority \in [Tasks -> Nat]
    /\ Lane \in [Tasks -> Lanes]
    /\ Serves \in [Workers -> SUBSET Lanes]

ASSUME BackoffAssumption == \A k \in 0..MaxRetries : 2^k \in Nat

\* "absent" is a row not inserted yet; the code never writes "failed".
Statuses == {"absent", "queued", "running", "awaiting_approval", "approved",
             "rejected", "completed", "terminal_failed"}

VARIABLES
    status,       \* AgentTask.status of each committed row
    retry_count,  \* AgentTask.retry_count
    wait,         \* minutes until scheduled_at, 0 when NULL or past
    held,         \* the task each agent is working on
    step,         \* how far each agent is with it
    seen,         \* retry_count as an agent's fail_task read it
    cancelling,   \* the task each open cancel request has read
    logs,         \* number of agent_action_logs rows of each task
    notices,      \* terminal failure messages sent for each task
    attempts      \* history: how often each task was claimed

queueVars == <<status, retry_count, wait, held, step, seen, cancelling,
               logs, notices, attempts>>

Steps == {"idle", "working", "failing", "notified"}

TypeOK ==
    /\ status \in [Tasks -> Statuses]
    /\ retry_count \in [Tasks -> Nat]
    /\ wait \in [Tasks -> Nat]
    /\ held \in [Workers -> Tasks \union {NoTask}]
    /\ step \in [Workers -> Steps]
    /\ seen \in [Workers -> Nat]
    /\ cancelling \in [Cancels -> Tasks \union {NoTask}]
    /\ logs \in [Tasks -> Nat]
    /\ notices \in [Tasks -> Nat]
    /\ attempts \in [Tasks -> Nat]

QueueInit ==
    /\ status = [t \in Tasks |-> "absent"]
    /\ retry_count = [t \in Tasks |-> 0]
    /\ wait = [t \in Tasks |-> 0]
    /\ held = [w \in Workers |-> NoTask]
    /\ step = [w \in Workers |-> "idle"]
    /\ seen = [w \in Workers |-> 0]
    /\ cancelling = [c \in Cancels |-> NoTask]
    /\ logs = [t \in Tasks |-> 0]
    /\ notices = [t \in Tasks |-> 0]
    /\ attempts = [t \in Tasks |-> 0]

-----------------------------------------------------------------------------
(* Enqueuing and claiming                                                  *)

\* The row the next INSERT creates.
NextRow(t) ==
    /\ status[t] = "absent"
    /\ \A u \in Tasks : u < t => status[u] # "absent"

enqueue_task(t, d) ==
    /\ NextRow(t)
    /\ d \in Delays
    /\ status' = [status EXCEPT ![t] = "queued"]
    /\ wait' = [wait EXCEPT ![t] = d]
    /\ UNCHANGED <<retry_count, held, step, seen, cancelling, logs, notices,
                   attempts>>

\* Variant of Due for mutation: rows already running are offered again.
DueRunning(w) ==
    {t \in Tasks : status[t] \in {"queued", "running"} /\ wait[t] = 0
                   /\ Lane[t] \in Serves[w]}

\* Variant of Due for mutation: every row that is not running is offered.
DueNotRunning(w) ==
    {t \in Tasks : status[t] \notin {"absent", "running"} /\ wait[t] = 0
                   /\ Lane[t] \in Serves[w]}

Due(w) ==
    {t \in Tasks : status[t] = "queued" /\ wait[t] = 0 /\ Lane[t] \in Serves[w]}

\* ORDER BY priority, created_at.
Before(t, u) ==
    \/ Priority[t] < Priority[u]
    \/ Priority[t] = Priority[u] /\ t <= u

\* The SELECT ... FOR UPDATE SKIP LOCKED, the UPDATE and the caller's commit.
\* A locked row is re-read before it is returned, so the step is atomic.
claim_next_task(w) ==
    /\ held[w] = NoTask
    /\ \E t \in Due(w) :
        /\ \A u \in Due(w) : Before(t, u)
        /\ status' = [status EXCEPT ![t] = "running"]
        /\ held' = [held EXCEPT ![w] = t]
        /\ attempts' = [attempts EXCEPT ![t] = @ + 1]
    /\ step' = [step EXCEPT ![w] = "working"]
    /\ UNCHANGED <<retry_count, wait, seen, cancelling, logs, notices>>

-----------------------------------------------------------------------------
(* What an agent does with the task it holds.  None of these reads the     *)
(* status before it writes one.                                            *)

Release(w) ==
    /\ held' = [held EXCEPT ![w] = NoTask]
    /\ step' = [step EXCEPT ![w] = "idle"]
    /\ seen' = [seen EXCEPT ![w] = 0]

\* validate_agent_writes raises before anything is written.
complete_task(w, tables_written) ==
    /\ step[w] = "working"
    /\ tables_written \intersect AGENT_WRITE_PROHIBITED = {}
    /\ status' = [status EXCEPT ![held[w]] = "completed"]
    /\ logs' = [logs EXCEPT ![held[w]] = @ + 1]
    /\ Release(w)
    /\ UNCHANGED <<retry_count, wait, cancelling, notices, attempts>>

\* The task half of request_approval.
park_task(w) ==
    /\ step[w] = "working"
    /\ status' = [status EXCEPT ![held[w]] = "awaiting_approval"]
    /\ Release(w)
    /\ UNCHANGED <<retry_count, wait, cancelling, logs, notices, attempts>>

\* fail_task reads the row ...
fail_read(w) ==
    /\ step[w] = "working"
    /\ step' = [step EXCEPT ![w] = "failing"]
    /\ seen' = [seen EXCEPT ![w] = retry_count[held[w]]]
    /\ UNCHANGED <<status, retry_count, wait, held, cancelling, logs, notices,
                   attempts>>

\* Variant of RetriesLeft for mutation: one retry too many.
RetriesLeftOneMore(w) == seen[w] + 1 <= MaxRetries

RetriesLeft(w) == seen[w] + 1 < MaxRetries

\* ... and either requeues it with exponential backoff ...
fail_requeue(w) ==
    /\ step[w] = "failing"
    /\ RetriesLeft(w)
    /\ retry_count' = [retry_count EXCEPT ![held[w]] = seen[w] + 1]
    /\ wait' = [wait EXCEPT ![held[w]] = 2^(seen[w] + 1)]
    /\ status' = [status EXCEPT ![held[w]] = "queued"]
    /\ Release(w)
    /\ UNCHANGED <<cancelling, logs, notices, attempts>>

\* ... or tells the operator before the session is flushed and committed ...
notify_terminal_failure(w) ==
    /\ step[w] = "failing"
    /\ ~RetriesLeft(w)
    /\ notices' = [notices EXCEPT ![held[w]] = @ + 1]
    /\ step' = [step EXCEPT ![w] = "notified"]
    /\ UNCHANGED <<status, retry_count, wait, held, seen, cancelling, logs,
                   attempts>>

\* ... and then gives the task up.
fail_terminal(w) ==
    /\ step[w] = "notified"
    /\ retry_count' = [retry_count EXCEPT ![held[w]] = seen[w] + 1]
    /\ status' = [status EXCEPT ![held[w]] = "terminal_failed"]
    /\ Release(w)
    /\ UNCHANGED <<wait, cancelling, logs, notices, attempts>>

\* The agent process dies: its open session is rolled back and nothing in the
\* code takes the row out of "running".  Another process may start in its place.
agent_crash(w) ==
    /\ held[w] # NoTask
    /\ Release(w)
    /\ UNCHANGED <<status, retry_count, wait, cancelling, logs, notices,
                   attempts>>

-----------------------------------------------------------------------------
(* Cancelling, and time                                                    *)

\* cancel_task reads the row and answers 409 in any other status.
cancel_read(c, t) ==
    /\ cancelling[c] = NoTask
    /\ status[t] \in {"queued", "awaiting_approval"}
    /\ cancelling' = [cancelling EXCEPT ![c] = t]
    /\ UNCHANGED <<status, retry_count, wait, held, step, seen, logs, notices,
                   attempts>>

\* Variant of cancel_write for mutation: the task is put back in the queue.
cancel_write_requeues(c) ==
    /\ cancelling[c] # NoTask
    /\ status' = [status EXCEPT ![cancelling[c]] = "queued"]
    /\ cancelling' = [cancelling EXCEPT ![c] = NoTask]
    /\ UNCHANGED <<retry_count, wait, held, step, seen, logs, notices, attempts>>

cancel_write(c) ==
    /\ cancelling[c] # NoTask
    /\ status' = [status EXCEPT ![cancelling[c]] = "rejected"]
    /\ cancelling' = [cancelling EXCEPT ![c] = NoTask]
    /\ UNCHANGED <<retry_count, wait, held, step, seen, logs, notices, attempts>>

\* The request is dropped (client gone, server stopped) and rolled back.
cancel_abort(c) ==
    /\ cancelling[c] # NoTask
    /\ cancelling' = [cancelling EXCEPT ![c] = NoTask]
    /\ UNCHANGED <<status, retry_count, wait, held, step, seen, logs, notices,
                   attempts>>

\* A minute passes.
Tick ==
    /\ \E t \in Tasks : wait[t] > 0
    /\ wait' = [t \in Tasks |-> IF wait[t] > 0 THEN wait[t] - 1 ELSE 0]
    /\ UNCHANGED <<status, retry_count, held, step, seen, cancelling, logs,
                   notices, attempts>>

-----------------------------------------------------------------------------
\* A step of an agent that does not write approval_requests.
AgentStep(w) ==
    \/ claim_next_task(w)
    \/ \E tables_written \in SUBSET Tables : complete_task(w, tables_written)
    \/ fail_read(w)
    \/ fail_requeue(w)
    \/ notify_terminal_failure(w)
    \/ fail_terminal(w)
    \/ agent_crash(w)

CancelStep(c) ==
    \/ \E t \in Tasks : cancel_read(c, t)
    \/ cancel_write(c)
    \/ cancel_abort(c)

QueueNext ==
    \/ \E t \in Tasks, d \in Delays : enqueue_task(t, d)
    \/ \E w \in Workers : AgentStep(w) \/ park_task(w)
    \/ \E c \in Cancels : CancelStep(c)
    \/ Tick

QueueSpec == QueueInit /\ [][QueueNext]_queueVars

\* An agent polls for work and finishes what it starts, one way or another.
WorkStep(w) ==
    \/ \E tables_written \in SUBSET Tables : complete_task(w, tables_written)
    \/ park_task(w)
    \/ fail_read(w)
    \/ fail_requeue(w)
    \/ notify_terminal_failure(w)
    \/ fail_terminal(w)

-----------------------------------------------------------------------------
(* Properties                                                              *)

Holders(t) == {w \in Workers : held[w] = t}

\* No two agents ever work on the same task, whatever failed, was cancelled or
\* crashed before: claim_next_task's "prevent double-claiming".
SingleHolder ==
    \A w, v \in Workers : held[w] = held[v] /\ held[w] # NoTask => w = v

\* No retry is lost or counted twice although fail_task reads and writes
\* retry_count in two steps: every claim before the current one was paid for by
\* one retry, and a task is run at most max_retries times.
AttemptAccounting ==
    \A t \in Tasks :
        /\ attempts[t] <= MaxRetries
        /\ retry_count[t] <= attempts[t]
        /\ attempts[t] <= retry_count[t] + 1
        /\ status[t] = "queued" => attempts[t] = retry_count[t]

\* A task is given up only after max_retries failures, and never without the
\* operator having been told, exactly once.
TerminalExhausted ==
    \A t \in Tasks :
        /\ notices[t] <= 1
        /\ status[t] = "terminal_failed" =>
              retry_count[t] = MaxRetries /\ notices[t] = 1

\* A task completes at most once, and agent_action_logs has a row of it
\* whenever the task says it is completed.
CompletionLogged ==
    \A t \in Tasks :
        /\ logs[t] <= 1
        /\ status[t] = "completed" => logs[t] = 1

\* A cancellation that cancel_task acknowledged is undone, if at all, only by an
\* agent that had claimed the task before the cancellation was committed.
CancelUndoneOnlyByHolder ==
    [][\A t \in Tasks :
        status[t] = "rejected" /\ status'[t] # "rejected" => Holders(t) # {}
      ]_queueVars

\* The queue implements the ledger of WorkLedger.
PlaceOf(t) ==
    IF Holders(t) # {} THEN "taken"
    ELSE IF status[t] = "absent" THEN "new"
    ELSE IF status[t] = "queued" THEN "open"
    ELSE "off"

Ledger == INSTANCE WorkLedger WITH
    Jobs <- Tasks, Owners <- Workers, MaxAttempts <- MaxRetries,
    place <- [t \in Tasks |-> PlaceOf(t)],
    owners <- [t \in Tasks |-> Holders(t)],
    tries <- attempts

\* Every step of the queue is a step of the ledger or changes nothing in it: no
\* interleaving of claims, retries, crashes and stale cancellations brings a task
\* back to the queue once it left it, or hands it out once too often.
QueueRefinesLedger == Ledger!LedgerSpec

\* docs/agent_execution.md draws no transition out of COMPLETED or
\* TERMINAL_FAILED, and docs/acceptance_criteria.md says that an invalid
\* transition raises an error.
FinishedIsFinal ==
    [][\A t \in Tasks :
        status[t] \in {"completed", "terminal_failed"} => status'[t] = status[t]
      ]_queueVars

-----------------------------------------------------------------------------
(* The inductive invariant behind the safety properties.                   *)

\* A task in an agent's hands was claimed and is not back in the queue.
HeldRuns ==
    \A w \in Workers :
        /\ held[w] = NoTask <=> step[w] = "idle"
        /\ held[w] # NoTask => status[held[w]] \in {"running", "rejected"}

\* A task in hand has used one attempt more than it has failures, has not been
\* logged, and its failure count is what fail_task read.
HeldCounts ==
    \A w \in Workers : held[w] # NoTask =>
        /\ attempts[held[w]] = retry_count[held[w]] + 1
        /\ logs[held[w]] = 0
        /\ notices[held[w]] = IF step[w] = "notified" THEN 1 ELSE 0
        /\ step[w] \in {"failing", "notified"} => seen[w] = retry_count[held[w]]
        /\ step[w] = "notified" => seen[w] + 1 = MaxRetries

\* A task that waits for its first or next attempt has attempts left and
\* nothing on record but its failures.
WaitingCounts ==
    \A t \in Tasks :
        /\ status[t] = "queued" => attempts[t] < MaxRetries
        /\ status[t] = "absent" => attempts[t] = 0 /\ retry_count[t] = 0
        /\ status[t] \in {"absent", "queued"} => logs[t] = 0 /\ notices[t] = 0

CancelsExist ==
    \A c \in Cancels : cancelling[c] # NoTask => status[cancelling[c]] # "absent"

QueueInv ==
    /\ TypeOK
    /\ SingleHolder
    /\ HeldRuns
    /\ HeldCounts
    /\ WaitingCounts
    /\ CancelsExist
    /\ AttemptAccounting
    /\ TerminalExhausted
    /\ CompletionLogged

=============================================================================
