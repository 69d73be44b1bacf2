----------------------- MODULE AutomationDispatchProofs -----------------------
(***************************************************************************)
(* Proofs about the queue of tasks, the gate in front of it and the        *)
(* roadmap that posts tasks through the gate, in this order, for any       *)
(* tasks, agents, requests, items and dispatches.                          *)
(*                                                                         *)
(* The queue: QueueInv is inductive.  Each action has a lemma of its own   *)
(* over the queue's variables alone, so that the gate and the roadmap,     *)
(* which add variables, can cite it for their own steps.                   *)
(*                                                                         *)
(* The gate: GateInv is inductive: what makes it so is that a task that    *)
(* has asked for approval is in nobody's hands and not in the queue, and   *)
(* that no step of the queue brings such a task back (QuietStays).  The    *)
(* requests implement Docket: only a review rules on them or adds to       *)
(* their trail.                                                            *)
(*                                                                         *)
(* The roadmap: the gate's invariant survives the tasks the roadmap posts, *)
(* a dispatched item stays linked to a task behind a request, and what     *)
(* races to dispatch one item makes a task per open dispatch at most.  The *)
(* roadmap implements WorkLedger and Docket as the gate does.              *)
(***************************************************************************)
EXTENDS AutomationDispatch, FiniteSetTheorems, TLAPS

(* The queue                                                               *)

\* A number is not a task's number and no task at once.
LEMMA NoTaskNotTask == NoTask \notin Tasks
  BY QueueAssumption DEF NoTask, Tasks

\* The task an agent holds is a row, in nobody else's hands, claimed and not
\* finished.
LEMMA HeldFacts ==
  ASSUME QueueInv, NEW w \in Workers, step[w] # "idle"
  PROVE  /\ held[w] \in Tasks
         /\ held[w] # NoTask
         /\ status[held[w]] \in {"running", "rejected"}
         /\ \A v \in Workers : held[v] = held[w] => v = w
<1>1. held[w] # NoTask
  BY DEF QueueInv, HeldRuns
<1>2. held[w] \in Tasks
  BY <1>1 DEF QueueInv, TypeOK
<1>3. status[held[w]] \in {"running", "rejected"}
  BY <1>1 DEF QueueInv, HeldRuns
<1> QED
  BY <1>1, <1>2, <1>3 DEF QueueInv, SingleHolder

\* The empty queue satisfies the invariant.
LEMMA InitInv == QueueInit => QueueInv
<1> SUFFICES ASSUME QueueInit PROVE QueueInv
  OBVIOUS
<1>1. TypeOK
  BY DEF QueueInit, TypeOK, Statuses, Steps
<1>2. SingleHolder /\ HeldRuns /\ HeldCounts /\ CancelsExist
  BY DEF QueueInit, SingleHolder, HeldRuns, HeldCounts, CancelsExist
<1>3. WaitingCounts /\ AttemptAccounting /\ TerminalExhausted /\ CompletionLogged
  BY QueueAssumption
  DEF QueueInit, WaitingCounts, AttemptAccounting, TerminalExhausted, CompletionLogged
<1> QED
  BY <1>1, <1>2, <1>3 DEF QueueInv

-----------------------------------------------------------------------------
\* A new row starts with nothing on record and in nobody's hands.
LEMMA EnqueueInv ==
  ASSUME QueueInv, NEW t \in Tasks, NEW d \in Delays, enqueue_task(t, d)
  PROVE  QueueInv'
<1>1. /\ status[t] = "absent"
      /\ status' = [status EXCEPT ![t] = "queued"]
      /\ wait' = [wait EXCEPT ![t] = d]
      /\ UNCHANGED <<retry_count, held, step, seen, cancelling, logs, notices,
                     attempts>>
  BY DEF enqueue_task, NextRow
<1>2. TypeOK'
  BY <1>1, QueueAssumption DEF QueueInv, TypeOK, Statuses
<1>3. SingleHolder'
  BY <1>1 DEF QueueInv, SingleHolder
<1>4. status'[t] = "queued" /\ \A u \in Tasks : u # t => status'[u] = status[u]
  BY <1>1 DEF QueueInv, TypeOK
<1>5. \A w \in Workers : held[w] # NoTask => held[w] \in Tasks /\ held[w] # t
  BY <1>1 DEF QueueInv, TypeOK, HeldRuns
<1>6. HeldRuns' /\ HeldCounts'
  BY <1>1, <1>4, <1>5 DEF QueueInv, HeldRuns, HeldCounts
<1>7. CancelsExist'
  BY <1>1, <1>4 DEF QueueInv, TypeOK, CancelsExist
<1>8. attempts[t] = 0 /\ retry_count[t] = 0 /\ logs[t] = 0 /\ notices[t] = 0
  BY <1>1 DEF QueueInv, WaitingCounts
<1>9. WaitingCounts' /\ AttemptAccounting'
  BY <1>1, <1>4, <1>8, QueueAssumption DEF QueueInv, WaitingCounts, AttemptAccounting
<1>10. TerminalExhausted' /\ CompletionLogged'
  BY <1>1, <1>4 DEF QueueInv, TerminalExhausted, CompletionLogged
<1> QED
  BY <1>2, <1>3, <1>6, <1>7, <1>9, <1>10 DEF QueueInv

\* A claimed task was queued, hence held by no one and with attempts left.
LEMMA ClaimInv ==
  ASSUME QueueInv, NEW w \in Workers, claim_next_task(w)
  PROVE  QueueInv'
<1>1. PICK t \in Tasks :
        /\ status[t] = "queued"
        /\ status' = [status EXCEPT ![t] = "running"]
        /\ held' = [held EXCEPT ![w] = t]
        /\ attempts' = [attempts EXCEPT ![t] = @ + 1]
  BY DEF claim_next_task, Due
<1>2. /\ held[w] = NoTask
      /\ step' = [step EXCEPT ![w] = "working"]
      /\ UNCHANGED <<retry_count, wait, seen, cancelling, logs, notices>>
  BY DEF claim_next_task
<1>3. TypeOK'
  BY <1>1, <1>2 DEF QueueInv, TypeOK, Statuses, Steps
<1>4. /\ status'[t] = "running"
      /\ attempts'[t] = attempts[t] + 1
      /\ \A u \in Tasks : u # t => status'[u] = status[u] /\ attempts'[u] = attempts[u]
  BY <1>1 DEF QueueInv, TypeOK
<1>5. /\ held'[w] = t
      /\ step'[w] = "working"
      /\ \A v \in Workers : v # w => held'[v] = held[v] /\ step'[v] = step[v]
  BY <1>1, <1>2 DEF QueueInv, TypeOK
<1>6. \A v \in Workers : held[v] # t
  BY <1>1, NoTaskNotTask DEF QueueInv, HeldRuns
<1>7. \A v \in Workers : held[v] # NoTask => held[v] \in Tasks
  BY DEF QueueInv, TypeOK
<1>8. SingleHolder'
  BY <1>5, <1>6 DEF QueueInv, SingleHolder
<1>9. HeldRuns'
  BY <1>4, <1>5, <1>6, <1>7, NoTaskNotTask DEF QueueInv, HeldRuns
<1>10. /\ attempts[t] = retry_count[t]
       /\ attempts[t] < MaxRetries
       /\ logs[t] = 0
       /\ notices[t] = 0
  BY <1>1 DEF QueueInv, AttemptAccounting, WaitingCounts
<1>11. HeldCounts'
  BY <1>2, <1>4, <1>5, <1>6, <1>7, <1>10 DEF QueueInv, HeldCounts
<1>12. CancelsExist'
  BY <1>2, <1>4 DEF QueueInv, TypeOK, CancelsExist
<1>13. attempts[t] \in Nat /\ retry_count[t] \in Nat
  BY DEF QueueInv, TypeOK
<1>14. WaitingCounts' /\ AttemptAccounting'
  BY <1>2, <1>4, <1>10, <1>13, QueueAssumption DEF QueueInv, WaitingCounts, AttemptAccounting
<1>15. TerminalExhausted' /\ CompletionLogged'
  BY <1>2, <1>4 DEF QueueInv, TerminalExhausted, CompletionLogged
<1> QED
  BY <1>3, <1>8, <1>9, <1>11, <1>12, <1>14, <1>15 DEF QueueInv

-----------------------------------------------------------------------------
\* Letting go of a task leaves what the other agents hold as it was, if the rows
\* of their tasks are left alone.
LEMMA ReleaseInv ==
  ASSUME QueueInv, NEW w \in Workers, step[w] # "idle", Release(w),
         \A u \in Tasks : u # held[w] =>
            /\ status'[u] = status[u]
            /\ retry_count'[u] = retry_count[u]
            /\ attempts'[u] = attempts[u]
            /\ logs'[u] = logs[u]
            /\ notices'[u] = notices[u]
  PROVE  SingleHolder' /\ HeldRuns' /\ HeldCounts'
<1>1. /\ held'[w] = NoTask
      /\ step'[w] = "idle"
      /\ \A v \in Workers : v # w =>
            held'[v] = held[v] /\ step'[v] = step[v] /\ seen'[v] = seen[v]
  BY DEF Release, QueueInv, TypeOK
<1>2. \A v \in Workers : v # w /\ held[v] # NoTask =>
        held[v] \in Tasks /\ held[v] # held[w]
  BY HeldFacts DEF QueueInv, TypeOK
<1>3. SingleHolder'
  BY <1>1 DEF QueueInv, SingleHolder
<1>4. HeldRuns'
  BY <1>1, <1>2 DEF QueueInv, HeldRuns
<1>5. HeldCounts'
  BY <1>1, <1>2 DEF QueueInv, HeldCounts
<1> QED
  BY <1>3, <1>4, <1>5

\* A completed task gets the one log row it was missing.
LEMMA CompleteInv ==
  ASSUME QueueInv, NEW w \in Workers, NEW tw, complete_task(w, tw)
  PROVE  QueueInv'
<1> DEFINE h == held[w]
<1>1. /\ step[w] = "working"
      /\ status' = [status EXCEPT ![h] = "completed"]
      /\ logs' = [logs EXCEPT ![h] = @ + 1]
      /\ Release(w)
      /\ UNCHANGED <<retry_count, wait, cancelling, notices, attempts>>
  BY DEF complete_task
<1>2. h \in Tasks /\ h # NoTask /\ status[h] # "absent"
  BY <1>1, HeldFacts
<1>3. TypeOK'
  BY <1>1, <1>2 DEF QueueInv, TypeOK, Statuses, Steps, Release
<1>4. /\ status'[h] = "completed"
      /\ logs'[h] = 1
      /\ \A u \in Tasks : u # h => status'[u] = status[u] /\ logs'[u] = logs[u]
  BY <1>1, <1>2 DEF QueueInv, TypeOK, HeldCounts
<1>5. SingleHolder' /\ HeldRuns' /\ HeldCounts'
  BY <1>1, <1>4, ReleaseInv
<1>6. CancelsExist'
  BY <1>1, <1>4 DEF QueueInv, TypeOK, CancelsExist
<1>7. WaitingCounts' /\ AttemptAccounting'
  BY <1>1, <1>4 DEF QueueInv, WaitingCounts, AttemptAccounting
<1>8. TerminalExhausted' /\ CompletionLogged'
  BY <1>1, <1>4 DEF QueueInv, TerminalExhausted, CompletionLogged
<1> QED
  BY <1>3, <1>5, <1>6, <1>7, <1>8 DEF QueueInv

\* A parked task keeps its counts and leaves the agent's hands.
LEMMA ParkInv ==
  ASSUME QueueInv, NEW w \in Workers, park_task(w)
  PROVE  QueueInv'
<1> DEFINE h == held[w]
<1>1. /\ step[w] = "working"
      /\ status' = [status EXCEPT ![h] = "awaiting_approval"]
      /\ Release(w)
      /\ UNCHANGED <<retry_count, wait, cancelling, logs, notices, attempts>>
  BY DEF park_task
<1>2. h \in Tasks /\ h # NoTask /\ status[h] # "absent"
  BY <1>1, HeldFacts
<1>3. TypeOK'
  BY <1>1, <1>2 DEF QueueInv, TypeOK, Statuses, Steps, Release
<1>4. /\ status'[h] = "awaiting_approval"
      /\ \A u \in Tasks : u # h => status'[u] = status[u]
  BY <1>1, <1>2 DEF QueueInv, TypeOK
<1>5. SingleHolder' /\ HeldRuns' /\ HeldCounts'
  BY <1>1, <1>4, ReleaseInv
<1>6. CancelsExist'
  BY <1>1, <1>4 DEF QueueInv, TypeOK, CancelsExist
<1>7. WaitingCounts' /\ AttemptAccounting'
  BY <1>1, <1>4 DEF QueueInv, WaitingCounts, AttemptAccounting
<1>8. TerminalExhausted' /\ CompletionLogged'
  BY <1>1, <1>4 DEF QueueInv, TerminalExhausted, CompletionLogged
<1> QED
  BY <1>3, <1>5, <1>6, <1>7, <1>8 DEF QueueInv

\* An agent that dies takes nothing with it but its hold on the task.
LEMMA CrashInv ==
  ASSUME QueueInv, NEW w \in Workers, agent_crash(w)
  PROVE  QueueInv'
<1>1. /\ held[w] # NoTask
      /\ Release(w)
      /\ UNCHANGED <<status, retry_count, wait, cancelling, logs, notices, attempts>>
  BY DEF agent_crash
<1>2. step[w] # "idle"
  BY <1>1 DEF QueueInv, HeldRuns
<1>3. TypeOK'
  BY <1>1 DEF QueueInv, TypeOK, Steps, Release
<1>4. SingleHolder' /\ HeldRuns' /\ HeldCounts'
  BY <1>1, <1>2, ReleaseInv
<1>5. CancelsExist' /\ WaitingCounts' /\ AttemptAccounting'
  BY <1>1 DEF QueueInv, CancelsExist, WaitingCounts, AttemptAccounting
<1>6. TerminalExhausted' /\ CompletionLogged'
  BY <1>1 DEF QueueInv, TerminalExhausted, CompletionLogged
<1> QED
  BY <1>3, <1>4, <1>5, <1>6 DEF QueueInv

-----------------------------------------------------------------------------
\* fail_task reads a retry_count that nobody else can change.
LEMMA FailReadInv ==
  ASSUME QueueInv, NEW w \in Workers, fail_read(w)
  PROVE  QueueInv'
<1>1. /\ step[w] = "working"
      /\ step' = [step EXCEPT ![w] = "failing"]
      /\ seen' = [seen EXCEPT ![w] = retry_count[held[w]]]
      /\ UNCHANGED <<status, retry_count, wait, held, cancelling, logs, notices,
                     attempts>>
  BY DEF fail_read
<1>2. held[w] \in Tasks
  BY <1>1, HeldFacts
<1>3. TypeOK'
  BY <1>1, <1>2 DEF QueueInv, TypeOK, Steps
<1>4. /\ step'[w] = "failing"
      /\ seen'[w] = retry_count[held[w]]
      /\ \A v \in Workers : v # w => step'[v] = step[v] /\ seen'[v] = seen[v]
  BY <1>1 DEF QueueInv, TypeOK
<1>5. SingleHolder' /\ HeldRuns' /\ HeldCounts'
  BY <1>1, <1>4 DEF QueueInv, SingleHolder, HeldRuns, HeldCounts
<1>6. CancelsExist' /\ WaitingCounts' /\ AttemptAccounting'
  BY <1>1 DEF QueueInv, CancelsExist, WaitingCounts, AttemptAccounting
<1>7. TerminalExhausted' /\ CompletionLogged'
  BY <1>1 DEF QueueInv, TerminalExhausted, CompletionLogged
<1> QED
  BY <1>3, <1>5, <1>6, <1>7 DEF QueueInv

\* A failed task goes back to the queue only while it has attempts left.
LEMMA FailRequeueInv ==
  ASSUME QueueInv, NEW w \in Workers, fail_requeue(w)
  PROVE  QueueInv'
<1> DEFINE h == held[w]
<1>1. /\ step[w] = "failing"
      /\ seen[w] + 1 < MaxRetries
      /\ retry_count' = [retry_count EXCEPT ![h] = seen[w] + 1]
      /\ wait' = [wait EXCEPT ![h] = 2^(seen[w] + 1)]
      /\ status' = [status EXCEPT ![h] = "queued"]
      /\ Release(w)
      /\ UNCHANGED <<cancelling, logs, notices, attempts>>
  BY DEF fail_requeue, RetriesLeft
<1>2. h \in Tasks /\ h # NoTask /\ status[h] # "absent"
  BY <1>1, HeldFacts
<1>3. seen[w] \in Nat
  BY DEF QueueInv, TypeOK
<1>4. seen[w] + 1 \in 0..MaxRetries
  BY <1>1, <1>3, QueueAssumption
<1>5. 2^(seen[w] + 1) \in Nat
  BY <1>4, BackoffAssumption
<1>6. TypeOK'
  BY <1>1, <1>2, <1>3, <1>5 DEF QueueInv, TypeOK, Statuses, Steps, Release
<1>7. /\ attempts[h] = retry_count[h] + 1
      /\ logs[h] = 0
      /\ notices[h] = 0
      /\ seen[w] = retry_count[h]
  BY <1>1, <1>2 DEF QueueInv, HeldCounts
<1>8. /\ status'[h] = "queued"
      /\ retry_count'[h] = seen[w] + 1
      /\ \A u \in Tasks : u # h =>
            status'[u] = status[u] /\ retry_count'[u] = retry_count[u]
  BY <1>1, <1>2 DEF QueueInv, TypeOK
<1>9. SingleHolder' /\ HeldRuns' /\ HeldCounts'
  BY <1>1, <1>8, ReleaseInv
<1>10. CancelsExist'
  BY <1>1, <1>8 DEF QueueInv, TypeOK, CancelsExist
<1>11. WaitingCounts'
  BY <1>1, <1>7, <1>8 DEF QueueInv, WaitingCounts
<1>12. AttemptAccounting'
  BY <1>1, <1>3, <1>7, <1>8, QueueAssumption DEF QueueInv, AttemptAccounting
<1>13. TerminalExhausted' /\ CompletionLogged'
  BY <1>1, <1>8 DEF QueueInv, TerminalExhausted, CompletionLogged
<1> QED
  BY <1>6, <1>9, <1>10, <1>11, <1>12, <1>13 DEF QueueInv

\* The operator is told of a task that has no attempts left.
LEMMA NotifyInv ==
  ASSUME QueueInv, NEW w \in Workers, notify_terminal_failure(w)
  PROVE  QueueInv'
<1> DEFINE h == held[w]
<1>1. /\ step[w] = "failing"
      /\ ~(seen[w] + 1 < MaxRetries)
      /\ notices' = [notices EXCEPT ![h] = @ + 1]
      /\ step' = [step EXCEPT ![w] = "notified"]
      /\ UNCHANGED <<status, retry_count, wait, held, seen, cancelling, logs,
                     attempts>>
  BY DEF notify_terminal_failure, RetriesLeft
<1>2. /\ h \in Tasks
      /\ h # NoTask
      /\ status[h] \in {"running", "rejected"}
      /\ \A v \in Workers : held[v] = h => v = w
  BY <1>1, HeldFacts
<1>3. TypeOK'
  BY <1>1, <1>2 DEF QueueInv, TypeOK, Steps
<1>4. /\ notices[h] = 0
      /\ seen[w] = retry_count[h]
      /\ attempts[h] = retry_count[h] + 1
      /\ attempts[h] <= MaxRetries
      /\ retry_count[h] \in Nat
  BY <1>1, <1>2 DEF QueueInv, TypeOK, HeldCounts, AttemptAccounting
<1>5. seen[w] + 1 = MaxRetries
  BY <1>1, <1>4, QueueAssumption
<1>6. /\ notices'[h] = 1
      /\ step'[w] = "notified"
      /\ \A u \in Tasks : u # h => notices'[u] = notices[u]
      /\ \A v \in Workers : v # w => step'[v] = step[v]
  BY <1>1, <1>2, <1>4 DEF QueueInv, TypeOK
<1>7. SingleHolder' /\ HeldRuns'
  BY <1>1, <1>6 DEF QueueInv, SingleHolder, HeldRuns
<1>8. \A v \in Workers : held[v] # NoTask => held[v] \in Tasks
  BY DEF QueueInv, TypeOK
<1>9. HeldCounts'
  BY <1>1, <1>2, <1>4, <1>5, <1>6, <1>8 DEF QueueInv, HeldCounts
<1>10. CancelsExist' /\ AttemptAccounting' /\ CompletionLogged'
  BY <1>1 DEF QueueInv, CancelsExist, AttemptAccounting, CompletionLogged
<1>11. WaitingCounts' /\ TerminalExhausted'
  BY <1>1, <1>2, <1>6 DEF QueueInv, WaitingCounts, TerminalExhausted
<1> QED
  BY <1>3, <1>7, <1>9, <1>10, <1>11 DEF QueueInv

\* A task given up has used its retries, and the operator knows.
LEMMA FailTerminalInv ==
  ASSUME QueueInv, NEW w \in Workers, fail_terminal(w)
  PROVE  QueueInv'
<1> DEFINE h == held[w]
<1>1. /\ step[w] = "notified"
      /\ retry_count' = [retry_count EXCEPT ![h] = seen[w] + 1]
      /\ status' = [status EXCEPT ![h] = "terminal_failed"]
      /\ Release(w)
      /\ UNCHANGED <<wait, cancelling, logs, notices, attempts>>
  BY DEF fail_terminal
<1>2. h \in Tasks /\ h # NoTask /\ status[h] # "absent"
  BY <1>1, HeldFacts
<1>3. seen[w] \in Nat
  BY DEF QueueInv, TypeOK
<1>4. TypeOK'
  BY <1>1, <1>2, <1>3 DEF QueueInv, TypeOK, Statuses, Steps, Release
<1>5. /\ attempts[h] = retry_count[h] + 1
      /\ logs[h] = 0
      /\ notices[h] = 1
      /\ seen[w] = retry_count[h]
      /\ seen[w] + 1 = MaxRetries
  BY <1>1, <1>2 DEF QueueInv, HeldCounts
<1>6. /\ status'[h] = "terminal_failed"
      /\ retry_count'[h] = MaxRetries
      /\ \A u \in Tasks : u # h =>
            status'[u] = status[u] /\ retry_count'[u] = retry_count[u]
  BY <1>1, <1>2, <1>5 DEF QueueInv, TypeOK
<1>7. SingleHolder' /\ HeldRuns' /\ HeldCounts'
  BY <1>1, <1>6, ReleaseInv
<1>8. CancelsExist' /\ WaitingCounts'
  BY <1>1, <1>6 DEF QueueInv, TypeOK, CancelsExist, WaitingCounts
<1>9. AttemptAccounting'
  BY <1>1, <1>5, <1>6, QueueAssumption DEF QueueInv, AttemptAccounting
<1>10. TerminalExhausted' /\ CompletionLogged'
  BY <1>1, <1>5, <1>6 DEF QueueInv, TerminalExhausted, CompletionLogged
<1> QED
  BY <1>4, <1>7, <1>8, <1>9, <1>10 DEF QueueInv

-----------------------------------------------------------------------------
\* A cancellation, however stale, only ever writes "rejected".
LEMMA CancelInv ==
  ASSUME QueueInv, NEW c \in Cancels, CancelStep(c)
  PROVE  QueueInv'
<1>1. UNCHANGED <<retry_count, wait, held, step, seen, logs, notices, attempts>>
  BY DEF CancelStep, cancel_read, cancel_write, cancel_abort
<1>2. CASE status' = status
  <2>1. TypeOK'
    BY <1>1, <1>2
    DEF QueueInv, TypeOK, CancelStep, cancel_read, cancel_write, cancel_abort
  <2>2. CancelsExist'
    BY <1>1, <1>2
    DEF QueueInv, TypeOK, CancelsExist, CancelStep, cancel_read, cancel_write,
        cancel_abort
  <2>3. SingleHolder' /\ HeldRuns' /\ HeldCounts' /\ WaitingCounts'
    BY <1>1, <1>2 DEF QueueInv, SingleHolder, HeldRuns, HeldCounts, WaitingCounts
  <2>4. AttemptAccounting' /\ TerminalExhausted' /\ CompletionLogged'
    BY <1>1, <1>2 DEF QueueInv, AttemptAccounting, TerminalExhausted, CompletionLogged
  <2> QED
    BY <2>1, <2>2, <2>3, <2>4 DEF QueueInv
<1>3. CASE cancel_write(c)
  <2> DEFINE t == cancelling[c]
  <2>1. /\ t # NoTask
        /\ status' = [status EXCEPT ![t] = "rejected"]
        /\ cancelling' = [cancelling EXCEPT ![c] = NoTask]
    BY <1>3 DEF cancel_write
  <2>2. t \in Tasks
    BY <2>1 DEF QueueInv, TypeOK
  <2>3. TypeOK'
    BY <1>1, <2>1, <2>2 DEF QueueInv, TypeOK, Statuses
  <2>4. /\ status'[t] = "rejected"
        /\ \A u \in Tasks : u # t => status'[u] = status[u]
    BY <2>1, <2>2 DEF QueueInv, TypeOK
  <2>5. \A w \in Workers : held[w] # NoTask => held[w] \in Tasks
    BY DEF QueueInv, TypeOK
  <2>6. SingleHolder' /\ HeldRuns' /\ HeldCounts'
    BY <1>1, <2>4, <2>5 DEF QueueInv, SingleHolder, HeldRuns, HeldCounts
  <2>7. CancelsExist'
    BY <2>1, <2>4 DEF QueueInv, TypeOK, CancelsExist
  <2>8. WaitingCounts' /\ AttemptAccounting'
    BY <1>1, <2>4 DEF QueueInv, WaitingCounts, AttemptAccounting
  <2>9. TerminalExhausted' /\ CompletionLogged'
    BY <1>1, <2>4 DEF QueueInv, TerminalExhausted, CompletionLogged
  <2> QED
    BY <2>3, <2>6, <2>7, <2>8, <2>9 DEF QueueInv
<1> QED
  BY <1>2, <1>3 DEF CancelStep, cancel_read, cancel_abort

\* Time only shortens waits.
LEMMA TickInv ==
  ASSUME QueueInv, Tick
  PROVE  QueueInv'
<1>1. /\ wait' = [t \in Tasks |-> IF wait[t] > 0 THEN wait[t] - 1 ELSE 0]
      /\ UNCHANGED <<status, retry_count, held, step, seen, cancelling, logs,
                     notices, attempts>>
  BY DEF Tick
<1>2. wait' \in [Tasks -> Nat]
  BY <1>1 DEF QueueInv, TypeOK
<1>3. TypeOK'
  BY <1>1, <1>2 DEF QueueInv, TypeOK
<1>4. SingleHolder' /\ HeldRuns' /\ HeldCounts' /\ CancelsExist'
  BY <1>1 DEF QueueInv, SingleHolder, HeldRuns, HeldCounts, CancelsExist
<1>5. WaitingCounts' /\ AttemptAccounting' /\ TerminalExhausted' /\ CompletionLogged'
  BY <1>1
  DEF QueueInv, WaitingCounts, AttemptAccounting, TerminalExhausted, CompletionLogged
<1> QED
  BY <1>3, <1>4, <1>5 DEF QueueInv

\* A step that changes no variable of the queue.
LEMMA StutterInv ==
  ASSUME QueueInv, UNCHANGED queueVars
  PROVE  QueueInv'
<1>1. TypeOK' /\ SingleHolder' /\ HeldRuns' /\ HeldCounts' /\ CancelsExist'
  BY DEF queueVars, QueueInv, TypeOK, SingleHolder, HeldRuns, HeldCounts, CancelsExist
<1>2. WaitingCounts' /\ AttemptAccounting' /\ TerminalExhausted' /\ CompletionLogged'
  BY DEF queueVars, QueueInv, WaitingCounts, AttemptAccounting, TerminalExhausted,
         CompletionLogged
<1> QED
  BY <1>1, <1>2 DEF QueueInv

\* Every step an agent takes on its own.
LEMMA AgentStepInv ==
  ASSUME QueueInv, NEW w \in Workers, AgentStep(w)
  PROVE  QueueInv'
  BY ClaimInv, CompleteInv, FailReadInv, FailRequeueInv, NotifyInv, FailTerminalInv,
     CrashInv
  DEF AgentStep

\* Every step of the queue.
LEMMA QueueNextInv ==
  ASSUME QueueInv, [QueueNext]_queueVars
  PROVE  QueueInv'
<1>1. ASSUME NEW t \in Tasks, NEW d \in Delays, enqueue_task(t, d)
      PROVE  QueueInv'
  BY <1>1, EnqueueInv
<1>2. ASSUME NEW w \in Workers, AgentStep(w) \/ park_task(w)
      PROVE  QueueInv'
  BY <1>2, AgentStepInv, ParkInv
<1>3. ASSUME NEW c \in Cancels, CancelStep(c)
      PROVE  QueueInv'
  BY <1>3, CancelInv
<1> QED
  BY <1>1, <1>2, <1>3, TickInv, StutterInv DEF QueueNext

\* The invariant of services/agents/task_queue.py and cancel_task: types, exclusive
\* claims and the accounts of attempts, retries, logs and notices.
THEOREM QueueInvariant == QueueSpec => []QueueInv
<1>1. QueueInv /\ [QueueNext]_queueVars => QueueInv'
  BY QueueNextInv
<1> QED
  BY InitInv, <1>1, PTL DEF QueueSpec

\* No two agents work on the same task.
THEOREM SingleHolderHolds == QueueSpec => []SingleHolder
<1>1. QueueInv => SingleHolder
  BY DEF QueueInv
<1> QED
  BY QueueInvariant, <1>1, PTL

\* A task is run at most max_retries times and no retry is lost.
THEOREM AttemptAccountingHolds == QueueSpec => []AttemptAccounting
<1>1. QueueInv => AttemptAccounting
  BY DEF QueueInv
<1> QED
  BY QueueInvariant, <1>1, PTL

\* A task is given up only after max_retries failures and one notice.
THEOREM TerminalExhaustedHolds == QueueSpec => []TerminalExhausted
<1>1. QueueInv => TerminalExhausted
  BY DEF QueueInv
<1> QED
  BY QueueInvariant, <1>1, PTL

\* A completed task has its one log row.
THEOREM CompletionLoggedHolds == QueueSpec => []CompletionLogged
<1>1. QueueInv => CompletionLogged
  BY DEF QueueInv
<1> QED
  BY QueueInvariant, <1>1, PTL

-----------------------------------------------------------------------------
\* One step of the queue under the invariant undoes a cancellation only when an
\* agent holds the task.
LEMMA CancelUndoneStep ==
  ASSUME QueueInv, [QueueNext]_queueVars, NEW t \in Tasks,
         status[t] = "rejected", status'[t] # "rejected"
  PROVE  Holders(t) # {}
<1>1. ASSUME NEW u \in Tasks, NEW d \in Delays, enqueue_task(u, d)
      PROVE  FALSE
  BY <1>1 DEF enqueue_task, NextRow, QueueInv, TypeOK
<1>2. ASSUME NEW w \in Workers, AgentStep(w) \/ park_task(w)
      PROVE  Holders(t) # {}
  <2>1. ~claim_next_task(w)
    BY DEF claim_next_task, Due, QueueInv, TypeOK
  <2>2. held[w] = t
    BY <1>2, <2>1
    DEF AgentStep, complete_task, park_task, fail_read, fail_requeue,
        notify_terminal_failure, fail_terminal, agent_crash, QueueInv, TypeOK
  <2> QED
    BY <2>2 DEF Holders
<1>3. ASSUME NEW c \in Cancels, CancelStep(c)
      PROVE  FALSE
  BY <1>3 DEF CancelStep, cancel_read, cancel_write, cancel_abort, QueueInv, TypeOK
<1> QED
  BY <1>1, <1>2, <1>3 DEF QueueNext, Tick, queueVars

\* An acknowledged cancellation is undone only by an agent that claimed the task
\* before the cancellation was committed.
THEOREM CancelUndoneOnlyByHolderHolds == QueueSpec => CancelUndoneOnlyByHolder
<1>1. QueueInv /\ [QueueNext]_queueVars =>
        [\A t \in Tasks : status[t] = "rejected" /\ status'[t] # "rejected"
                           => Holders(t) # {}]_queueVars
  BY CancelUndoneStep
<1> QED
  BY QueueInvariant, <1>1, PTL DEF QueueSpec, CancelUndoneOnlyByHolder

-----------------------------------------------------------------------------
(* The queue implements the ledger.                                        *)

\* The rows and hands other than task h's are left alone.
Elsewhere(h) ==
    \A u \in Tasks : u # h => status'[u] = status[u] /\ Holders(u)' = Holders(u)

\* What a step does to the ledger's place and owners when it touches one task.
LEMMA OneTaskMoves ==
  ASSUME NEW h \in Tasks, Elsewhere(h)
  PROVE  /\ [t \in Tasks |-> PlaceOf(t)]' =
              [[t \in Tasks |-> PlaceOf(t)] EXCEPT ![h] = PlaceOf(h)']
         /\ [t \in Tasks |-> Holders(t)]' =
              [[t \in Tasks |-> Holders(t)] EXCEPT ![h] = Holders(h)']
<1>1. \A u \in Tasks : u # h => PlaceOf(u)' = PlaceOf(u)
  BY DEF Elsewhere, PlaceOf
<1> QED
  BY <1>1 DEF Elsewhere

\* An agent's own moves change the holders of no task but the ones it moves from
\* and to.
LEMMA HoldersElsewhere ==
  ASSUME QueueInv, NEW w \in Workers, NEW x, held' = [held EXCEPT ![w] = x]
  PROVE  \A u \in Tasks : u # held[w] /\ u # x => Holders(u)' = Holders(u)
<1>1. \A v \in Workers : held'[v] = IF v = w THEN x ELSE held[v]
  BY DEF QueueInv, TypeOK
<1> QED
  BY <1>1 DEF Holders

\* A task that leaves one agent's hands is in nobody's.
LEMMA ReleasedIsFree ==
  ASSUME QueueInv, NEW w \in Workers, step[w] # "idle", Release(w),
         NEW h \in Tasks, h = held[w]
  PROVE  /\ Holders(h) # {}
         /\ Holders(h)' = {}
         /\ \A u \in Tasks : u # h => Holders(u)' = Holders(u)
<1>1. \A v \in Workers : held[v] = h => v = w
  BY HeldFacts
<1>2. held' = [held EXCEPT ![w] = NoTask]
  BY DEF Release
<1>3. \A v \in Workers : held'[v] = IF v = w THEN NoTask ELSE held[v]
  BY <1>2 DEF QueueInv, TypeOK
<1>4. \A u \in Tasks : u # h => Holders(u)' = Holders(u)
  BY <1>2, HoldersElsewhere, NoTaskNotTask
<1>5. \A v \in Workers : held'[v] # h
  BY <1>1, <1>3, NoTaskNotTask
<1> QED
  BY <1>4, <1>5 DEF Holders

\* A task in hand that is let go of and not requeued leaves the ledger.
LEMMA LeavesLedger ==
  ASSUME QueueInv, NEW w \in Workers, step[w] # "idle", Release(w),
         NEW h \in Tasks, h = held[w],
         status'[h] \notin {"absent", "queued"},
         \A u \in Tasks : u # h => status'[u] = status[u],
         UNCHANGED attempts
  PROVE  Ledger!Leave(h)
<1>1. Elsewhere(h)
  BY ReleasedIsFree DEF Elsewhere
<1>2. PlaceOf(h) = "taken" /\ PlaceOf(h)' = "off" /\ Holders(h)' = {}
  BY ReleasedIsFree DEF PlaceOf
<1> QED
  BY <1>1, <1>2, OneTaskMoves DEF Ledger!Leave

\* A step that changes neither a status nor who holds what.
LEMMA LedgerStutter ==
  ASSUME UNCHANGED <<status, held, attempts>>
  PROVE  UNCHANGED Ledger!ledgerVars
  BY DEF Ledger!ledgerVars, PlaceOf, Holders

\* enqueue_task posts a job.
LEMMA EnqueueRefines ==
  ASSUME QueueInv, NEW t \in Tasks, NEW d \in Delays, enqueue_task(t, d)
  PROVE  Ledger!Post(t)
<1>1. /\ status[t] = "absent"
      /\ status' = [status EXCEPT ![t] = "queued"]
      /\ UNCHANGED <<held, attempts>>
  BY DEF enqueue_task, NextRow
<1>2. /\ status'[t] = "queued"
      /\ \A u \in Tasks : u # t => status'[u] = status[u]
  BY <1>1 DEF QueueInv, TypeOK
<1>3. \A u \in Tasks : Holders(u)' = Holders(u)
  BY <1>1 DEF Holders
<1>4. Holders(t) = {}
  BY <1>1, NoTaskNotTask DEF Holders, QueueInv, HeldRuns
<1>5. Elsewhere(t)
  BY <1>2, <1>3 DEF Elsewhere
<1>6. PlaceOf(t) = "new" /\ PlaceOf(t)' = "open"
  BY <1>1, <1>2, <1>3, <1>4 DEF PlaceOf
<1>7. [u \in Tasks |-> Holders(u)]' = [u \in Tasks |-> Holders(u)]
  BY <1>3
<1> QED
  BY <1>1, <1>5, <1>6, <1>7, OneTaskMoves DEF Ledger!Post

\* claim_next_task takes a job.
LEMMA ClaimRefines ==
  ASSUME QueueInv, NEW w \in Workers, claim_next_task(w)
  PROVE  \E t \in Tasks : Ledger!Take(t, w)
<1>1. PICK t \in Tasks :
        /\ status[t] = "queued"
        /\ status' = [status EXCEPT ![t] = "running"]
        /\ held' = [held EXCEPT ![w] = t]
        /\ attempts' = [attempts EXCEPT ![t] = @ + 1]
  BY DEF claim_next_task, Due
<1>2. held[w] = NoTask
  BY DEF claim_next_task
<1>3. \A u \in Tasks : u # t => status'[u] = status[u]
  BY <1>1 DEF QueueInv, TypeOK
<1>4. \A u \in Tasks : u # t => Holders(u)' = Holders(u)
  BY <1>1, <1>2, HoldersElsewhere, NoTaskNotTask
<1>5. Holders(t) = {}
  BY <1>1, NoTaskNotTask DEF Holders, QueueInv, HeldRuns
<1>6. \A v \in Workers : held'[v] = IF v = w THEN t ELSE held[v]
  BY <1>1 DEF QueueInv, TypeOK
<1>7. Holders(t)' = {w}
  BY <1>5, <1>6 DEF Holders
<1>8. Elsewhere(t)
  BY <1>3, <1>4 DEF Elsewhere
<1>9. PlaceOf(t) = "open" /\ PlaceOf(t)' = "taken"
  BY <1>1, <1>5, <1>7 DEF PlaceOf
<1>10. attempts[t] < MaxRetries
  BY <1>1 DEF QueueInv, WaitingCounts
<1> QED
  BY <1>1, <1>7, <1>8, <1>9, <1>10, OneTaskMoves DEF Ledger!Take

\* fail_task gives a job back while attempts are left.
LEMMA RequeueRefines ==
  ASSUME QueueInv, NEW w \in Workers, fail_requeue(w)
  PROVE  \E t \in Tasks : Ledger!GiveBack(t)
<1>1. /\ step[w] = "failing"
      /\ seen[w] + 1 < MaxRetries
      /\ status' = [status EXCEPT ![held[w]] = "queued"]
      /\ Release(w)
      /\ UNCHANGED attempts
  BY DEF fail_requeue, RetriesLeft
<1>2. PICK h \in Tasks : h = held[w]
  BY <1>1, HeldFacts
<1>3. /\ status'[h] = "queued"
      /\ \A u \in Tasks : u # h => status'[u] = status[u]
  BY <1>1, <1>2 DEF QueueInv, TypeOK
<1>4. attempts[h] < MaxRetries
  BY <1>1, <1>2, HeldFacts DEF QueueInv, HeldCounts
<1>5. /\ Holders(h) # {}
      /\ Holders(h)' = {}
      /\ \A u \in Tasks : u # h => Holders(u)' = Holders(u)
  BY <1>1, <1>2, ReleasedIsFree
<1>6. Elsewhere(h)
  BY <1>3, <1>5 DEF Elsewhere
<1>7. PlaceOf(h) = "taken" /\ PlaceOf(h)' = "open"
  BY <1>3, <1>5 DEF PlaceOf
<1> QED
  BY <1>1, <1>4, <1>5, <1>6, <1>7, OneTaskMoves DEF Ledger!GiveBack

\* Completing, parking, giving up and dying with a task take it off the ledger.
LEMMA EndRefines ==
  ASSUME QueueInv, NEW w \in Workers,
         \/ \E tw \in SUBSET Tables : complete_task(w, tw)
         \/ park_task(w)
         \/ fail_terminal(w)
         \/ agent_crash(w)
  PROVE  \E t \in Tasks : Ledger!Leave(t)
<1>1. step[w] # "idle"
  BY DEF complete_task, park_task, fail_terminal, agent_crash, QueueInv, HeldRuns
<1>2. PICK h \in Tasks : h = held[w]
  BY <1>1, HeldFacts
<1>3. Release(w) /\ UNCHANGED attempts
  BY DEF complete_task, park_task, fail_terminal, agent_crash
<1>4. status[h] \in {"running", "rejected"}
  BY <1>1, <1>2, HeldFacts
<1>5. \/ UNCHANGED status
      \/ \E x \in {"completed", "awaiting_approval", "terminal_failed"} :
            status' = [status EXCEPT ![h] = x]
  BY <1>2 DEF complete_task, park_task, fail_terminal, agent_crash
<1>6. /\ status'[h] \notin {"absent", "queued"}
      /\ \A u \in Tasks : u # h => status'[u] = status[u]
  BY <1>4, <1>5 DEF QueueInv, TypeOK
<1> QED
  BY <1>1, <1>2, <1>3, <1>6, LeavesLedger

\* A cancellation takes a waiting job off the ledger, or changes nothing there.
LEMMA CancelRefines ==
  ASSUME QueueInv, NEW c \in Cancels, CancelStep(c)
  PROVE  (\E t \in Tasks : Ledger!Leave(t)) \/ UNCHANGED Ledger!ledgerVars
<1>1. UNCHANGED <<held, attempts>>
  BY DEF CancelStep, cancel_read, cancel_write, cancel_abort
<1>2. CASE UNCHANGED status
  BY <1>1, <1>2, LedgerStutter
<1>3. CASE cancel_write(c)
  <2>1. PICK t \in Tasks : t = cancelling[c]
    BY <1>3 DEF cancel_write, QueueInv, TypeOK
  <2>2. /\ status'[t] = "rejected"
        /\ \A u \in Tasks : u # t => status'[u] = status[u]
    BY <1>3, <2>1 DEF cancel_write, QueueInv, TypeOK
  <2>3. status[t] # "absent"
    BY <1>3, <2>1 DEF cancel_write, QueueInv, CancelsExist
  <2>4. \A u \in Tasks : Holders(u)' = Holders(u)
    BY <1>1 DEF Holders
  <2>5. Elsewhere(t)
    BY <2>2, <2>4 DEF Elsewhere
  <2>6. CASE status[t] = "queued"
    <3>1. Holders(t) = {}
      BY <2>6, NoTaskNotTask DEF Holders, QueueInv, HeldRuns
    <3>2. PlaceOf(t) = "open" /\ PlaceOf(t)' = "off" /\ Holders(t)' = {}
      BY <2>2, <2>4, <2>6, <3>1 DEF PlaceOf
    <3> QED
      BY <1>1, <2>5, <3>2, OneTaskMoves DEF Ledger!Leave
  <2>7. CASE status[t] # "queued"
    <3>1. PlaceOf(t)' = PlaceOf(t)
      BY <2>2, <2>3, <2>4, <2>7 DEF PlaceOf
    <3>2. \A u \in Tasks : PlaceOf(u)' = PlaceOf(u)
      BY <2>5, <3>1 DEF Elsewhere, PlaceOf
    <3> QED
      BY <1>1, <2>4, <3>2 DEF Ledger!ledgerVars
  <2> QED
    BY <2>6, <2>7
<1> QED
  BY <1>2, <1>3 DEF CancelStep, cancel_read, cancel_abort

\* Every step of the queue is a step of the ledger.
LEMMA StepRefines ==
  ASSUME QueueInv, [QueueNext]_queueVars
  PROVE  [Ledger!LedgerNext]_Ledger!ledgerVars
<1>1. ASSUME NEW t \in Tasks, NEW d \in Delays, enqueue_task(t, d)
      PROVE  Ledger!LedgerNext
  BY <1>1, EnqueueRefines DEF Ledger!LedgerNext
<1>2. ASSUME NEW w \in Workers, AgentStep(w) \/ park_task(w)
      PROVE  [Ledger!LedgerNext]_Ledger!ledgerVars
  <2>1. CASE claim_next_task(w)
    BY <2>1, ClaimRefines DEF Ledger!LedgerNext
  <2>2. CASE fail_requeue(w)
    BY <2>2, RequeueRefines DEF Ledger!LedgerNext
  <2>3. CASE fail_read(w) \/ notify_terminal_failure(w)
    BY <2>3, LedgerStutter DEF fail_read, notify_terminal_failure
  <2>4. CASE \/ \E tw \in SUBSET Tables : complete_task(w, tw)
             \/ park_task(w)
             \/ fail_terminal(w)
             \/ agent_crash(w)
    BY <2>4, EndRefines DEF Ledger!LedgerNext
  <2> QED
    BY <1>2, <2>1, <2>2, <2>3, <2>4 DEF AgentStep
<1>3. ASSUME NEW c \in Cancels, CancelStep(c)
      PROVE  [Ledger!LedgerNext]_Ledger!ledgerVars
  BY <1>3, CancelRefines DEF Ledger!LedgerNext
<1>4. CASE Tick \/ UNCHANGED queueVars
  BY <1>4, LedgerStutter DEF Tick, queueVars
<1> QED
  BY <1>1, <1>2, <1>3, <1>4 DEF QueueNext

\* The task queue implements WorkLedger, for every number of tasks, retries,
\* agents and cancellations.
THEOREM QueueImplementsLedger == QueueSpec => QueueRefinesLedger
<1>1. QueueInit => Ledger!LedgerInit
  BY NoTaskNotTask DEF QueueInit, Ledger!LedgerInit, PlaceOf, Holders
<1>2. QueueInv /\ [QueueNext]_queueVars => [Ledger!LedgerNext]_Ledger!ledgerVars
  BY StepRefines
<1> QED
  BY QueueInvariant, <1>1, <1>2, PTL
  DEF QueueSpec, QueueRefinesLedger, Ledger!LedgerSpec

-----------------------------------------------------------------------------
(* The gate                                                                *)

\* A task out of the queue and out of every agent's hands, and not merely lost.
Quiet(t) == Holders(t) = {} /\ status[t] \notin {"absent", "queued", "running"}

\* A step of the queue leaves a quiet task quiet: it is cancelled or untouched.
LEMMA QuietStays ==
  ASSUME QueueInv, QueueStep, NEW t \in Tasks, Quiet(t)
  PROVE  Quiet(t)' /\ status'[t] \in {status[t], "rejected"}
<1>1. ASSUME NEW u \in Tasks, NEW d \in Delays, enqueue_task(u, d)
      PROVE  Quiet(t)' /\ status'[t] \in {status[t], "rejected"}
  BY <1>1 DEF enqueue_task, NextRow, Quiet, Holders, QueueInv, TypeOK
<1>2. ASSUME NEW w \in Workers, AgentStep(w)
      PROVE  Quiet(t)' /\ status'[t] \in {status[t], "rejected"}
  <2>1. held[w] # t
    BY DEF Quiet, Holders
  <2>2. status'[t] = status[t]
    <3>1. CASE claim_next_task(w)
      BY <3>1 DEF claim_next_task, Due, Quiet, QueueInv, TypeOK
    <3>2. CASE ~claim_next_task(w)
      BY <1>2, <2>1, <3>2
      DEF AgentStep, complete_task, fail_read, fail_requeue,
          notify_terminal_failure, fail_terminal, agent_crash, QueueInv, TypeOK
    <3> QED
      BY <3>1, <3>2
  <2>3. held'[w] # t
    <3>1. CASE claim_next_task(w)
      BY <3>1 DEF claim_next_task, Due, Quiet, QueueInv, TypeOK
    <3>2. CASE ~claim_next_task(w)
      BY <1>2, <2>1, <3>2, NoTaskNotTask
      DEF AgentStep, Release, complete_task, fail_read, fail_requeue,
          notify_terminal_failure, fail_terminal, agent_crash, QueueInv, TypeOK
    <3> QED
      BY <3>1, <3>2
  <2>4. \A v \in Workers : v # w => held'[v] = held[v]
    BY <1>2
    DEF AgentStep, claim_next_task, Release, complete_task, fail_read,
        fail_requeue, notify_terminal_failure, fail_terminal, agent_crash,
        QueueInv, TypeOK
  <2> QED
    BY <2>2, <2>3, <2>4 DEF Quiet, Holders
<1>3. ASSUME NEW c \in Cancels, CancelStep(c)
      PROVE  Quiet(t)' /\ status'[t] \in {status[t], "rejected"}
  BY <1>3
  DEF CancelStep, cancel_read, cancel_write, cancel_abort, Quiet, Holders, QueueInv,
      TypeOK
<1>4. CASE Tick
  BY <1>4 DEF Tick, Quiet, Holders
<1> QED
  BY <1>1, <1>2, <1>3, <1>4 DEF QueueStep

\* No step of the queue approves a task.
LEMMA QueueNeverApproves ==
  ASSUME QueueInv, QueueStep, NEW t \in Tasks, status'[t] = "approved"
  PROVE  status[t] = "approved"
<1>1. ASSUME NEW u \in Tasks, NEW d \in Delays, enqueue_task(u, d)
      PROVE  status[t] = "approved"
  BY <1>1 DEF enqueue_task, QueueInv, TypeOK
<1>2. ASSUME NEW w \in Workers, AgentStep(w)
      PROVE  status[t] = "approved"
  BY <1>2
  DEF AgentStep, claim_next_task, complete_task, fail_read, fail_requeue,
      notify_terminal_failure, fail_terminal, agent_crash, QueueInv, TypeOK
<1>3. ASSUME NEW c \in Cancels, CancelStep(c)
      PROVE  status[t] = "approved"
  BY <1>3 DEF CancelStep, cancel_read, cancel_write, cancel_abort, QueueInv, TypeOK
<1>4. CASE Tick
  BY <1>4 DEF Tick
<1> QED
  BY <1>1, <1>2, <1>3, <1>4 DEF QueueStep

\* A step of the queue keeps the queue's own invariant.
LEMMA QueueStepInv ==
  ASSUME QueueInv, QueueStep
  PROVE  QueueInv'
<1>1. QueueNext
  BY DEF QueueStep, QueueNext
<1> QED
  BY <1>1, QueueNextInv

\* A reviewer's verdict on a quiet task keeps the queue's invariant.
LEMMA VerdictInv ==
  ASSUME QueueInv, NEW h \in Tasks, Quiet(h), NEW x \in Verdicts,
         status' = [status EXCEPT ![h] = x],
         UNCHANGED <<retry_count, wait, held, step, seen, cancelling, logs, notices,
                     attempts>>
  PROVE  QueueInv'
<1>1. /\ status'[h] = x
      /\ \A u \in Tasks : u # h => status'[u] = status[u]
  BY DEF QueueInv, TypeOK
<1>2. x \in {"approved", "rejected"}
  BY DEF Verdicts
<1>3. TypeOK'
  BY <1>2 DEF QueueInv, TypeOK, Statuses
<1>4. \A w \in Workers : held[w] # h
  BY DEF Quiet, Holders
<1>5. \A w \in Workers : held[w] # NoTask => held[w] \in Tasks
  BY DEF QueueInv, TypeOK
<1>6. SingleHolder' /\ HeldRuns' /\ HeldCounts'
  BY <1>1, <1>4, <1>5 DEF QueueInv, SingleHolder, HeldRuns, HeldCounts
<1>7. CancelsExist'
  BY <1>1, <1>2 DEF QueueInv, TypeOK, CancelsExist
<1>8. WaitingCounts' /\ AttemptAccounting'
  BY <1>1, <1>2 DEF QueueInv, WaitingCounts, AttemptAccounting
<1>9. TerminalExhausted' /\ CompletionLogged'
  BY <1>1, <1>2 DEF QueueInv, TerminalExhausted, CompletionLogged
<1> QED
  BY <1>3, <1>6, <1>7, <1>8, <1>9 DEF QueueInv

-----------------------------------------------------------------------------
\* Before the first task there is no request.
LEMMA GateInitInv == GateInit => GateInv
<1> SUFFICES ASSUME GateInit PROVE GateInv
  OBVIOUS
<1>1. QueueInv
  BY InitInv DEF GateInit
<1>2. GateTypeOK
  BY <1>1
  DEF GateInit, GateTypeOK, QueueInv, RequestStatuses, ReviewStates, IdleReview,
      Verdicts, Statuses
<1>3. RequestsExist /\ OneRequestPerTask /\ GatedTaskNeverRuns
  BY DEF GateInit, RequestsExist, OneRequestPerTask, GatedTaskNeverRuns, IdleReview
<1>4. ApprovedByReview /\ AuditTellsStatus
  BY DEF GateInit, QueueInit, ApprovedByReview, AuditTellsStatus, Verdicts
<1> QED
  BY <1>1, <1>2, <1>3, <1>4 DEF GateInv

\* A step of the queue.
LEMMA QueueStepGate ==
  ASSUME GateInv, QueueStep
  PROVE  GateInv'
<1>1. QueueInv /\ UNCHANGED <<reqStatus, reqTask, lapsed, review, audit>>
  BY DEF GateInv, QueueStep, reviewVars
<1>2. QueueInv'
  BY <1>1, QueueStepInv
<1>3. GateTypeOK'
  BY <1>1, <1>2 DEF GateInv, GateTypeOK, QueueInv
<1>4. RequestsExist' /\ OneRequestPerTask' /\ AuditTellsStatus'
  BY <1>1 DEF GateInv, RequestsExist, OneRequestPerTask, AuditTellsStatus
<1>5. GatedTaskNeverRuns'
  <2> SUFFICES ASSUME NEW r \in Requests, reqTask'[r] # NoTask
               PROVE  Quiet(reqTask[r])'
    BY <1>1 DEF GatedTaskNeverRuns, Quiet
  <2>1. PICK t \in Tasks : t = reqTask[r]
    BY <1>1 DEF GateInv, GateTypeOK
  <2>2. Quiet(t)
    BY <1>1, <2>1 DEF GateInv, GatedTaskNeverRuns, Quiet
  <2>3. Quiet(t)'
    BY <1>1, <2>2, QuietStays
  <2> QED
    BY <1>1, <2>1, <2>3
<1>6. ApprovedByReview'
  BY <1>1, QueueNeverApproves DEF GateInv, ApprovedByReview, RequestsOf
<1> QED
  BY <1>2, <1>3, <1>4, <1>5, <1>6 DEF GateInv

\* Parking a task behind a request: the task had none before, for an agent held it.
LEMMA RequestApprovalGate ==
  ASSUME GateInv, NEW w \in Workers, request_approval(w)
  PROVE  GateInv'
<1>1. QueueInv /\ park_task(w) /\ step[w] = "working"
  BY DEF GateInv, request_approval, park_task
<1>2. PICK h \in Tasks : h = held[w]
  BY <1>1, HeldFacts
<1>3. PICK r \in Requests :
        /\ reqStatus[r] = "absent"
        /\ reqStatus' = [reqStatus EXCEPT ![r] = "pending"]
        /\ reqTask' = [reqTask EXCEPT ![r] = h]
        /\ UNCHANGED <<lapsed, review, audit>>
  BY <1>2 DEF request_approval, NewRequest
<1>4. QueueInv'
  BY <1>1, ParkInv
<1>5. /\ reqStatus'[r] = "pending"
      /\ reqTask'[r] = h
      /\ \A q \in Requests : q # r =>
            reqStatus'[q] = reqStatus[q] /\ reqTask'[q] = reqTask[q]
  BY <1>3 DEF GateInv, GateTypeOK
<1>6. GateTypeOK'
  BY <1>3, <1>4 DEF GateInv, GateTypeOK, QueueInv, RequestStatuses
<1>7. RequestsExist'
  BY <1>2, <1>3, <1>5, NoTaskNotTask
  DEF GateInv, GateTypeOK, ReviewStates, RequestsExist
<1>8. \A q \in Requests : reqTask[q] # h
  BY <1>2, NoTaskNotTask DEF GateInv, GatedTaskNeverRuns, Holders
<1>9. OneRequestPerTask'
  BY <1>5, <1>8 DEF GateInv, OneRequestPerTask
<1>10. /\ status' = [status EXCEPT ![h] = "awaiting_approval"]
       /\ Release(w)
  BY <1>1, <1>2 DEF park_task
<1>11. /\ status'[h] = "awaiting_approval"
       /\ \A u \in Tasks : u # h => status'[u] = status[u]
  BY <1>1, <1>10 DEF QueueInv, TypeOK
<1>12. Holders(h)' = {} /\ \A u \in Tasks : u # h => Holders(u)' = Holders(u)
  BY <1>1, <1>2, <1>10, ReleasedIsFree
<1>13. GatedTaskNeverRuns'
  <2> SUFFICES ASSUME NEW q \in Requests, reqTask'[q] # NoTask
               PROVE  Quiet(reqTask[q])'
    BY DEF GatedTaskNeverRuns, Quiet
  <2>1. CASE q = r
    BY <2>1, <1>5, <1>11, <1>12 DEF Quiet
  <2>2. CASE q # r
    <3>1. PICK t \in Tasks : t = reqTask[q]
      BY <2>2, <1>5 DEF GateInv, GateTypeOK
    <3>2. t # h /\ reqTask'[q] = t
      BY <3>1, <2>2, <1>5, <1>8
    <3>3. Quiet(t)
      BY <3>1, NoTaskNotTask DEF GateInv, GatedTaskNeverRuns, Quiet
    <3>4. Quiet(t)'
      BY <3>2, <3>3, <1>11, <1>12 DEF Quiet
    <3> QED
      BY <3>2, <3>4
  <2> QED
    BY <2>1, <2>2
<1>14. ApprovedByReview'
  <2> SUFFICES ASSUME NEW t \in Tasks, status'[t] = "approved"
               PROVE  \E q \in Requests : /\ reqTask'[q] = t
                                          /\ \E i \in DOMAIN audit[q] : audit[q][i] = "approved"
    BY <1>3 DEF ApprovedByReview, RequestsOf
  <2>1. t # h /\ status[t] = "approved"
    BY <1>11
  <2>2. PICK q \in Requests : /\ reqTask[q] = t
                             /\ \E i \in DOMAIN audit[q] : audit[q][i] = "approved"
    BY <2>1 DEF GateInv, ApprovedByReview, RequestsOf
  <2>3. q # r
    BY <1>3, <2>2, NoTaskNotTask DEF GateInv, RequestsExist
  <2> QED
    BY <1>5, <2>2, <2>3
<1>15. AuditTellsStatus'
  BY <1>3, <1>5 DEF GateInv, AuditTellsStatus, Verdicts
<1> QED
  BY <1>4, <1>6, <1>7, <1>9, <1>13, <1>14, <1>15 DEF GateInv

\* The steps that read, lock, drop or outlive a request decide nothing.
LEMMA ReadingGate ==
  ASSUME GateInv, UNCHANGED <<queueVars, reqStatus, reqTask, audit>>,
         GateTypeOK', RequestsExist'
  PROVE  GateInv'
<1>1. QueueInv'
  BY StutterInv DEF GateInv
<1>2. OneRequestPerTask' /\ AuditTellsStatus'
  BY DEF GateInv, OneRequestPerTask, AuditTellsStatus
<1>3. GatedTaskNeverRuns' /\ ApprovedByReview'
  BY DEF GateInv, GatedTaskNeverRuns, ApprovedByReview, RequestsOf, Holders, queueVars
<1> QED
  BY <1>1, <1>2, <1>3 DEF GateInv

\* The deadline of a request passes.
LEMMA LapseGate ==
  ASSUME GateInv, NEW r \in Requests, Lapse(r)
  PROVE  GateInv'
<1>1. UNCHANGED <<queueVars, reqStatus, reqTask, audit, review>>
  BY DEF Lapse
<1>2. TypeOK'
  BY <1>1, StutterInv DEF GateInv, QueueInv
<1>3. GateTypeOK'
  BY <1>1, <1>2 DEF Lapse, GateInv, GateTypeOK
<1>4. RequestsExist'
  BY <1>1 DEF GateInv, RequestsExist
<1> QED
  BY <1>1, <1>3, <1>4, ReadingGate

\* A review that is opened, takes its lock or is dropped.
LEMMA ReviewReadingGate ==
  ASSUME GateInv, NEW v \in Reviews, NEW rev \in ReviewStates,
         review' = [review EXCEPT ![v] = rev],
         rev.phase # "idle" => rev.req # NoRequest /\ reqStatus[rev.req] # "absent",
         UNCHANGED <<queueVars, reqStatus, reqTask, lapsed, audit>>
  PROVE  GateInv'
<1>1. TypeOK'
  BY StutterInv DEF GateInv, QueueInv
<1>2. GateTypeOK'
  BY <1>1 DEF GateInv, GateTypeOK
<1>3. RequestsExist'
  BY DEF GateInv, GateTypeOK, RequestsExist
<1> QED
  BY <1>2, <1>3, ReadingGate

\* A review that finds the request pending.
LEMMA ReviewReadGate ==
  ASSUME GateInv, NEW v \in Reviews, NEW verdict \in Verdicts, NEW r \in Requests,
         review_read(v, verdict, r)
  PROVE  GateInv'
<1> DEFINE rev == [phase |-> "read", verdict |-> verdict, req |-> r,
                   taskStatus |-> "absent"]
<1>1. rev \in ReviewStates
  BY DEF ReviewStates, Statuses
<1>2. r # NoRequest
  BY GateAssumption DEF Requests, NoRequest
<1>3. /\ reqStatus[r] = "pending"
      /\ review' = [review EXCEPT ![v] = rev]
      /\ UNCHANGED <<queueVars, reqStatus, reqTask, lapsed, audit>>
  BY DEF review_read
<1> QED
  BY <1>1, <1>2, <1>3, ReviewReadingGate

\* A review that flushes its verdict and reads the task.
LEMMA ReviewLockGate ==
  ASSUME GateInv, NEW v \in Reviews, review_lock(v)
  PROVE  GateInv'
<1>1. PICK old \in ReviewStates : old = review[v]
  BY DEF GateInv, GateTypeOK
<1>2. old.phase = "read"
  BY <1>1 DEF review_lock
<1>3. old.req \in Requests /\ reqStatus[old.req] # "absent"
  BY <1>1, <1>2 DEF GateInv, RequestsExist, ReviewStates
<1>4. reqTask[old.req] \in Tasks
  BY <1>3 DEF GateInv, GateTypeOK, RequestsExist
<1>5. status[reqTask[old.req]] \in Statuses
  BY <1>4 DEF GateInv, QueueInv, TypeOK
<1> DEFINE rev == [old EXCEPT !.phase = "locked",
                              !.taskStatus = status[reqTask[old.req]]]
<1>6. rev \in ReviewStates /\ rev.req = old.req
  BY <1>5 DEF ReviewStates
<1>7. rev.req # NoRequest
  BY <1>3, <1>6, GateAssumption DEF Requests, NoRequest
<1>8. /\ review' = [review EXCEPT ![v] = rev]
      /\ UNCHANGED <<queueVars, reqStatus, reqTask, lapsed, audit>>
  BY <1>1 DEF review_lock, GateInv, GateTypeOK
<1> QED
  BY <1>3, <1>6, <1>7, <1>8, ReviewReadingGate

\* A review that is dropped.
LEMMA ReviewAbortGate ==
  ASSUME GateInv, NEW v \in Reviews, review_abort(v)
  PROVE  GateInv'
<1>1. IdleReview \in ReviewStates /\ IdleReview.phase = "idle"
  BY DEF IdleReview, ReviewStates, Verdicts, Statuses
<1> QED
  BY <1>1, ReviewReadingGate DEF review_abort

\* The commit of a review: the verdict reaches the request and its audit trail
\* together, and the task, which is quiet, at most with them.
LEMMA ReviewCommitGate ==
  ASSUME GateInv, NEW v \in Reviews, review_commit(v)
  PROVE  GateInv'
<1>1. PICK rev \in ReviewStates : rev = review[v]
  BY DEF GateInv, GateTypeOK
<1>2. rev.phase = "locked" /\ rev.verdict \in Verdicts
  BY <1>1 DEF review_commit, ReviewStates
<1>3. PICK r \in Requests : r = rev.req
  BY <1>1, <1>2 DEF GateInv, RequestsExist, ReviewStates
<1>4. PICK x \in Verdicts : x = rev.verdict
  BY <1>2
<1>5. reqStatus[r] # "absent" /\ reqTask[r] \in Tasks /\ reqTask[r] # NoTask
  BY <1>1, <1>2, <1>3 DEF GateInv, GateTypeOK, RequestsExist
<1>6. PICK h \in Tasks : h = reqTask[r]
  BY <1>5
<1>7. /\ reqStatus' = [reqStatus EXCEPT ![r] = x]
      /\ audit' = [audit EXCEPT ![r] = Append(@, x)]
      /\ status' = status \/ status' = [status EXCEPT ![h] = x]
      /\ review' = [review EXCEPT ![v] = IdleReview]
      /\ UNCHANGED <<retry_count, wait, held, step, seen, cancelling, logs,
                     notices, attempts, reqTask, lapsed>>
  BY <1>1, <1>3, <1>4, <1>6 DEF review_commit, TaskAfter, AuditAfter
<1>8. Quiet(h)
  BY <1>5, <1>6 DEF GateInv, GatedTaskNeverRuns, Quiet
<1>9. QueueInv'
  <2>1. CASE status' = status
    BY <2>1, <1>7, StutterInv DEF GateInv, queueVars
  <2>2. CASE status' = [status EXCEPT ![h] = x]
    BY <2>2, <1>7, <1>8, VerdictInv DEF GateInv
  <2> QED
    BY <1>7, <2>1, <2>2
<1>10. audit[r] \in Seq(Verdicts)
  BY DEF GateInv, GateTypeOK
<1>11. /\ audit'[r] = Append(audit[r], x)
       /\ reqStatus'[r] = x
       /\ \A q \in Requests : q # r => audit'[q] = audit[q] /\ reqStatus'[q] = reqStatus[q]
  BY <1>7 DEF GateInv, GateTypeOK
<1>12. /\ Append(audit[r], x) \in Seq(Verdicts)
       /\ Append(audit[r], x) # <<>>
       /\ Len(Append(audit[r], x)) = Len(audit[r]) + 1
       /\ Append(audit[r], x)[Len(audit[r]) + 1] = x
       /\ Len(audit[r]) + 1 \in DOMAIN Append(audit[r], x)
       /\ \A i \in DOMAIN audit[r] : /\ i \in DOMAIN Append(audit[r], x)
                                     /\ Append(audit[r], x)[i] = audit[r][i]
  BY <1>10
<1>13. GateTypeOK'
  <2>1. reqStatus' \in [Requests -> RequestStatuses]
    BY <1>7 DEF GateInv, GateTypeOK, Verdicts, RequestStatuses
  <2>2. audit' \in [Requests -> Seq(Verdicts)]
    BY <1>7, <1>12 DEF GateInv, GateTypeOK
  <2>3. review' \in [Reviews -> ReviewStates]
    BY <1>7 DEF GateInv, GateTypeOK, IdleReview, ReviewStates, Verdicts, Statuses
  <2> QED
    BY <1>7, <1>9, <2>1, <2>2, <2>3 DEF GateInv, GateTypeOK, QueueInv
<1>14. RequestsExist'
  <2>1. \A q \in Requests : reqStatus'[q] = "absent" <=> reqTask'[q] = NoTask
    BY <1>5, <1>7, <1>11 DEF GateInv, RequestsExist, Verdicts
  <2>2. ASSUME NEW u \in Reviews, review'[u].phase # "idle"
        PROVE  review'[u].req # NoRequest /\ reqStatus'[review'[u].req] # "absent"
    <3>1. u # v /\ review'[u] = review[u]
      BY <1>7, <2>2 DEF GateInv, GateTypeOK, IdleReview
    <3>2. PICK q \in Requests : q = review[u].req
      BY <2>2, <3>1 DEF GateInv, GateTypeOK, RequestsExist, ReviewStates
    <3>3. q # NoRequest /\ reqStatus[q] # "absent"
      BY <2>2, <3>1, <3>2 DEF GateInv, RequestsExist
    <3> QED
      BY <1>11, <3>1, <3>2, <3>3 DEF Verdicts
  <2> QED
    BY <2>1, <2>2 DEF RequestsExist
<1>15. OneRequestPerTask'
  BY <1>7 DEF GateInv, OneRequestPerTask
<1>16. \A t \in Tasks : Holders(t)' = Holders(t)
  BY <1>7 DEF Holders
<1>17. \A t \in Tasks : status'[t] = status[t] \/ (t = h /\ status'[t] = x)
  BY <1>7 DEF GateInv, QueueInv, TypeOK
<1>18. GatedTaskNeverRuns'
  <2> SUFFICES ASSUME NEW q \in Requests, reqTask[q] # NoTask
               PROVE  Quiet(reqTask[q])'
    BY <1>7 DEF GatedTaskNeverRuns, Quiet
  <2>1. PICK t \in Tasks : t = reqTask[q]
    BY DEF GateInv, GateTypeOK
  <2>2. Quiet(t)
    BY <2>1 DEF GateInv, GatedTaskNeverRuns, Quiet
  <2>3. Quiet(t)'
    BY <2>2, <1>16, <1>17 DEF Quiet, Verdicts
  <2> QED
    BY <2>1, <2>3, <1>7
<1>19. ApprovedByReview'
  <2> SUFFICES ASSUME NEW t \in Tasks, status'[t] = "approved"
               PROVE  \E q \in Requests : /\ reqTask'[q] = t
                                          /\ \E i \in DOMAIN audit'[q] : audit'[q][i] = "approved"
    BY DEF ApprovedByReview, RequestsOf
  <2>1. CASE status[t] = "approved"
    <3>1. PICK q \in Requests : /\ reqTask[q] = t
                                /\ \E i \in DOMAIN audit[q] : audit[q][i] = "approved"
      BY <2>1 DEF GateInv, ApprovedByReview, RequestsOf
    <3> QED
      BY <1>7, <1>11, <1>12, <3>1
  <2>2. CASE t = h /\ x = "approved"
    BY <1>6, <1>7, <1>11, <1>12, <2>2
  <2> QED
    BY <1>17, <2>1, <2>2
<1>20. AuditTellsStatus'
  <2> SUFFICES ASSUME NEW q \in Requests
               PROVE  IF reqStatus'[q] \in Verdicts
                      THEN audit'[q] # <<>> /\ audit'[q][Len(audit'[q])] = reqStatus'[q]
                      ELSE audit'[q] = <<>>
    BY DEF AuditTellsStatus
  <2>1. CASE q = r
    BY <1>11, <1>12, <2>1
  <2>2. CASE q # r
    BY <1>11, <2>2 DEF GateInv, AuditTellsStatus
  <2> QED
    BY <2>1, <2>2
<1> QED
  BY <1>9, <1>13, <1>14, <1>15, <1>18, <1>19, <1>20 DEF GateInv

-----------------------------------------------------------------------------
\* Every step of the gate.
LEMMA GateNextInv ==
  ASSUME GateInv, [GateNext]_gateVars
  PROVE  GateInv'
<1>1. ASSUME NEW v \in Reviews, ReviewStep(v)
      PROVE  GateInv'
  BY <1>1, ReviewReadGate, ReviewLockGate, ReviewCommitGate, ReviewAbortGate
  DEF ReviewStep
<1>2. CASE UNCHANGED gateVars
  <2>1. UNCHANGED <<queueVars, reqStatus, reqTask, lapsed, review, audit>>
    BY <1>2 DEF gateVars, reviewVars
  <2>2. TypeOK'
    BY <2>1, StutterInv DEF GateInv, QueueInv
  <2>3. GateTypeOK' /\ RequestsExist'
    BY <2>1, <2>2 DEF GateInv, GateTypeOK, RequestsExist
  <2> QED
    BY <2>1, <2>3, ReadingGate
<1> QED
  BY <1>1, <1>2, QueueStepGate, RequestApprovalGate, LapseGate DEF GateNext

\* The invariant of request_approval, approve_request and reject_request over the
\* task queue.
THEOREM GateInvariant == GateSpec => []GateInv
<1>1. GateInv /\ [GateNext]_gateVars => GateInv'
  BY GateNextInv
<1> QED
  BY GateInitInv, <1>1, PTL DEF GateSpec

\* A task never has two open requests.
THEOREM OnePendingRequestHolds == GateSpec => []OnePendingRequest
<1>1. GateInv => OnePendingRequest
  BY DEF GateInv, OnePendingRequest, OneRequestPerTask, RequestsExist
<1> QED
  BY GateInvariant, <1>1, PTL

\* A task that has asked for approval and not got it is never claimable and in no
\* agent's hands.
THEOREM UnapprovedNeverRunsHolds == GateSpec => []UnapprovedNeverRuns
<1>1. GateInv => UnapprovedNeverRuns
  BY DEF GateInv, UnapprovedNeverRuns, GatedTaskNeverRuns
<1> QED
  BY GateInvariant, <1>1, PTL

\* Only a review that left its audit row approves a task.
THEOREM ApprovedByReviewHolds == GateSpec => []ApprovedByReview
<1>1. GateInv => ApprovedByReview
  BY DEF GateInv
<1> QED
  BY GateInvariant, <1>1, PTL

\* The last audit row of a request is its status.
THEOREM AuditTellsStatusHolds == GateSpec => []AuditTellsStatus
<1>1. GateInv => AuditTellsStatus
  BY DEF GateInv
<1> QED
  BY GateInvariant, <1>1, PTL

-----------------------------------------------------------------------------
\* One step of the gate under the invariant undoes a cancellation only by the hand
\* of an agent or of a review that had seen the task before.
LEMMA CancelUndoneGateStep ==
  ASSUME GateInv, [GateNext]_gateVars, NEW t \in Tasks,
         status[t] = "rejected", status'[t] # "rejected"
  PROVE  \/ Holders(t) # {}
         \/ \E v \in Reviews : /\ review[v].phase = "locked"
                               /\ reqTask[review[v].req] = t
                               /\ review[v].taskStatus = "awaiting_approval"
<1>1. QueueInv
  BY DEF GateInv
<1>2. CASE QueueStep \/ \E w \in Workers : request_approval(w)
  <2>1. QueueNext
    BY <1>2 DEF QueueStep, request_approval, QueueNext
  <2> QED
    BY <1>1, <2>1, CancelUndoneStep
<1>3. ASSUME NEW v \in Reviews, review_commit(v)
      PROVE  /\ review[v].phase = "locked"
             /\ reqTask[review[v].req] = t
             /\ review[v].taskStatus = "awaiting_approval"
  BY <1>1, <1>3 DEF review_commit, TaskAfter, QueueInv, TypeOK
<1>4. ASSUME UNCHANGED queueVars
      PROVE  FALSE
  BY <1>4 DEF queueVars
<1> QED
  BY <1>2, <1>3, <1>4
  DEF GateNext, Lapse, ReviewStep, review_read, review_lock, review_abort, gateVars

\* An acknowledged cancellation is undone only by an agent or a review that had the
\* task in view before.
THEOREM CancelUndoneOnlyByReaderHolds == GateSpec => CancelUndoneOnlyByReader
<1>1. GateInv /\ [GateNext]_gateVars =>
        [\A t \in Tasks : status[t] = "rejected" /\ status'[t] # "rejected" =>
           \/ Holders(t) # {}
           \/ \E v \in Reviews : /\ review[v].phase = "locked"
                                 /\ reqTask[review[v].req] = t
                                 /\ review[v].taskStatus = "awaiting_approval"]_gateVars
  BY CancelUndoneGateStep
<1> QED
  BY GateInvariant, <1>1, PTL DEF GateSpec, CancelUndoneOnlyByReader

-----------------------------------------------------------------------------
\* A verdict reaches a task that is off the ledger already.
LEMMA CommitRefines ==
  ASSUME GateInv, NEW v \in Reviews, review_commit(v)
  PROVE  UNCHANGED Ledger!ledgerVars
<1>1. PICK rev \in ReviewStates : rev = review[v]
  BY DEF GateInv, GateTypeOK
<1>2. rev.phase = "locked" /\ rev.verdict \in Verdicts
  BY <1>1 DEF review_commit, ReviewStates
<1>3. rev.req \in Requests /\ reqTask[rev.req] # NoTask
  BY <1>1, <1>2 DEF GateInv, RequestsExist, ReviewStates
<1>4. PICK h \in Tasks : h = reqTask[rev.req]
  BY <1>3 DEF GateInv, GateTypeOK
<1>5. Quiet(h)
  BY <1>3, <1>4 DEF GateInv, GatedTaskNeverRuns, Quiet
<1>6. /\ UNCHANGED <<held, attempts>>
      /\ status' = status \/ status' = [status EXCEPT ![h] = rev.verdict]
  BY <1>1, <1>4 DEF review_commit, TaskAfter
<1>7. \A t \in Tasks : Holders(t)' = Holders(t)
  BY <1>6 DEF Holders
<1>8. \A t \in Tasks : status'[t] = status[t] \/ (t = h /\ status'[t] = rev.verdict)
  BY <1>6 DEF GateInv, QueueInv, TypeOK
<1>9. \A t \in Tasks : PlaceOf(t)' = PlaceOf(t)
  BY <1>2, <1>5, <1>7, <1>8 DEF PlaceOf, Quiet, Verdicts
<1> QED
  BY <1>6, <1>7, <1>9 DEF Ledger!ledgerVars

\* Every step of the gate is a step of the ledger.
LEMMA GateStepRefines ==
  ASSUME GateInv, [GateNext]_gateVars
  PROVE  [Ledger!LedgerNext]_Ledger!ledgerVars
<1>1. QueueInv
  BY DEF GateInv
<1>2. CASE QueueStep \/ \E w \in Workers : request_approval(w)
  <2>1. QueueNext
    BY <1>2 DEF QueueStep, request_approval, QueueNext
  <2> QED
    BY <1>1, <2>1, StepRefines
<1>3. CASE UNCHANGED queueVars
  BY <1>3, LedgerStutter DEF queueVars
<1>4. ASSUME NEW v \in Reviews, ReviewStep(v)
      PROVE  [Ledger!LedgerNext]_Ledger!ledgerVars
  <2>1. CASE review_commit(v)
    BY <2>1, CommitRefines
  <2>2. CASE ~review_commit(v)
    <3>1. UNCHANGED queueVars
      BY <1>4, <2>2 DEF ReviewStep, review_read, review_lock, review_abort
    <3> QED
      BY <1>3, <3>1
  <2> QED
    BY <2>1, <2>2
<1> QED
  BY <1>2, <1>3, <1>4 DEF GateNext, Lapse, gateVars

\* With approvals in front of it the queue still implements WorkLedger: no review,
\* however late, hands a task out again.
THEOREM GateImplementsLedger == GateSpec => QueueRefinesLedger
<1>1. GateInit => Ledger!LedgerInit
  BY NoTaskNotTask DEF GateInit, QueueInit, Ledger!LedgerInit, PlaceOf, Holders
<1>2. GateInv /\ [GateNext]_gateVars => [Ledger!LedgerNext]_Ledger!ledgerVars
  BY GateStepRefines
<1> QED
  BY GateInvariant, <1>1, <1>2, PTL
  DEF GateSpec, QueueRefinesLedger, Ledger!LedgerSpec

-----------------------------------------------------------------------------
(* The docket                                                              *)

LEMMA DocketStutter ==
  ASSUME UNCHANGED <<reqStatus, review, audit>>
  PROVE  UNCHANGED GateDocket!docketVars
BY DEF GateDocket!docketVars

\* A new request is raised.
LEMMA NewRequestRaises ==
  ASSUME GateInv, NEW r \in Requests, NEW t, NewRequest(r, t)
  PROVE  GateDocket!DocketNext
<1>1. /\ reqStatus[r] = "absent" /\ reqStatus \in [Requests -> RequestStatuses]
      /\ reqStatus' = [reqStatus EXCEPT ![r] = "pending"]
      /\ UNCHANGED <<review, audit>>
  BY DEF NewRequest, GateInv, GateTypeOK
<1>2. {q \in Requests : reqStatus'[q] # "absent"}
        = {q \in Requests : reqStatus[q] # "absent"} \union {r}
  BY <1>1
<1>3. [q \in Requests |-> IF reqStatus'[q] \in Verdicts THEN {reqStatus'[q]} ELSE {}]
        = [q \in Requests |-> IF reqStatus[q] \in Verdicts THEN {reqStatus[q]} ELSE {}]
  BY <1>1 DEF Verdicts
<1>4. GateDocket!Raise({r})
  BY <1>1, <1>2, <1>3 DEF GateDocket!Raise
<1> QED
  BY <1>4 DEF GateDocket!DocketNext

\* A review that reads a pending request takes it up.
LEMMA ReviewReadHears ==
  ASSUME GateInv, NEW v \in Reviews, NEW verdict \in Verdicts, NEW r \in Requests,
         review_read(v, verdict, r)
  PROVE  GateDocket!DocketNext
<1>1. /\ review[v].phase = "idle" /\ reqStatus[r] = "pending"
      /\ review' = [review EXCEPT ![v] = [phase |-> "read", verdict |-> verdict,
                                          req |-> r, taskStatus |-> "absent"]]
      /\ UNCHANGED <<reqStatus, audit>> /\ review \in [Reviews -> ReviewStates]
  BY DEF review_read, GateInv, GateTypeOK
<1>2. review'[v].phase = "read" /\ review'[v].req = r /\ \A u \in Reviews \ {v} : review'[u] = review[u]
  BY <1>1
<1>3. [u \in Reviews |-> IF review'[u].phase = "idle" THEN {} ELSE {review'[u].req}]
        = [[u \in Reviews |-> IF review[u].phase = "idle" THEN {} ELSE {review[u].req}]
             EXCEPT ![v] = {r}]
  BY <1>2
<1>4. GateDocket!Hear(v, r)
  BY <1>1, <1>3 DEF GateDocket!Hear, Verdicts
<1> QED
  BY <1>4 DEF GateDocket!DocketNext

\* Taking the row's lock and reading the task is nothing to the docket.
LEMMA ReviewLockUnseen ==
  ASSUME GateInv, NEW v \in Reviews, review_lock(v)
  PROVE  UNCHANGED GateDocket!docketVars
<1>1. /\ review[v].phase = "read" /\ UNCHANGED <<reqStatus, audit>>
      /\ review \in [Reviews -> ReviewStates]
      /\ \E s : review' = [review EXCEPT ![v] = [[review[v] EXCEPT !.phase = "locked"]
                                                    EXCEPT !.taskStatus = s]]
  BY DEF review_lock, GateInv, GateTypeOK
<1>2. /\ review'[v].phase = "locked" /\ review'[v].req = review[v].req
      /\ \A u \in Reviews \ {v} : review'[u] = review[u]
  BY <1>1 DEF ReviewStates
<1>3. \A u \in Reviews : /\ review'[u].phase = "idle" <=> review[u].phase = "idle"
                         /\ review'[u].req = review[u].req
  BY <1>1, <1>2
<1> QED
  BY <1>1, <1>3 DEF GateDocket!docketVars

\* A review that is gone has nothing taken up any more.
LEMMA ReviewGone ==
  ASSUME GateInv, NEW v \in Reviews, review' = [review EXCEPT ![v] = IdleReview]
  PROVE  [u \in Reviews |-> IF review'[u].phase = "idle" THEN {} ELSE {review'[u].req}]
           = [[u \in Reviews |-> IF review[u].phase = "idle" THEN {} ELSE {review[u].req}]
                EXCEPT ![v] = {}]
<1>1. review'[v].phase = "idle" /\ \A u \in Reviews \ {v} : review'[u] = review[u]
  BY DEF IdleReview, GateInv, GateTypeOK
<1> QED
  BY <1>1

\* A commit rules on the request and adds its audit row.
LEMMA ReviewCommitRules ==
  ASSUME GateInv, NEW v \in Reviews, review_commit(v)
  PROVE  GateDocket!DocketNext
<1>1. PICK rev \in ReviewStates : rev = review[v]
  BY DEF GateInv, GateTypeOK
<1>2. rev.phase = "locked" /\ rev.verdict \in Verdicts /\ rev.req \in Requests
  BY <1>1 DEF review_commit, GateInv, RequestsExist, ReviewStates
<1>3. /\ reqStatus' = [reqStatus EXCEPT ![rev.req] = rev.verdict]
      /\ audit' = [audit EXCEPT ![rev.req] = Append(@, rev.verdict)]
      /\ review' = [review EXCEPT ![v] = IdleReview]
      /\ reqStatus \in [Requests -> RequestStatuses]
      /\ audit \in [Requests -> Seq(Verdicts)]
      /\ reqStatus[rev.req] # "absent"
  BY <1>1, <1>2 DEF review_commit, AuditAfter, GateInv, GateTypeOK, RequestsExist
<1>4. {q \in Requests : reqStatus'[q] # "absent"} = {q \in Requests : reqStatus[q] # "absent"}
  BY <1>2, <1>3 DEF Verdicts
<1>5. [q \in Requests |-> IF reqStatus'[q] \in Verdicts THEN {reqStatus'[q]} ELSE {}]
        = [[q \in Requests |-> IF reqStatus[q] \in Verdicts THEN {reqStatus[q]} ELSE {}]
             EXCEPT ![rev.req] = {rev.verdict}]
  BY <1>2, <1>3
<1>6. [q \in Requests |-> Len(audit'[q])]
        = [[q \in Requests |-> Len(audit[q])] EXCEPT ![rev.req] = @ + 1]
  <2>1. Len(Append(audit[rev.req], rev.verdict)) = Len(audit[rev.req]) + 1
    BY <1>2, <1>3
  <2>2. /\ audit'[rev.req] = Append(audit[rev.req], rev.verdict)
        /\ \A q \in Requests : q # rev.req => audit'[q] = audit[q]
    BY <1>2, <1>3
  <2> QED
    BY <1>2, <2>1, <2>2
<1>7. rev.req \in [u \in Reviews |-> IF review[u].phase = "idle" THEN {} ELSE {review[u].req}][v]
  BY <1>1, <1>2
<1>8. GateDocket!Rule(v, rev.req, rev.verdict)
  BY <1>3, <1>4, <1>5, <1>6, <1>7, ReviewGone DEF GateDocket!Rule
<1> QED
  BY <1>2, <1>8 DEF GateDocket!DocketNext

\* A review that is dropped leaves the request.
LEMMA ReviewAbortLeaves ==
  ASSUME GateInv, NEW v \in Reviews, review_abort(v)
  PROVE  GateDocket!DocketNext
<1>1. review' = [review EXCEPT ![v] = IdleReview] /\ UNCHANGED <<reqStatus, audit>>
  BY DEF review_abort
<1>2. GateDocket!Leave(v)
  BY <1>1, ReviewGone DEF GateDocket!Leave
<1> QED
  BY <1>2 DEF GateDocket!DocketNext

LEMMA GateStepDocket ==
  ASSUME GateInv, [GateNext]_gateVars
  PROVE  [GateDocket!DocketNext]_GateDocket!docketVars
<1>1. ASSUME NEW v \in Reviews, ReviewStep(v)
      PROVE  [GateDocket!DocketNext]_GateDocket!docketVars
  BY <1>1, ReviewReadHears, ReviewLockUnseen, ReviewCommitRules, ReviewAbortLeaves DEF ReviewStep
<1>2. ASSUME NEW w \in Workers, request_approval(w)
      PROVE  [GateDocket!DocketNext]_GateDocket!docketVars
  BY <1>2, NewRequestRaises DEF request_approval
<1>3. CASE UNCHANGED <<reqStatus, review, audit>>
  BY <1>3, DocketStutter
<1> QED
  BY <1>1, <1>2, <1>3 DEF GateNext, QueueStep, Lapse, gateVars, reviewVars

LEMMA GateInitDocket == GateInit => GateDocket!DocketInit
BY DEF GateInit, GateDocket!DocketInit, IdleReview, Verdicts

\* The gate implements Docket: only a review that read a request as pending decides it
\* (approve_request and reject_request), and each decision has its audit row.
THEOREM GateImplementsDocket == GateSpec => GateRefinesDocket
<1>1. GateInv /\ [GateNext]_gateVars => [GateDocket!DocketNext]_GateDocket!docketVars
  BY GateStepDocket
<1> QED
  BY GateInvariant, GateInitDocket, <1>1, PTL DEF GateSpec, GateRefinesDocket, GateDocket!DocketSpec

-----------------------------------------------------------------------------
(* The roadmap                                                             *)

\* The dispatches that are about item i.
OpenOn(i) == {d \in Dispatches : dispatching[d] = i}

\* A task made for an item is behind a request from the start.
SubjectsGated == \A t \in Tasks : subject[t] # NoItem => RequestsOf(t) # {}

\* Every task of an item has used up a dispatch.
DispatchesPay ==
    \A i \in Items : Cardinality(TasksOf(i)) + Cardinality(OpenOn(i)) <= Cardinality(Dispatches)

DispatchIInv == GateInv /\ DispatchTypeOK /\ DispatchLinked /\ SubjectsGated /\ DispatchesPay

-----------------------------------------------------------------------------
(* Counting                                                                *)

LEMMA TasksOfFinite ==
    ASSUME NEW i
    PROVE  IsFiniteSet(TasksOf(i)) /\ Cardinality(TasksOf(i)) \in Nat
<1>1. IsFiniteSet(Tasks) /\ TasksOf(i) \in SUBSET Tasks
  BY QueueAssumption, FS_Interval DEF Tasks, TasksOf
<1> QED
  BY <1>1, FS_Subset, FS_CardinalityType

LEMMA OpenOnFinite ==
    ASSUME NEW i
    PROVE  /\ IsFiniteSet(OpenOn(i)) /\ Cardinality(OpenOn(i)) \in Nat
           /\ Cardinality(OpenOn(i)) <= Cardinality(Dispatches) /\ Cardinality(Dispatches) \in Nat
<1>1. IsFiniteSet(Dispatches) /\ OpenOn(i) \in SUBSET Dispatches
  BY DispatchAssumption DEF OpenOn
<1> QED
  BY <1>1, FS_Subset, FS_CardinalityType

LEMMA DispatchCloses ==
    ASSUME DispatchTypeOK, NEW d \in Dispatches, NEW i \in Items,
           dispatching' = [dispatching EXCEPT ![d] = NoItem]
    PROVE  Cardinality(OpenOn(i))' = IF dispatching[d] = i THEN Cardinality(OpenOn(i)) - 1
                                                           ELSE Cardinality(OpenOn(i))
<1>1. OpenOn(i)' = OpenOn(i) \ {d}
  BY DispatchAssumption DEF DispatchTypeOK, OpenOn
<1>2. d \in OpenOn(i) <=> dispatching[d] = i
  BY DEF OpenOn
<1> QED
  BY <1>1, <1>2, OpenOnFinite, FS_RemoveElement

-----------------------------------------------------------------------------
(* What the gate's steps leave to the roadmap                              *)

\* A request keeps its task.
LEMMA RequestKeepsTask ==
    ASSUME GateInv, GateNext, NEW r \in Requests, reqTask[r] # NoTask
    PROVE  reqTask'[r] = reqTask[r]
<1>1. reqStatus[r] # "absent"
  BY DEF GateInv, RequestsExist
<1>2. ASSUME NEW w \in Workers, request_approval(w) PROVE reqTask'[r] = reqTask[r]
  BY <1>1, <1>2 DEF request_approval, NewRequest, GateInv, GateTypeOK
<1>3. CASE QueueStep
  BY <1>3 DEF QueueStep, reviewVars
<1>4. ASSUME NEW q \in Requests, Lapse(q) PROVE reqTask'[r] = reqTask[r]
  BY <1>4 DEF Lapse
<1>5. ASSUME NEW v \in Reviews, ReviewStep(v) PROVE reqTask'[r] = reqTask[r]
  BY <1>5 DEF ReviewStep, review_read, review_lock, review_commit, review_abort
<1> QED
  BY <1>2, <1>3, <1>4, <1>5 DEF GateNext

\* A task that is never seen in "queued".
LEMMA PostParkedInv ==
    ASSUME QueueInv, NEW t \in Tasks, PostParked(t),
           UNCHANGED <<retry_count, wait, held, step, seen, cancelling, logs, notices, attempts>>
    PROVE  QueueInv'
<1>1. status[t] = "absent" /\ status' = [status EXCEPT ![t] = "awaiting_approval"]
  BY DEF PostParked, NextRow
<1>2. TypeOK'
  BY <1>1 DEF QueueInv, TypeOK, Statuses
<1>3. SingleHolder'
  BY DEF QueueInv, SingleHolder
<1>4. status'[t] = "awaiting_approval" /\ \A u \in Tasks : u # t => status'[u] = status[u]
  BY <1>1 DEF QueueInv, TypeOK
<1>5. \A w \in Workers : held[w] # NoTask => held[w] \in Tasks /\ held[w] # t
  BY <1>1 DEF QueueInv, TypeOK, HeldRuns
<1>6. HeldRuns' /\ HeldCounts'
  BY <1>1, <1>4, <1>5 DEF QueueInv, HeldRuns, HeldCounts
<1>7. CancelsExist'
  BY <1>1, <1>4 DEF QueueInv, TypeOK, CancelsExist
<1>8. WaitingCounts' /\ AttemptAccounting'
  BY <1>1, <1>4 DEF QueueInv, WaitingCounts, AttemptAccounting
<1>9. TerminalExhausted' /\ CompletionLogged'
  BY <1>1, <1>4 DEF QueueInv, TerminalExhausted, CompletionLogged
<1> QED
  BY <1>2, <1>3, <1>6, <1>7, <1>8, <1>9 DEF QueueInv

\* The task and its request appear together, so that the gate holds the task at once.
LEMMA DispatchGate ==
    ASSUME GateInv, NEW h \in Tasks, NEW r \in Requests, PostParked(h), NewRequest(r, h),
           UNCHANGED <<retry_count, wait, held, step, seen, cancelling, logs, notices, attempts>>
    PROVE  GateInv'
<1>1. QueueInv
  BY DEF GateInv
<1>2. h # NoTask /\ status[h] = "absent"
  BY NoTaskNotTask DEF PostParked, NextRow
<1>3. /\ reqStatus[r] = "absent"
      /\ reqStatus' = [reqStatus EXCEPT ![r] = "pending"]
      /\ reqTask' = [reqTask EXCEPT ![r] = h]
      /\ UNCHANGED <<lapsed, review, audit>>
  BY DEF NewRequest
<1>4. QueueInv'
  BY <1>1, PostParkedInv
<1>5. /\ reqStatus'[r] = "pending"
      /\ reqTask'[r] = h
      /\ \A q \in Requests : q # r =>
            reqStatus'[q] = reqStatus[q] /\ reqTask'[q] = reqTask[q]
  BY <1>3 DEF GateInv, GateTypeOK
<1>6. GateTypeOK'
  BY <1>3, <1>4 DEF GateInv, GateTypeOK, QueueInv, RequestStatuses
<1>7. RequestsExist'
  BY <1>2, <1>3, <1>5 DEF GateInv, GateTypeOK, ReviewStates, RequestsExist
<1>8. \A q \in Requests : reqTask[q] # h
  BY <1>2 DEF GateInv, GatedTaskNeverRuns
<1>9. OneRequestPerTask'
  BY <1>5, <1>8 DEF GateInv, OneRequestPerTask
<1>10. /\ status'[h] = "awaiting_approval"
       /\ \A u \in Tasks : u # h => status'[u] = status[u]
  BY <1>1 DEF PostParked, QueueInv, TypeOK
<1>11. \A u \in Tasks : Holders(u)' = Holders(u)
  BY DEF Holders
<1>12. Holders(h) = {}
  BY <1>1, <1>2 DEF QueueInv, HeldRuns, Holders
<1>13. GatedTaskNeverRuns'
  <2> SUFFICES ASSUME NEW q \in Requests, reqTask'[q] # NoTask
               PROVE  Quiet(reqTask[q])'
    BY DEF GatedTaskNeverRuns, Quiet
  <2>1. CASE q = r
    BY <2>1, <1>5, <1>10, <1>11, <1>12 DEF Quiet
  <2>2. CASE q # r
    <3>1. PICK t \in Tasks : t = reqTask[q]
      BY <2>2, <1>5 DEF GateInv, GateTypeOK
    <3>2. t # h /\ reqTask'[q] = t
      BY <3>1, <2>2, <1>5, <1>8
    <3>3. Quiet(t)
      BY <3>1, NoTaskNotTask DEF GateInv, GatedTaskNeverRuns, Quiet
    <3>4. Quiet(t)'
      BY <3>2, <3>3, <1>10, <1>11 DEF Quiet
    <3> QED
      BY <3>2, <3>4
  <2> QED
    BY <2>1, <2>2
<1>14. ApprovedByReview'
  <2> SUFFICES ASSUME NEW t \in Tasks, status'[t] = "approved"
               PROVE  \E q \in Requests : /\ reqTask'[q] = t
                                          /\ \E i \in DOMAIN audit[q] : audit[q][i] = "approved"
    BY <1>3 DEF ApprovedByReview, RequestsOf
  <2>1. t # h /\ status[t] = "approved"
    BY <1>10
  <2>2. PICK q \in Requests : /\ reqTask[q] = t
                             /\ \E i \in DOMAIN audit[q] : audit[q][i] = "approved"
    BY <2>1 DEF GateInv, ApprovedByReview, RequestsOf
  <2>3. q # r
    BY <1>3, <2>2, NoTaskNotTask DEF GateInv, RequestsExist
  <2> QED
    BY <1>5, <2>2, <2>3
<1>15. AuditTellsStatus'
  BY <1>3, <1>5 DEF GateInv, AuditTellsStatus, Verdicts
<1> QED
  BY <1>4, <1>6, <1>7, <1>9, <1>13, <1>14, <1>15 DEF GateInv

-----------------------------------------------------------------------------
(* The invariant                                                           *)

LEMMA DispatchInitOK == DispatchInit => DispatchIInv
<1> SUFFICES ASSUME DispatchInit PROVE DispatchIInv
  OBVIOUS
<1>1. GateInv
  BY GateInitInv DEF DispatchInit
<1>2. DispatchTypeOK
  <2>1. IdleBuild \in BuildStates
    BY DispatchAssumption DEF IdleBuild, BuildStates, ItemStatuses
  <2> QED
    BY <1>1, <2>1, DispatchAssumption DEF DispatchInit, DispatchTypeOK, ItemStatuses, GateInv
<1>3. \A i \in Items : TasksOf(i) = {} /\ OpenOn(i) = {}
  BY DispatchAssumption DEF DispatchInit, TasksOf, OpenOn
<1>4. DispatchLinked /\ SubjectsGated
  BY <1>3 DEF DispatchInit, DispatchLinked, SubjectsGated
<1>5. DispatchesPay
  <2>1. Cardinality({}) = 0 /\ Cardinality(Dispatches) \in Nat
    BY FS_EmptySet, OpenOnFinite
  <2> QED
    BY <1>3, <2>1 DEF DispatchesPay
<1> QED
  BY <1>1, <1>2, <1>4, <1>5 DEF DispatchIInv

\* A step of the gate leaves the roadmap and its links alone.
LEMMA GateStepPreserves ==
    ASSUME DispatchIInv, GateNext, UNCHANGED itemVars
    PROVE  DispatchIInv'
<1>1. /\ GateInv'
      /\ UNCHANGED <<itemStatus, itemTask, draft, revision, dispatching, build, subject>>
  BY GateNextInv DEF DispatchIInv, itemVars
<1>2. DispatchTypeOK'
  BY <1>1 DEF DispatchIInv, DispatchTypeOK, GateInv
<1>3. \A t \in Tasks : RequestsOf(t) \subseteq RequestsOf(t)'
  BY RequestKeepsTask, NoTaskNotTask DEF DispatchIInv, RequestsOf
<1>4. \A i \in Items : TasksOf(i)' = TasksOf(i) /\ OpenOn(i)' = OpenOn(i) /\ TasksOf(i) \subseteq Tasks
  BY <1>1 DEF TasksOf, OpenOn
<1>5. DispatchLinked'
  BY <1>1, <1>3, <1>4 DEF DispatchIInv, DispatchLinked
<1>6. SubjectsGated'
  BY <1>1, <1>3 DEF DispatchIInv, SubjectsGated
<1>7. DispatchesPay'
  BY <1>4 DEF DispatchIInv, DispatchesPay
<1> QED
  BY <1>1, <1>2, <1>5, <1>6, <1>7 DEF DispatchIInv

\* A step that leaves the gate, the subjects and the links alone.
LEMMA BacklogPreserves ==
    ASSUME DispatchIInv, UNCHANGED <<gateVars, itemTask, subject>>, DispatchTypeOK',
           \A i \in Items : itemStatus'[i] = "dispatched" <=> itemStatus[i] = "dispatched",
           DispatchesPay'
    PROVE  DispatchIInv'
<1>1. GateInv'
  BY GateNextInv DEF DispatchIInv
<1>2. UNCHANGED reqTask
  BY DEF gateVars, reviewVars
<1>3. /\ \A t : RequestsOf(t)' = RequestsOf(t)
      /\ \A i : TasksOf(i)' = TasksOf(i)
  BY <1>2 DEF RequestsOf, TasksOf
<1>4. DispatchLinked' /\ SubjectsGated'
  BY <1>3 DEF DispatchIInv, DispatchLinked, SubjectsGated
<1> QED
  BY <1>1, <1>4 DEF DispatchIInv

LEMMA DispatchReadPreserves ==
    ASSUME DispatchIInv, NEW d \in Dispatches, NEW i \in Items, dispatch_read(d, i)
    PROVE  DispatchIInv'
<1>1. /\ itemStatus[i] = "proposed" /\ dispatching' = [dispatching EXCEPT ![d] = i]
      /\ UNCHANGED <<gateVars, itemStatus, itemTask, draft, revision, build, subject>>
  BY DEF dispatch_read
<1>2. GateTypeOK'
  BY <1>1, GateNextInv DEF DispatchIInv, GateInv
<1>3. DispatchTypeOK'
  BY <1>1, <1>2 DEF DispatchIInv, DispatchTypeOK
<1>4. DispatchesPay'
  <2> SUFFICES ASSUME NEW j \in Items
               PROVE  Cardinality(TasksOf(j)') + Cardinality(OpenOn(j)') <= Cardinality(Dispatches)
    BY DEF DispatchesPay
  <2>1. TasksOf(j)' = TasksOf(j)
    BY <1>1 DEF TasksOf
  <2>2. CASE j = i
    <3>1. TasksOf(i) = {}
      BY <1>1 DEF DispatchIInv, DispatchLinked
    <3>2. Cardinality(TasksOf(j)') = 0
      BY <2>1, <2>2, <3>1, FS_EmptySet
    <3>3. IsFiniteSet(Dispatches) /\ OpenOn(j)' \in SUBSET Dispatches
      BY DispatchAssumption DEF OpenOn
    <3>4. /\ Cardinality(OpenOn(j)') <= Cardinality(Dispatches) /\ Cardinality(OpenOn(j)') \in Nat
          /\ Cardinality(Dispatches) \in Nat
      BY <3>3, FS_Subset, FS_CardinalityType
    <3> QED
      BY <3>2, <3>4
  <2>3. CASE j # i
    <3>1. OpenOn(j)' \subseteq OpenOn(j)
      BY <1>1, <2>3 DEF OpenOn, DispatchIInv, DispatchTypeOK
    <3>2. /\ Cardinality(OpenOn(j)') <= Cardinality(OpenOn(j)) /\ Cardinality(OpenOn(j)') \in Nat
          /\ Cardinality(OpenOn(j)) \in Nat
      BY <3>1, OpenOnFinite, FS_Subset, FS_CardinalityType
    <3>3. Cardinality(TasksOf(j)) \in Nat /\ Cardinality(Dispatches) \in Nat
      BY TasksOfFinite, OpenOnFinite
    <3> QED
      BY <2>1, <3>2, <3>3 DEF DispatchIInv, DispatchesPay
  <2> QED
    BY <2>2, <2>3
<1> QED
  BY <1>1, <1>3, <1>4, BacklogPreserves

LEMMA DispatchAbortPreserves ==
    ASSUME DispatchIInv, NEW d \in Dispatches, dispatch_abort(d)
    PROVE  DispatchIInv'
<1>1. /\ dispatching' = [dispatching EXCEPT ![d] = NoItem]
      /\ UNCHANGED <<gateVars, itemStatus, itemTask, draft, revision, build, subject>>
  BY DEF dispatch_abort
<1>2. GateTypeOK'
  BY <1>1, GateNextInv DEF DispatchIInv, GateInv
<1>3. DispatchTypeOK'
  BY <1>1, <1>2 DEF DispatchIInv, DispatchTypeOK
<1>4. DispatchesPay'
  <2> SUFFICES ASSUME NEW j \in Items
               PROVE  Cardinality(TasksOf(j)') + Cardinality(OpenOn(j))' <= Cardinality(Dispatches)
    BY DEF DispatchesPay
  <2>1. TasksOf(j)' = TasksOf(j)
    BY <1>1 DEF TasksOf
  <2>2. Cardinality(OpenOn(j))' \in {Cardinality(OpenOn(j)), Cardinality(OpenOn(j)) - 1}
    BY <1>1, DispatchCloses DEF DispatchIInv
  <2>3. Cardinality(TasksOf(j)) \in Nat /\ Cardinality(OpenOn(j)) \in Nat /\ Cardinality(Dispatches) \in Nat
    BY TasksOfFinite, OpenOnFinite
  <2> QED
    BY <2>1, <2>2, <2>3 DEF DispatchIInv, DispatchesPay
<1> QED
  BY <1>1, <1>3, <1>4, BacklogPreserves

LEMMA DispatchCommitPreserves ==
    ASSUME DispatchIInv, NEW d \in Dispatches, dispatch_commit(d)
    PROVE  DispatchIInv'
<1>1. PICK i \in Items : i = dispatching[d]
  BY DEF dispatch_commit, DispatchIInv, DispatchTypeOK
<1>2. PICK h \in Tasks, r \in Requests :
        /\ PostParked(h) /\ NewRequest(r, h)
        /\ subject' = [subject EXCEPT ![h] = i]
        /\ MarkDispatched(i, h)
  BY <1>1 DEF dispatch_commit
<1>3. /\ dispatching' = [dispatching EXCEPT ![d] = NoItem]
      /\ UNCHANGED <<retry_count, wait, held, step, seen, cancelling, logs, notices, attempts,
                     draft, revision, build>>
  BY DEF dispatch_commit
<1>4. GateInv'
  BY <1>2, <1>3, DispatchGate DEF DispatchIInv
<1>5. /\ itemStatus' = [itemStatus EXCEPT ![i] = "dispatched"]
      /\ itemTask' = [itemTask EXCEPT ![i] = h]
  BY <1>2 DEF MarkDispatched
<1>6. DispatchTypeOK'
  BY <1>2, <1>3, <1>4, <1>5 DEF DispatchIInv, DispatchTypeOK, GateInv, ItemStatuses
<1>7. RequestsOf(h) = {} /\ subject[h] = NoItem
  <2>1. status[h] = "absent"
    BY <1>2 DEF PostParked, NextRow
  <2>2. RequestsOf(h) = {}
    BY <2>1, NoTaskNotTask DEF DispatchIInv, GateInv, GatedTaskNeverRuns, RequestsOf
  <2> QED
    BY <2>2 DEF DispatchIInv, SubjectsGated
<1>8. /\ RequestsOf(h)' # {}
      /\ \A t \in Tasks : t # h => RequestsOf(t)' = RequestsOf(t)
  <2>1. reqTask' = [reqTask EXCEPT ![r] = h] /\ reqTask[r] = NoTask
    BY <1>2 DEF NewRequest, DispatchIInv, GateInv, RequestsExist
  <2> QED
    BY <2>1, NoTaskNotTask DEF DispatchIInv, GateInv, GateTypeOK, RequestsOf
<1>9. /\ TasksOf(i)' = TasksOf(i) \union {h} /\ h \notin TasksOf(i)
      /\ \A j \in Items : j # i => TasksOf(j)' = TasksOf(j)
  BY <1>2, <1>7, DispatchAssumption DEF TasksOf, DispatchIInv, DispatchTypeOK
<1>10. DispatchLinked'
  <2> SUFFICES ASSUME NEW j \in Items
               PROVE  IF itemStatus'[j] = "dispatched"
                      THEN itemTask'[j] \in TasksOf(j)' /\ RequestsOf(itemTask[j])' # {}
                      ELSE itemTask'[j] = NoTask /\ TasksOf(j)' = {}
    BY DEF DispatchLinked
  <2>1. CASE j = i
    BY <1>5, <1>8, <1>9, <2>1 DEF DispatchIInv, DispatchTypeOK
  <2>2. CASE j # i
    <3>1. itemStatus'[j] = itemStatus[j] /\ itemTask'[j] = itemTask[j] /\ TasksOf(j)' = TasksOf(j)
      BY <1>5, <1>9, <2>2 DEF DispatchIInv, DispatchTypeOK
    <3>2. h \notin TasksOf(j) /\ TasksOf(j) \subseteq Tasks
      BY <1>7, DispatchAssumption DEF TasksOf
    <3> QED
      BY <1>8, <3>1, <3>2 DEF DispatchIInv, DispatchLinked, RequestsOf
  <2> QED
    BY <2>1, <2>2
<1>11. SubjectsGated'
  BY <1>2, <1>8 DEF DispatchIInv, DispatchTypeOK, SubjectsGated
<1>12. DispatchesPay'
  <2> SUFFICES ASSUME NEW j \in Items
               PROVE  Cardinality(TasksOf(j))' + Cardinality(OpenOn(j))' <= Cardinality(Dispatches)
    BY DEF DispatchesPay
  <2>1. Cardinality(TasksOf(j)) \in Nat /\ Cardinality(OpenOn(j)) \in Nat /\ Cardinality(Dispatches) \in Nat
        /\ IsFiniteSet(TasksOf(j))
    BY TasksOfFinite, OpenOnFinite
  <2>2. Cardinality(OpenOn(j))' = IF i = j THEN Cardinality(OpenOn(j)) - 1 ELSE Cardinality(OpenOn(j))
    BY <1>1, <1>3, DispatchCloses DEF DispatchIInv
  <2>3. Cardinality(TasksOf(j))' = IF i = j THEN Cardinality(TasksOf(j)) + 1 ELSE Cardinality(TasksOf(j))
    BY <1>9, <2>1, FS_AddElement
  <2> QED
    BY <2>1, <2>2, <2>3 DEF DispatchIInv, DispatchesPay
<1> QED
  BY <1>4, <1>6, <1>10, <1>11, <1>12 DEF DispatchIInv

\* What a build writes of the backlog: items that are absent become proposed.
LEMMA BuildPreserves ==
    ASSUME DispatchIInv, NEW b \in Builds,
           build_read(b) \/ build_commit(b) \/ build_abort(b)
    PROVE  DispatchIInv'
<1>1. UNCHANGED <<gateVars, itemTask, subject, dispatching>>
  BY DEF build_read, build_commit, build_abort
<1>2. GateTypeOK'
  BY <1>1, GateNextInv DEF DispatchIInv, GateInv
<1>3. DispatchTypeOK
  BY DEF DispatchIInv
<1>4. MaxRevision \in Nat /\ build[b] \in BuildStates /\ IdleBuild \in BuildStates
  BY DispatchAssumption DEF DispatchIInv, DispatchTypeOK, IdleBuild, BuildStates, ItemStatuses
<1>5. DispatchTypeOK'
  <2>1. CASE build_read(b)
    <3>1. PICK found \in SUBSET Items :
            build' = [build EXCEPT ![b] = [active |-> TRUE, found |-> found,
                                           known |-> itemStatus, revision |-> revision]]
      BY <2>1 DEF build_read
    <3>2. [active |-> TRUE, found |-> found, known |-> itemStatus, revision |-> revision] \in BuildStates
      BY <1>3 DEF DispatchTypeOK, BuildStates
    <3> QED
      BY <1>2, <1>3, <2>1, <3>1, <3>2 DEF build_read, DispatchTypeOK
  <2>2. CASE build_commit(b)
    <3>1. build[b].revision \in 0..MaxRevision
      BY <1>4 DEF BuildStates
    <3>2. itemStatus' \in [Items -> ItemStatuses]
      BY <1>3, <2>2 DEF build_commit, DispatchTypeOK, ItemStatuses
    <3>3. draft' \in [Items -> 0..MaxRevision]
      BY <1>3, <2>2, <3>1 DEF build_commit, DispatchTypeOK
    <3> QED
      BY <1>2, <1>3, <1>4, <2>2, <3>2, <3>3 DEF build_commit, DispatchTypeOK
  <2>3. CASE build_abort(b)
    BY <1>2, <1>3, <1>4, <2>3 DEF build_abort, DispatchTypeOK
  <2> QED
    BY <2>1, <2>2, <2>3
<1>6. \A i \in Items : itemStatus'[i] = "dispatched" <=> itemStatus[i] = "dispatched"
  BY DEF build_read, build_commit, build_abort
<1>7. DispatchesPay'
  <2>1. \A i : TasksOf(i)' = TasksOf(i) /\ OpenOn(i)' = OpenOn(i)
    BY <1>1 DEF TasksOf, OpenOn
  <2> QED
    BY <2>1 DEF DispatchIInv, DispatchesPay
<1> QED
  BY <1>1, <1>5, <1>6, <1>7, BacklogPreserves

LEMMA SignalsPreserve ==
    ASSUME DispatchIInv, SignalsChange \/ UNCHANGED dispatchVars
    PROVE  DispatchIInv'
<1>1. UNCHANGED <<gateVars, itemTask, itemStatus, subject, dispatching, draft, build>>
  BY DEF SignalsChange, dispatchVars, itemVars
<1>2. GateTypeOK'
  BY <1>1, GateNextInv DEF DispatchIInv, GateInv
<1>3. revision' \in 0..MaxRevision
  BY DispatchAssumption DEF SignalsChange, dispatchVars, itemVars, DispatchIInv, DispatchTypeOK
<1>4. DispatchTypeOK'
  BY <1>1, <1>2, <1>3 DEF DispatchIInv, DispatchTypeOK
<1>5. DispatchesPay'
  BY <1>1 DEF DispatchIInv, DispatchesPay, TasksOf, OpenOn
<1> QED
  BY <1>1, <1>4, <1>5, BacklogPreserves

LEMMA DispatchNextOK == DispatchIInv /\ [DispatchNext]_dispatchVars => DispatchIInv'
<1> SUFFICES ASSUME DispatchIInv, [DispatchNext]_dispatchVars PROVE DispatchIInv'
  OBVIOUS
<1>1. CASE GateNext /\ UNCHANGED itemVars
  BY <1>1, GateStepPreserves
<1>2. CASE ItemStep
  BY <1>2, DispatchReadPreserves, DispatchCommitPreserves, DispatchAbortPreserves, SignalsPreserve,
     BuildPreserves DEF ItemStep
<1>3. CASE UNCHANGED dispatchVars
  BY <1>3, SignalsPreserve
<1> QED
  BY <1>1, <1>2, <1>3 DEF DispatchNext

\* The strengthened invariant, for every value of the constants.
THEOREM DispatchInvariant == DispatchSpec => []DispatchIInv
  BY DispatchInitOK, DispatchNextOK, PTL DEF DispatchSpec

-----------------------------------------------------------------------------
(* The properties                                                          *)

\* A dispatched item stays linked to a task behind an approval request, and racing
\* dispatches make no more tasks than they are (services/automation/roadmap.py).
THEOREM DispatchInvHolds == DispatchSpec => []DispatchInv
<1>1. DispatchIInv => DispatchInv
  <2> SUFFICES ASSUME DispatchIInv PROVE DispatchInv
    OBVIOUS
  <2>1. ASSUME NEW i \in Items PROVE Cardinality(TasksOf(i)) <= Cardinality(Dispatches)
    <3>1. /\ Cardinality(TasksOf(i)) \in Nat /\ Cardinality(OpenOn(i)) \in Nat
          /\ Cardinality(Dispatches) \in Nat
      BY TasksOfFinite, OpenOnFinite
    <3> QED
      BY <3>1 DEF DispatchIInv, DispatchesPay
  <2> QED
    BY <2>1 DEF DispatchIInv, DispatchInv, DispatchBounded
<1> QED
  BY <1>1, DispatchInvariant, PTL

\* The invariant of the gate survives the roadmap's tasks: none runs unapproved.
THEOREM DispatchedNeverRunsUnapproved == DispatchSpec => [](GateInv /\ UnapprovedNeverRuns)
<1>1. DispatchIInv => GateInv /\ UnapprovedNeverRuns
  BY DEF DispatchIInv, GateInv, UnapprovedNeverRuns, GatedTaskNeverRuns
<1> QED
  BY <1>1, DispatchInvariant, PTL

\* A rebuilt roadmap never offers a dispatched item again, and what it rewrites of one it
\* had read while the item was still proposed.
LEMMA DispatchedStays ==
    ASSUME [DispatchNext]_dispatchVars, NEW i \in Items, itemStatus[i] = "dispatched", DispatchTypeOK
    PROVE  /\ itemStatus'[i] = "dispatched"
           /\ draft'[i] # draft[i] =>
                \E b \in Builds : build[b].active /\ build[b].known[i] = "proposed"
<1>1. ASSUME NEW d \in Dispatches, dispatch_commit(d)
      PROVE  itemStatus'[i] = "dispatched" /\ draft' = draft
  BY <1>1 DEF dispatch_commit, MarkDispatched, DispatchTypeOK
<1>2. ASSUME NEW b \in Builds, build_commit(b)
      PROVE  /\ itemStatus'[i] = "dispatched"
             /\ draft'[i] # draft[i] => build[b].active /\ build[b].known[i] = "proposed"
  BY <1>2 DEF build_commit, Refreshed
<1>3. CASE UNCHANGED <<itemStatus, draft>>
  BY <1>3
<1>4. ASSUME ItemStep, ~UNCHANGED <<itemStatus, draft>>
      PROVE  (\E d \in Dispatches : dispatch_commit(d)) \/ (\E b \in Builds : build_commit(b))
  BY <1>4 DEF ItemStep, dispatch_read, dispatch_abort, SignalsChange, build_read, build_abort
<1>5. CASE UNCHANGED dispatchVars \/ UNCHANGED itemVars
  BY <1>3, <1>5 DEF dispatchVars, itemVars
<1> QED
  BY <1>1, <1>2, <1>3, <1>4, <1>5 DEF DispatchNext

\* Dispatching an item is final, whatever builds read before it are still open.
THEOREM DispatchIsFinalHolds == DispatchSpec => DispatchIsFinal
<1>1. DispatchIInv /\ [DispatchNext]_dispatchVars =>
        [\A i \in Items : itemStatus[i] = "dispatched" => itemStatus'[i] = "dispatched"]_dispatchVars
  BY DispatchedStays DEF DispatchIInv
<1> QED
  BY <1>1, DispatchInvariant, PTL DEF DispatchSpec, DispatchIsFinal

\* "Refresh still-proposed items": only a build that had read an item as proposed changes
\* what it shows once it is dispatched.
THEOREM DispatchedRefreshedOnlyByReaderHolds == DispatchSpec => DispatchedRefreshedOnlyByReader
<1>1. DispatchIInv /\ [DispatchNext]_dispatchVars =>
        [\A i \in Items : itemStatus[i] = "dispatched" /\ draft'[i] # draft[i] =>
            \E b \in Builds : build[b].active /\ build[b].known[i] = "proposed"]_dispatchVars
  BY DispatchedStays DEF DispatchIInv
<1> QED
  BY <1>1, DispatchInvariant, PTL DEF DispatchSpec, DispatchedRefreshedOnlyByReader

-----------------------------------------------------------------------------
(* What gate and queue promise, with the roadmap on top                    *)

\* A dispatch posts a task that is off the queue at once.
LEMMA DispatchCommitPosts ==
    ASSUME DispatchIInv, NEW d \in Dispatches, dispatch_commit(d)
    PROVE  Ledger!LedgerNext
<1>1. PICK t \in Tasks : PostParked(t) /\ UNCHANGED <<held, attempts>>
  BY DEF dispatch_commit
<1>2. QueueInv
  BY DEF DispatchIInv, GateInv
<1>3. /\ status[t] = "absent" /\ status'[t] = "awaiting_approval"
      /\ \A u \in Tasks : u # t => status'[u] = status[u]
  BY <1>1, <1>2 DEF PostParked, NextRow, QueueInv, TypeOK
<1>4. \A u \in Tasks : Holders(u)' = Holders(u)
  BY <1>1 DEF Holders
<1>5. Holders(t) = {}
  BY <1>2, <1>3, NoTaskNotTask DEF QueueInv, HeldRuns, Holders
<1>6. /\ PlaceOf(t) = "new" /\ PlaceOf(t)' = "off"
      /\ \A u \in Tasks : u # t => PlaceOf(u)' = PlaceOf(u)
  BY <1>3, <1>4, <1>5 DEF PlaceOf
<1>7. Ledger!Post(t)
  BY <1>1, <1>4, <1>6 DEF Ledger!Post
<1> QED
  BY <1>7 DEF Ledger!LedgerNext

\* Each step of the roadmap either commits a dispatch or leaves gate and queue alone.
LEMMA ItemStepQuiet ==
    ASSUME ItemStep
    PROVE  (\E d \in Dispatches : dispatch_commit(d)) \/ UNCHANGED gateVars
BY DEF ItemStep, dispatch_read, dispatch_abort, SignalsChange, build_read, build_commit, build_abort

\* With the roadmap in front of it, too, the queue implements WorkLedger
\* (services/automation/roadmap.py over services/agents/task_queue.py).
THEOREM DispatchImplementsLedger == DispatchSpec => QueueRefinesLedger
<1>1. DispatchInit => Ledger!LedgerInit
  BY NoTaskNotTask DEF DispatchInit, GateInit, QueueInit, Ledger!LedgerInit, PlaceOf, Holders
<1>2. DispatchIInv /\ [DispatchNext]_dispatchVars => [Ledger!LedgerNext]_Ledger!ledgerVars
  <2> SUFFICES ASSUME DispatchIInv, [DispatchNext]_dispatchVars
               PROVE  [Ledger!LedgerNext]_Ledger!ledgerVars
    OBVIOUS
  <2>1. CASE [GateNext]_gateVars
    BY <2>1, GateStepRefines DEF DispatchIInv
  <2>2. ASSUME NEW d \in Dispatches, dispatch_commit(d) PROVE Ledger!LedgerNext
    BY <2>2, DispatchCommitPosts
  <2> QED
    BY <2>1, <2>2, ItemStepQuiet DEF DispatchNext, dispatchVars
<1> QED
  BY DispatchInvariant, <1>1, <1>2, PTL DEF DispatchSpec, QueueRefinesLedger, Ledger!LedgerSpec

\* The roadmap raises requests and decides none: gate and roadmap together implement Docket.
THEOREM DispatchImplementsDocket == DispatchSpec => GateRefinesDocket
<1>1. DispatchInit => GateDocket!DocketInit
  BY GateInitDocket DEF DispatchInit
<1>2. DispatchIInv /\ [DispatchNext]_dispatchVars => [GateDocket!DocketNext]_GateDocket!docketVars
  <2> SUFFICES ASSUME DispatchIInv, [DispatchNext]_dispatchVars
               PROVE  [GateDocket!DocketNext]_GateDocket!docketVars
    OBVIOUS
  <2>1. CASE [GateNext]_gateVars
    BY <2>1, GateStepDocket DEF DispatchIInv
  <2>2. ASSUME NEW d \in Dispatches, dispatch_commit(d) PROVE GateDocket!DocketNext
    BY <2>2, NewRequestRaises DEF dispatch_commit, DispatchIInv
  <2> QED
    BY <2>1, <2>2, ItemStepQuiet DEF DispatchNext, dispatchVars
<1> QED
  BY DispatchInvariant, <1>1, <1>2, PTL DEF DispatchSpec, GateRefinesDocket, GateDocket!DocketSpec

=============================================================================
