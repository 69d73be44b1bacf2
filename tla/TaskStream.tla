----------------------------- MODULE TaskStream -----------------------------
(***************************************************************************)
(* The order in which services/agents/task_queue.py hands tasks out when   *)
(* there is no end of them.  TaskQueue follows a few rows through every    *)
(* race; here a task that is over makes room for a new one, so that more   *)
(* urgent tasks may keep coming for ever.  One lane of tasks and the       *)
(* agents that serve it; reads and writes of a request are one step.       *)
(***************************************************************************)
EXTENDS Naturals, SequencesExt

CONSTANTS
    Slots,       \* tasks there may be at the same time
    Urgencies,   \* values of AgentTask.priority, the smallest is the most urgent
    Retries,     \* AgentTask.max_retries (3 in the code)
    Postpones,   \* minutes until scheduled_at that an enqueuer may ask for
    Agents       \* agents of the lane

ASSUME StreamAssumption ==
    /\ Urgencies \subseteq Nat
    /\ Postpones \subseteq Nat
    /\ Retries \in Nat \ {0}

NoSlot == "none"

VARIABLES
    line,     \* the tasks that are not over, in the order of created_at
    ticket,   \* priority, retry_count and minutes until scheduled_at of each
    serving   \* the task each agent is working on

streamVars == <<line, ticket, serving>>

Blank == [priority |-> 0, retry_count |-> 0, wait |-> 0]

StreamInit ==
    /\ line = <<>>
    /\ ticket = [s \in Slots |-> Blank]
    /\ serving = [a \in Agents |-> NoSlot]

Served(s) == \E a \in Agents : serving[a] = s
Queued(s) == Contains(line, s) /\ ~Served(s)

-----------------------------------------------------------------------------
stream_enqueue(s, priority, minutes) ==
    /\ ~Contains(line, s)
    /\ line' = Append(line, s)
    /\ ticket' = [ticket EXCEPT ![s] =
                    [priority |-> priority, retry_count |-> 0, wait |-> minutes]]
    /\ UNCHANGED serving

Ready == SelectSeq(line, LAMBDA s : ~Served(s) /\ ticket[s].wait = 0)

Urgency(i) == ticket[Ready[i]].priority

\* Variant of NextInLine for mutation: the newest of the most urgent tasks.
NextInLineNewest(i) ==
    \A j \in DOMAIN Ready :
        Urgency(i) < Urgency(j) \/ (Urgency(i) = Urgency(j) /\ i >= j)

\* ORDER BY priority, created_at.
NextInLine(i) ==
    \A j \in DOMAIN Ready :
        Urgency(i) < Urgency(j) \/ (Urgency(i) = Urgency(j) /\ i <= j)

stream_claim(a) ==
    /\ serving[a] = NoSlot
    /\ \E i \in DOMAIN Ready : NextInLine(i) /\ serving' = [serving EXCEPT ![a] = Ready[i]]
    /\ UNCHANGED <<line, ticket>>

\* No query of the queue ever returns this row again.
Over(s) ==
    /\ line' = Remove(line, s)
    /\ ticket' = [ticket EXCEPT ![s] = Blank]

\* fail_task puts a task back with its created_at unchanged, later by the backoff.
stream_retry(a) ==
    LET failures == ticket[serving[a]].retry_count + 1 IN
    /\ serving[a] # NoSlot
    /\ failures < Retries
    /\ ticket' = [ticket EXCEPT ![serving[a]].retry_count = failures,
                                ![serving[a]].wait = 2^failures]
    /\ serving' = [serving EXCEPT ![a] = NoSlot]
    /\ UNCHANGED line

\* Completed, parked for an approval, or given up after the last retry.
stream_finish(a) ==
    /\ serving[a] # NoSlot
    /\ Over(serving[a])
    /\ serving' = [serving EXCEPT ![a] = NoSlot]

stream_cancel(s) ==
    /\ Queued(s)
    /\ Over(s)
    /\ UNCHANGED serving

StreamTick ==
    /\ \E s \in Slots : ticket[s].wait > 0
    /\ ticket' = [s \in Slots |-> [ticket[s] EXCEPT !.wait = IF @ > 0 THEN @ - 1 ELSE 0]]
    /\ UNCHANGED <<line, serving>>

-----------------------------------------------------------------------------
\* An agent that dies leaves its row running for good, which is over too.
StreamNext ==
    \/ \E s \in Slots : \/ \E p \in Urgencies, d \in Postpones : stream_enqueue(s, p, d)
                        \/ stream_cancel(s)
    \/ \E a \in Agents : stream_claim(a) \/ stream_retry(a) \/ stream_finish(a)
    \/ StreamTick

\* Time passes, and an agent polls for work and is done with it some day.
StreamFairness ==
    /\ WF_streamVars(StreamTick)
    /\ \A a \in Agents : /\ WF_streamVars(stream_claim(a))
                         /\ WF_streamVars(stream_retry(a) \/ stream_finish(a))

StreamSpec == StreamInit /\ [][StreamNext]_streamVars /\ StreamFairness

-----------------------------------------------------------------------------
(* Properties                                                              *)

\* Some agent works on a task that is more urgent than this one.
Overtaken(s) ==
    \E a \in Agents : serving[a] # NoSlot /\ ticket[serving[a]].priority < ticket[s].priority

\* Nothing but more urgent work keeps a task in the queue for ever: not retries that
\* come back with their old created_at, not backoff, not an endless stream of tasks of
\* its own priority.  (A stream of more urgent tasks does: nothing ages.)
OnlyUrgencyStarves == \A s \in Slots : <>[]Queued(s) => []<>Overtaken(s)

=============================================================================
