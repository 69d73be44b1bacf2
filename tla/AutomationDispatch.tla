------------------------- MODULE AutomationDispatch -------------------------
(***************************************************************************)
(* The automation roadmap on top of the approval gate: build_roadmap fills *)
(* and refreshes the backlog of automation_items, and dispatch_item turns  *)
(* an item into a task that waits for approval.  Both read the items and   *)
(* write them later in the same session, without locking them.             *)
(***************************************************************************)
EXTENDS ApprovalGate

CONSTANTS
    Items,        \* the candidate titles of one company
    Dispatches,   \* concurrent dispatch_item requests
    Builds,       \* concurrent build_roadmap requests
    MaxRevision   \* bound: how often the underlying signals change

NoItem == "none"

ASSUME DispatchAssumption ==
    NoItem \notin Items /\ MaxRevision \in Nat /\ IsFiniteSet(Dispatches)

VARIABLES
    itemStatus,   \* AutomationItem.status, "absent" before the INSERT
    itemTask,     \* AutomationItem.agent_task_id
    draft,        \* revision of the signals an item's description and score show
    revision,     \* current revision of the interview insights and raw records
    dispatching,  \* the item each open dispatch request has read
    build,        \* the open builds
    subject       \* AgentTask.subject_id of each task

itemVars == <<itemStatus, itemTask, draft, revision, dispatching, build, subject>>
dispatchVars == <<gateVars, itemVars>>

\* The columns "done" and "dismissed" are documented but nothing writes them.
ItemStatuses == {"absent", "proposed", "dispatched"}

\* known is the backlog as the build read it, found the candidates it ranked.
BuildStates == [active: BOOLEAN, found: SUBSET Items,
                known: [Items -> ItemStatuses], revision: 0..MaxRevision]

IdleBuild == [active |-> FALSE, found |-> {}, revision |-> 0,
              known |-> [i \in Items |-> "absent"]]

DispatchTypeOK ==
    /\ GateTypeOK
    /\ itemStatus \in [Items -> ItemStatuses]
    /\ itemTask \in [Items -> Tasks \union {NoTask}]
    /\ draft \in [Items -> 0..MaxRevision]
    /\ revision \in 0..MaxRevision
    /\ dispatching \in [Dispatches -> Items \union {NoItem}]
    /\ build \in [Builds -> BuildStates]
    /\ subject \in [Tasks -> Items \union {NoItem}]

DispatchInit ==
    /\ GateInit
    /\ itemStatus = [i \in Items |-> "absent"]
    /\ itemTask = [i \in Items |-> NoTask]
    /\ draft = [i \in Items |-> 0]
    /\ revision = 0
    /\ dispatching = [d \in Dispatches |-> NoItem]
    /\ build = [b \in Builds |-> IdleBuild]
    /\ subject = [t \in Tasks |-> NoItem]

-----------------------------------------------------------------------------
(* Dispatching an item                                                     *)

\* Variant of dispatch_read for mutation: a dispatched item may be dispatched again.
dispatch_read_unguarded(d, i) ==
    /\ dispatching[d] = NoItem
    /\ itemStatus[i] # "absent"
    /\ dispatching' = [dispatching EXCEPT ![d] = i]
    /\ UNCHANGED <<gateVars, itemStatus, itemTask, draft, revision, build, subject>>

\* dispatch_item reads the item and answers 409 unless it is proposed.
dispatch_read(d, i) ==
    /\ dispatching[d] = NoItem
    /\ itemStatus[i] = "proposed"
    /\ dispatching' = [dispatching EXCEPT ![d] = i]
    /\ UNCHANGED <<gateVars, itemStatus, itemTask, draft, revision, build, subject>>

\* Variant of PostParked for mutation: the task is left in the queue.
PostQueued(t) == NextRow(t) /\ status' = [status EXCEPT ![t] = "queued"]

\* enqueue_task and request_approval in one transaction: the task is never seen in
\* "queued".
PostParked(t) == NextRow(t) /\ status' = [status EXCEPT ![t] = "awaiting_approval"]

MarkDispatched(i, t) ==
    /\ itemStatus' = [itemStatus EXCEPT ![i] = "dispatched"]
    /\ itemTask' = [itemTask EXCEPT ![i] = t]

\* The task, its request and the item's UPDATE commit together.
dispatch_commit(d) ==
    /\ dispatching[d] # NoItem
    /\ \E t \in Tasks, r \in Requests :
        /\ PostParked(t)
        /\ NewRequest(r, t)
        /\ subject' = [subject EXCEPT ![t] = dispatching[d]]
        /\ MarkDispatched(dispatching[d], t)
    /\ dispatching' = [dispatching EXCEPT ![d] = NoItem]
    /\ UNCHANGED <<retry_count, wait, held, step, seen, cancelling, logs,
                   notices, attempts, draft, revision, build>>

dispatch_abort(d) ==
    /\ dispatching[d] # NoItem
    /\ dispatching' = [dispatching EXCEPT ![d] = NoItem]
    /\ UNCHANGED <<gateVars, itemStatus, itemTask, draft, revision, build, subject>>

-----------------------------------------------------------------------------
(* Building the roadmap                                                    *)

\* New interview insights or ingested records change what a build will find.
SignalsChange ==
    /\ revision < MaxRevision
    /\ revision' = revision + 1
    /\ UNCHANGED <<gateVars, itemStatus, itemTask, draft, dispatching, build, subject>>

\* build_roadmap collects its candidates and reads the existing items.
build_read(b) ==
    /\ ~build[b].active
    /\ \E found \in SUBSET Items :
        build' = [build EXCEPT ![b] = [active |-> TRUE, found |-> found,
                                       known |-> itemStatus, revision |-> revision]]
    /\ UNCHANGED <<gateVars, itemStatus, itemTask, draft, revision, dispatching, subject>>

NewItems(b) == {i \in build[b].found : build[b].known[i] = "absent"}

\* Variant of Refreshed for mutation: the item's status is not looked at.
RefreshedAll(b) == {i \in build[b].found : build[b].known[i] # "absent"}

\* Items the build believes still proposed.
Refreshed(b) == {i \in build[b].found : build[b].known[i] = "proposed"}

\* Variant of build_commit for mutation: a refresh writes the status too.
build_commit_reproposes(b) ==
    /\ build[b].active
    /\ \A i \in NewItems(b) : itemStatus[i] = "absent"
    /\ itemStatus' = [i \in Items |-> IF i \in NewItems(b) \union Refreshed(b)
                                      THEN "proposed" ELSE itemStatus[i]]
    /\ draft' = [i \in Items |-> IF i \in NewItems(b) \union Refreshed(b)
                                 THEN build[b].revision ELSE draft[i]]
    /\ build' = [build EXCEPT ![b] = IdleBuild]
    /\ UNCHANGED <<gateVars, itemTask, revision, dispatching, subject>>

\* The flush inserts new candidates and refreshes the columns of proposed ones
\* other than status.
build_commit(b) ==
    /\ build[b].active
    /\ \A i \in NewItems(b) : itemStatus[i] = "absent"
    /\ itemStatus' = [i \in Items |->
                        IF i \in NewItems(b) THEN "proposed" ELSE itemStatus[i]]
    /\ draft' = [i \in Items |-> IF i \in NewItems(b) \union Refreshed(b)
                                 THEN build[b].revision ELSE draft[i]]
    /\ build' = [build EXCEPT ![b] = IdleBuild]
    /\ UNCHANGED <<gateVars, itemTask, revision, dispatching, subject>>

\* uq_automation_company_title refuses a title another build inserted meanwhile
\* and the whole build is rolled back; a dropped request ends the same way.
build_abort(b) ==
    /\ build[b].active
    /\ build' = [build EXCEPT ![b] = IdleBuild]
    /\ UNCHANGED <<gateVars, itemStatus, itemTask, draft, revision, dispatching, subject>>

-----------------------------------------------------------------------------
ItemStep ==
    \/ \E d \in Dispatches, i \in Items : dispatch_read(d, i)
    \/ \E d \in Dispatches : dispatch_commit(d) \/ dispatch_abort(d)
    \/ SignalsChange
    \/ \E b \in Builds : build_read(b) \/ build_commit(b) \/ build_abort(b)

DispatchNext ==
    \/ GateNext /\ UNCHANGED itemVars
    \/ ItemStep

DispatchSpec == DispatchInit /\ [][DispatchNext]_dispatchVars

-----------------------------------------------------------------------------
(* Properties                                                              *)

TasksOf(i) == {t \in Tasks : subject[t] = i}

\* Whatever dispatches, builds and aborted requests interleave, a dispatched item
\* names a task made for it that is behind an approval request, and an item that
\* is not dispatched names none.
DispatchLinked ==
    \A i \in Items :
        IF itemStatus[i] = "dispatched"
        THEN itemTask[i] \in TasksOf(i) /\ RequestsOf(itemTask[i]) # {}
        ELSE itemTask[i] = NoTask /\ TasksOf(i) = {}

\* Rebuilding the roadmap never offers an item for dispatch a second time, not
\* even from a backlog read before it was dispatched.
DispatchIsFinal ==
    [][\A i \in Items : itemStatus[i] = "dispatched" => itemStatus'[i] = "dispatched"
      ]_dispatchVars

\* "Refresh still-proposed items; never touch dispatched/done ones": what a
\* dispatched item shows is rewritten, if at all, by a build that had read it
\* while it was still proposed.
DispatchedRefreshedOnlyByReader ==
    [][\A i \in Items : itemStatus[i] = "dispatched" /\ draft'[i] # draft[i] =>
         \E b \in Builds : build[b].active /\ build[b].known[i] = "proposed"
      ]_dispatchVars

\* An item gets at most one task per dispatch request that was open at once; with
\* one at a time, exactly the one it names.
DispatchBounded ==
    \A i \in Items : Cardinality(TasksOf(i)) <= Cardinality(Dispatches)

\* The invariant of the roadmap: well-formed rows, items linked to their tasks, and no
\* more tasks than dispatches.
DispatchInv == DispatchTypeOK /\ DispatchLinked /\ DispatchBounded

=============================================================================
