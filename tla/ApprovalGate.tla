---------------------------- MODULE ApprovalGate ----------------------------
(***************************************************************************)
(* The approval gate in front of the task queue: rows of                   *)
(* approval_requests, the request_approval call that parks a task behind   *)
(* one, and the approve and reject requests of routers/approvals.py.       *)
(*                                                                         *)
(* A review is one database session in three steps.  It reads the request; *)
(* the query for the task first flushes the UPDATE of the request, which   *)
(* waits for and takes that row's lock, and then reads the task; the       *)
(* UPDATE of the task, the audit row and the commit come last.             *)
(***************************************************************************)
EXTENDS TaskQueue, Sequences, FiniteSets

CONSTANTS
    MaxRequests,   \* bound: how many rows approval_requests may ever hold
    Reviews        \* concurrent approve or reject requests

Requests == 1..MaxRequests
NoRequest == 0

ASSUME GateAssumption == MaxRequests \in Nat

VARIABLES
    reqStatus,  \* ApprovalRequest.status, "absent" before the INSERT
    reqTask,    \* ApprovalRequest.task_id
    lapsed,     \* whether expires_at has passed
    review,     \* the open reviews
    audit       \* the audit_logs rows of each request, in commit order

reviewVars == <<reqStatus, reqTask, lapsed, review, audit>>
gateVars == <<queueVars, reviewVars>>

Verdicts == {"approved", "rejected"}

\* The code also assigns "expired", in a session it then rolls back.
RequestStatuses == {"absent", "pending", "approved", "rejected"}

\* taskStatus is what the review read of the task before it writes to it.
ReviewStates == [phase: {"idle", "read", "locked"}, verdict: Verdicts,
                 req: Requests \union {NoRequest}, taskStatus: Statuses]

IdleReview == [phase |-> "idle", verdict |-> "rejected", req |-> NoRequest,
               taskStatus |-> "absent"]

GateTypeOK ==
    /\ TypeOK
    /\ reqStatus \in [Requests -> RequestStatuses]
    /\ reqTask \in [Requests -> Tasks \union {NoTask}]
    /\ lapsed \in [Requests -> BOOLEAN]
    /\ review \in [Reviews -> ReviewStates]
    /\ audit \in [Requests -> Seq(Verdicts)]

GateInit ==
    /\ QueueInit
    /\ reqStatus = [r \in Requests |-> "absent"]
    /\ reqTask = [r \in Requests |-> NoTask]
    /\ lapsed = [r \in Requests |-> FALSE]
    /\ review = [v \in Reviews |-> IdleReview]
    /\ audit = [r \in Requests |-> <<>>]

-----------------------------------------------------------------------------
\* The INSERT of a pending request for task t.
NewRequest(r, t) ==
    /\ reqStatus[r] = "absent"
    /\ \A q \in Requests : q < r => reqStatus[q] # "absent"
    /\ reqStatus' = [reqStatus EXCEPT ![r] = "pending"]
    /\ reqTask' = [reqTask EXCEPT ![r] = t]
    /\ UNCHANGED <<lapsed, review, audit>>

\* An agent parks the task it holds behind a new request.
request_approval(w) ==
    /\ park_task(w)
    /\ \E r \in Requests : NewRequest(r, held[w])

\* expires_at goes by.  Nothing in the code runs when it does.
Lapse(r) ==
    /\ reqStatus[r] = "pending"
    /\ ~lapsed[r]
    /\ lapsed' = [lapsed EXCEPT ![r] = TRUE]
    /\ UNCHANGED <<queueVars, reqStatus, reqTask, review, audit>>

-----------------------------------------------------------------------------
(* Reviews                                                                 *)

\* Variant of review_read for mutation: a decided request is not turned down.
review_read_decided(v, verdict, r) ==
    /\ review[v].phase = "idle"
    /\ reqStatus[r] # "absent"
    /\ verdict = "approved" => ~lapsed[r]
    /\ review' = [review EXCEPT ![v] = [phase |-> "read", verdict |-> verdict,
                                        req |-> r, taskStatus |-> "absent"]]
    /\ UNCHANGED <<queueVars, reqStatus, reqTask, lapsed, audit>>

\* The request is read and found pending (409 otherwise); approve_request then
\* compares expires_at with the clock (410, and nothing kept, when it has
\* passed), reject_request does not.
review_read(v, verdict, r) ==
    /\ review[v].phase = "idle"
    /\ reqStatus[r] = "pending"
    /\ verdict = "approved" => ~lapsed[r]
    /\ review' = [review EXCEPT ![v] = [phase |-> "read", verdict |-> verdict,
                                        req |-> r, taskStatus |-> "absent"]]
    /\ UNCHANGED <<queueVars, reqStatus, reqTask, lapsed, audit>>

RowLocked(r) == \E v \in Reviews : review[v].phase = "locked" /\ review[v].req = r

\* The autoflushed UPDATE of the request, not visible to others before the
\* commit, and the SELECT of its task.
review_lock(v) ==
    /\ review[v].phase = "read"
    /\ ~RowLocked(review[v].req)
    /\ review' = [review EXCEPT ![v].phase = "locked",
                                ![v].taskStatus = status[reqTask[review[v].req]]]
    /\ UNCHANGED <<queueVars, reqStatus, reqTask, lapsed, audit>>

\* Variant of TaskAfter for mutation: the task's status is not looked at.
TaskAfterBlind(v) == [status EXCEPT ![reqTask[review[v].req]] = review[v].verdict]

\* The task follows the verdict only if it was seen waiting for one.
TaskAfter(v) ==
    IF review[v].taskStatus = "awaiting_approval"
    THEN [status EXCEPT ![reqTask[review[v].req]] = review[v].verdict]
    ELSE status

\* Variant of AuditAfter for mutation: only approvals are audited.
AuditAfterApprovals(v) ==
    IF review[v].verdict = "approved"
    THEN [audit EXCEPT ![review[v].req] = Append(@, review[v].verdict)]
    ELSE audit

AuditAfter(v) == [audit EXCEPT ![review[v].req] = Append(@, review[v].verdict)]

review_commit(v) ==
    /\ review[v].phase = "locked"
    /\ reqStatus' = [reqStatus EXCEPT ![review[v].req] = review[v].verdict]
    /\ audit' = AuditAfter(v)
    /\ status' = TaskAfter(v)
    /\ review' = [review EXCEPT ![v] = IdleReview]
    /\ UNCHANGED <<retry_count, wait, held, step, seen, cancelling, logs,
                   notices, attempts, reqTask, lapsed>>

\* The request is dropped (client gone, server stopped) and rolled back.
review_abort(v) ==
    /\ review[v].phase # "idle"
    /\ review' = [review EXCEPT ![v] = IdleReview]
    /\ UNCHANGED <<queueVars, reqStatus, reqTask, lapsed, audit>>

-----------------------------------------------------------------------------
\* The steps of the task queue that leave the requests alone.
QueueStep ==
    /\ \/ \E t \in Tasks, d \in Delays : enqueue_task(t, d)
       \/ \E w \in Workers : AgentStep(w)
       \/ \E c \in Cancels : CancelStep(c)
       \/ Tick
    /\ UNCHANGED reviewVars

ReviewStep(v) ==
    \/ \E verdict \in Verdicts, r \in Requests : review_read(v, verdict, r)
    \/ review_lock(v)
    \/ review_commit(v)
    \/ review_abort(v)

GateNext ==
    \/ QueueStep
    \/ \E w \in Workers : request_approval(w)
    \/ \E r \in Requests : Lapse(r)
    \/ \E v \in Reviews : ReviewStep(v)

GateSpec == GateInit /\ [][GateNext]_gateVars

\* Agents work as in TaskQueue and a review, once opened, is carried through;
\* nobody is bound to open one.
GateFairness ==
    /\ WF_gateVars(Tick /\ UNCHANGED reviewVars)
    /\ \A w \in Workers :
        /\ WF_gateVars(claim_next_task(w) /\ UNCHANGED reviewVars)
        /\ WF_gateVars((WorkStep(w) /\ UNCHANGED reviewVars) \/ request_approval(w))
    /\ \A v \in Reviews : WF_gateVars(review_lock(v) \/ review_commit(v))

FairGateSpec == GateSpec /\ GateFairness

-----------------------------------------------------------------------------
(* Properties                                                              *)

RequestsOf(t) == {r \in Requests : reqTask[r] = t}

\* A task never has two open requests, so that one decision settles it: no retry,
\* cancellation or review brings a parked task back to where an agent could ask
\* again while the first request is pending.
OnePendingRequest ==
    \A r, q \in Requests :
        reqTask[r] = reqTask[q] /\ reqStatus[r] = "pending" /\ reqStatus[q] = "pending"
        => r = q

\* From the moment a task has asked for approval, and unless it gets it, no agent
\* works on it and none can claim it, also after retries, cancellations, lapsed
\* deadlines and dropped reviews.
UnapprovedNeverRuns ==
    \A r \in Requests : reqTask[r] # NoTask /\ reqStatus[r] # "approved" =>
        /\ Holders(reqTask[r]) = {}
        /\ status[reqTask[r]] \notin {"absent", "queued", "running"}

\* A cancellation that was acknowledged is undone, if at all, by whoever had the
\* task in view before: an agent that held it, or a review that had read it
\* waiting for approval.
CancelUndoneOnlyByReader ==
    [][\A t \in Tasks : status[t] = "rejected" /\ status'[t] # "rejected" =>
         \/ Holders(t) # {}
         \/ \E v \in Reviews : /\ review[v].phase = "locked"
                               /\ reqTask[review[v].req] = t
                               /\ review[v].taskStatus = "awaiting_approval"
      ]_gateVars

\* A task is approved only by a review that approved its request and left the
\* audit row of it, even where another review overwrote the request since.
ApprovedByReview ==
    \A t \in Tasks : status[t] = "approved" =>
        \E r \in RequestsOf(t) : \E i \in DOMAIN audit[r] : audit[r][i] = "approved"

\* The audit trail of a request ends with the status the request has, in
\* whatever order competing reviews commit, and an undecided one has none.
AuditTellsStatus ==
    \A r \in Requests :
        IF reqStatus[r] \in Verdicts
        THEN audit[r] # <<>> /\ audit[r][Len(audit[r])] = reqStatus[r]
        ELSE audit[r] = <<>>

\* docs/agent_execution.md: "If REJECTED: approval_requests.status =
\* 'rejected', task set to `failed`".  A rejected request leaves no task
\* approved.
RejectedStopsTask ==
    \A r \in Requests : reqStatus[r] = "rejected" => status[reqTask[r]] # "approved"

\* docs/acceptance_criteria.md: "Approval_request approved by admin -> task
\* resumes to RUNNING".
ApprovedResumes == \A t \in Tasks : status[t] = "approved" ~> status[t] = "running"

\* The requests as a docket: what was ruled is the status, what was done about a request
\* are its audit rows.
GateDocket == INSTANCE Docket WITH
    Matters <- Requests, Deciders <- Reviews, Rulings <- Verdicts,
    raised <- {r \in Requests : reqStatus[r] # "absent"},
    ruling <- [r \in Requests |-> IF reqStatus[r] \in Verdicts THEN {reqStatus[r]} ELSE {}],
    hearing <- [v \in Reviews |-> IF review[v].phase = "idle" THEN {} ELSE {review[v].req}],
    acted <- {},
    effects <- [r \in Requests |-> Len(audit[r])]

\* Every step of gate, queue and roadmap is a step of the docket or nothing to it: nothing
\* but a review that read the request as pending decides it or adds to its audit trail,
\* and a request that is decided and in no review stays as it is.
GateRefinesDocket == GateDocket!DocketSpec

-----------------------------------------------------------------------------
(* The inductive invariant.                                                *)

\* A task asks for approval at most once in its life.
OneRequestPerTask ==
    \A r, q \in Requests : reqTask[r] = reqTask[q] /\ reqTask[r] # NoTask => r = q

\* What has asked for approval never runs again, approved or not: nothing in the
\* code takes a task out of "approved".
GatedTaskNeverRuns ==
    \A r \in Requests : reqTask[r] # NoTask =>
        /\ Holders(reqTask[r]) = {}
        /\ status[reqTask[r]] \notin {"absent", "queued", "running"}

\* A request that exists names a task, and an open review names such a request.
RequestsExist ==
    /\ \A r \in Requests : reqStatus[r] = "absent" <=> reqTask[r] = NoTask
    /\ \A v \in Reviews : review[v].phase # "idle" =>
        review[v].req # NoRequest /\ reqStatus[review[v].req] # "absent"

GateInv ==
    /\ QueueInv
    /\ GateTypeOK
    /\ RequestsExist
    /\ OneRequestPerTask
    /\ GatedTaskNeverRuns
    /\ ApprovedByReview
    /\ AuditTellsStatus

=============================================================================
