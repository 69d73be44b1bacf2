------------------------------- MODULE Decisions -------------------------------
(***************************************************************************)
(* Analysts decide on what the calculations propose (routers/              *)
(* decisions.py) and on the add-backs of a quality-of-earnings run, whose  *)
(* valuation package they build (routers/esop.py).  A handler reads its    *)
(* row and checks it, and the UPDATE and the audit row are written in its  *)
(* commit; the ORM writes only the columns that differ from what was read. *)
(* Only the approval of a decision looks at the status it read.            *)
(***************************************************************************)
EXTENDS Naturals, Sequences, FiniteSets

CONSTANTS
    Decisions,   \* rows of the table decisions
    Addbacks,    \* rows of esop_adjustments of one QoE run
    Evidence,    \* evidence files of that run
    Analysts,    \* users that may decide
    Handlers,    \* requests that are open at a time
    MaxAudit     \* bound on the audit log

VARIABLES
    decision,   \* status and approved_by of each decision
    addback,    \* approved_by of each add-back, or "nobody"
    package,    \* status and approved_by of the QoE run, the files its bundle lists
    filed,      \* the evidence files that are in the table
    request,    \* what each open request is for and what it read
    audit       \* audit_logs, in the order of the commits

decisionVars == <<decision, addback, package, filed, request, audit>>

Nobody == "nobody"
DecisionStatuses == {"pending", "approved", "rejected"}

\* Rows of different tables have different ids, and nobody is no user.
ASSUME DecisionsAssumption ==
    /\ Decisions \intersect Addbacks = {}
    /\ "qoe" \notin Decisions \union Addbacks
    /\ Nobody \notin Analysts
    /\ MaxAudit \in Nat

NoHandler == [verb |-> "none"]

Verbs == {"approve_decision", "reject_decision", "approve_addback",
          "create_qoe_run", "build_valuation_package"}

\* Which rows a verb is about.
Subjects(verb) ==
    CASE verb \in {"approve_decision", "reject_decision"} -> Decisions
      [] verb = "approve_addback" -> Addbacks
      [] OTHER -> {"qoe"}

\* What the request finds in its row: the status and approver to compare with.
Reading(verb, on) ==
    CASE verb \in {"approve_decision", "reject_decision"} -> decision[on]
      [] verb = "approve_addback" -> [by |-> addback[on]]
      [] OTHER -> package

\* What the audit log may hold.
AuditRows ==
    [event: {"decision.approved", "decision.rejected", "esop_adjustment.approved",
             "qoe_run.created"},
     on: Decisions \union Addbacks \union {"qoe"}, user: Analysts,
     before: DecisionStatuses \union {""},
     after: DecisionStatuses \union {"draft"} \union Analysts]

DecisionsTypeOK ==
    /\ decision \in [Decisions -> [status: DecisionStatuses, by: Analysts \union {Nobody}]]
    /\ addback \in [Addbacks -> Analysts \union {Nobody}]
    /\ package \in [status: {"absent", "draft", "approved"}, by: Analysts \union {Nobody},
                    bundle: SUBSET Evidence]
    /\ filed \subseteq Evidence
    /\ \A r \in Handlers : request[r].verb \in Verbs \union {"none"}
    /\ audit \in Seq(AuditRows)
    /\ Len(audit) <= MaxAudit

DecisionsInit ==
    /\ decision = [d \in Decisions |-> [status |-> "pending", by |-> Nobody]]
    /\ addback = [a \in Addbacks |-> Nobody]
    /\ package = [status |-> "absent", by |-> Nobody, bundle |-> {}]
    /\ filed = {}
    /\ request = [r \in Handlers |-> NoHandler]
    /\ audit = <<>>

-----------------------------------------------------------------------------
\* The checks of the five handlers.  A decision is rejected whatever its status, an
\* add-back approved again, a package built with the add-backs as they are.
Answerable(verb, on) ==
    CASE verb = "approve_decision" -> decision[on].status = "pending"
      [] verb = "create_qoe_run" -> package.status = "absent"
      [] verb = "reject_decision" -> TRUE
      [] OTHER -> package.status # "absent"

handler_read(r, verb, on, user) ==
    /\ request[r].verb = "none"
    /\ Answerable(verb, on)
    /\ request' = [request EXCEPT ![r] =
            [verb |-> verb, on |-> on, user |-> user,
             read |-> Reading(verb, on), files |-> filed]]
    /\ UNCHANGED <<decision, addback, package, filed, audit>>

\* What a column holds after a request has set it: the ORM leaves a column alone whose
\* new value is the one it had read.
Written(column, read, now) == IF column = read THEN now ELSE column

\* Only the decisions' entries have a before_state.
Logged(r, event, before, after) ==
    audit' = Append(audit, [event |-> event, on |-> request[r].on, user |-> request[r].user,
                            before |-> before, after |-> after])

Answered(r) ==
    /\ Len(audit) < MaxAudit
    /\ request' = [request EXCEPT ![r] = NoHandler]

\* Variant of approve_decision for mutation: the approver stays as it was.
approve_decision_unsigned(r) ==
    LET q == request[r] IN
    /\ q.verb = "approve_decision"
    /\ decision' = [decision EXCEPT ![q.on].status = Written("approved", q.read.status, @)]
    /\ Logged(r, "decision.approved", q.read.status, "approved")
    /\ Answered(r)
    /\ UNCHANGED <<addback, package, filed>>

approve_decision(r) ==
    LET q == request[r] IN
    /\ q.verb = "approve_decision"
    /\ decision' = [decision EXCEPT
            ![q.on] = [status |-> Written("approved", q.read.status, @.status),
                       by |-> Written(q.user, q.read.by, @.by)]]
    /\ Logged(r, "decision.approved", q.read.status, "approved")
    /\ Answered(r)
    /\ UNCHANGED <<addback, package, filed>>

\* The approver of a decision that is rejected later stays in the row.
reject_decision(r) ==
    LET q == request[r] IN
    /\ q.verb = "reject_decision"
    /\ decision' = [decision EXCEPT ![q.on].status = Written("rejected", q.read.status, @)]
    /\ Logged(r, "decision.rejected", q.read.status, "rejected")
    /\ Answered(r)
    /\ UNCHANGED <<addback, package, filed>>

approve_addback(r) ==
    LET q == request[r] IN
    /\ q.verb = "approve_addback"
    /\ addback' = [addback EXCEPT ![q.on] = Written(q.user, q.read.by, @)]
    /\ Logged(r, "esop_adjustment.approved", "", q.user)
    /\ Answered(r)
    /\ UNCHANGED <<decision, package, filed>>

\* Any number of runs can be created; the model follows the first one.
create_qoe_run(r) ==
    /\ request[r].verb = "create_qoe_run"
    /\ package.status = "absent"
    /\ package' = [package EXCEPT !.status = "draft"]
    /\ Logged(r, "qoe_run.created", "", "draft")
    /\ Answered(r)
    /\ UNCHANGED <<decision, addback, filed>>

\* Building the package approves the run; it is not audited, and whatever the bundle
\* held before is replaced by the list of the files that were read.
build_valuation_package(r) ==
    LET q == request[r] IN
    /\ q.verb = "build_valuation_package"
    /\ package' = [status |-> Written("approved", q.read.status, package.status),
                   by |-> Written(q.user, q.read.by, package.by),
                   bundle |-> q.files]
    /\ request' = [request EXCEPT ![r] = NoHandler]
    /\ UNCHANGED <<decision, addback, filed, audit>>

handler_abort(r) ==
    /\ request[r].verb # "none"
    /\ request' = [request EXCEPT ![r] = NoHandler]
    /\ UNCHANGED <<decision, addback, package, filed, audit>>

\* Evidence files come from outside: no code of the repository inserts them.
evidence_filed(f) ==
    /\ package.status # "absent"
    /\ filed' = filed \union {f}
    /\ UNCHANGED <<decision, addback, package, request, audit>>

-----------------------------------------------------------------------------
DecisionsNext ==
    \/ \E r \in Handlers :
        \/ \E verb \in Verbs, user \in Analysts :
            \E on \in Subjects(verb) : handler_read(r, verb, on, user)
        \/ approve_decision(r)
        \/ reject_decision(r)
        \/ approve_addback(r)
        \/ create_qoe_run(r)
        \/ build_valuation_package(r)
        \/ handler_abort(r)
    \/ \E f \in Evidence \ filed : evidence_filed(f)

DecisionsSpec == DecisionsInit /\ [][DecisionsNext]_decisionVars

-----------------------------------------------------------------------------
(* Properties                                                              *)

\* The audit rows about something, by position, and among them those that changed it.
EntriesOn(x) == {i \in DOMAIN audit : audit[i].on = x}
ChangesOf(x) == {i \in EntriesOn(x) : audit[i].before # audit[i].after}
ApprovalsOf(x) == {i \in EntriesOn(x) : audit[i].event = "decision.approved"}

IsLast(i, rows) == i \in rows /\ \A j \in rows : j <= i

\* The audit log tells what became of a decision, in whatever order the requests on it
\* committed: its status is what the last entry that changed something says (a second
\* rejection logs an entry that changes nothing, and an approval may commit between its
\* reading and its entry), and approved_by is the user of the last approval, kept even
\* when the decision was rejected since.
DecisionOnRecord ==
    \A d \in Decisions :
        /\ ChangesOf(d) = {} => decision[d].status = "pending"
        /\ \A i \in DOMAIN audit :
            IsLast(i, ChangesOf(d)) => decision[d].status = audit[i].after
        /\ ApprovalsOf(d) = {} => decision[d].by = Nobody
        /\ \A i \in DOMAIN audit :
            IsLast(i, ApprovalsOf(d)) => decision[d].by = audit[i].user

\* An add-back's approver is one whose approval is in the audit log, and an add-back with
\* an approval in the log has an approver, whichever of two approvals came last.
AddbackOnRecord ==
    \A a \in Addbacks :
        LET signed == {audit[i].user : i \in EntriesOn(a)} IN
        IF signed = {} THEN addback[a] = Nobody ELSE addback[a] \in signed

\* The invariant of the decisions: well-formed rows, and an audit log that tells the
\* status and the approver of each decision and of each add-back.
DecisionsInv == DecisionsTypeOK /\ DecisionOnRecord /\ AddbackOnRecord

=============================================================================
