----------------------------- MODULE CooActions -----------------------------
(***************************************************************************)
(* The AI COO (routers/coo.py, services/coo): a conversation in which the  *)
(* assistant proposes actions, and the tray in which the owner approves or *)
(* rejects them.  An approval carries the action out, which for an e-mail  *)
(* means a call to SendGrid, before anything of it is in the database.     *)
(***************************************************************************)
EXTENDS Naturals, Sequences, FiniteSets, FiniteSetsExt

CONSTANTS
    MaxActions,   \* bound: rows of coo_actions
    MaxTurns,     \* bound: messages the owner gets an answer to
    MaxMails,     \* bound: e-mails that leave for one action
    MailOutcomes, \* what send_email may answer: "skipped", or "sent" and "failed"
    Sends,        \* concurrent send_message requests of one conversation
    Requests      \* concurrent approve and reject requests

ASSUME CooAssumption ==
    /\ MaxActions \in Nat /\ MaxTurns \in Nat /\ MaxMails \in Nat
    /\ IsFiniteSet(Requests)
    /\ MailOutcomes \subseteq {"skipped", "sent", "failed"}

VARIABLES
    messages,  \* coo_messages of the conversation, in the order of their commits
    send,      \* the seq each open send_message has given its own message
    action,    \* coo_actions: what kind each is, its status and its result
    decide,    \* what each open request decides, on which action, and what became of its e-mail
    outbox,    \* e-mails SendGrid has accepted, by action
    letters,   \* rows of employee_messages, by action
    chores     \* rows of employee_tasks, by action: how many open, how many done

cooVars == <<messages, send, action, decide, outbox, letters, chores>>

Actions == 1..MaxActions
Kinds == {"employee_email", "employee_task", "business_change"}
ActionStatuses == {"absent", "pending", "rejected", "executed", "failed"}
Results == {"none", "skipped", "sent", "failed", "task_created", "recorded"}

NoAction == [kind |-> "business_change", status |-> "absent", result |-> "none"]
NoRequest == [verb |-> "none", on |-> 0, mail |-> "none"]

\* Messages number at most two for each turn, rows and counters stay within
\* their bounds, statuses are those the code assigns.
CooTypeOK ==
    /\ messages \in Seq([seq: Nat, role: {"user", "assistant"}])
    /\ Len(messages) <= 2 * MaxTurns
    /\ send \in [Sends -> Nat]
    /\ action \in [Actions -> [kind: Kinds, status: ActionStatuses, result: Results]]
    /\ decide \in [Requests -> [verb: {"none", "approve", "reject"}, on: Nat,
                                mail: {"none"} \union MailOutcomes]]
    /\ outbox \in [Actions -> 0..MaxMails]
    /\ letters \in [Actions -> Nat]
    /\ chores \in [Actions -> [open: Nat, done: Nat]]

CooInit ==
    /\ messages = <<>>
    /\ send = [s \in Sends |-> 0]
    /\ action = [a \in Actions |-> NoAction]
    /\ decide = [v \in Requests |-> NoRequest]
    /\ outbox = [a \in Actions |-> 0]
    /\ letters = [a \in Actions |-> 0]
    /\ chores = [a \in Actions |-> [open |-> 0, done |-> 0]]

-----------------------------------------------------------------------------
(* The conversation                                                        *)

Used == {messages[i].seq : i \in DOMAIN messages}

\* Variant of NextSeq for mutation: the messages that are there are counted.
NextSeqCounted == Len(messages) + 1

NextSeq == IF Used = {} THEN 1 ELSE Max(Used) + 1

\* The owner's message takes the next seq; it stays unseen by other requests
\* until the assistant has answered.
send_read(s) ==
    /\ send[s] = 0
    /\ send' = [send EXCEPT ![s] = NextSeq]
    /\ UNCHANGED <<messages, action, decide, outbox, letters, chores>>

Turn(n) == <<[seq |-> n, role |-> "user"], [seq |-> n + 1, role |-> "assistant"]>>

\* The proposals of one answer become pending actions, in free rows.
Proposed(kindOf) ==
    [a \in Actions |->
        IF a \in DOMAIN kindOf
        THEN [kind |-> kindOf[a], status |-> "pending", result |-> "none"]
        ELSE action[a]]

send_commit(s, kindOf) ==
    /\ send[s] # 0
    /\ Len(messages) + 2 <= 2 * MaxTurns
    /\ \A a \in DOMAIN kindOf :
        /\ action[a].status = "absent"
        /\ \A b \in 1..(a - 1) : action[b].status # "absent" \/ b \in DOMAIN kindOf
    /\ messages' = messages \o Turn(send[s])
    /\ action' = Proposed(kindOf)
    /\ send' = [send EXCEPT ![s] = 0]
    /\ UNCHANGED <<decide, outbox, letters, chores>>

\* The assistant fails (the answer is a 502) or the request is dropped: the
\* owner's message is rolled back with it.
send_abort(s) ==
    /\ send[s] # 0
    /\ send' = [send EXCEPT ![s] = 0]
    /\ UNCHANGED <<messages, action, decide, outbox, letters, chores>>

-----------------------------------------------------------------------------
(* The tray                                                                *)

\* Variant of Decidable for mutation: a failed action may be approved again.
DecidableAgain(a) == action[a].status \in {"pending", "failed"}

Decidable(a) == action[a].status = "pending"

decide_read(v, verb, a) ==
    /\ decide[v] = NoRequest
    /\ Decidable(a)
    /\ decide' = [decide EXCEPT ![v] = [verb |-> verb, on |-> a, mail |-> "none"]]
    /\ UNCHANGED <<messages, send, action, outbox, letters, chores>>

\* The e-mail leaves before the status is flushed.  A time-out is answered as
\* "failed", whether or not SendGrid had taken the e-mail.
send_email(v, answer, taken) ==
    LET a == decide[v].on IN
    /\ decide[v].verb = "approve"
    /\ action[a].kind = "employee_email"
    /\ decide[v].mail = "none"
    /\ answer = "sent" => taken
    /\ answer = "skipped" => ~taken
    /\ outbox[a] < MaxMails
    /\ decide' = [decide EXCEPT ![v].mail = answer]
    /\ outbox' = IF taken THEN [outbox EXCEPT ![a] = @ + 1] ELSE outbox
    /\ UNCHANGED <<messages, send, action, letters, chores>>

ResultOf(v) ==
    CASE action[decide[v].on].kind = "employee_email" -> decide[v].mail
      [] action[decide[v].on].kind = "employee_task" -> "task_created"
      [] OTHER -> "recorded"

StatusOf(result) == IF result = "failed" THEN "failed" ELSE "executed"

\* Variant of execute_action for mutation: only an e-mail that left is logged.
execute_action_sent(v) ==
    LET a == decide[v].on IN
    /\ action[a].kind = "employee_email" => decide[v].mail # "none"
    /\ letters' = IF decide[v].mail = "sent" THEN [letters EXCEPT ![a] = @ + 1] ELSE letters
    /\ chores' = IF action[a].kind = "employee_task" THEN [chores EXCEPT ![a].open = @ + 1]
                                                     ELSE chores
    /\ action' = [action EXCEPT ![a].status = StatusOf(ResultOf(v)), ![a].result = ResultOf(v)]

\* Status and result go in one UPDATE, whatever the row has become since it was read.
execute_action(v) ==
    LET a == decide[v].on IN
    /\ action[a].kind = "employee_email" => decide[v].mail # "none"
    /\ letters' = IF action[a].kind = "employee_email" THEN [letters EXCEPT ![a] = @ + 1]
                                                       ELSE letters
    /\ chores' = IF action[a].kind = "employee_task" THEN [chores EXCEPT ![a].open = @ + 1]
                                                     ELSE chores
    /\ action' = [action EXCEPT ![a].status = StatusOf(ResultOf(v)), ![a].result = ResultOf(v)]

approve_commit(v) ==
    /\ decide[v].verb = "approve"
    /\ execute_action(v)
    /\ decide' = [decide EXCEPT ![v] = NoRequest]
    /\ UNCHANGED <<messages, send, outbox>>

\* A rejection leaves the result of an approval it raced with in place.
reject_commit(v) ==
    /\ decide[v].verb = "reject"
    /\ action' = [action EXCEPT ![decide[v].on].status = "rejected"]
    /\ decide' = [decide EXCEPT ![v] = NoRequest]
    /\ UNCHANGED <<messages, send, outbox, letters, chores>>

\* Dropped or failed before its commit; an e-mail that left is not called back.
decide_abort(v) ==
    /\ decide[v] # NoRequest
    /\ decide' = [decide EXCEPT ![v] = NoRequest]
    /\ UNCHANGED <<messages, send, action, outbox, letters, chores>>

complete_employee_task(a) ==
    /\ chores[a].open > 0
    /\ chores' = [chores EXCEPT ![a] = [open |-> @.open - 1, done |-> @.done + 1]]
    /\ UNCHANGED <<messages, send, action, decide, outbox, letters>>

-----------------------------------------------------------------------------
SendStep(s) ==
    \/ send_read(s)
    \/ \E rows \in SUBSET Actions : \E kindOf \in [rows -> Kinds] : send_commit(s, kindOf)
    \/ send_abort(s)

DecideStep(v) ==
    \/ \E verb \in {"approve", "reject"}, a \in Actions : decide_read(v, verb, a)
    \/ \E answer \in MailOutcomes, taken \in BOOLEAN : send_email(v, answer, taken)
    \/ approve_commit(v)
    \/ reject_commit(v)
    \/ decide_abort(v)

CooNext ==
    \/ \E s \in Sends : SendStep(s)
    \/ \E v \in Requests : DecideStep(v)
    \/ \E a \in Actions : complete_employee_task(a)

CooSpec == CooInit /\ [][CooNext]_cooVars

-----------------------------------------------------------------------------
(* Properties                                                              *)

\* The rows an action has left in the owner's log and in the task list.
Traces(a) == letters[a] + chores[a].open + chores[a].done

\* Ordered by seq (get_conversation), the conversation is question and answer by
\* turns without a gap.  Messages sent at the same time share their numbers, but
\* never put an answer where a question belongs.
TurnsAlternate ==
    /\ \A i \in DOMAIN messages : messages[i].role = "user" <=> messages[i].seq % 2 = 1
    /\ Used = 1..Cardinality(Used)

\* What was carried out has its trace: status and result of an action agree, and an
\* e-mail or task has its row in the owner's log exactly when the action has a
\* result, also when approvals and rejections of one action overwrote each other.
OutcomeOnRecord ==
    \A a \in Actions :
        LET row == action[a]
        IN /\ row.status \in {"absent", "pending"} => row.result = "none"
           /\ row.status = "failed" <=> row.result = "failed" /\ row.status # "rejected"
           /\ row.status = "executed" => row.result # "none"
           /\ Traces(a) > 0 <=> row.result # "none" /\ row.kind # "business_change"

\* Two approvals of one action may both be carried out, but only those that were
\* open together: an action is carried out no more often than there are requests.
ExecutionsBounded ==
    \A a \in Actions : Traces(a) <= Cardinality(Requests)

\* An action that was decided and that no open request is about is settled: it is
\* neither decided again nor mailed again.
Settled(a) ==
    /\ action[a].status \notin {"absent", "pending"}
    /\ \A v \in Requests : decide[v].on # a

DecisionSettles ==
    [][\A a \in Actions : Settled(a) =>
        /\ Settled(a)'
        /\ action'[a] = action[a] /\ outbox'[a] = outbox[a] /\ Traces(a)' = Traces(a)
      ]_cooVars

\* The tray as a docket: what was ruled on an action is its status and result, and what
\* was done about it are the e-mails that left and the rows it has left behind.
CooDocket == INSTANCE Docket WITH
    Matters <- Actions, Deciders <- Requests,
    Rulings <- ActionStatuses \X Results,
    raised <- {a \in Actions : action[a].status # "absent"},
    ruling <- [a \in Actions |-> IF action[a].status \in {"absent", "pending"} THEN {}
                                 ELSE {<<action[a].status, action[a].result>>}],
    hearing <- [v \in Requests |-> IF decide[v] = NoRequest THEN {} ELSE {decide[v].on}],
    acted <- {v \in Requests : decide[v].mail # "none"},
    effects <- [a \in Actions |-> outbox[a] + Traces(a)]

\* Every step of the tray is a step of the docket or nothing to it: only what is pending
\* is taken up, an approval mails once and carries out once, and what is decided and open
\* before nobody is neither decided again, nor mailed, nor carried out.
CooRefinesDocket == CooDocket!DocketSpec

\* The requests that are about an action.
Watchers(a) == {v \in Requests : decide[v].on = a}

\* The inductive invariant: what an open request is about exists and stays of its
\* kind, only an approval of an e-mail has an answer to it, and each request open on
\* an action can add one execution at most to those it has seen.
CooInv ==
    /\ action \in [Actions -> [kind: Kinds, status: ActionStatuses, result: Results]]
    /\ decide \in [Requests -> [verb: {"none", "approve", "reject"}, on: Nat,
                                mail: {"none"} \union MailOutcomes]]
    /\ letters \in [Actions -> Nat]
    /\ chores \in [Actions -> [open: Nat, done: Nat]]
    /\ \A v \in Requests :
        /\ decide[v].verb = "none" => decide[v] = NoRequest
        /\ decide[v].verb # "none" => /\ decide[v].on \in Actions
                                      /\ action[decide[v].on].status # "absent"
        /\ decide[v].mail # "none" => /\ decide[v].verb = "approve"
                                      /\ action[decide[v].on].kind = "employee_email"
    /\ OutcomeOnRecord
    /\ \A a \in Actions : Traces(a) + Cardinality(Watchers(a)) <= Cardinality(Requests)

\* The conversation's part: well-formed rows, and turns that alternate.
ConversationInv == CooTypeOK /\ TurnsAlternate

=============================================================================
