------------------------------ MODULE Interview ------------------------------
(***************************************************************************)
(* One AI-led interview (routers/interview.py, services/interview).  Each  *)
(* request is one transaction around a call to the language model: what it *)
(* read before the call is what it writes after it, and neither an answer  *)
(* nor a completion locks the session.                                     *)
(***************************************************************************)
EXTENDS Naturals, FiniteSets, FiniteSetsExt

CONSTANTS
    Callers,      \* requests on the interview that are open at a time
    Script,       \* questions of the scripted interview of its role (8 or 7)
    MaxAnswers,   \* bound: answers that are ever stored
    MaxCompletes  \* bound: completions that ever commit

ASSUME InterviewAssumption ==
    Script \in Nat \ {0} /\ MaxAnswers \in Nat /\ MaxCompletes \in Nat

VARIABLES
    interview,  \* interview_sessions: "absent", "active" or "completed"
    dialogue,   \* interview_messages: rows numbered as they are stored
    insights,   \* interview_insights, one set per completion: how many messages it saw
    call        \* the open requests

interviewVars == <<interview, dialogue, insights, call>>

MsgRows == 1..(2 * MaxAnswers + 1)
NoCall == [verb |-> "none", status |-> "absent", seq |-> 0, seen |-> 0, asked |-> 0]

InterviewTypeOK ==
    /\ interview \in {"absent", "active", "completed"}
    /\ \A m \in dialogue : /\ m.row \in MsgRows /\ m.seq \in MsgRows
                           /\ m.sender \in {"assistant", "interviewee"}
                           /\ m.question \in 0..Script
    /\ \A i \in insights : i.batch \in 1..MaxCompletes /\ i.seen \in MsgRows
    /\ \A c \in Callers :
        call[c].verb \in {"none", "create", "answer", "complete"}

InterviewInit ==
    /\ interview = "absent"
    /\ dialogue = {}
    /\ insights = {}
    /\ call = [c \in Callers |-> NoCall]

-----------------------------------------------------------------------------
Seqs == {m.seq : m \in dialogue}
next_seq == (IF dialogue = {} THEN 0 ELSE Max(Seqs)) + 1
AskedSoFar == Cardinality({m \in dialogue : m.sender = "assistant"})

\* Without a language model the script is asked from top to bottom, by how many questions
\* there are in the history, and number Script stands for the closing remark; with one,
\* the texts are the model's and the same count tells it to close.
Question(asked) == IF asked < Script THEN asked ELSE Script

create_session(c) ==
    /\ interview = "absent"
    /\ \A b \in Callers : call[b].verb # "create"   \* every request creates one of its own
    /\ call[c] = NoCall
    /\ call' = [call EXCEPT ![c].verb = "create"]
    /\ UNCHANGED <<interview, dialogue, insights>>

\* An answer is turned down once the interview is completed; its number and the history
\* for the model are read here, by two queries that are taken as one.
submit_answer(c) ==
    /\ call[c] = NoCall
    /\ interview = "active"
    /\ call' = [call EXCEPT ![c] = [verb |-> "answer", status |-> interview, seq |-> next_seq,
                                    seen |-> Cardinality(dialogue), asked |-> AskedSoFar]]
    /\ UNCHANGED <<interview, dialogue, insights>>

\* A completion looks at no status: it may be repeated.
complete_session(c) ==
    /\ call[c] = NoCall
    /\ interview # "absent"
    /\ call' = [call EXCEPT ![c] = [verb |-> "complete", status |-> interview, seq |-> 0,
                                    seen |-> Cardinality(dialogue), asked |-> AskedSoFar]]
    /\ UNCHANGED <<interview, dialogue, insights>>

Message(row, seq, sender, question) ==
    [row |-> row, seq |-> seq, sender |-> sender, question |-> question]

create_commit(c) ==
    /\ call[c].verb = "create"
    /\ interview' = "active"
    /\ dialogue' = {Message(1, 1, "assistant", 0)}
    /\ call' = [call EXCEPT ![c] = NoCall]
    /\ UNCHANGED insights

\* Variant of answer_commit for mutation: the question is numbered when it is asked.
answer_commit_renumbered(c) ==
    LET n == Cardinality(dialogue) IN
    /\ call[c].verb = "answer"
    /\ n + 2 \in MsgRows
    /\ dialogue' = dialogue \union
            {Message(n + 1, call[c].seq, "interviewee", 0),
             Message(n + 2, next_seq + 1, "assistant", Question(call[c].asked))}
    /\ call' = [call EXCEPT ![c] = NoCall]
    /\ UNCHANGED <<interview, insights>>

\* The answer and the next question, whatever has become of the interview meanwhile.
answer_commit(c) ==
    LET n == Cardinality(dialogue) IN
    /\ call[c].verb = "answer"
    /\ n + 2 \in MsgRows
    /\ dialogue' = dialogue \union
            {Message(n + 1, call[c].seq, "interviewee", 0),
             Message(n + 2, call[c].seq + 1, "assistant", Question(call[c].asked))}
    /\ call' = [call EXCEPT ![c] = NoCall]
    /\ UNCHANGED <<interview, insights>>

Batches == {i.batch : i \in insights}

\* extract_insights finds something in every history that is not empty.
complete_commit(c) ==
    LET batch == Cardinality(Batches) + 1 IN
    /\ call[c].verb = "complete"
    /\ batch <= MaxCompletes
    /\ interview' = IF call[c].status = "active" THEN "completed" ELSE interview
    /\ insights' = insights \union {[batch |-> batch, seen |-> call[c].seen]}
    /\ call' = [call EXCEPT ![c] = NoCall]
    /\ UNCHANGED dialogue

\* The language model fails (502), or the request is dropped: everything is rolled back.
call_abort(c) ==
    /\ call[c] # NoCall
    /\ call' = [call EXCEPT ![c] = NoCall]
    /\ UNCHANGED <<interview, dialogue, insights>>

-----------------------------------------------------------------------------
InterviewNext ==
    \E c \in Callers :
        \/ create_session(c)
        \/ submit_answer(c)
        \/ complete_session(c)
        \/ create_commit(c)
        \/ answer_commit(c)
        \/ complete_commit(c)
        \/ call_abort(c)

InterviewSpec == InterviewInit /\ [][InterviewNext]_interviewVars

-----------------------------------------------------------------------------
(* Properties                                                              *)

OfSeq(s, sender) == Cardinality({m \in dialogue : m.seq = s /\ m.sender = sender})

\* Sorted by seq the rows read as a conversation even when answers raced and share their
\* numbers: no number is left out, questions have the odd ones and answers the even
\* ones, and each answer is followed by exactly one question of its own.  Races may
\* repeat a question and skip one, but no message asks an earlier question than its place
\* calls for, so that the interview closes in time.
ConversationReadable ==
    /\ Seqs = 1..Cardinality(Seqs)
    /\ \A m \in dialogue : m.sender = "interviewee" <=> m.seq % 2 = 0
    /\ \A s \in Seqs : s % 2 = 0 => OfSeq(s, "interviewee") = OfSeq(s + 1, "assistant")
    /\ \A m \in dialogue :
        m.sender = "assistant" => m.question >= Question((m.seq - 1) \div 2)

\* A completed interview has its insights, and whatever it has was drawn from a
\* transcript that existed: at least the opening question, and no message that came later
\* than the completion.
CompletedHasInsights ==
    /\ interview = "completed" => insights # {}
    /\ interview = "active" => insights = {}
    /\ \A i \in insights : i.seen \in 1..Cardinality(dialogue)

\* The invariant of an interview: well-formed rows, a readable conversation, and insights
\* that fit it.
InterviewInv == InterviewTypeOK /\ ConversationReadable /\ CompletedHasInsights

=============================================================================
