---------------------------- MODULE StagingReview ----------------------------
(***************************************************************************)
(* Operators decide on the records that ingestion stages (routers/         *)
(* staging.py), while workers go on staging.  A request reads its rows,    *)
(* checks what it read and writes in its commit; approvals look at the     *)
(* status they read, rejections and matches do not.  The ORM writes only   *)
(* the columns a request has changed from what it read.                    *)
(***************************************************************************)
EXTENDS Ingestion

CONSTANT Reviewers   \* concurrent requests to the staging endpoints

VARIABLES
    review,   \* what each open request is for and what it read
    matched,  \* the staged rows that were matched to an entity
    trail     \* the audit log: the kinds of events each row has

reviewVars == <<review, matched, trail>>

Verbs == {"approve", "reject", "match", "bulk"}
Events == {"approved", "rejected", "matched"}
Undecided == {"pending", "needs_review"}

NoReview == [verb |-> "none", seen |-> [s \in {} |-> "absent"]]

Readings == UNION {[rows -> StagedStatuses] : rows \in SUBSET StagedRows}

ReviewTypeOK ==
    /\ IngestionTypeOK
    /\ review \in [Reviewers -> [verb: Verbs \union {"none"}, seen: Readings]]
    /\ matched \subseteq StagedRows
    /\ trail \in [StagedRows -> SUBSET Events]

ReviewInit ==
    /\ IngestionInit
    /\ review = [v \in Reviewers |-> NoReview]
    /\ matched = {}
    /\ trail = [s \in StagedRows |-> {}]

-----------------------------------------------------------------------------
\* Only the single approval turns down a request for a record that is decided.
review_read(v, verb, rows) ==
    /\ review[v].verb = "none"
    /\ verb # "bulk" => Cardinality(rows) = 1
    /\ \A s \in rows : staged[s].status # "absent"
    /\ verb = "approve" => \A s \in rows : staged[s].status \in Undecided
    /\ review' = [review EXCEPT ![v] =
                    [verb |-> verb, seen |-> [s \in rows |-> staged[s].status]]]
    /\ UNCHANGED <<ingestVars, matched, trail>>

\* The rows a request decides on: a bulk approval leaves out those it read decided.
Decides(v) ==
    {s \in DOMAIN review[v].seen :
        review[v].verb = "bulk" => review[v].seen[s] \in Undecided}

\* Variant of Decision for mutation: a match has a status of its own.
DecisionMatched(verb) ==
    CASE verb = "reject" -> "rejected" [] verb = "match" -> "matched" [] OTHER -> "approved"

Decision(verb) == IF verb = "reject" THEN "rejected" ELSE "approved"

\* Variant of StatusAfter for mutation: the whole row is written back.
StatusAfterRow(v, s) ==
    IF s \in Decides(v) THEN Decision(review[v].verb) ELSE staged[s].status

\* Variant of StatusAfter for mutation: a match leaves the status alone.
StatusAfterOpenMatch(v, s) ==
    IF s \in Decides(v) /\ review[v].verb # "match"
       /\ review[v].seen[s] # Decision(review[v].verb)
    THEN Decision(review[v].verb)
    ELSE staged[s].status

\* A status that was read as what is now decided is not a change to write.
StatusAfter(v, s) ==
    IF s \in Decides(v) /\ review[v].seen[s] # Decision(review[v].verb)
    THEN Decision(review[v].verb)
    ELSE staged[s].status

\* Variant of EventsOf for mutation: rejections are not audited.
EventsOfApprovals(verb) ==
    CASE verb = "approve" -> {"approved"} [] verb = "match" -> {"matched"} [] OTHER -> {}

\* A bulk approval writes no audit entry.
EventsOf(verb) ==
    CASE verb = "approve" -> {"approved"}
      [] verb = "reject" -> {"rejected"}
      [] verb = "match" -> {"matched"}
      [] OTHER -> {}

review_commit(v) ==
    LET verb == review[v].verb IN
    /\ verb # "none"
    /\ staged' = [s \in StagedRows |-> [staged[s] EXCEPT !.status = StatusAfter(v, s)]]
    /\ trail' = [s \in StagedRows |->
                    IF s \in Decides(v) THEN trail[s] \union EventsOf(verb) ELSE trail[s]]
    /\ matched' = IF verb = "match" THEN matched \union Decides(v) ELSE matched
    /\ review' = [review EXCEPT ![v] = NoReview]
    /\ UNCHANGED <<raw, upload, published, inbox, tries, job, faults, redelivered, lost>>

review_abort(v) ==
    /\ review[v].verb # "none"
    /\ review' = [review EXCEPT ![v] = NoReview]
    /\ UNCHANGED <<ingestVars, matched, trail>>

-----------------------------------------------------------------------------
ReviewNext ==
    \/ IngestionNext /\ UNCHANGED reviewVars
    \/ \E v \in Reviewers :
        \/ \E verb \in Verbs, rows \in SUBSET StagedRows \ {{}} : review_read(v, verb, rows)
        \/ review_commit(v)
        \/ review_abort(v)

ReviewSpec == ReviewInit /\ [][ReviewNext]_<<ingestVars, reviewVars>>

-----------------------------------------------------------------------------
(* Properties                                                              *)

\* A rejection is taken back only by someone who knew no better or who meant it:
\* by an approval that had read the record undecided, or by a match that had read
\* it as anything but approved.
RejectionUndoneKnowingly ==
    [][\A s \in StagedRows :
        (staged[s].status = "rejected" /\ staged'[s].status # "rejected") =>
            \E v \in Reviewers :
                /\ s \in DOMAIN review[v].seen
                /\ \/ review[v].seen[s] \in Undecided
                   \/ review[v].verb = "match" /\ review[v].seen[s] # "approved"
      ]_<<staged, review>>

\* Every rejection that stands is in the audit log, whatever raced with it.
RejectedLeavesTrail ==
    \A s \in StagedRows : staged[s].status = "rejected" => "rejected" \in trail[s]

\* A record matched to an entity has been decided: it never waits for a review
\* again, whether or not the match was the request that decided it.
MatchedIsDecided ==
    \A s \in matched : staged[s].status \in {"approved", "rejected"}

=============================================================================
