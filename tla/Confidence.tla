----------------------------- MODULE Confidence -----------------------------
(***************************************************************************)
(* The confidence score of an extracted record (services/staging/          *)
(* confidence.py), the extraction that feeds it and the routing by         *)
(* threshold that follows (workers/ingestion_tasks.py).  A score is        *)
(* counted in 1/12000: the weights are hundredths, no record type has more *)
(* than four required or bonus fields, so every score the code rounds to   *)
(* four places is a whole number here and both thresholds are too.         *)
(***************************************************************************)
EXTENDS Integers, FiniteSets

\* What a field or a payload key may hold: no such key, None or "", an empty
\* list, or something.
Values == {"nokey", "missing", "empty", "value"}

SOURCE_RELIABILITY ==
    [quickbooks |-> 95, bank_csv |-> 85, payroll |-> 85, swept |-> 80,
     email |-> 65, manual |-> 90]

\* Sources without a weight of their own, such as the connectors' names, get 75.
SourceWeight(source) ==
    IF source \in DOMAIN SOURCE_RELIABILITY THEN SOURCE_RELIABILITY[source] ELSE 75

REQUIRED_FIELDS ==
    [customer |-> {"name", "customer_type"},
     contract |-> {"customer_id", "start_date", "monthly_value", "contract_type"},
     site |-> {"customer_id", "site_name"},
     invoice |-> {"customer_id", "invoice_date", "amount"},
     payment |-> {"customer_id", "payment_date", "amount"},
     labor_shift |-> {"employee_id", "shift_date", "hours_worked", "worker_type"},
     subcontractor |-> {"name"}]

BONUS_FIELDS ==
    [invoice |-> {"invoice_number", "due_date", "contract_id"},
     payment |-> {"reference_number", "invoice_id", "payment_method"},
     labor_shift |-> {"clock_in", "clock_out", "hourly_rate", "contract_id"},
     customer |-> {"qb_customer_id", "industry"},
     contract |-> {"contract_number", "end_date", "service_frequency"},
     site |-> {"address", "square_footage"},
     subcontractor |-> {"contact_info", "w9_on_file", "payment_terms"}]

RecordTypes == DOMAIN REQUIRED_FIELDS

ValueOf(record, key) == IF key \in DOMAIN record THEN record[key] ELSE "nokey"

\* An empty list is no required field, but is a bonus one.
RequiredPresent(rt, extracted) ==
    {f \in REQUIRED_FIELDS[rt] : ValueOf(extracted, f) = "value"}

BonusPresent(rt, extracted) ==
    {f \in BONUS_FIELDS[rt] : ValueOf(extracted, f) \in {"empty", "value"}}

Full == 12000

\* A type without fields of a kind scores full marks for that kind.
Completeness(rt, extracted) ==
    IF rt \in RecordTypes
    THEN (Full * Cardinality(RequiredPresent(rt, extracted)))
            \div Cardinality(REQUIRED_FIELDS[rt])
    ELSE Full

BonusScore(rt, extracted) ==
    IF rt \in RecordTypes
    THEN (Full * Cardinality(BonusPresent(rt, extracted)))
            \div Cardinality(BONUS_FIELDS[rt])
    ELSE Full

\* Variant of TopMatch for mutation: no suggestion counts as a perfect one.
TopMatchCertain(scores) ==
    IF scores = {} THEN 100 ELSE CHOOSE x \in scores : \A y \in scores : y <= x

\* The best suggestion's score in hundredths, 50 when there is none.
TopMatch(scores) ==
    IF scores = {} THEN 50 ELSE CHOOSE x \in scores : \A y \in scores : y <= x

\* Weights 30, 40, 10 and 20 per cent, then the clamp to 0..1.
score_extraction(rt, extracted, scores, source) ==
    LET overall == 36 * SourceWeight(source)
                   + (4 * Completeness(rt, extracted)) \div 10
                   + BonusScore(rt, extracted) \div 10
                   + 24 * TopMatch(scores)
    IN  IF overall < 0 THEN 0 ELSE IF overall > Full THEN Full ELSE overall

-----------------------------------------------------------------------------
(* What the worker extracts from a raw payload.                            *)

HasKey(payload, key) == ValueOf(payload, key) # "nokey"

\* dict.get: a key that is not there reads as None.
Read(payload, key) == IF HasKey(payload, key) THEN payload[key] ELSE "missing"

Falsy == {"missing", "empty"}

\* x or y.
Either(x, y) == IF x \in Falsy THEN y ELSE x

RecordType(source, payload) ==
    CASE source = "quickbooks" ->
            IF HasKey(payload, "TxnDate") /\ HasKey(payload, "Line")
            THEN "invoice" ELSE "customer"
      [] source = "bank_csv" -> "payment"
      [] source = "payroll" -> "labor_shift"
      [] OTHER -> "customer"

Extracted(source, payload) ==
    CASE source = "quickbooks" /\ RecordType(source, payload) = "invoice" ->
            [invoice_number |-> Read(payload, "DocNumber"),
             invoice_date |-> Read(payload, "TxnDate"),
             due_date |-> Read(payload, "DueDate"),
             amount |-> Read(payload, "TotalAmt"),
             customer_id |-> "missing"]
      [] source = "quickbooks" /\ RecordType(source, payload) = "customer" ->
            [name |-> Either(Read(payload, "DisplayName"), Read(payload, "CompanyName")),
             qb_customer_id |-> Read(payload, "Id"),
             customer_type |-> "value"]
      [] source = "bank_csv" ->
            [amount |-> Read(payload, "amount"),
             payment_date |-> Read(payload, "date"),
             reference_number |-> Either(Read(payload, "reference"), Read(payload, "memo")),
             payment_method |-> "value"]
      [] source = "payroll" ->
            [employee_id |-> Read(payload, "employee_id"),
             shift_date |-> Read(payload, "date"),
             hours_worked |-> Read(payload, "hours"),
             hourly_rate |-> Read(payload, "rate"),
             worker_type |-> "value"]
      [] OTHER -> payload

AGENT_CONFIDENCE_AUTO_APPROVE == 11040  \* 0.92
AGENT_CONFIDENCE_NEEDS_REVIEW == 8400   \* 0.70

Route(overall) ==
    IF overall >= AGENT_CONFIDENCE_AUTO_APPROVE THEN "auto_approved"
    ELSE IF overall >= AGENT_CONFIDENCE_NEEDS_REVIEW THEN "needs_review"
    ELSE "pending"

\* The worker scores what it extracted and passes no match suggestions.
ScoreOf(source, payload) ==
    score_extraction(RecordType(source, payload), Extracted(source, payload), {}, source)

-----------------------------------------------------------------------------
(* What a score is good for                                                *)

\* A record is proposed for review only when at most one of the fields its type
\* requires is missing, and none is sure enough to be approved unseen, since the
\* extraction passes no match suggestions; filling in one more key of the payload
\* never lowers the score as long as it does not change what the record is taken for.
ScoreSound(source, payload, score) ==
    LET rt == RecordType(source, payload)
        missing == REQUIRED_FIELDS[rt] \ RequiredPresent(rt, Extracted(source, payload))
    IN  /\ Route(score) # "auto_approved"
        /\ Route(score) # "pending" => Cardinality(missing) <= 1
        /\ \A key \in DOMAIN payload :
              LET fuller == [payload EXCEPT ![key] = "value"] IN
              RecordType(source, fuller) = rt => ScoreOf(source, fuller) >= score

=============================================================================
