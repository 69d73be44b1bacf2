------------------------------- MODULE Matching -------------------------------
(***************************************************************************)
(* Match suggestions for staged records (services/staging/fuzzy_match.py): *)
(* an extracted customer name against the known customers, a payment       *)
(* against the open invoices.  Names are compared by rapidfuzz, whose      *)
(* score (0 to 100) is an input here; money is counted in cents.           *)
(***************************************************************************)
EXTENDS Lists

CUSTOMER_MATCH_THRESHOLD == 60

\* What rapidfuzz finds among the names and aliases, each [entity_id, score].
ProcessExtract(candidates) ==
    FirstOf(ByScore(Where(candidates, LAMBDA c : c.score >= CUSTOMER_MATCH_THRESHOLD)), 20)

\* The score that is kept has been divided by 100, the new one has not: of scores from
\* CUSTOMER_MATCH_THRESHOLD up to 100 the later one always replaces the earlier.
Supersedes(new, kept) == kept.score < 100 * new.score

\* One entry per customer, in the place of the first one seen.
KeepEntry(seen, match) ==
    LET at == {i \in DOMAIN seen : seen[i].entity_id = match.entity_id}
    IN  IF at = {} THEN Append(seen, match)
        ELSE [i \in DOMAIN seen |->
                 IF i \in at /\ Supersedes(match, seen[i]) THEN match ELSE seen[i]]

compute_customer_match_score(candidates) ==
    FirstOf(ByScore(FoldLeft(KeepEntry, <<>>, ProcessExtract(candidates))), 3)

-----------------------------------------------------------------------------
Distance(a, b) == IF a < b THEN b - a ELSE a - b

\* In hundredths: exact to a cent, within one per cent of the invoice, or not.
AmountScore(paid, invoiced) ==
    CASE Distance(paid, invoiced) <= 1 -> 100
      [] Distance(paid, invoiced) > 1 /\ invoiced > 0
         /\ 100 * Distance(paid, invoiced) <= invoiced -> 80
      [] OTHER -> 0

DateScore(days) ==
    IF days <= 5 THEN 100 ELSE IF days <= 15 THEN 70 ELSE IF days <= 30 THEN 40 ELSE 0

\* The references match when one contains the other; a date of {} is missing.
PaymentScore(payment, inv) ==
    LET amount == AmountScore(payment.amount, inv.amount)
        date == IF payment.date = {} \/ inv.date = {} THEN 0
                ELSE DateScore(Distance(CHOOSE d \in payment.date : TRUE, CHOOSE d \in inv.date : TRUE))
        ref == IF inv.refers THEN 90 ELSE 0
    IN  [entity_id |-> inv.id, score |-> 50 * amount + 30 * date + 20 * ref,
         breakdown |-> [amount_score |-> amount, date_score |-> date, ref_score |-> ref]]

compute_payment_match_score(payment, open_invoices) ==
    LET scored == [i \in DOMAIN open_invoices |-> PaymentScore(payment, open_invoices[i])]
    IN  FirstOf(ByScore(Where(scored, LAMBDA r : r.score > 0)), 5)

=============================================================================
