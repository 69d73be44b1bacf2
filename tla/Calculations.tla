----------------------------- MODULE Calculations -----------------------------
(***************************************************************************)
(* The calculations as steps: an input is chosen at the start, one step    *)
(* computes the result, and the properties say what results are good for.  *)
(* Inputs maps every topic to the inputs that are looked at.               *)
(***************************************************************************)
EXTENDS Confidence, Receivables, Profitability, Matching, TextPipeline

CONSTANT Inputs

VARIABLES topic, given, done, result

calcVars == <<topic, given, done, result>>

Topics == {"confidence", "dso", "forecast", "margin", "bid", "value", "growth", "advice", "kpi",
           "customers", "payments", "chunks", "transcript", "retrieval"}

-----------------------------------------------------------------------------
(* What an input is made of                                                *)

Invoices == [amount: Int, amount_paid: Int, age: Int, days_outstanding: Int, due: SUBSET Int,
             status: {"draft", "open", "partial", "overdue", "disputed", "paid", "void"}]

Shifts == [worker_type: {"W2", "SUB"}, labor_cost: Int, hours: Int, rate: Int]

Contracts == [status: {"active", "ended"}, customer: STRING, revenue: Int, shifts: Seq(Shifts)]

Burdens == [company: {"own", "global"}, is_active: BOOLEAN, effective: Int, total_burden_pct: Int]

Periods == [label: STRING, revenue: Int, cogs: Int, operating_expenses: Int, depreciation: Int,
            amortization: Int, months: Nat,
            addbacks: Seq([amount: Int, applies_to: {"ebitda", "sde", "other"}])]

Pains == [title: STRING, severity: {"high", "medium", "low"}, detail: Int]

InvoicesOK ==
    /\ \A g \in Inputs.dso : g.invoices \in Seq(Invoices)
    /\ Inputs.forecast \subseteq
          [invoices: Seq(Invoices), labor: Nat, cash: Int, mode: {"baseline", "optimistic", "stress"},
           weekday: 0..6, queued: BOOLEAN, reduction: Int, increase: Int]

EarningsOK ==
    /\ \A g \in Inputs.margin :
          g.contracts \in Seq(Contracts) /\ g.assumptions \in SUBSET Burdens
    /\ Inputs.bid \subseteq [value: Int, hours: Nat, rate: Nat, subcontractor_pct: Nat, overhead_pct: Nat]
    /\ \A g \in Inputs.value :
          /\ g.periods \in Seq(Periods) /\ g.periods # <<>>
          /\ g.low \in Nat /\ g.mid \in Nat /\ g.high \in Nat /\ g.low <= g.high

GoalsOK ==
    /\ \A g \in Inputs.growth :
          /\ g.current \in Int /\ g.target \in Int /\ g.months \in Nat \ {0} /\ g.churn \in Int
          /\ g.channels \in Seq([share: Int, cac: Int, conversion: Nat])
    /\ \A g \in Inputs.kpi : g.snapshots \in Seq(Int) /\ g.target \in Int
    /\ \A g \in Inputs.advice :
          /\ g.pains \in Seq(Pains)
          /\ g.primary \in Seq([revenue: Int, operating_income: Int, operating_expenses: Int])
          /\ \A t \in DOMAIN g.decided : g.decided[t] \in {"proposed", "accepted"}

MatchesOK ==
    /\ \A g \in Inputs.customers : g.candidates \in Seq([entity_id: STRING, score: 0..100])
    /\ \A g \in Inputs.payments :
          /\ g.payment.amount \in Int /\ g.payment.date \in SUBSET Int
          /\ g.invoices \in Seq([id: Int, amount: Int, date: SUBSET Int, refers: BOOLEAN])

Characters == Nat \ {Space}

Extensions == {"", "vtt", "srt", "txt"}

TextsOK ==
    /\ \A g \in Inputs.chunks :
          g.document \in Seq(Seq(Seq(Characters))) /\ g.max \in Nat \ {0} /\ g.overlap \in Nat
    /\ \A g \in Inputs.transcript :
          /\ g.extension \in Extensions
          /\ g.lines # <<>>
          /\ g.lines \in Seq([kind: {"header", "blank", "timecode", "note", "index", "voice", "tag", "named", "text"},
                              who: STRING, word: Nat])
    /\ Inputs.retrieval \subseteq
          [chunks: Seq([id: Int, allowed: BOOLEAN, active: BOOLEAN, vector: SUBSET Int,
                        keywords: Int, size: Nat]),
           embedded: BOOLEAN, top_k: Nat, max: Nat]

ASSUME InputsAssumption ==
    /\ DOMAIN Inputs = Topics
    /\ \A g \in Inputs.confidence : \A k \in DOMAIN g.payload : g.payload[k] \in Values
    /\ InvoicesOK /\ EarningsOK /\ GoalsOK /\ MatchesOK /\ TextsOK

-----------------------------------------------------------------------------
(* The steps                                                               *)

Init ==
    /\ done = FALSE
    /\ result = <<>>
    /\ topic \in Topics
    /\ given \in Inputs[topic]

\* The step of a topic: its result is computed from what was given.
Compute(value) ==
    /\ ~ done
    /\ done' = TRUE
    /\ result' = value
    /\ UNCHANGED <<topic, given>>

ScoreRecord == topic = "confidence" /\ Compute(ScoreOf(given.source, given.payload))

SnapshotDso == topic = "dso" /\ Compute(compute_dso(given.invoices))

ForecastCash ==
    /\ topic = "forecast"
    /\ LET forecast == trigger_forecast(given.queued, given.invoices, given.labor, given.cash,
                                        given.mode, given.weekday)
       IN  Compute([forecast |-> forecast,
                    stressed |-> run_stress_test(forecast, given.reduction, given.increase)])

RunMargins ==
    /\ topic = "margin"
    /\ Compute(run_company_profitability(given.contracts, {"c1"}, given.assumptions, "own", 2))

ScoreBid ==
    /\ topic = "bid"
    /\ LET first == score_bid(given) IN
       Compute([first |-> first, again |-> score_bid([given EXCEPT !.value = first.recommended_price]),
                dearer |-> score_bid([given EXCEPT !.value = @ + 20000])])

ValueCompany ==
    /\ topic = "value"
    /\ LET qoe == analyze(given.periods, "") IN
       Compute([qoe |-> qoe,
                value |-> value_by_sde(qoe.primary[1].sde, given.low, given.mid, given.high)])

PlanGrowth ==
    /\ topic = "growth"
    /\ LET plan == build_plan(given.current, given.target, given.months, given.churn, given.channels)
       IN  Compute([plan |-> plan, variance |-> plan_vs_actual(plan, given.actuals)])

\* The KPIs and the recommendations there are when advice is built.
KpisOf(g) == [k \in (IF g.churn = {} THEN {} ELSE {"churn_rate", "mrr"}) |->
                 IF k = "mrr" THEN 5000 ELSE CHOOSE c \in g.churn : TRUE]

RecommendationsOf(g) ==
    [t \in DOMAIN g.decided |->
        [status |-> g.decided[t], idea |-> [title |-> t, impact |-> {}, detail |-> 0]]]

\* The same rows in another order.
Reordered(s) == {[i \in DOMAIN s |-> s[p[i]]] : p \in Bijection(DOMAIN s, DOMAIN s)}

\* Advice is built twice.  The query for the pain points has no ORDER BY, so the second
\* time they may come in another order.
Advise ==
    /\ topic = "advice"
    /\ \E again \in Reordered(given.pains) :
          LET IdeasFrom(pains) == _candidates(given.primary, KpisOf(given), pains)
              once == build_recommendations(RecommendationsOf(given), IdeasFrom(given.pains))
          IN  Compute([once |-> once, twice |-> build_recommendations(once, IdeasFrom(again))])

SummarizeKpi == topic = "kpi" /\ Compute(kpi_summary(given.snapshots, given.target))

MatchCustomer ==
    topic = "customers" /\ Compute(compute_customer_match_score(given.candidates))

MatchPayment ==
    topic = "payments" /\ Compute(compute_payment_match_score(given.payment, given.invoices))

CutText ==
    /\ topic = "chunks"
    /\ Compute(chunk_text(given.document, given.max, given.overlap))

\* What each line says is the line's own number.
Numbered(lines) == [i \in DOMAIN lines |-> [lines[i] EXCEPT !.word = i]]

ParseTranscript ==
    topic = "transcript" /\ Compute(parse_transcript(given.extension, Numbered(given.lines)))

Retrieve ==
    /\ topic = "retrieval"
    /\ LET found == retrieve(given.chunks, given.embedded, given.top_k) IN
       Compute([found |-> found, shown |-> format_chunks_for_prompt(found, given.max)])

Next ==
    \/ ScoreRecord \/ SnapshotDso \/ ForecastCash \/ RunMargins \/ ScoreBid \/ ValueCompany
    \/ PlanGrowth \/ Advise \/ SummarizeKpi \/ MatchCustomer \/ MatchPayment \/ CutText
    \/ ParseTranscript \/ Retrieve

Spec == Init /\ [][Next]_calcVars

Answered(about) == topic = about /\ done

SumUpTo(value(_), n) == SumOver([i \in 1..n |-> value(i)])

-----------------------------------------------------------------------------
\* The score of every record the extraction makes is sound: no approval unseen, no
\* review with two required fields missing, no loss by filling in more
\* (staging/confidence.py).
ExtractionScored ==
    Answered("confidence") => ScoreSound(given.source, given.payload, result)

\* What a forecast says about its weeks is what its weeks say: they chain from
\* the opening to the ending balance, none lies below the low it names, and
\* thirteen weeks of payroll are paid (cash/forecast_builder.py); and stress
\* never leaves a week better off (routers/cash.py).
ForecastAddsUp ==
    Answered("forecast") =>
        LET f == result.forecast
            w == f.weeks
        IN  /\ f.ending_cash - f.beginning_cash = SumUpTo(LAMBDA n : w[n].net_cash_flow, 13)
            /\ SumUpTo(LAMBDA n : w[n].payroll_outflow, 13) = 13 * to_money(given.labor, 4)
            /\ \A n \in 1..13 : w[n].ending_cash >= f.min_cash_amount
            /\ f.beginning_cash >= f.min_cash_amount
            /\ f.min_cash_amount \in {f.beginning_cash, w[f.min_cash_week].ending_cash}
            /\ given.reduction >= 0 /\ given.increase >= 0 =>
                  \A n \in 1..13 : result.stressed[n].net_cash_flow <= 100 * w[n].net_cash_flow

\* The ages each bucket is for: docs/financial_truth.md.
AgesOf(b) == CASE b = "0_30" -> {n \in Int : n <= 30} [] b = "31_60" -> 31..60
               [] b = "61_90" -> 61..90 [] b = "91_plus" -> {n \in Int : n > 90}

\* The buckets hold every cent that is owed and nothing else, each what is owed
\* on the invoices of its ages (financial/dso_engine.py).
AgingAddsUp ==
    Answered("dso") =>
        LET Owed(b) == SumUpTo(LAMBDA i : LET inv == given.invoices[i] IN
                                  IF inv.status \in {"open", "partial", "overdue", "disputed"}
                                     /\ inv.age \in AgesOf(b) /\ inv.amount > inv.amount_paid
                                  THEN inv.amount - inv.amount_paid ELSE 0, Len(given.invoices))
        IN  /\ \A b \in Buckets : result.aging[b] = Owed(b)
            /\ result.total_ar = result.aging["0_30"] + result.aging["31_60"]
                                 + result.aging["61_90"] + result.aging["91_plus"]

\* Receivables: the forecast and the ageing both add up.
ReceivablesAddUp == ForecastAddsUp /\ AgingAddsUp

\* A company earns what its contracts contribute, down to the cent and whatever
\* is rounded on the way (financial/margin_engine.py).
MarginsAddUp ==
    Answered("margin") =>
        result.gross_profit = SumUpTo(LAMBDA i : result.lines[i].contribution_margin,
                                      Len(result.lines))

\* The period a value is based on: the last full year, or the last period at all.
IsBasis(periods, b) ==
    IF \E p \in Range(periods) : p.months = 12
    THEN periods[b].months = 12 /\ \A i \in DOMAIN periods : i > b => periods[i].months # 12
    ELSE b = Len(periods)

\* The bridge from operating income to SDE carries each add-back of a period once,
\* EBITDA none of the owner's; the value range spans the sensitivity table from end to
\* end wherever the steps reach it; and the period v that is valued is the basis b, the
\* last full year if there is one, as long as no period before it bears its label: the
\* first that does is valued then, full year or not (services/qoe).
BridgeHolds ==
    Answered("value") =>
        LET table == result.value.sensitivity
            primary == result.qoe.primary[1]
            periods == given.periods
        IN  /\ \A i \in DOMAIN periods :
                  LET p == periods[i]
                      Counted(levels) == SumUpTo(LAMBDA a : IF p.addbacks[a].applies_to \in levels
                                                            THEN p.addbacks[a].amount ELSE 0, Len(p.addbacks))
                      operating == p.revenue - p.cogs - p.operating_expenses + p.depreciation + p.amortization
                  IN  /\ result.qoe.periods[i].adjusted_ebitda = operating + Counted({"ebitda"})
                      /\ result.qoe.periods[i].sde = operating + Counted({"ebitda", "sde"})
            /\ \E b, v \in DOMAIN periods :
                  /\ IsBasis(periods, b)
                  /\ primary = result.qoe.periods[v]
                  /\ v = b \/ (v < b /\ periods[v].label = periods[b].label)
                  /\ \A i \in DOMAIN periods : i < v => periods[i].label # periods[b].label
            /\ table[given.low] = result.value.low_value
            /\ (given.high - given.low) % 25 = 0 => table[given.high] = result.value.high_value

\* A dearer bid never scores worse; a reprice asks for more, and reaches the
\* margin it promises where no cost is a share of the price and the cents do not
\* matter (routers/decisions.py).
BidsHold ==
    Answered("bid") /\ given.value > 1 =>
        LET reprices == result.first.decision_type = "reprice"
        IN  /\ LoadedLabor(given) > 0 =>
                  result.dearer.contribution_margin_pct >= result.first.contribution_margin_pct
            /\ reprices => result.first.recommended_price > given.value
            /\ reprices /\ given.subcontractor_pct + given.overhead_pct = 0 /\ LoadedLabor(given) >= 2500
               => result.again.contribution_margin_pct \in 1999..2001

\* Earnings: margins, the bridge to SDE and bids.
EarningsAddUp == MarginsAddUp /\ BridgeHolds /\ BidsHold

\* The ramp ends at the target or above it: churn and rounding are made up for
\* every month, and a target already passed asks for nothing that churn does not
\* take (growth/scaling_model.py).
RampReachesTarget ==
    Answered("growth") =>
        LET ramp == result.plan.ramp
            end == ramp[given.months].end_value
        IN  /\ end >= given.target
            /\ end > given.target => ramp[given.months].gross_adds = 0
            /\ end - given.current = SumUpTo(LAMBDA i : ramp[i].gross_adds - ramp[i].churned, given.months)

\* A KPI shows a change in the direction it went, also from below zero, and no
\* change only when there was next to none; one that has reached its target shows
\* all of it, and one that shows all of it is next to the target at least
\* (metrics/engine.py).
KpiPointsRight ==
    Answered("kpi") =>
        /\ \A c \in result.change_pct :
              LET change == given.snapshots[1] - given.snapshots[2] IN
              /\ c > 0 => change > 0
              /\ c < 0 => change < 0
              /\ c = 0 => 20000 * Magnitude(change) <= Magnitude(given.snapshots[2])
        /\ given.target > 0 =>
              \A p \in result.progress_pct :
                  /\ given.snapshots[1] >= given.target => p >= 10000
                  /\ p >= 10000 => 20000 * (given.target - given.snapshots[1]) <= given.target

\* Goals: the ramp to a target and the distance from one.
GoalsMeasured == RampReachesTarget /\ KpiPointsRight

\* Two different pain points of a title: which of them the row shows depends on the
\* order in which they come.
Clashing(title, pains) ==
    \E i, j \in DOMAIN pains :
        /\ Felt(pains[i]) /\ Felt(pains[j]) /\ pains[i] # pains[j]
        /\ pains[i].title = title /\ pains[j].title = title

\* Building the recommendations again, whatever order the pain points come in, neither
\* adds a row nor takes a decision back, and rewrites a text only where two pain points
\* share a title; one already decided keeps its text even then
\* (growth/profit_advisor.py).
AdviceSettles ==
    Answered("advice") =>
        /\ DOMAIN result.twice = DOMAIN result.once
        /\ \A t \in DOMAIN result.once :
              /\ result.twice[t].status = result.once[t].status
              /\ ~Clashing(t, given.pains) => result.twice[t] = result.once[t]
        /\ \A t \in DOMAIN given.decided :
              given.decided[t] # "proposed" =>
                 LET row == RecommendationsOf(given)[t]
                 IN  result.once[t] = row /\ result.twice[t] = row

Falling(found) == \A i, j \in DOMAIN found : i < j => found[i].score >= found[j].score

\* Suggestions and blocks of a prompt come by falling score, and whenever something
\* was found something is shown.  A customer is suggested once, and with the lowest
\* score that any of its names was found with, not the best of them: the score that is
\* kept is a fraction of one and loses to each later one.  An exact amount close in time
\* gives way only to a reference that matches; and what a prompt shows is the best found
\* (staging/fuzzy_match.py, knowledge/retriever.py).
MatchesRanked ==
    /\ Answered("customers") =>
          LET found == ProcessExtract(given.candidates) IN
          /\ Falling(result)
          /\ found # <<>> => result # <<>>
          /\ \A i, j \in DOMAIN result : i # j => result[i].entity_id # result[j].entity_id
          /\ \A i \in DOMAIN result :
                /\ result[i] \in Range(found)
                /\ \A f \in Range(found) :
                      f.entity_id = result[i].entity_id => f.score >= result[i].score
    /\ Answered("payments") =>
          /\ Falling(result)
          /\ (\E i \in DOMAIN given.invoices :
                 \E d \in given.payment.date : \E e \in given.invoices[i].date :
                     /\ given.payment.date = {d} /\ given.invoices[i].date = {e}
                     /\ Distance(d, e) <= 5 /\ given.invoices[i].amount = given.payment.amount)
             => \/ result[1].breakdown.amount_score = 100 /\ result[1].breakdown.date_score = 100
                \/ result[1].breakdown.ref_score = 90
    /\ Answered("retrieval") =>
          /\ IsPrefix(result.shown, result.found)
          /\ result.found # <<>> => result.shown # <<>>
          /\ Falling(result.found)

NonSpace(text) == Where(text, LAMBDA c : c # Space)

\* No character is lost or moved by cutting, once each chunk is rid of the end of the
\* one before it, and no chunk outgrows its limit by more than the overlap
\* (knowledge/chunker.py).
ChunksKeepText ==
    Answered("chunks") =>
        LET overlap == IF Len(result) > 1 THEN given.overlap ELSE 0
            plain[i \in DOMAIN result] ==
                IF i = 1 \/ overlap = 0 THEN result[i]
                ELSE SubSeq(result[i], Len(Tail_(plain[i - 1], overlap)) + 3, Len(result[i]))
        IN  /\ NonSpace(FlattenSeq(plain)) = NonSpace(Whole(given.document))
            /\ \A i \in DOMAIN plain : Len(plain[i]) \in 1..given.max
            /\ \A i \in DOMAIN result : Len(result[i]) <= given.max + overlap + 2

\* What was said is in the turns, in order; and in plain text and SRT it is the
\* turn of the one who said it (knowledge/recordings.py).
TurnsKeepWords ==
    Answered("transcript") =>
        LET lines == Numbered(given.lines)
            from == IF result.format = "vtt" THEN 2 ELSE 1
            said == Where(SubSeq(lines, from, Len(lines)),
                          LAMBDA l : l.kind \notin Wordless[result.format])
            SpeakerOf(i) ==
                LET named == {j \in from..i : lines[j].kind = "named"} IN
                IF named = {} \/ result.format = "srt" THEN "Speaker"
                ELSE lines[CHOOSE j \in named : \A k \in named : k <= j].who
        IN  /\ FlattenSeq([t \in DOMAIN result.turns |-> result.turns[t].text])
                  = [i \in DOMAIN said |-> said[i].word]
            /\ result.format # "vtt" =>
                  \A t \in DOMAIN result.turns : \A w \in DOMAIN result.turns[t].text :
                      result.turns[t].speaker = SpeakerOf(result.turns[t].text[w])

\* Texts: documents and transcripts keep all that is in them.
TextIsKept == ChunksKeepText /\ TurnsKeepWords

=============================================================================
