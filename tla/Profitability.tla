---------------------------- MODULE Profitability ----------------------------
(***************************************************************************)
(* What YBS computes about a company's profit: contract and company        *)
(* margins (services/financial/margin_engine.py), the score of a bid       *)
(* (routers/decisions.py), the quality-of-earnings bridge and the value    *)
(* derived from it (services/qoe), the growth ramp and the recommendations *)
(* (services/growth) and the KPI cards (services/metrics).  Money and      *)
(* hours are counted in hundredths, rates in per cent, and a percentage    *)
(* the code rounds to two places in hundredths of a per cent.              *)
(***************************************************************************)
EXTENDS Lists

Magnitude(n) == IF n < 0 THEN -n ELSE n

Signed(n, magnitude) == IF n < 0 THEN -magnitude ELSE magnitude

\* n / d to the nearest whole, halves away from zero: utils/money.py.
HalfUp(n, d) == Signed(n, (2 * Magnitude(n) + d) \div (2 * d))

\* n / d to the nearest whole, halves to the even neighbour: Decimal.quantize
\* as the qoe, growth and metrics services call it.
HalfEven(n, d) ==
    LET down == Magnitude(n) \div d
        rest == 2 * (Magnitude(n) % d)
    IN  Signed(n, IF rest > d \/ (rest = d /\ down % 2 = 1) THEN down + 1 ELSE down)

-----------------------------------------------------------------------------
(* Margins.                                                                *)

\* The company's own assumption wins over the global one, then the latest.
_get_active_burden(assumptions, company, as_of) ==
    LET active == {a \in assumptions :
                      a.is_active /\ a.effective <= as_of /\ a.company \in {company, "global"}}
        Before(a, b) == \/ a.company # "global" /\ b.company = "global"
                        \/ (a.company = "global") = (b.company = "global")
                           /\ a.effective > b.effective
    IN  {a \in active : \A b \in active : ~ Before(b, a)}

BurdenPct(assumptions, company, as_of) ==
    LET found == _get_active_burden(assumptions, company, as_of)
    IN  IF found = {} THEN 30 ELSE (CHOOSE a \in found : TRUE).total_burden_pct

\* A cost of 0 stands for NULL, too: `or` computes it from hours and rate.
ShiftCost(shift) ==
    IF shift.labor_cost # 0 THEN shift.labor_cost ELSE HalfUp(shift.hours * shift.rate, 100)

CostOf(shifts, workers) ==
    SumOf(ShiftCost, Where(shifts, LAMBDA s : s.worker_type \in workers))

compute_contract_profitability(revenue, shifts, burden_pct) ==
    LET w2 == CostOf(shifts, {"W2"})
        sub == CostOf(shifts, {"SUB"})
        burden == HalfUp(w2 * burden_pct, 100)
        contribution == revenue - w2 - burden - sub
    IN  [revenue |-> revenue, direct_labor_cost |-> w2, burden_cost |-> burden,
         subcontractor_cost |-> sub, contribution_margin |-> contribution,
         contribution_margin_pct |-> IF revenue > 0 THEN HalfUp(contribution * 10000, revenue) ELSE 0,
         labor_hours |-> SumOf(LAMBDA s : s.hours, shifts),
         confidence_score |-> IF revenue <= 0 THEN 50 ELSE IF shifts = <<>> THEN 70 ELSE 90]

\* Variant of GrossProfit for mutation: the burden is forgotten.
GrossProfitUnburdened(lines) ==
    SumOf(LAMBDA l : l.revenue - l.direct_labor_cost - l.subcontractor_cost, lines)

GrossProfit(lines) ==
    SumOf(LAMBDA l : l.revenue, lines) - SumOf(LAMBDA l : l.direct_labor_cost, lines)
    - SumOf(LAMBDA l : l.burden_cost, lines) - SumOf(LAMBDA l : l.subcontractor_cost, lines)

\* contracts is a sequence of [status, customer, revenue, shifts]; only active
\* ones of the company's customers get a line.  A margin of 100 percent and more (or of
\* less than -100) overflows its NUMERIC(8, 6) and fails the run, which is left out.
run_company_profitability(contracts, customers, assumptions, company, period_end) ==
    LET counted == Where(contracts, LAMBDA c : c.status = "active" /\ c.customer \in customers)
        lines == [i \in DOMAIN counted |->
                     compute_contract_profitability(counted[i].revenue, counted[i].shifts,
                                                    BurdenPct(assumptions, company, period_end))]
        revenue == SumOf(LAMBDA l : l.revenue, lines)
        gross == GrossProfit(lines)
    IN  [lines |-> lines, total_revenue |-> revenue, gross_profit |-> gross,
         gross_margin_pct |-> IF revenue > 0 THEN HalfUp(gross * 10000, revenue) ELSE 0]

-----------------------------------------------------------------------------
(* The score of a bid.                                                     *)

LoadedLabor(bid) == HalfUp(HalfUp(bid.hours * bid.rate, 100) * 130, 100)

BidCost(bid) ==
    LoadedLabor(bid) + HalfUp(bid.value * bid.subcontractor_pct, 100)
    + HalfUp(bid.value * bid.overhead_pct, 100)

score_bid(bid) ==
    LET contribution == bid.value - BidCost(bid)
        pct == IF bid.value > 0 THEN HalfUp(contribution * 10000, bid.value) ELSE 0
        Scored(type, label) ==
            [decision_type |-> type, label |-> label, recommended_price |-> HalfUp(BidCost(bid) * 100, 80),
             contribution_margin |-> contribution, contribution_margin_pct |-> pct]
    IN  CASE pct >= 2000 -> Scored("bid", "AUTO")
          [] pct >= 1000 /\ pct < 2000 -> Scored("bid", "APPROVAL_REQUIRED")
          [] pct >= 0 /\ pct < 1000 -> Scored("reprice", "APPROVAL_REQUIRED")
          [] OTHER -> Scored("no_bid", "BLOCKED")

-----------------------------------------------------------------------------
(* Quality of earnings and value.                                          *)

\* An add-back to anything but "ebitda" and "sde" counts nowhere.
AddbacksTo(p, level) ==
    SumOf(LAMBDA a : a.amount, Where(p.addbacks, LAMBDA a : a.applies_to = level))

analyze_period(p) ==
    LET gross == p.revenue - p.cogs
        operating == gross - p.operating_expenses
        reported == operating + p.depreciation + p.amortization
        adjusted == reported + AddbacksTo(p, "ebitda")
        sde == adjusted + AddbacksTo(p, "sde")
        OfRevenue(x) == IF p.revenue # 0 THEN Signed(p.revenue, HalfEven(x * 10000, Magnitude(p.revenue))) ELSE 0
        Annual(x) == IF p.months # 0 THEN HalfEven(x * 12, p.months) ELSE x
    IN  [label |-> p.label, months |-> p.months, revenue |-> p.revenue,
         operating_expenses |-> p.operating_expenses, operating_income |-> operating,
         gross_margin_pct |-> OfRevenue(gross), reported_ebitda |-> reported,
         adjusted_ebitda |-> adjusted, sde |-> sde, sde_margin_pct |-> OfRevenue(sde),
         annualized_revenue |-> Annual(p.revenue), annualized_sde |-> Annual(sde)]

\* The label asked for, or that of the last full year, or of the last period;
\* an empty one counts as not asked for.
PrimaryLabel(results, asked) ==
    LET full_years == Where(results, LAMBDA r : r.months = 12)
    IN  IF asked # "" THEN asked
        ELSE IF full_years # <<>> THEN Last(full_years).label ELSE Last(results).label

\* The first result of the primary label, none when no period has it.
Primary(results, asked) ==
    LET labelled == Where(results, LAMBDA r : r.label = PrimaryLabel(results, asked))
    IN  IF labelled = <<>> THEN <<>> ELSE <<Head(labelled)>>

analyze(periods, asked) ==
    LET results == [i \in DOMAIN periods |-> analyze_period(periods[i])]
    IN  [periods |-> results, primary |-> Primary(results, asked)]

Multiples(low, high) == {m \in low .. high : (m - low) % 25 = 0}

\* Multiples are counted in hundredths and stepped by a quarter.
value_by_sde(sde, low, mid, high) ==
    [low_value |-> HalfEven(sde * low, 100), mid_value |-> HalfEven(sde * mid, 100),
     high_value |-> HalfEven(sde * high, 100),
     sensitivity |-> [m \in Multiples(low, high) |-> HalfEven(sde * m, 100)]]

-----------------------------------------------------------------------------
(* Growth.                                                                 *)

\* Variant of GrossAdds for mutation: what churns is not made up for.
GrossAddsNet(current, target, n, i, running, churned) ==
    LET gross == HalfEven(current * n + (target - current) * i - running * n, n)
    IN  IF gross < 0 THEN 0 ELSE gross

\* What month i of n must add to be on the straight line to the target.
GrossAdds(current, target, n, i, running, churned) ==
    LET gross == HalfEven(current * n + (target - current) * i + (churned - running) * n, n)
    IN  IF gross < 0 THEN 0 ELSE gross

CacBlended(channels) == SumOf(LAMBDA c : c.cac * c.share, channels)

\* Month i of n, which begins at running.
RampMonth(current, target, n, churn, cac, i, running) ==
    LET churned == HalfEven(running * churn, 100)
        gross == GrossAdds(current, target, n, i, running, churned)
    IN  [start_value |-> running, churned |-> churned, gross_adds |-> gross,
         end_value |-> running + gross - churned, spend |-> HalfEven(gross * cac, 10000)]

Ramp(current, target, n, churn, cac) ==
    LET month[i \in 1..n] ==
            RampMonth(current, target, n, churn, cac, i,
                      IF i = 1 THEN current ELSE month[i - 1].end_value)
    IN  month

\* The months of the ramp, then what each channel carries in the busiest one.
build_plan(current, target, n, churn, channels) ==
    LET ramp == Ramp(current, target, n, churn, CacBlended(channels))
        peak == FoldLeft(LAMBDA top, m : IF m.gross_adds > top THEN m.gross_adds ELSE top, 0, ramp)
    IN  [ramp |-> ramp, total_spend |-> SumOf(LAMBDA m : m.spend, ramp),
         peak_monthly_gross_adds |-> peak,
         channels |-> [c \in DOMAIN channels |->
             LET gross == HalfEven(peak * channels[c].share, 100) IN
             [gross |-> gross, spend |-> HalfEven(gross * channels[c].cac, 100),
              leads |-> IF channels[c].conversion # 0
                        THEN {HalfEven(gross * 100, channels[c].conversion)} ELSE {}]]]

\* actuals maps the months that have a snapshot to its value.
plan_vs_actual(plan, actuals) ==
    [i \in DOMAIN plan.ramp \intersect DOMAIN actuals |-> actuals[i] - plan.ramp[i].end_value]

Idea(title, impact, detail) == [title |-> title, impact |-> impact, detail |-> detail]

Felt(pain) == pain.severity \in {"high", "medium"}

\* primary is <<>> or the period analysed, kpis maps "churn_rate" and "mrr" to
\* what was last recorded, in hundredths, pains lists [title, severity, detail].
_candidates(primary, kpis, pains) ==
    LET churn == IF {"churn_rate", "mrr"} \subseteq DOMAIN kpis /\ kpis["churn_rate"] > 300
                 THEN <<Idea("churn", {HalfEven(kpis["mrr"] * 12, 100)}, kpis["churn_rate"])>> ELSE <<>>
        felt == Where(pains, Felt)
        surfaced == [i \in DOMAIN felt |-> Idea(felt[i].title, {}, felt[i].detail)]
        OfPeriod(p) ==
            <<Idea("pricing", {HalfEven(p.revenue * 5, 100)}, p.revenue)>>
            \o (IF p.operating_income * 100 < 5 * p.revenue
                THEN <<Idea("cost", {HalfEven(p.operating_expenses * 5, 100)}, p.revenue)>> ELSE <<>>)
            \o <<Idea("upsell", {HalfEven(p.revenue * 3, 100)}, p.revenue)>>
    IN  (IF primary # <<>> /\ primary[1].revenue > 0 THEN OfPeriod(primary[1]) ELSE <<>>)
        \o churn \o surfaced

\* Variant of Merge for mutation: a recommendation already decided is rewritten.
MergeAlways(recs, idea) ==
    [t \in DOMAIN recs \union {idea.title} |->
        IF t = idea.title THEN [status |-> "proposed", idea |-> idea] ELSE recs[t]]

\* One row per title; only a row still proposed is refreshed.
Merge(recs, idea) ==
    [t \in DOMAIN recs \union {idea.title} |->
        IF t = idea.title /\ (t \in DOMAIN recs => recs[t].status = "proposed")
        THEN [status |-> "proposed", idea |-> idea] ELSE recs[t]]

\* Nothing is taken back: a row whose reason is gone stays as it was.
build_recommendations(recs, candidates) == FoldLeft(Merge, recs, candidates)

-----------------------------------------------------------------------------
(* KPI cards.                                                              *)

\* Nothing to compare with when the previous value is 0.
_pct_change(current, previous) ==
    IF previous = 0 THEN {} ELSE {HalfEven((current - previous) * 10000, Magnitude(previous))}

\* snapshots run from the latest back, target 0 stands for NULL, too.
kpi_summary(snapshots, target) ==
    [current |-> IF snapshots = <<>> THEN {} ELSE {snapshots[1]},
     change_pct |-> IF Len(snapshots) > 1 THEN _pct_change(snapshots[1], snapshots[2]) ELSE {},
     progress_pct |-> IF snapshots = <<>> \/ target = 0 THEN {}
                      ELSE {Signed(target, HalfEven(snapshots[1] * 10000, Magnitude(target)))}]

=============================================================================
