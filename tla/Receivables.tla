---------------------------- MODULE Receivables ----------------------------
(***************************************************************************)
(* What is computed from the invoices of a company: the DSO snapshot with  *)
(* its aging buckets (services/financial/dso_engine.py), the 13-week cash  *)
(* forecast (services/cash/forecast_builder.py) and the stress test over   *)
(* its weeks (routers/cash.py).  Money is counted in cents, days are       *)
(* offsets from today, rates are counted in twentieths and tenths, so that *)
(* every intermediate value the code keeps exact is exact here.            *)
(***************************************************************************)
EXTENDS Lists

\* n / d to the nearest whole cent, halves away from zero.
to_money(n, d) ==
    LET magnitude == IF n < 0 THEN -n ELSE n
        rounded == (2 * magnitude + d) \div (2 * d)
    IN  IF n < 0 THEN -rounded ELSE rounded

\* An invoice is [amount, amount_paid, age, days_outstanding, due, status]: age
\* counts the days since invoice_date, due is the set of its due day, empty for
\* NULL, and a days_outstanding of 0 stands for NULL, too: `or` makes them one.
Balance(inv) == inv.amount - inv.amount_paid

Owing(invoices, statuses) ==
    Where(invoices, LAMBDA inv : inv.status \in statuses /\ Balance(inv) > 0)

-----------------------------------------------------------------------------
(* Days sales outstanding.                                                 *)

\* Variant of Bucket for mutation: < for <= at a bucket's upper end.
BucketExclusive(days) ==
    CASE days < 30 -> "0_30"
      [] days > 30 /\ days < 60 -> "31_60"
      [] days > 60 /\ days < 90 -> "61_90"
      [] OTHER -> "91_plus"

Bucket(days) ==
    CASE days <= 30 -> "0_30"
      [] days > 30 /\ days <= 60 -> "31_60"
      [] days > 60 /\ days <= 90 -> "61_90"
      [] OTHER -> "91_plus"

Buckets == {"0_30", "31_60", "61_90", "91_plus"}

TrailingDays == 90

TrailingRevenue(invoices) ==
    SumOf(LAMBDA inv : inv.amount,
          Where(invoices, LAMBDA inv : inv.age \in 0..TrailingDays /\ inv.status # "void"))

compute_dso(invoices) ==
    LET open == Owing(invoices, {"open", "partial", "overdue", "disputed"})
        total_ar == SumOf(Balance, open)
        revenue == TrailingRevenue(invoices)
        daily == IF revenue > 0 THEN to_money(revenue, TrailingDays) ELSE 0
    IN  [total_ar |-> total_ar,
         aging |-> [b \in Buckets |->
                       SumOf(Balance, Where(open, LAMBDA inv : Bucket(inv.age) = b))],
         avg_daily_revenue |-> daily,
         dso_days |-> IF daily > 0 THEN to_money(100 * total_ar, daily) ELSE 0]

-----------------------------------------------------------------------------
(* The 13-week forecast.                                                   *)

ForecastWeeks == 13

\* In twentieths, by how long the invoice has been outstanding.
COLLECTION_PROB == [b \in Buckets |->
    CASE b = "0_30" -> 19 [] b = "31_60" -> 16 [] b = "61_90" -> 12 [] b = "91_plus" -> 6]

\* In tenths; a mode without a multiplier of its own counts as the baseline.
ModeMultiplier(mode) == CASE mode = "optimistic" -> 11 [] mode = "stress" -> 8 [] OTHER -> 10

\* Day 0 of week n: a Monday, and never today (weekday counts from Monday = 0).
_week_start(weekday, n) == (7 - weekday) + 7 * (n - 1)

DaysOut(inv) == IF inv.days_outstanding # 0 THEN inv.days_outstanding ELSE inv.age

\* What week n is expected to collect of one invoice.
Collected(inv, weekday, n, mode) ==
    LET start == _week_start(weekday, n)
        expected == Balance(inv) * COLLECTION_PROB[Bucket(DaysOut(inv))] * ModeMultiplier(mode)
    IN  IF \E day \in inv.due : day \in start .. start + 6
        THEN to_money(expected, 200)
        ELSE to_money(expected, 200 * ForecastWeeks)

Payroll(weekly, n) ==
    CASE n % 2 = 0 -> 2 * weekly [] n = 1 -> weekly [] OTHER -> 0

ForecastWeek(invoices, weekly, beginning, mode, weekday, n) ==
    LET open == Owing(invoices, {"open", "partial", "overdue"})
        collections == SumOf(LAMBDA inv : Collected(inv, weekday, n, mode), open)
        overhead == to_money(collections, 10)
        net == collections - Payroll(weekly, n) - overhead
    IN  [week_start |-> _week_start(weekday, n), beginning_cash |-> beginning,
         ar_collections |-> collections, payroll_outflow |-> Payroll(weekly, n),
         overhead_outflow |-> overhead, net_cash_flow |-> net, ending_cash |-> beginning + net]

Weeks(invoices, weekly, beginning_cash, mode, weekday) ==
    LET week[n \in 1..ForecastWeeks] ==
            ForecastWeek(invoices, weekly,
                         IF n = 1 THEN beginning_cash ELSE week[n - 1].ending_cash,
                         mode, weekday, n)
    IN  week

\* The least cash, and the first week that ends with it; the opening balance
\* counts for week 1.
Lowest(beginning, weeks) ==
    FoldLeftDomain(LAMBDA low, n : IF weeks[n].ending_cash < low.amount
                                   THEN [amount |-> weeks[n].ending_cash, week |-> n] ELSE low,
                   [amount |-> beginning, week |-> 1], weeks)

\* labor is what the last four weeks' shifts cost; payroll_covered_through is a
\* day, the last of the horizon whatever the weeks hold.
build_13_week_forecast(invoices, labor, beginning_cash, mode, weekday) ==
    LET weeks == Weeks(invoices, to_money(labor, 4), beginning_cash, mode, weekday)
        low == Lowest(beginning_cash, weeks)
    IN  [beginning_cash |-> beginning_cash, weeks |-> weeks,
         ending_cash |-> weeks[ForecastWeeks].ending_cash,
         min_cash_amount |-> low.amount, min_cash_week |-> low.week,
         payroll_covered_through |-> _week_start(weekday, ForecastWeeks) + 6]

\* Started through the queue, a forecast begins with no cash at all: the task
\* takes the company and the mode, and not the balance the request named.
trigger_forecast(queued, invoices, labor, beginning_cash, mode, weekday) ==
    build_13_week_forecast(invoices, labor, IF queued THEN 0 ELSE beginning_cash, mode, weekday)

\* Percentages of every week, kept to the hundredth of a cent; the overhead stays
\* what the forecast made it, and a delay of receivables changes nothing.
run_stress_test(forecast, reduction, increase) ==
    [n \in DOMAIN forecast.weeks |->
        LET w == forecast.weeks[n]
            ar == w.ar_collections * (100 - reduction)
            payroll == w.payroll_outflow * (100 + increase)
        IN  [ar_collections |-> ar, payroll_outflow |-> payroll,
             net_cash_flow |-> ar - payroll - 100 * w.overhead_outflow]]

=============================================================================
