---------------------------- MODULE MCCalculations ----------------------------
(* Calculations over every input of small sets.                            *)
EXTENDS Calculations

OneOrNone(S) == {<<>>} \union {<<e>> : e \in S}
UpToTwo(S) == OneOrNone(S) \union {<<e, f>> : e \in S, f \in S}

\* The payload keys the extraction of each source looks at.
KeysOf(source) ==
    CASE source = "quickbooks" ->
            {"TxnDate", "Line", "DocNumber", "DueDate", "TotalAmt", "Id",
             "DisplayName", "CompanyName"}
      [] source = "bank_csv" -> {"amount", "date", "reference", "memo"}
      [] source = "payroll" -> {"employee_id", "date", "hours", "rate"}
      [] OTHER -> {"name", "customer_type", "qb_customer_id", "industry"}

Uploads == {"quickbooks", "bank_csv", "payroll", "swept", "email", "manual"}

Records == UNION {[source: {s}, payload: [KeysOf(s) -> Values]] : s \in Uploads}

\* Ages on both sides of every bucket's end, a balance of nothing and an
\* overpaid invoice.
DsoInvoices ==
    [amount: {9999}, amount_paid: {0, 10000}, age: {-1, 30, 31, 60, 61, 90, 91},
     days_outstanding: {0}, due: {{}}, status: {"open", "disputed", "paid", "void"}]

ForecastInvoices ==
    [amount: {9999}, amount_paid: {0, 5000}, age: {30, 95}, days_outstanding: {0, 45},
     due: {{}, {10}, {40}}, status: {"open"}]
    \union [amount: {9999}, amount_paid: {0}, age: {30}, days_outstanding: {0}, due: {{10}},
            status: {"disputed"}]

Forecasts ==
    [invoices: OneOrNone(ForecastInvoices)
               \union UpToTwo({i \in ForecastInvoices : i.amount_paid = 0 /\ i.due # {40}}),
     labor: {0, 40002}, cash: {-100, 60000}, mode: {"baseline", "optimistic", "stress"},
     weekday: {0}, queued: {FALSE}, reduction: {0, 20}, increase: {5}]
    \union
    [invoices: OneOrNone(ForecastInvoices), labor: {40002}, cash: {60000}, mode: {"baseline"},
     weekday: 0..6, queued: BOOLEAN, reduction: {20}, increase: {0}]

FewShifts ==
    [worker_type: {"W2", "SUB"}, labor_cost: {0, 1005}, hours: {150}, rate: {1333}]

FewContracts ==
    [status: {"active"}, customer: {"c1", "c2"}, revenue: {0, 5001}, shifts: UpToTwo(FewShifts)]
    \union [status: {"ended"}, customer: {"c1"}, revenue: {5001}, shifts: OneOrNone(FewShifts)]

Assumptions ==
    SUBSET {[company |-> "own", is_active |-> TRUE, effective |-> 1, total_burden_pct |-> 25],
            [company |-> "own", is_active |-> FALSE, effective |-> 2, total_burden_pct |-> 90],
            [company |-> "global", is_active |-> TRUE, effective |-> 2, total_burden_pct |-> 40]}

Margins ==
    [contracts: OneOrNone(FewContracts), assumptions: Assumptions]
    \union [contracts: UpToTwo({c \in FewContracts : Len(c.shifts) < 2}), assumptions: {{}}]

\* From a price of two cents and no labor up.
Bids == [value: {0, 2, 11100, 20000, 40000}, hours: {0, 1000, 1900}, rate: {800, 1200},
         subcontractor_pct: {0, 20}, overhead_pct: {0, 15}]

Addbacks == [amount: {-250, 333}, applies_to: {"ebitda", "sde", "other"}]

FewPeriods ==
    [label: {"FY23", "FY24", "YTD"}, revenue: {0, 10003}, cogs: {4000}, operating_expenses: {5000, 7000},
     depreciation: {15}, amortization: {7}, months: {7, 12}, addbacks: UpToTwo(Addbacks)]

\* Alone, two with an add-back each at most, and three without: full years and
\* parts of one in every order, with labels of their own and shared ones.
Valuations ==
    [periods: OneOrNone(FewPeriods) \ {<<>>}, low: {200}, mid: {275}, high: {200, 350, 360}]
    \union [periods: {<<p, q>> : p, q \in {p \in FewPeriods : Len(p.addbacks) < 2 /\ p.revenue > 0}},
            low: {200}, mid: {275}, high: {350}]
    \union [periods: [1..3 -> {p \in FewPeriods : p.addbacks = <<>> /\ p.revenue > 0
                                                /\ p.operating_expenses = 5000}],
            low: {200}, mid: {275}, high: {350}]

Channels == <<[share |-> 45, cac |-> 12000, conversion |-> 25],
              [share |-> 55, cac |-> 26000, conversion |-> 0]>>

Goals == [current: {0, 100, 401}, target: {0, 301}, months: {1, 7}, churn: {0, 3, 50},
          actuals: {<<>>, <<300>>}, channels: {Channels}]

SomePains == {[title |-> "pain", severity |-> "high", detail |-> 1],
           [title |-> "pain", severity |-> "medium", detail |-> 2],
           [title |-> "itch", severity |-> "low", detail |-> 3]}

Decided == {"proposed", "accepted"}

Advice == [primary: OneOrNone([revenue: {0, 10000}, operating_income: {400, 600},
                               operating_expenses: {5000}]),
           churn: {{}, {300}, {301}}, pains: UpToTwo(SomePains),
           decided: {<<>>} \union [{"pricing", "pain"} -> Decided]]

\* A target nearly reached and a value that nearly stays are rounded.
Series == [snapshots: UpToTwo({-300, 0, 700, 30000, 30001}), target: {-500, 0, 500, 30001}]

\* Two customers, the second with two names, and how rapidfuzz scores them; and four
\* customers, of whom three are suggested.
Candidates ==
    {<<[entity_id |-> "a", score |-> x], [entity_id |-> "b", score |-> y],
       [entity_id |-> "b", score |-> z]>> : x \in {59, 60, 80}, y \in {70, 100}, z \in {50, 75, 90}}
    \union {[i \in 1..4 |-> [entity_id |-> <<"a", "b", "c", "d">>[i], score |-> s[i]]] :
               s \in [1..4 -> {59, 70, 100}]}

OpenInvoices == [id: {1}, amount: {1000, 1001, 1010, 1500}, date: {{}, {5}, {15}, {16}, {31}},
                 refers: BOOLEAN]

Payments == [payment: [amount: {1000}, date: {{}, {0}}],
             invoices: UpToTwo(OpenInvoices)]

\* Paragraphs as the lengths of their sentences, against chunks of five.
Layouts == UpToTwo({<<1>>, <<2, 2>>, <<3, 4>>, <<4, 1, 3>>, <<6>>, <<2, 11, 1>>})
           \union {<<<<1>>, <<6>>, <<2>>>>, <<<<1>>, <<1>>, <<4>>>>}

Lines == [kind: {"blank", "timecode", "note", "index", "voice", "tag", "named", "text"},
          who: {"Ann", "Bob"}, word: {0}]

Header == [kind |-> "header", who |-> "Ann", word |-> 0]

Transcripts ==
    [extension: {"", "vtt", "srt"},
     lines: {<<l, m>> \o n : l \in {Header} \union {k \in Lines : k.who = "Ann"}, m \in Lines,
             n \in OneOrNone({k \in Lines : k.kind \notin {"blank", "note"}})}]

\* Each character stands for its own place.
Document(layout) ==
    [p \in DOMAIN layout |-> [s \in DOMAIN layout[p] |->
        [c \in 1 .. layout[p][s] |-> 1000 * p + 100 * s + c]]]

Chunks ==
    [id: {1}, allowed: {TRUE}, active: BOOLEAN, vector: {{}, {-5}, {40}, {90}}, keywords: {0, 50},
     size: {3, 9}]

Queries == [chunks: UpToTwo(Chunks), embedded: BOOLEAN, top_k: {1, 8}, max: {8}]

MCInputs ==
    [confidence |-> Records,
     dso |-> [invoices: UpToTwo(DsoInvoices)],
     forecast |-> Forecasts,
     margin |-> Margins,
     bid |-> Bids,
     value |-> Valuations,
     growth |-> Goals,
     advice |-> Advice,
     kpi |-> Series,
     customers |-> [candidates: Candidates],
     payments |-> Payments,
     chunks |-> [document: {Document(l) : l \in Layouts}, max: {5}, overlap: {0, 2}],
     transcript |-> Transcripts,
     retrieval |-> Queries]

=============================================================================
