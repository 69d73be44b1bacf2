------------------------------ MODULE Monitor ------------------------------
(***************************************************************************)
(* The monitor (services/monitor, workers/monitor_tasks.py,                *)
(* routers/monitor.py): hourly, or when an administrator asks for it,      *)
(* collectors file an observation for everything that failed, each new     *)
(* observation gets a diagnosis and a second opinion, and an analyst       *)
(* approves a diagnosis, which may open a pull request, or rejects it.     *)
(***************************************************************************)
EXTENDS Naturals, Sequences, FiniteSets, SequencesExt

CONSTANTS
    Sources,      \* what may fail: agent tasks, COO actions, rejected approvals, metrics
    MonitorRuns,  \* runs of the monitor open at the same time
    Deciders,     \* concurrent approve and reject requests
    Opinions,     \* what the reviewer may say: "approve", "concerns", "reject"
    MaxLost,      \* bound: runs that are lost half-way
    MaxOverlaps,  \* bound: runs that start while another is open
    MaxPulls      \* bound: pull requests opened for one diagnosis

ASSUME MonitorAssumption ==
    /\ IsFiniteSet(Sources) /\ IsFiniteSet(MonitorRuns)
    /\ Opinions \subseteq {"approve", "concerns", "reject"}
    /\ {MaxLost, MaxOverlaps, MaxPulls} \subseteq Nat

VARIABLES
    broken,   \* sources whose failure is there to be seen
    obs,      \* agent_observations: the status of each source's row
    diag,     \* monitor_diagnoses of each source, in the order of their commits
    mon,      \* the open runs
    verdict,  \* the open approve and reject requests
    pulls,    \* pull requests GitHub has opened, by diagnosis
    runsLost, \* runs lost so far
    overlaps  \* runs so far that started while another was open

monVars == <<broken, obs, diag, mon, verdict, pulls, runsLost, overlaps>>

Ordinals == 1..Cardinality(MonitorRuns)
Diagnoses == Sources \X Ordinals
ObsStatuses == {"absent", "new", "analyzed"}
DiagStatuses == {"proposed", "approved", "rejected"}
MonKinds == {"none", "loop", "request"}
NoMon == [kind |-> "none", phase |-> "idle", seen |-> {}, asks |-> {}, mine |-> {},
          counted |-> {}, todo |-> {}, drafts |-> {}]
NoVerdict == [verb |-> "none", on |-> <<>>, github |-> "none"]

\* Rows and sessions are well formed, statuses are those the code assigns.
MonTypeOK ==
    /\ broken \subseteq Sources
    /\ obs \in [Sources -> ObsStatuses]
    /\ \A s \in Sources :
        /\ Len(diag[s]) <= Cardinality(MonitorRuns)
        /\ Range(diag[s]) \subseteq [status: DiagStatuses, second: Opinions,
                                     described: BOOLEAN, url: BOOLEAN]
    /\ \A r \in MonitorRuns :
        /\ mon[r].kind \in MonKinds /\ mon[r].phase \in {"idle", "collecting", "diagnosing"}
        /\ Cardinality(mon[r].asks) <= 1
        /\ UNION {mon[r].seen, mon[r].asks, mon[r].mine, mon[r].counted, mon[r].todo}
              \subseteq Sources
        /\ mon[r].drafts \subseteq Sources \X Opinions
    /\ \A v \in Deciders : verdict[v] = NoVerdict \/ verdict[v].on \in Diagnoses
    /\ pulls \in [Diagnoses -> 0..MaxPulls]
    /\ runsLost \in 0..MaxLost /\ overlaps \in 0..MaxOverlaps

MonInit ==
    /\ broken = {}
    /\ obs = [s \in Sources |-> "absent"]
    /\ diag = [s \in Sources |-> <<>>]
    /\ mon = [r \in MonitorRuns |-> NoMon]
    /\ verdict = [v \in Deciders |-> NoVerdict]
    /\ pulls = [d \in Diagnoses |-> 0]
    /\ runsLost = 0 /\ overlaps = 0

\* Something fails, and stays in the collectors' window (48 hours or a week, of which
\* the monitor runs every hour).
source_fails(s) ==
    /\ s \notin broken
    /\ broken' = broken \union {s}
    /\ UNCHANGED <<obs, diag, mon, verdict, pulls, runsLost, overlaps>>

-----------------------------------------------------------------------------
(* Collecting                                                              *)

monitor_start(r, kind) ==
    /\ mon[r] = NoMon
    /\ overlaps' = IF \A q \in MonitorRuns : mon[q] = NoMon THEN overlaps ELSE overlaps + 1
    /\ overlaps' <= MaxOverlaps
    /\ mon' = [mon EXCEPT ![r].kind = kind, ![r].phase = "collecting"]
    /\ UNCHANGED <<broken, obs, diag, verdict, pulls, runsLost>>

Observed(r, s) == obs[s] # "absent" \/ s \in mon[r].mine

\* A collector comes to a failure and looks for its observation.
observation_check(r, s) ==
    /\ mon[r].phase = "collecting" /\ mon[r].asks = {}
    /\ s \in broken \ mon[r].seen
    /\ mon' = [mon EXCEPT ![r].seen = @ \union {s},
                          ![r].asks = IF Observed(r, s) THEN {} ELSE {s}]
    /\ UNCHANGED <<broken, obs, diag, verdict, pulls, runsLost, overlaps>>

\* The unique index makes the INSERT wait for another run's row.
InsertWaits(r, s) == \E q \in MonitorRuns \ {r} : s \in mon[q].mine

observation_insert(r) ==
    /\ \E s \in mon[r].asks :
        /\ ~InsertWaits(r, s)
        /\ obs[s] = "absent"
        /\ mon' = [mon EXCEPT ![r].asks = {}, ![r].mine = @ \union {s},
                              ![r].counted = @ \union {s}]
    /\ UNCHANGED <<broken, obs, diag, verdict, pulls, runsLost, overlaps>>

\* IntegrityError: the rollback takes all observations of the run so far; they stay in
\* its counts.  If the collector has another row to look at, that row is expired by the
\* rollback and the run ends with an error.
observation_conflict(r, goesOn) ==
    /\ \E s \in mon[r].asks : ~InsertWaits(r, s) /\ obs[s] # "absent"
    /\ mon' = [mon EXCEPT ![r] = IF goesOn THEN [mon[r] EXCEPT !.asks = {}, !.mine = {}]
                                           ELSE NoMon]
    /\ UNCHANGED <<broken, obs, diag, verdict, pulls, runsLost, overlaps>>

\* Variant of New for mutation: every observation is up for a diagnosis.
NewAgain(r) == {s \in Sources : obs[s] # "absent"} \union mon[r].mine

\* All new observations, its own included, are up for a diagnosis.
New(r) == {s \in Sources : obs[s] = "new"} \union mon[r].mine

\* The collectors have gone through all there was (what fails behind their back is as good
\* as what fails after this step); the hourly loop commits here, the request does not.
collectors_done(r) ==
    /\ mon[r].phase = "collecting" /\ mon[r].asks = {}
    /\ broken \subseteq mon[r].seen
    /\ obs' = IF mon[r].kind = "loop"
              THEN [s \in Sources |-> IF s \in mon[r].mine THEN "new" ELSE obs[s]] ELSE obs
    /\ mon' = [mon EXCEPT ![r].phase = "diagnosing", ![r].todo = New(r),
                          ![r].mine = IF mon[r].kind = "loop" THEN {} ELSE @]
    /\ UNCHANGED <<broken, diag, verdict, pulls, runsLost, overlaps>>

-----------------------------------------------------------------------------
(* Diagnosing                                                              *)

DraftedBy(r) == {d[1] : d \in mon[r].drafts}

\* diagnose and review: whatever the model answers, or fails to, there is a diagnosis
\* and a second opinion.  The UPDATE of the observation waits for the row.
diagnose(r, s, opinion) ==
    /\ s \in mon[r].todo
    /\ \A q \in MonitorRuns \ {r} : s \notin DraftedBy(q)
    /\ mon' = [mon EXCEPT ![r].todo = @ \ {s}, ![r].drafts = @ \union {<<s, opinion>>}]
    /\ UNCHANGED <<broken, obs, diag, verdict, pulls, runsLost, overlaps>>

Draft(opinion) == [status |-> "proposed", second |-> opinion, described |-> FALSE, url |-> FALSE]

\* Variant of run_commit for mutation: the last commit is forgotten.
run_commit_forgotten(r) ==
    /\ mon[r].phase = "diagnosing" /\ mon[r].todo = {}
    /\ mon' = [mon EXCEPT ![r] = NoMon]
    /\ UNCHANGED <<broken, obs, diag, verdict, pulls, runsLost, overlaps>>

run_commit(r) ==
    /\ mon[r].phase = "diagnosing" /\ mon[r].todo = {}
    /\ obs' = [s \in Sources |-> IF s \in DraftedBy(r) THEN "analyzed" ELSE obs[s]]
    /\ diag' = [s \in Sources |->
                    diag[s] \o SetToSeq({Draft(d[2]) : d \in {e \in mon[r].drafts : e[1] = s}})]
    /\ mon' = [mon EXCEPT ![r] = NoMon]
    /\ UNCHANGED <<broken, verdict, pulls, runsLost, overlaps>>

WaitsFor(r, q) ==
    \/ mon[r].asks \intersect mon[q].mine # {}
    \/ /\ mon[r].todo \intersect DraftedBy(q) # {}
       /\ \A s \in mon[r].todo : \E p \in MonitorRuns \ {r} : s \in DraftedBy(p)

\* Runs that wait for each other in a circle: PostgreSQL ends one of them.
run_deadlock(r) ==
    /\ \E circle \in SUBSET MonitorRuns :
        r \in circle /\ \A q \in circle : \E p \in circle \ {q} : WaitsFor(q, p)
    /\ mon' = [mon EXCEPT ![r] = NoMon]
    /\ UNCHANGED <<broken, obs, diag, verdict, pulls, runsLost, overlaps>>

\* A worker dies or a statement fails: back to the last commit.
run_lost(r) ==
    /\ mon[r] # NoMon
    /\ runsLost < MaxLost
    /\ runsLost' = runsLost + 1
    /\ mon' = [mon EXCEPT ![r] = NoMon]
    /\ UNCHANGED <<broken, obs, diag, verdict, pulls, overlaps>>

-----------------------------------------------------------------------------
(* Deciding                                                                *)

RowOf(d) == diag[d[1]][d[2]]
Exists(d) == d[2] \in DOMAIN diag[d[1]]

\* Variant of Proposed for mutation: a rejected diagnosis may be approved after all.
ProposedOrRejected(d) == Exists(d) /\ RowOf(d).status \in {"proposed", "rejected"}

Proposed(d) == Exists(d) /\ RowOf(d).status = "proposed"

verdict_read(v, verb, d) ==
    /\ verdict[v] = NoVerdict
    /\ Proposed(d)
    /\ verdict' = [verdict EXCEPT ![v] = [verb |-> verb, on |-> d, github |-> "none"]]
    /\ UNCHANGED <<broken, obs, diag, mon, pulls, runsLost, overlaps>>

\* Without a token nothing is asked of GitHub; an error may come after the fact.
open_draft_pr(v, answer, opened) ==
    /\ verdict[v].verb = "approve" /\ verdict[v].github = "none"
    /\ answer = "created" => opened
    /\ answer = "skipped" => ~opened
    /\ pulls[verdict[v].on] < MaxPulls
    /\ pulls' = IF opened THEN [pulls EXCEPT ![verdict[v].on] = @ + 1] ELSE pulls
    /\ verdict' = [verdict EXCEPT ![v].github = answer]
    /\ UNCHANGED <<broken, obs, diag, mon, runsLost, overlaps>>

\* The description goes with the approval, the address only if GitHub has answered one.
approve_diagnosis(v) ==
    LET d == verdict[v].on IN
    /\ verdict[v].verb = "approve" /\ verdict[v].github # "none"
    /\ diag' = [diag EXCEPT ![d[1]][d[2]] =
                    [RowOf(d) EXCEPT !.status = "approved", !.described = TRUE,
                                     !.url = @ \/ verdict[v].github = "created"]]
    /\ verdict' = [verdict EXCEPT ![v] = NoVerdict]
    /\ UNCHANGED <<broken, obs, mon, pulls, runsLost, overlaps>>

reject_diagnosis(v) ==
    LET d == verdict[v].on IN
    /\ verdict[v].verb = "reject"
    /\ diag' = [diag EXCEPT ![d[1]][d[2]].status = "rejected"]
    /\ verdict' = [verdict EXCEPT ![v] = NoVerdict]
    /\ UNCHANGED <<broken, obs, mon, pulls, runsLost, overlaps>>

\* The request is dropped; a pull request that is open stays open.
verdict_abort(v) ==
    /\ verdict[v] # NoVerdict
    /\ verdict' = [verdict EXCEPT ![v] = NoVerdict]
    /\ UNCHANGED <<broken, obs, diag, mon, pulls, runsLost, overlaps>>

-----------------------------------------------------------------------------
CollectStep(r) ==
    \/ \E s \in Sources : observation_check(r, s)
    \/ observation_insert(r)
    \/ \E goesOn \in BOOLEAN : observation_conflict(r, goesOn)

MonStep(r) ==
    \/ CollectStep(r)
    \/ collectors_done(r)
    \/ \E s \in Sources, opinion \in Opinions : diagnose(r, s, opinion)
    \/ run_commit(r)
    \/ run_deadlock(r)

VerdictStep(v) ==
    \/ \E verb \in {"approve", "reject"}, d \in Diagnoses : verdict_read(v, verb, d)
    \/ \E answer \in {"skipped", "created", "error"}, opened \in BOOLEAN :
        open_draft_pr(v, answer, opened)
    \/ approve_diagnosis(v)
    \/ reject_diagnosis(v)
    \/ verdict_abort(v)

MonNext ==
    \/ \E s \in Sources : source_fails(s)
    \/ \E r \in MonitorRuns : \/ monitor_start(r, "loop")
                              \/ monitor_start(r, "request")
                              \/ MonStep(r)
                              \/ run_lost(r)
    \/ \E v \in Deciders : VerdictStep(v)

\* The monitor is started every hour, and a run that is not lost goes on.
MonFairness ==
    \A r \in MonitorRuns : WF_monVars(monitor_start(r, "loop")) /\ WF_monVars(MonStep(r))

MonSpec == MonInit /\ [][MonNext]_monVars
FairMonSpec == MonSpec /\ MonFairness

-----------------------------------------------------------------------------
(* Properties                                                              *)

\* An observation that is analyzed stays so, and no run takes it up that had not taken it
\* up before: runs that overlap may both diagnose it, no later run does again, however
\* often its source is collected and whatever conflicts roll back.
NoSecondDiagnosis ==
    [][\A s \in Sources : obs[s] = "analyzed" =>
        /\ obs'[s] = "analyzed"
        /\ \A r \in MonitorRuns : s \in mon'[r].todo => s \in mon[r].todo]_monVars

\* Decided, and before no open request.
Settled(d) ==
    Exists(d) /\ RowOf(d).status # "proposed" /\ \A v \in Deciders : verdict[v].on # d

\* Requests that read a diagnosis as proposed may overwrite each other's decision, but once
\* the last of them is through the diagnosis is settled for good: nobody takes it up
\* again, and no further pull request is opened for it.
DiagnosisSettles ==
    [][\A d \in Diagnoses : Settled(d) =>
        Settled(d)' /\ RowOf(d)' = RowOf(d) /\ pulls'[d] = pulls[d]]_monVars

\* The diagnoses as a docket: what was ruled is the whole row, what was done about it are
\* the pull requests GitHub has opened.
MonDocket == INSTANCE Docket WITH
    Matters <- Diagnoses, Deciders <- Deciders,
    Rulings <- [status: DiagStatuses, second: Opinions, described: BOOLEAN, url: BOOLEAN],
    raised <- {d \in Diagnoses : Exists(d)},
    ruling <- [d \in Diagnoses |-> IF ~Exists(d) \/ Proposed(d) THEN {} ELSE {RowOf(d)}],
    hearing <- [v \in Deciders |-> IF verdict[v] = NoVerdict THEN {} ELSE {verdict[v].on}],
    acted <- {v \in Deciders : verdict[v].github # "none"},
    effects <- pulls

\* Every step of the monitor is a step of the docket or nothing to it: commits of runs
\* only add proposals, only a proposal is taken up, an approval asks GitHub once, and a
\* diagnosis that is decided and before no open request keeps row and pull requests.
MonRefinesDocket == MonDocket!DocketSpec

\* Every failure gets its observation and its diagnosis in the end, also when a conflict
\* has rolled back what a run had collected.
FailuresDiagnosed == \A s \in Sources : s \in broken ~> obs[s] = "analyzed"

=============================================================================
