------------------------------ MODULE OpsLoops ------------------------------
(***************************************************************************)
(* Scheduled agents (workers/ops_loop_tasks.py, services/ops_loops,        *)
(* routers/ops_loops.py).  A tick runs every loop whose schedule fired in  *)
(* the window before it, one after the other, and commits all of them at   *)
(* the end; an analyst may run a loop by hand at the same time.  Ticks     *)
(* start late or together when workers are busy.                           *)
(***************************************************************************)
EXTENDS Naturals, FiniteSets, FiniteSetsExt

CONSTANTS
    Loops,       \* rows of ops_loops
    Fires,       \* the times each loop's cron expression fires at
    Window,      \* the dispatcher's look-back (five minutes)
    Sessions,    \* ticks and run-now requests worked on at the same time
    Proposals,   \* the numbers of actions one answer of the model may propose
    MaxOpsTime,  \* bound: time passes up to here
    MaxRuns      \* bound: rows of ops_loop_runs

ASSUME OpsAssumption ==
    /\ Fires \in [Loops -> SUBSET (Nat \ {0})]
    /\ Window \in Nat \ {0}
    /\ Proposals \subseteq Nat
    /\ MaxOpsTime \in Nat \ {0}

VARIABLES
    opsClock,
    loop,     \* ops_loops: whether a loop is switched on, and its last_run_at (0: never)
    session,  \* what every open tick or request has still to run, is running, and has flushed
    runs,     \* ops_loop_runs: how many of each loop succeeded and failed, what they report
    tray,     \* pending coo_actions each loop has put before the owner
    fires     \* history of each loop's fires: those that ticks answered, those answered while
              \* another run of the loop was under way, those taken up again later

opsVars == <<opsClock, loop, session, runs, tray, fires>>

LoopStates == {"absent", "paused", "active"}
RunStatuses == {"succeeded", "failed"}
Run(l, status, stamp, count) == [loop |-> l, status |-> status, stamp |-> stamp, count |-> count]
Closed == [tick |-> FALSE, start |-> 0, todo |-> {}, answer |-> {}, rows |-> {}]

\* Rows are well formed, statuses are those the code assigns.
OpsTypeOK ==
    /\ opsClock \in 1..MaxOpsTime
    /\ loop \in [Loops -> [state: LoopStates, last: 0..MaxOpsTime]]
    /\ \A s \in Sessions :
        /\ session[s].todo \subseteq Loops
        /\ Cardinality(session[s].answer) <= 1
        /\ session[s].answer \union session[s].rows \subseteq
              [loop: Loops, status: RunStatuses, stamp: 0..MaxOpsTime, count: Proposals \union {0}]
    /\ runs \in [Loops -> [succeeded: Nat, failed: Nat, proposed: Nat]]
    /\ tray \in [Loops -> Nat]

OpsInit ==
    /\ opsClock = 1
    /\ loop = [l \in Loops |-> [state |-> "absent", last |-> 0]]
    /\ session = [s \in Sessions |-> Closed]
    /\ runs = [l \in Loops |-> [succeeded |-> 0, failed |-> 0, proposed |-> 0]]
    /\ tray = [l \in Loops |-> 0]
    /\ fires = [l \in Loops |-> [answered |-> {}, contested |-> {}, again |-> {}]]

-----------------------------------------------------------------------------
(* The analyst's endpoints                                                 *)

Succeeded(s, l) == {r \in session[s].rows : r.loop = l /\ r.status = "succeeded"}
Failed(s, l) == {r \in session[s].rows : r.loop = l /\ r.status = "failed"}

\* The row lock of a loop is held from the UPDATE of its last_run_at to the commit.
LoopLocked(l) == \E s \in Sessions : Succeeded(s, l) # {}

create_loop(l, state) ==
    /\ loop[l].state = "absent"
    /\ loop' = [loop EXCEPT ![l].state = state]
    /\ UNCHANGED <<opsClock, session, runs, tray, fires>>

\* A PATCH may change schedule_cron, too, which is left out: Fires is one schedule.
update_loop(l, state) ==
    /\ loop[l].state \notin {"absent", state}
    /\ ~LoopLocked(l)
    /\ loop' = [loop EXCEPT ![l].state = state]
    /\ UNCHANGED <<opsClock, session, runs, tray, fires>>

Opened(tick, todo) ==
    [Closed EXCEPT !.tick = tick, !.start = opsClock, !.todo = todo]

\* By hand a loop runs whatever its schedule and state.
run_now(s, l) ==
    /\ session[s] = Closed
    /\ loop[l].state # "absent"
    /\ session' = [session EXCEPT ![s] = Opened(FALSE, {l})]
    /\ UNCHANGED <<opsClock, loop, runs, tray, fires>>

-----------------------------------------------------------------------------
(* The dispatcher                                                          *)

\* croniter: the next time after the start of the window is not in the future.
FiredBefore(l, now) == {f \in Fires[l] : f <= now /\ f + Window > now}

\* Variant of RanInWindow for mutation: nobody looks at last_run_at.
RanInWindowUnchecked(l, now) == FALSE

RanInWindow(l, now) == loop[l].last # 0 /\ loop[l].last + Window >= now

DueLoops(now) == {l \in Loops : /\ loop[l].state = "active"
                                /\ FiredBefore(l, now) # {}
                                /\ ~RanInWindow(l, now)}

\* All loops are read, with their last_run_at, before the first of them is run.
dispatch_start(s) ==
    /\ session[s] = Closed
    /\ DueLoops(opsClock) # {}
    /\ session' = [session EXCEPT ![s] = Opened(TRUE, DueLoops(opsClock))]
    /\ fires' = [l \in Loops |->
                    IF l \in DueLoops(opsClock)
                    THEN [fires[l] EXCEPT !.again =
                            @ \union (FiredBefore(l, opsClock) \intersect fires[l].answered)]
                    ELSE fires[l]]
    /\ UNCHANGED <<opsClock, loop, runs, tray>>

-----------------------------------------------------------------------------
(* One run of a loop                                                       *)

\* The model has answered, with its proposals; without an API key it proposes nothing.
\* last_run_at is stamped, but its UPDATE may have to wait for the row.
ask_llm(s, l, count) ==
    /\ l \in session[s].todo
    /\ session[s].answer = {}
    /\ session' = [session EXCEPT ![s].todo = @ \ {l},
                                  ![s].answer = {Run(l, "succeeded", opsClock, count)}]
    /\ UNCHANGED <<opsClock, loop, runs, tray, fires>>

\* A failure of the model is kept as a failed run, proposes nothing and stamps nothing.
run_failed(s, l) ==
    /\ l \in session[s].todo
    /\ session[s].answer = {}
    /\ session' = [session EXCEPT ![s].todo = @ \ {l},
                                  ![s].rows = @ \union {Run(l, "failed", 0, 0)}]
    /\ UNCHANGED <<opsClock, loop, runs, tray, fires>>

\* Variant of run_flush for mutation: the proposals are committed with each loop.
run_flush_committed(s) ==
    /\ \E r \in session[s].answer :
        /\ ~LoopLocked(r.loop)
        /\ session' = [session EXCEPT ![s].rows = @ \union {r}, ![s].answer = {}]
        /\ tray' = [tray EXCEPT ![r.loop] = @ + r.count]
    /\ UNCHANGED <<opsClock, loop, runs, fires>>

run_flush(s) ==
    /\ \E r \in session[s].answer :
        /\ ~LoopLocked(r.loop)
        /\ session' = [session EXCEPT ![s].rows = @ \union {r}, ![s].answer = {}]
    /\ UNCHANGED <<opsClock, loop, runs, tray, fires>>

Stamped(s, l) == IF Succeeded(s, l) = {} THEN loop[l].last
                 ELSE (CHOOSE r \in Succeeded(s, l) : TRUE).stamp
Asked(s, l) == IF Succeeded(s, l) = {} THEN 0
               ELSE (CHOOSE r \in Succeeded(s, l) : TRUE).count

RunRows == FoldSet(LAMBDA l, n : n + runs[l].succeeded + runs[l].failed, 0, Loops)

\* Another run of the loop has its stamp and waits to write or to commit it.
Contested(s, l) ==
    \E q \in Sessions \ {s} : \E r \in session[q].answer \union session[q].rows :
        r.loop = l /\ r.status = "succeeded"

Taken(s, l) ==
    LET fired == FiredBefore(l, session[s].start) IN
    [fires[l] EXCEPT !.answered = @ \union fired,
                     !.contested = IF Contested(s, l) THEN @ \union fired ELSE @]

\* One commit for all loops of a tick.
run_commit(s) ==
    /\ session[s].rows # {}
    /\ session[s].todo = {} /\ session[s].answer = {}
    /\ RunRows + Cardinality(session[s].rows) <= MaxRuns
    /\ runs' = [l \in Loops |->
                    [succeeded |-> runs[l].succeeded + Cardinality(Succeeded(s, l)),
                     failed |-> runs[l].failed + Cardinality(Failed(s, l)),
                     proposed |-> runs[l].proposed + Asked(s, l)]]
    /\ loop' = [l \in Loops |-> [loop[l] EXCEPT !.last = Stamped(s, l)]]
    /\ tray' = [l \in Loops |-> tray[l] + Asked(s, l)]
    /\ fires' = [l \in Loops |-> IF session[s].tick /\ Succeeded(s, l) # {} THEN Taken(s, l)
                                ELSE fires[l]]
    /\ session' = [session EXCEPT ![s] = Closed]
    /\ UNCHANGED opsClock

\* A failing statement, a deadlock or a lost worker takes the whole session with it.
run_abort(s) ==
    /\ session[s] # Closed
    /\ session' = [session EXCEPT ![s] = Closed]
    /\ UNCHANGED <<opsClock, loop, runs, tray, fires>>

ClockTick ==
    /\ opsClock < MaxOpsTime
    /\ opsClock' = opsClock + 1
    /\ UNCHANGED <<loop, session, runs, tray, fires>>

-----------------------------------------------------------------------------
RunStep(s) ==
    \/ dispatch_start(s)
    \/ \E l \in Loops : \/ run_now(s, l)
                        \/ run_failed(s, l)
                        \/ \E k \in Proposals : ask_llm(s, l, k)
    \/ run_flush(s)
    \/ run_commit(s)
    \/ run_abort(s)

OpsNext ==
    \/ \E l \in Loops, state \in LoopStates \ {"absent"} :
        create_loop(l, state) \/ update_loop(l, state)
    \/ \E s \in Sessions : RunStep(s)
    \/ ClockTick

OpsSpec == OpsInit /\ [][OpsNext]_opsVars

-----------------------------------------------------------------------------
(* Properties                                                              *)

\* A fire that a tick has answered with a succeeded run is taken up again by a tick
\* that starts after that commit only if, at the commit, another run of the loop had its
\* stamp already and was not committed: late ticks, ticks that crowd and runs by hand
\* that were stamped before or later do no harm.
FireAnsweredOnce == \A l \in Loops : fires[l].again \subseteq fires[l].contested

\* "Don't re-fire if the loop already ran since window_start" (ops_loop_tasks.py:54): no
\* tick takes up a fire that was answered before it started.
NeverFiredAgain == \A l \in Loops : fires[l].again = {}

\* What a loop has put before the owner is what its committed runs report, and a loop
\* without a committed run has proposed nothing, although one failing loop undoes all
\* runs of its tick.
ProposalsOnRecord ==
    \A l \in Loops :
        /\ tray[l] = runs[l].proposed
        /\ runs[l].succeeded = 0 <=> loop[l].last = 0

\* The invariant of the loops: well-formed rows, and a tray that the runs account for.
OpsInv == OpsTypeOK /\ ProposalsOnRecord

=============================================================================
