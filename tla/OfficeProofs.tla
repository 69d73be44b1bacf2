---------------------------- MODULE OfficeProofs ----------------------------
(***************************************************************************)
(* Proofs about what agents and the assistant propose and people decide,   *)
(* for any loops, sessions, decisions, actions and requests.               *)
(*                                                                         *)
(* The loops: a tick takes up no fire that was answered before it began    *)
(* and while no other run of the loop was stamped and uncommitted, because *)
(* neither last_run_at nor a stamp on its way ever falls behind such a     *)
(* fire (Kept), which needs that a run is stamped no earlier than its tick *)
(* began; and the tray holds what the runs on record proposed.             *)
(* The decisions: what is decided is what the log says last, because a     *)
(* request carries what it read until it writes.                           *)
(* The assistant: what was carried out is on record, an action is carried  *)
(* out no more often than there are requests, what is decided settles, and *)
(* the questions and answers of the conversation alternate; and the tray   *)
(* implements Docket.                                                      *)
(***************************************************************************)
EXTENDS OpsLoops, CooActions, Decisions, FiniteSetTheorems, SequenceTheorems, TLAPS

(* When a loop is due                                                      *)

RunRecords == [loop: Loops, status: RunStatuses, stamp: Nat, count: Nat]
SessionRecords == [tick: BOOLEAN, start: Nat, todo: SUBSET Loops, answer: SUBSET RunRecords,
                   rows: SUBSET RunRecords]
FireRecords == [answered: SUBSET Nat, contested: SUBSET Nat, again: SUBSET Nat]

FireTypes ==
    /\ opsClock \in Nat \ {0}
    /\ loop \in [Loops -> [state: LoopStates, last: Nat]]
    /\ session \in [Sessions -> SessionRecords]
    /\ fires \in [Loops -> FireRecords]

\* A run of a session that will be, or is, on record with its stamp.
StampedRuns(t) == {r \in t.answer \union t.rows : r.status = "succeeded"}

\* A session began in the past and stamps its runs after that, none in the future.
Stamps ==
    \A s \in Sessions :
        /\ session[s].start <= opsClock
        /\ \A r \in StampedRuns(session[s]) : r.stamp # 0 /\ session[s].start <= r.stamp

\* The fires that were answered while no other run of the loop was under way.
Uncontested(l) == fires[l].answered \ fires[l].contested

\* Neither last_run_at nor any stamp that is still to be committed is before a settled
\* fire.
Kept ==
    \A l \in Loops : \A f \in Uncontested(l) :
        /\ f <= loop[l].last
        /\ f <= opsClock
        /\ \A s \in Sessions : \A r \in StampedRuns(session[s]) : r.loop = l => f <= r.stamp

FireInv == FireTypes /\ Stamps /\ Kept /\ FireAnsweredOnce

-----------------------------------------------------------------------------
\* The fires of a window are times, none is 0, and all are up to its end.
LEMMA FiredBeforeBounds ==
    ASSUME NEW l \in Loops, NEW now \in Nat, NEW f \in FiredBefore(l, now)
    PROVE  f \in Nat \ {0} /\ f <= now /\ f + Window > now
  BY OpsAssumption DEF FiredBefore

\* A loop that is due has no settled fire in its window (DueLoops, the dispatcher's look
\* at last_run_at).
LEMMA DueIsUnsettled ==
    ASSUME FireTypes, Kept, NEW l \in DueLoops(opsClock)
    PROVE  FiredBefore(l, opsClock) \intersect Uncontested(l) = {}
<1>1. l \in Loops /\ ~RanInWindow(l, opsClock)
  BY DEF DueLoops
<1>2. SUFFICES ASSUME NEW f \in FiredBefore(l, opsClock), f \in Uncontested(l)
               PROVE  FALSE
  OBVIOUS
<1>3. f \in Nat \ {0} /\ f + Window > opsClock
  BY <1>1, FiredBeforeBounds DEF FireTypes
<1>4. loop[l].last \in Nat /\ f <= loop[l].last
  BY <1>1, <1>2 DEF Kept, FireTypes
<1> QED
  BY <1>1, <1>3, <1>4, OpsAssumption DEF RanInWindow, FireTypes

LEMMA ClosedIsSession == Closed \in SessionRecords /\ StampedRuns(Closed) = {} /\ Closed.start = 0
  BY DEF Closed, SessionRecords, StampedRuns

LEMMA OpenedIsSession ==
    ASSUME FireTypes, NEW tick \in BOOLEAN, NEW todo \in SUBSET Loops
    PROVE  /\ Opened(tick, todo) \in SessionRecords
           /\ StampedRuns(Opened(tick, todo)) = {}
           /\ Opened(tick, todo).start = opsClock
  BY DEF FireTypes, Closed, Opened, SessionRecords, StampedRuns

\* A step of one session that has only runs it had before and runs that are stamped by
\* now, and that began in the past.
LEMMA SessionStepPreserves ==
    ASSUME FireInv, NEW s \in Sessions, NEW t \in SessionRecords,
           session' = [session EXCEPT ![s] = t],
           UNCHANGED opsClock,
           t.start <= opsClock,
           \A r \in StampedRuns(t) :
              r.stamp = opsClock \/ (r \in StampedRuns(session[s]) /\ t.start = session[s].start)
    PROVE  /\ session' \in [Sessions -> SessionRecords]
           /\ Stamps'
           /\ UNCHANGED <<loop, fires>> => FireInv'
<1> USE DEF FireInv
<1>1. session' \in [Sessions -> SessionRecords]
  BY DEF FireTypes
<1>2. session'[s] = t /\ \A q \in Sessions \ {s} : session'[q] = session[q]
  BY DEF FireTypes
<1>3. opsClock \in Nat \ {0}
  BY DEF FireTypes
<1>4. Stamps'
  <2> SUFFICES ASSUME NEW q \in Sessions
               PROVE  /\ session'[q].start <= opsClock
                      /\ \A r \in StampedRuns(session'[q]) :
                            r.stamp # 0 /\ session'[q].start <= r.stamp
    BY DEF Stamps
  <2>1. CASE q = s
    BY <1>2, <1>3, <2>1 DEF Stamps
  <2>2. CASE q # s
    BY <1>2, <2>2 DEF Stamps
  <2> QED
    BY <2>1, <2>2
<1>5. ASSUME UNCHANGED <<loop, fires>>
      PROVE  FireInv'
  <2>1. FireTypes'
    BY <1>1, <1>5 DEF FireTypes
  <2>2. ASSUME NEW l \in Loops, NEW f \in Uncontested(l), NEW q \in Sessions,
               NEW r \in StampedRuns(session'[q]), r.loop = l
        PROVE  f <= r.stamp
    <3>1. CASE q = s
      BY <1>2, <2>2, <3>1 DEF Kept
    <3>2. CASE q # s
      BY <1>2, <2>2, <3>2 DEF Kept
    <3> QED
      BY <3>1, <3>2
  <2>3. Kept'
    BY <1>5, <2>2 DEF Kept, Uncontested
  <2>4. FireAnsweredOnce'
    BY <1>5 DEF FireAnsweredOnce
  <2> QED
    BY <1>4, <2>1, <2>3, <2>4
<1> QED
  BY <1>1, <1>4, <1>5

\* A tick that starts takes up no settled fire.
LEMMA DispatchPreserves ==
    ASSUME FireInv, NEW s \in Sessions, dispatch_start(s)
    PROVE  FireInv'
<1> USE DEF FireInv
<1> DEFINE t == Opened(TRUE, DueLoops(opsClock))
           new(l) == FiredBefore(l, opsClock) \intersect fires[l].answered
<1>1. /\ t \in SessionRecords /\ t.start = opsClock /\ StampedRuns(t) = {}
      /\ session' = [session EXCEPT ![s] = t] /\ UNCHANGED <<opsClock, loop>>
  BY OpenedIsSession DEF DueLoops, dispatch_start
<1> HIDE DEF t
<1>2. opsClock \in Nat /\ t.start <= opsClock
  <2>1. opsClock \in Nat
    BY DEF FireTypes
  <2> QED
    BY <1>1, <2>1
<1>3. session' \in [Sessions -> SessionRecords] /\ Stamps'
  BY <1>1, <1>2, SessionStepPreserves
<1>4. \A l \in Loops : /\ fires'[l] \in FireRecords
                       /\ fires'[l].answered = fires[l].answered
                       /\ fires'[l].contested = fires[l].contested
                       /\ \/ fires'[l].again = fires[l].again
                          \/ l \in DueLoops(opsClock) /\ fires'[l].again = fires[l].again \union new(l)
  BY DEF dispatch_start, FireTypes, FireRecords
<1>5. \A l \in DueLoops(opsClock) : new(l) \subseteq fires[l].contested
  BY DueIsUnsettled DEF Uncontested
<1>6. FireAnsweredOnce'
  BY <1>4, <1>5 DEF FireAnsweredOnce
<1>7. FireTypes'
  <2>1. fires' = [l \in Loops |-> fires'[l]]
    BY DEF dispatch_start
  <2> QED
    BY <1>1, <1>3, <1>4, <2>1 DEF FireTypes
<1>8. \A q \in Sessions : StampedRuns(session'[q]) \subseteq StampedRuns(session[q])
  BY <1>1 DEF FireTypes
<1>9. Kept'
  BY <1>1, <1>4, <1>8 DEF Kept, Uncontested
<1> QED
  BY <1>3, <1>6, <1>7, <1>9

-----------------------------------------------------------------------------
\* The stamp a commit leaves is the one there was, or that of a succeeded run.
LEMMA StampedValue ==
    ASSUME FireInv, NEW s \in Sessions, NEW l \in Loops
    PROVE  /\ Stamped(s, l) \in Nat
           /\ Succeeded(s, l) = {} => Stamped(s, l) = loop[l].last
           /\ Succeeded(s, l) # {} =>
                \E r \in StampedRuns(session[s]) :
                    /\ r.loop = l /\ Stamped(s, l) = r.stamp
                    /\ r.stamp # 0 /\ session[s].start <= r.stamp
<1>1. CASE Succeeded(s, l) = {}
  BY <1>1 DEF Stamped, FireInv, FireTypes
<1>2. CASE Succeeded(s, l) # {}
  <2> DEFINE r == CHOOSE x \in Succeeded(s, l) : TRUE
  <2>1. r \in Succeeded(s, l)
    BY <1>2
  <2>2. r \in StampedRuns(session[s]) /\ r.loop = l /\ r \in RunRecords
    BY <2>1 DEF Succeeded, StampedRuns, FireInv, FireTypes, SessionRecords
  <2>3. r.stamp \in Nat /\ r.stamp # 0 /\ session[s].start <= r.stamp
    BY <2>2 DEF FireInv, Stamps, RunRecords
  <2>4. Stamped(s, l) = r.stamp
    BY <1>2 DEF Stamped
  <2> QED
    BY <1>2, <2>2, <2>3, <2>4
<1> QED
  BY <1>1, <1>2

LEMMA CommitPreserves ==
    ASSUME FireInv, NEW s \in Sessions, run_commit(s)
    PROVE  FireInv'
<1> USE DEF FireInv
<1>1. session' = [session EXCEPT ![s] = Closed] /\ UNCHANGED opsClock /\ opsClock \in Nat
  BY DEF run_commit, FireTypes
<1>2. session' \in [Sessions -> SessionRecords] /\ Stamps'
  <2>1. Closed \in SessionRecords /\ Closed.start <= opsClock
    BY <1>1, ClosedIsSession
  <2>2. StampedRuns(Closed) = {}
    BY ClosedIsSession
  <2> QED
    BY <1>1, <2>1, <2>2, SessionStepPreserves
<1>3. /\ loop' \in [Loops -> [state: LoopStates, last: Nat]]
      /\ \A l \in Loops : loop'[l].last = Stamped(s, l)
  <2>1. \A l \in Loops : [loop[l] EXCEPT !.last = Stamped(s, l)] \in [state: LoopStates, last: Nat]
    BY StampedValue DEF FireTypes
  <2>2. loop' = [l \in Loops |-> [loop[l] EXCEPT !.last = Stamped(s, l)]]
    BY DEF run_commit
  <2>3. \A l \in Loops : [loop[l] EXCEPT !.last = Stamped(s, l)].last = Stamped(s, l)
    BY DEF FireTypes
  <2> QED
    BY <2>1, <2>2, <2>3
<1>4. ASSUME NEW l \in Loops
      PROVE  /\ fires'[l] \in FireRecords
             /\ fires'[l].again = fires[l].again
             /\ fires[l].contested \subseteq fires'[l].contested
             /\ \A f \in Uncontested(l)' \ Uncontested(l) :
                  /\ Succeeded(s, l) # {} /\ ~Contested(s, l)
                  /\ f \in FiredBefore(l, session[s].start)
  <2>1. fires[l] \in FireRecords /\ session[s].start \in Nat
    BY DEF FireTypes, SessionRecords
  <2>2. FiredBefore(l, session[s].start) \subseteq Nat
    BY <2>1, FiredBeforeBounds
  <2>3. fires'[l] = IF session[s].tick /\ Succeeded(s, l) # {} THEN Taken(s, l) ELSE fires[l]
    BY DEF run_commit
  <2>4. CASE fires'[l] = fires[l]
    BY <2>1, <2>4 DEF Uncontested
  <2>5. CASE fires'[l] = Taken(s, l) /\ Succeeded(s, l) # {}
    <3>1. /\ Taken(s, l) \in FireRecords
          /\ Taken(s, l).again = fires[l].again
          /\ Taken(s, l).answered = fires[l].answered \union FiredBefore(l, session[s].start)
          /\ Taken(s, l).contested =
                IF Contested(s, l) THEN fires[l].contested \union FiredBefore(l, session[s].start)
                ELSE fires[l].contested
      BY <2>1, <2>2 DEF Taken, FireRecords
    <3> QED
      BY <2>5, <3>1 DEF Uncontested
  <2> QED
    BY <2>3, <2>4, <2>5
<1>5. FireTypes'
  <2>1. fires' = [l \in Loops |-> fires'[l]]
    BY DEF run_commit
  <2> QED
    BY <1>1, <1>2, <1>3, <1>4, <2>1 DEF FireTypes
<1>6. \A q \in Sessions : /\ q # s => session'[q] = session[q]
                          /\ StampedRuns(session'[q]) \subseteq StampedRuns(session[q])
                          /\ q = s => StampedRuns(session'[q]) = {}
  BY <1>1, ClosedIsSession DEF FireTypes
<1>7. ASSUME NEW l \in Loops, NEW f \in Uncontested(l)'
      PROVE  /\ f \in Nat /\ f <= loop'[l].last /\ f <= opsClock
             /\ \A q \in Sessions : \A r \in StampedRuns(session'[q]) : r.loop = l => f <= r.stamp
  <2>1. f \in Nat
    BY <1>4 DEF Uncontested, FireRecords
  <2>2. CASE f \in Uncontested(l)
    <3>1. f <= Stamped(s, l)
      BY <2>2, StampedValue DEF Kept
    <3> QED
      BY <1>3, <1>6, <2>1, <2>2, <3>1 DEF Kept
  <2>3. CASE f \notin Uncontested(l)
    <3>1. Succeeded(s, l) # {} /\ ~Contested(s, l) /\ f \in FiredBefore(l, session[s].start)
      BY <1>4, <1>7, <2>3
    <3>2. session[s].start \in Nat /\ session[s].start <= opsClock
      BY DEF FireTypes, SessionRecords, Stamps
    <3>3. f <= session[s].start
      BY <3>1, <3>2, FiredBeforeBounds
    <3>4. Stamped(s, l) \in Nat /\ session[s].start <= Stamped(s, l)
      BY <3>1, StampedValue
    <3>5. \A q \in Sessions : \A r \in StampedRuns(session'[q]) : r.loop # l
      BY <1>6, <3>1 DEF Contested, StampedRuns
    <3> QED
      BY <1>1, <1>3, <2>1, <3>2, <3>3, <3>4, <3>5
  <2> QED
    BY <2>2, <2>3
<1>8. Kept'
  BY <1>1, <1>7 DEF Kept
<1>9. FireAnsweredOnce'
  BY <1>4 DEF FireAnsweredOnce
<1> QED
  BY <1>2, <1>5, <1>8, <1>9

-----------------------------------------------------------------------------
LEMMA FireInvInit == OpsInit => FireInv
<1> SUFFICES ASSUME OpsInit PROVE FireInv
  OBVIOUS
<1>1. FireTypes
  BY ClosedIsSession DEF OpsInit, FireTypes, FireRecords, LoopStates
<1> QED
  BY <1>1, ClosedIsSession DEF OpsInit, FireInv, Stamps, Kept, Uncontested, FireAnsweredOnce

LEMMA FireInvNext == FireInv /\ [OpsNext]_opsVars => FireInv'
<1> SUFFICES ASSUME FireInv, [OpsNext]_opsVars PROVE FireInv'
  OBVIOUS
<1> USE DEF FireInv
<1>1. ASSUME NEW l \in Loops, NEW state \in LoopStates, create_loop(l, state) \/ update_loop(l, state)
      PROVE  FireInv'
  <2>1. \A k \in Loops : loop'[k].last = loop[k].last
    BY <1>1 DEF create_loop, update_loop, FireTypes
  <2>2. FireTypes'
    BY <1>1 DEF create_loop, update_loop, FireTypes
  <2>3. UNCHANGED <<opsClock, session, fires>>
    BY <1>1 DEF create_loop, update_loop
  <2> QED
    BY <2>1, <2>2, <2>3 DEF Stamps, Kept, Uncontested, FireAnsweredOnce
<1>2. ASSUME NEW s \in Sessions, dispatch_start(s)
      PROVE  FireInv'
  BY <1>2, DispatchPreserves
<1>3. ASSUME NEW s \in Sessions, NEW l \in Loops, run_now(s, l)
      PROVE  FireInv'
  <2> DEFINE t == Opened(FALSE, {l})
  <2>1. t \in SessionRecords /\ StampedRuns(t) = {} /\ t.start = opsClock
    BY OpenedIsSession
  <2>2. session' = [session EXCEPT ![s] = t] /\ UNCHANGED <<opsClock, loop, fires>>
    BY <1>3 DEF run_now
  <2>3. opsClock \in Nat
    BY DEF FireTypes
  <2> HIDE DEF t
  <2>4. t.start <= opsClock
    BY <2>1, <2>3
  <2> QED
    BY <2>1, <2>2, <2>4, SessionStepPreserves
<1>4. ASSUME NEW s \in Sessions, NEW l \in Loops, NEW k \in Proposals, ask_llm(s, l, k)
      PROVE  FireInv'
  <2> DEFINE r == Run(l, "succeeded", opsClock, k)
             t == [session[s] EXCEPT !.todo = @ \ {l}, !.answer = {r}]
  <2>1. session[s] \in SessionRecords /\ r \in RunRecords /\ session[s].start <= opsClock
    BY OpsAssumption DEF FireTypes, Stamps, Run, RunRecords, RunStatuses
  <2>2. t \in SessionRecords /\ session' = [session EXCEPT ![s] = t]
    BY <1>4, <2>1 DEF ask_llm, SessionRecords, FireTypes
  <2>3. t.start = session[s].start /\ t.answer = {r} /\ t.rows = session[s].rows
    BY <2>1 DEF SessionRecords
  <2>4. r.stamp = opsClock
    BY DEF Run
  <2> HIDE DEF t, r
  <2>5. \A x \in StampedRuns(t) : x.stamp = opsClock \/ x \in StampedRuns(session[s])
    BY <2>3, <2>4 DEF StampedRuns
  <2> QED
    BY <1>4, <2>1, <2>2, <2>3, <2>5, SessionStepPreserves DEF ask_llm
<1>5. ASSUME NEW s \in Sessions, NEW l \in Loops, run_failed(s, l)
      PROVE  FireInv'
  <2> DEFINE r == Run(l, "failed", 0, 0)
             t == [session[s] EXCEPT !.todo = @ \ {l}, !.rows = @ \union {r}]
  <2>1. session[s] \in SessionRecords /\ r \in RunRecords /\ session[s].start <= opsClock
    BY DEF FireTypes, Stamps, Run, RunRecords, RunStatuses
  <2>2. t \in SessionRecords /\ session' = [session EXCEPT ![s] = t]
    BY <1>5, <2>1 DEF run_failed, SessionRecords, FireTypes
  <2>3. /\ t.start = session[s].start
        /\ t.answer = session[s].answer /\ t.rows = session[s].rows \union {r}
    BY <2>1 DEF SessionRecords
  <2>4. r.status = "failed"
    BY DEF Run
  <2>5. UNCHANGED <<opsClock, loop, fires>>
    BY <1>5 DEF run_failed
  <2> HIDE DEF t, r
  <2>6. \A x \in StampedRuns(t) : x \in StampedRuns(session[s])
    BY <2>3, <2>4 DEF StampedRuns
  <2> QED
    BY <2>1, <2>2, <2>3, <2>5, <2>6, SessionStepPreserves
<1>6. ASSUME NEW s \in Sessions, run_flush(s)
      PROVE  FireInv'
  <2>1. PICK r \in session[s].answer :
            session' = [session EXCEPT ![s].rows = @ \union {r}, ![s].answer = {}]
    BY <1>6 DEF run_flush
  <2> DEFINE t == [session[s] EXCEPT !.rows = @ \union {r}, !.answer = {}]
  <2>2. session[s] \in SessionRecords /\ r \in RunRecords /\ session[s].start <= opsClock
    BY DEF FireTypes, Stamps, SessionRecords
  <2>3. t \in SessionRecords /\ session' = [session EXCEPT ![s] = t]
    BY <2>1, <2>2 DEF SessionRecords, FireTypes
  <2>4. t.start = session[s].start /\ t.answer = {} /\ t.rows = session[s].rows \union {r}
    BY <2>2 DEF SessionRecords
  <2> HIDE DEF t
  <2>5. \A x \in StampedRuns(t) : x \in StampedRuns(session[s])
    BY <2>1, <2>4 DEF StampedRuns
  <2> QED
    BY <1>6, <2>2, <2>3, <2>4, <2>5, SessionStepPreserves DEF run_flush
<1>7. ASSUME NEW s \in Sessions, run_commit(s)
      PROVE  FireInv'
  BY <1>7, CommitPreserves
<1>8. ASSUME NEW s \in Sessions, run_abort(s)
      PROVE  FireInv'
  <2>1. opsClock \in Nat
    BY DEF FireTypes
  <2>2. Closed \in SessionRecords /\ Closed.start <= opsClock
    BY <2>1, ClosedIsSession
  <2>3. session' = [session EXCEPT ![s] = Closed] /\ UNCHANGED <<opsClock, loop, fires>>
    BY <1>8 DEF run_abort
  <2>4. StampedRuns(Closed) = {}
    BY ClosedIsSession
  <2> QED
    BY <2>2, <2>3, <2>4, SessionStepPreserves
<1>9. CASE ClockTick
  <2>1. UNCHANGED <<loop, session, fires>> /\ opsClock' = opsClock + 1
    BY <1>9 DEF ClockTick
  <2>2. opsClock \in Nat /\ \A s \in Sessions : session[s].start \in Nat
    BY DEF FireTypes, SessionRecords
  <2>3. \A l \in Loops : Uncontested(l)' = Uncontested(l) /\ Uncontested(l) \subseteq Nat
    BY <2>1 DEF Uncontested, FireTypes, FireRecords
  <2>4. FireTypes' /\ FireAnsweredOnce'
    BY <2>1, <2>2 DEF FireTypes, FireAnsweredOnce
  <2>5. Stamps'
    BY <2>1, <2>2 DEF Stamps
  <2>6. Kept'
    BY <2>1, <2>2, <2>3 DEF Kept
  <2> QED
    BY <2>4, <2>5, <2>6
<1>10. CASE UNCHANGED opsVars
  BY <1>10 DEF opsVars, FireTypes, Stamps, Kept, Uncontested, FireAnsweredOnce
<1> QED
  BY <1>1, <1>2, <1>3, <1>4, <1>5, <1>6, <1>7, <1>8, <1>9, <1>10 DEF OpsNext, RunStep

\* Every reachable state of the loops satisfies the inductive invariant.
THEOREM FireInvariant == OpsSpec => []FireInv
  BY FireInvInit, FireInvNext, PTL DEF OpsSpec

\* A tick takes up a fire that was answered before it began only if another run of the
\* loop was stamped and not committed when it was answered (_dispatch_async).
THEOREM FireAnsweredOnceHolds == OpsSpec => []FireAnsweredOnce
<1>1. FireInv => FireAnsweredOnce
  BY DEF FireInv
<1> QED
  BY <1>1, FireInvariant, PTL

-----------------------------------------------------------------------------
(* What the loops propose                                                  *)

OpsRuns == [loop: Loops, status: RunStatuses, stamp: 0..MaxOpsTime, count: Proposals \union {0}]

\* A session runs each of its loops once, the model answering for one of them at a time.
RunsOnce(t) ==
    /\ t.answer \union t.rows \subseteq OpsRuns
    /\ IsFiniteSet(t.rows)
    /\ t.answer = {} \/ \E r \in OpsRuns : t.answer = {r}
    /\ \A q, r \in t.answer \union t.rows : q.loop = r.loop => q = r
    /\ \A r \in t.answer \union t.rows : r.loop \notin t.todo

OpsIInv ==
    /\ FireInv
    /\ opsClock \in 1..MaxOpsTime
    /\ loop \in [Loops -> [state: LoopStates, last: 0..MaxOpsTime]]
    /\ runs \in [Loops -> [succeeded: Nat, failed: Nat, proposed: Nat]]
    /\ tray \in [Loops -> Nat]
    /\ \A s \in Sessions : RunsOnce(session[s])
    /\ ProposalsOnRecord

LEMMA ClosedRunsOnce == RunsOnce(Closed)
<1>1. Closed.answer = {} /\ Closed.rows = {}
  BY DEF Closed
<1> QED
  BY <1>1, FS_EmptySet DEF RunsOnce

\* A step of one session that commits nothing.
LEMMA OpenSession ==
    ASSUME OpsIInv, FireInv', NEW s \in Sessions, NEW t,
           session' = [session EXCEPT ![s] = t], RunsOnce(t),
           UNCHANGED <<opsClock, loop, runs, tray>>
    PROVE  OpsIInv'
<1>1. session \in [Sessions -> SessionRecords]
  BY DEF OpsIInv, FireInv, FireTypes
<1>2. \A q \in Sessions : RunsOnce(session'[q])
  BY <1>1 DEF OpsIInv
<1> QED
  BY <1>2 DEF OpsIInv, ProposalsOnRecord

LEMMA AskPreserves ==
    ASSUME OpsIInv, FireInv', NEW s \in Sessions, NEW l \in Loops, NEW k \in Proposals,
           ask_llm(s, l, k)
    PROVE  OpsIInv'
<1> DEFINE r == Run(l, "succeeded", opsClock, k)
           t == [session[s] EXCEPT !.todo = @ \ {l}, !.answer = {r}]
<1>1. session[s] \in SessionRecords /\ session \in [Sessions -> SessionRecords]
  BY DEF OpsIInv, FireInv, FireTypes
<1>2. r \in OpsRuns /\ r.loop = l
  BY OpsAssumption DEF OpsIInv, Run, OpsRuns, RunStatuses
<1>3. /\ t.todo = session[s].todo \ {l} /\ t.answer = {r} /\ t.rows = session[s].rows
  BY <1>1 DEF SessionRecords
<1>4. session' = [session EXCEPT ![s] = t] /\ UNCHANGED <<opsClock, loop, runs, tray>>
  BY <1>1 DEF ask_llm
<1>5. l \in session[s].todo /\ session[s].answer = {} /\ RunsOnce(session[s])
  BY DEF ask_llm, OpsIInv
<1> HIDE DEF t, r
<1>6. RunsOnce(t)
  BY <1>2, <1>3, <1>5 DEF RunsOnce
<1> QED
  BY <1>4, <1>6, OpenSession

LEMMA FailedPreserves ==
    ASSUME OpsIInv, FireInv', NEW s \in Sessions, NEW l \in Loops, run_failed(s, l)
    PROVE  OpsIInv'
<1> DEFINE r == Run(l, "failed", 0, 0)
           t == [session[s] EXCEPT !.todo = @ \ {l}, !.rows = @ \union {r}]
<1>1. session[s] \in SessionRecords /\ session \in [Sessions -> SessionRecords]
  BY DEF OpsIInv, FireInv, FireTypes
<1>2. r \in OpsRuns /\ r.loop = l
  BY OpsAssumption DEF Run, OpsRuns, RunStatuses
<1>3. /\ t.todo = session[s].todo \ {l} /\ t.answer = session[s].answer
      /\ t.rows = session[s].rows \union {r}
  BY <1>1 DEF SessionRecords
<1>4. session' = [session EXCEPT ![s] = t] /\ UNCHANGED <<opsClock, loop, runs, tray>>
  BY <1>1 DEF run_failed
<1>5. l \in session[s].todo /\ session[s].answer = {} /\ RunsOnce(session[s])
  BY DEF run_failed, OpsIInv
<1> HIDE DEF t, r
<1>6. IsFiniteSet(t.rows)
  BY <1>3, <1>5, FS_AddElement DEF RunsOnce
<1>7. RunsOnce(t)
  BY <1>2, <1>3, <1>5, <1>6 DEF RunsOnce
<1> QED
  BY <1>4, <1>7, OpenSession

LEMMA FlushedPreserves ==
    ASSUME OpsIInv, FireInv', NEW s \in Sessions, run_flush(s)
    PROVE  OpsIInv'
<1>1. session[s] \in SessionRecords /\ session \in [Sessions -> SessionRecords]
  BY DEF OpsIInv, FireInv, FireTypes
<1>2. PICK r \in session[s].answer :
            session' = [session EXCEPT ![s].rows = @ \union {r}, ![s].answer = {}]
  BY DEF run_flush
<1> DEFINE t == [session[s] EXCEPT !.rows = @ \union {r}, !.answer = {}]
<1>3. t.todo = session[s].todo /\ t.answer = {} /\ t.rows = session[s].rows \union {r}
  BY <1>1 DEF SessionRecords
<1>4. session' = [session EXCEPT ![s] = t] /\ UNCHANGED <<opsClock, loop, runs, tray>>
  BY <1>1, <1>2 DEF run_flush
<1>5. RunsOnce(session[s])
  BY DEF OpsIInv
<1> HIDE DEF t
<1>6. IsFiniteSet(t.rows)
  BY <1>3, <1>5, FS_AddElement DEF RunsOnce
<1>7. RunsOnce(t)
  BY <1>3, <1>5, <1>6 DEF RunsOnce
<1> QED
  BY <1>4, <1>7, OpenSession

\* What a commit adds of one loop: a stamp and a report exactly when a run has succeeded.
LEMMA CommitAdds ==
    ASSUME OpsIInv, NEW s \in Sessions, NEW l \in Loops
    PROVE  /\ Stamped(s, l) \in 0..MaxOpsTime /\ Asked(s, l) \in Nat
           /\ Cardinality(Succeeded(s, l)) \in Nat /\ Cardinality(Failed(s, l)) \in Nat
           /\ Cardinality(Succeeded(s, l)) = 0 =>
                Stamped(s, l) = loop[l].last /\ Asked(s, l) = 0
           /\ Cardinality(Succeeded(s, l)) # 0 => Stamped(s, l) # 0
<1>1. Succeeded(s, l) \in SUBSET session[s].rows /\ Failed(s, l) \in SUBSET session[s].rows
  BY DEF Succeeded, Failed
<1>2. IsFiniteSet(session[s].rows) /\ session[s].rows \subseteq OpsRuns
  BY DEF OpsIInv, RunsOnce
<1>3. /\ IsFiniteSet(Succeeded(s, l))
      /\ Cardinality(Succeeded(s, l)) \in Nat /\ Cardinality(Failed(s, l)) \in Nat
  BY <1>1, <1>2, FS_Subset, FS_CardinalityType
<1>4. loop[l].last \in 0..MaxOpsTime
  BY DEF OpsIInv
<1>5. CASE Succeeded(s, l) = {}
  BY <1>3, <1>4, <1>5, FS_EmptySet DEF Stamped, Asked
<1>6. CASE Succeeded(s, l) # {}
  <2> DEFINE r == CHOOSE x \in Succeeded(s, l) : TRUE
  <2>1. r \in OpsRuns
    BY <1>1, <1>2, <1>6
  <2>2. r.stamp \in 0..MaxOpsTime /\ r.count \in Nat
    <3>1. \A x \in OpsRuns : x.stamp \in 0..MaxOpsTime /\ x.count \in Proposals \union {0}
      BY DEF OpsRuns
    <3>2. r.stamp \in 0..MaxOpsTime /\ r.count \in Proposals \union {0}
      BY <2>1, <3>1
    <3>3. Proposals \union {0} \subseteq Nat
      BY OpsAssumption
    <3> QED
      BY <3>2, <3>3
  <2>3. Stamped(s, l) = r.stamp /\ Asked(s, l) = r.count
    BY <1>6 DEF Stamped, Asked
  <2>4. Cardinality(Succeeded(s, l)) # 0
    BY <1>3, <1>6, FS_EmptySet
  <2>5. Stamped(s, l) # 0
    BY <1>6, StampedValue DEF OpsIInv
  <2> HIDE DEF r
  <2> QED
    BY <1>3, <2>2, <2>3, <2>4, <2>5
<1> QED
  BY <1>5, <1>6

LEMMA CommittedPreserves ==
    ASSUME OpsIInv, FireInv', NEW s \in Sessions, run_commit(s)
    PROVE  OpsIInv'
<1>1. \A l \in Loops : loop'[l] = [loop[l] EXCEPT !.last = Stamped(s, l)]
  BY DEF run_commit
<1>2. loop' \in [Loops -> [state: LoopStates, last: 0..MaxOpsTime]]
  <2>1. \A l \in Loops : [loop[l] EXCEPT !.last = Stamped(s, l)] \in [state: LoopStates, last: 0..MaxOpsTime]
    BY CommitAdds DEF OpsIInv
  <2> QED
    BY <2>1 DEF run_commit
<1>3. runs' \in [Loops -> [succeeded: Nat, failed: Nat, proposed: Nat]]
  <2>1. ASSUME NEW l \in Loops
        PROVE  /\ runs[l].succeeded + Cardinality(Succeeded(s, l)) \in Nat
               /\ runs[l].failed + Cardinality(Failed(s, l)) \in Nat
               /\ runs[l].proposed + Asked(s, l) \in Nat
    <3>1. runs[l].succeeded \in Nat /\ runs[l].failed \in Nat /\ runs[l].proposed \in Nat
      BY DEF OpsIInv
    <3> QED
      BY <3>1, CommitAdds
  <2> QED
    BY <2>1 DEF run_commit
<1>4. tray' \in [Loops -> Nat]
  <2>1. ASSUME NEW l \in Loops PROVE tray[l] + Asked(s, l) \in Nat
    BY CommitAdds DEF OpsIInv
  <2> QED
    BY <2>1 DEF run_commit
<1>5. ASSUME NEW q \in Sessions PROVE RunsOnce(session'[q])
  <2>1. session' = [session EXCEPT ![s] = Closed] /\ session \in [Sessions -> SessionRecords]
    BY DEF run_commit, OpsIInv, FireInv, FireTypes
  <2> QED
    BY <2>1, ClosedRunsOnce DEF OpsIInv
<1>6. ProposalsOnRecord'
  <2> SUFFICES ASSUME NEW l \in Loops
               PROVE  /\ tray'[l] = runs'[l].proposed
                      /\ runs'[l].succeeded = 0 <=> loop'[l].last = 0
    BY DEF ProposalsOnRecord
  <2>1. tray[l] = runs[l].proposed /\ (runs[l].succeeded = 0 <=> loop[l].last = 0)
    BY DEF OpsIInv, ProposalsOnRecord
  <2>2. runs[l].succeeded \in Nat /\ loop[l].last \in 0..MaxOpsTime
    BY DEF OpsIInv
  <2>3. loop'[l].last = Stamped(s, l)
    BY <1>1 DEF OpsIInv
  <2>4. /\ runs'[l].succeeded = runs[l].succeeded + Cardinality(Succeeded(s, l))
        /\ runs'[l].proposed = runs[l].proposed + Asked(s, l)
    <3>1. runs' = [k \in Loops |->
                    [succeeded |-> runs[k].succeeded + Cardinality(Succeeded(s, k)),
                     failed |-> runs[k].failed + Cardinality(Failed(s, k)),
                     proposed |-> runs[k].proposed + Asked(s, k)]]
      BY DEF run_commit
    <3> QED
      BY <3>1
  <2>5. tray'[l] = tray[l] + Asked(s, l)
    BY DEF run_commit
  <2>6. /\ Cardinality(Succeeded(s, l)) \in Nat
        /\ Cardinality(Succeeded(s, l)) = 0 => Stamped(s, l) = loop[l].last
        /\ Cardinality(Succeeded(s, l)) # 0 => Stamped(s, l) # 0
    BY CommitAdds
  <2> QED
    BY <2>1, <2>2, <2>3, <2>4, <2>5, <2>6
<1>7. opsClock' = opsClock
  BY DEF run_commit
<1> QED
  BY <1>2, <1>3, <1>4, <1>5, <1>6, <1>7 DEF OpsIInv

LEMMA OpsIInvInit == OpsInit => OpsIInv
<1> SUFFICES ASSUME OpsInit PROVE OpsIInv
  OBVIOUS
<1>1. FireInv
  BY FireInvInit
<1>2. \A s \in Sessions : RunsOnce(session[s])
  BY ClosedRunsOnce DEF OpsInit
<1> QED
  BY <1>1, <1>2, OpsAssumption DEF OpsInit, OpsIInv, ProposalsOnRecord, LoopStates

LEMMA OpsIInvNext == OpsIInv /\ [OpsNext]_opsVars => OpsIInv'
<1> SUFFICES ASSUME OpsIInv, [OpsNext]_opsVars PROVE OpsIInv'
  OBVIOUS
<1>0. FireInv'
  BY FireInvNext DEF OpsIInv
<1>1. ASSUME NEW l \in Loops, NEW state \in LoopStates, create_loop(l, state) \/ update_loop(l, state)
      PROVE  OpsIInv'
  <2>0. /\ loop' = [loop EXCEPT ![l].state = state]
        /\ loop \in [Loops -> [state: LoopStates, last: 0..MaxOpsTime]]
    BY <1>1 DEF create_loop, update_loop, OpsIInv
  <2>1. loop' \in [Loops -> [state: LoopStates, last: 0..MaxOpsTime]]
    BY <2>0
  <2>2. \A k \in Loops : loop'[k].last = loop[k].last
    BY <2>0
  <2>3. UNCHANGED <<opsClock, session, runs, tray>>
    BY <1>1 DEF create_loop, update_loop
  <2>4. ProposalsOnRecord'
    BY <2>2, <2>3 DEF OpsIInv, ProposalsOnRecord
  <2>5. \A s \in Sessions : RunsOnce(session'[s])
    BY <2>3 DEF OpsIInv
  <2> QED
    BY <1>0, <2>1, <2>3, <2>4, <2>5 DEF OpsIInv
<1>2. ASSUME NEW s \in Sessions, NEW tick, NEW todo,
             session' = [session EXCEPT ![s] = Opened(tick, todo)],
             UNCHANGED <<opsClock, loop, runs, tray>>
      PROVE  OpsIInv'
  <2>1. Opened(tick, todo).answer = {} /\ Opened(tick, todo).rows = {}
    BY DEF Opened, Closed
  <2>2. RunsOnce(Opened(tick, todo))
    BY <2>1, FS_EmptySet DEF RunsOnce
  <2> QED
    BY <1>0, <1>2, <2>2, OpenSession
<1>3. ASSUME NEW s \in Sessions, dispatch_start(s) PROVE OpsIInv'
  BY <1>2, <1>3 DEF dispatch_start
<1>4. ASSUME NEW s \in Sessions, NEW l \in Loops, run_now(s, l) PROVE OpsIInv'
  BY <1>2, <1>4 DEF run_now
<1>5. ASSUME NEW s \in Sessions, NEW l \in Loops, NEW k \in Proposals, ask_llm(s, l, k)
      PROVE  OpsIInv'
  BY <1>0, <1>5, AskPreserves
<1>6. ASSUME NEW s \in Sessions, NEW l \in Loops, run_failed(s, l) PROVE OpsIInv'
  BY <1>0, <1>6, FailedPreserves
<1>7. ASSUME NEW s \in Sessions, run_flush(s) PROVE OpsIInv'
  BY <1>0, <1>7, FlushedPreserves
<1>8. ASSUME NEW s \in Sessions, run_commit(s) PROVE OpsIInv'
  BY <1>0, <1>8, CommittedPreserves
<1>9. ASSUME NEW s \in Sessions, run_abort(s) PROVE OpsIInv'
  BY <1>0, <1>9, ClosedRunsOnce, OpenSession DEF run_abort
<1>10. CASE ClockTick
  <2>1. opsClock' \in 1..MaxOpsTime
    BY <1>10, OpsAssumption DEF ClockTick, OpsIInv
  <2> QED
    BY <1>0, <1>10, <2>1 DEF ClockTick, OpsIInv, ProposalsOnRecord
<1>11. CASE UNCHANGED opsVars
  BY <1>0, <1>11 DEF opsVars, OpsIInv, ProposalsOnRecord
<1> QED
  BY <1>1, <1>3, <1>4, <1>5, <1>6, <1>7, <1>8, <1>9, <1>10, <1>11 DEF OpsNext, RunStep

\* Every reachable state of the loops satisfies the inductive invariant: a session runs
\* each of its loops once, and nothing of it is before the owner until it commits.
THEOREM OpsInvariant == OpsSpec => []OpsIInv
  BY OpsIInvInit, OpsIInvNext, PTL DEF OpsSpec

\* What a loop has put before the owner (coo_actions of source "ops_loop") is what its
\* committed runs report, and last_run_at says whether one has succeeded.
THEOREM OpsInvHolds == OpsSpec => []OpsInv
<1>1. OpsIInv => OpsInv
  <2> SUFFICES ASSUME OpsIInv PROVE OpsTypeOK
    BY DEF OpsIInv, OpsInv
  <2>1. ASSUME NEW s \in Sessions
        PROVE  /\ session[s].todo \subseteq Loops
               /\ Cardinality(session[s].answer) <= 1
               /\ session[s].answer \union session[s].rows \subseteq OpsRuns
    <3>1. RunsOnce(session[s]) /\ session[s] \in SessionRecords
      BY DEF OpsIInv, FireInv, FireTypes
    <3>2. Cardinality(session[s].answer) \in {0, 1}
      BY <3>1, FS_EmptySet, FS_Singleton DEF RunsOnce
    <3> QED
      BY <3>1, <3>2 DEF RunsOnce, SessionRecords
  <2> QED
    BY <2>1 DEF OpsIInv, OpsTypeOK, OpsRuns
<1> QED
  BY <1>1, OpsInvariant, PTL

-----------------------------------------------------------------------------
(* What is decided                                                         *)

\* What an open request has read: an approval a pending decision without an approver, an
\* approval of an add-back an approver only if the log has an approval of it.
RequestsKnow ==
    \A r \in Handlers : LET q == request[r] IN
        q.verb # "none" =>
            /\ q.on \in Subjects(q.verb) /\ q.user \in Analysts /\ q.files \subseteq Evidence
            /\ q.verb = "approve_decision" => q.read.status = "pending" /\ q.read.by = Nobody
            /\ q.verb = "reject_decision" => q.read.status \in DecisionStatuses
            /\ q.verb = "approve_addback" => (q.read.by # Nobody => EntriesOn(q.on) # {})

\* The inductive invariant of the decisions: a decision that is pending has no approver.
DecisionsIInv ==
    /\ DecisionsInv
    /\ request = [r \in Handlers |-> request[r]]
    /\ RequestsKnow
    /\ \A d \in Decisions : decision[d].status = "pending" => decision[d].by = Nobody

-----------------------------------------------------------------------------
\* Appending an entry adds its position to what the log has on its subject and leaves
\* everything else where it was.
LEMMA AuditGrows ==
    ASSUME DecisionsTypeOK, NEW e \in AuditRows, audit' = Append(audit, e)
    PROVE  /\ audit' \in Seq(AuditRows)
           /\ Len(audit') = Len(audit) + 1
           /\ DOMAIN audit = 1..Len(audit) /\ DOMAIN audit' = DOMAIN audit \union {Len(audit)+1}
           /\ audit'[Len(audit) + 1] = e
           /\ \A i \in DOMAIN audit : audit'[i] = audit[i] /\ i < Len(audit) + 1
           /\ Len(audit) \in Nat
  BY DEF DecisionsTypeOK

LEMMA EntriesGrow ==
    ASSUME DecisionsTypeOK, NEW e \in AuditRows, audit' = Append(audit, e), NEW x
    PROVE  /\ EntriesOn(x)' = IF e.on = x THEN EntriesOn(x) \union {Len(audit) + 1}
                               ELSE EntriesOn(x)
           /\ ChangesOf(x)' = IF e.on = x /\ e.before # e.after
                               THEN ChangesOf(x) \union {Len(audit) + 1} ELSE ChangesOf(x)
           /\ ApprovalsOf(x)' = IF e.on = x /\ e.event = "decision.approved"
                                 THEN ApprovalsOf(x) \union {Len(audit) + 1}
                                 ELSE ApprovalsOf(x)
<1>1. /\ DOMAIN audit' = DOMAIN audit \union {Len(audit)+1}
      /\ audit'[Len(audit) + 1] = e
      /\ \A i \in DOMAIN audit : audit'[i] = audit[i]
  BY AuditGrows
<1>2. EntriesOn(x)' = IF e.on = x THEN EntriesOn(x) \union {Len(audit) + 1} ELSE EntriesOn(x)
  BY <1>1 DEF EntriesOn
<1>3. \A i \in EntriesOn(x) : i \in DOMAIN audit
  BY DEF EntriesOn
<1> QED
  BY <1>1, <1>2, <1>3 DEF ChangesOf, ApprovalsOf

\* A decision stays on record through an entry e, if its row takes over what e changes.
LEMMA DecisionStaysOnRecord ==
    ASSUME DecisionsTypeOK, DecisionOnRecord, NEW e \in AuditRows, audit' = Append(audit, e),
           \A d \in Decisions :
              /\ decision'[d].status = IF e.on = d /\ e.before # e.after THEN e.after
                                       ELSE decision[d].status
              /\ decision'[d].by = IF e.on = d /\ e.event = "decision.approved" THEN e.user
                                   ELSE decision[d].by
    PROVE  DecisionOnRecord'
<1> DEFINE n == Len(audit) + 1
<1> SUFFICES ASSUME NEW d \in Decisions
             PROVE  /\ ChangesOf(d)' = {} => decision'[d].status = "pending"
                    /\ \A i \in DOMAIN audit' :
                        IsLast(i, ChangesOf(d)') => decision'[d].status = audit'[i].after
                    /\ ApprovalsOf(d)' = {} => decision'[d].by = Nobody
                    /\ \A i \in DOMAIN audit' :
                        IsLast(i, ApprovalsOf(d)') => decision'[d].by = audit'[i].user
  BY DEF DecisionOnRecord, IsLast
<1>1. /\ n \in Nat
      /\ DOMAIN audit' = DOMAIN audit \union {n}
      /\ audit'[n] = e
      /\ \A i \in DOMAIN audit : audit'[i] = audit[i] /\ i < n /\ i \in Nat
  BY AuditGrows
<1>2. ChangesOf(d) \subseteq DOMAIN audit /\ ApprovalsOf(d) \subseteq DOMAIN audit
  BY DEF ChangesOf, ApprovalsOf, EntriesOn
<1>3. \A rows \in SUBSET DOMAIN audit, i \in DOMAIN audit' :
        /\ IsLast(i, rows \union {n}) => i = n
        /\ IsLast(i, rows) => i \in DOMAIN audit
  <2> HIDE DEF n
  <2> SUFFICES ASSUME NEW rows \in SUBSET DOMAIN audit, NEW i \in DOMAIN audit'
               PROVE  /\ IsLast(i, rows \union {n}) => i = n
                      /\ IsLast(i, rows) => i \in DOMAIN audit
    OBVIOUS
  <2>1. i \in DOMAIN audit => i < n /\ i \in Nat
    BY <1>1
  <2>2. ~(i < n /\ n <= i /\ i \in Nat)
    BY <1>1
  <2> QED
    BY <1>1, <2>1, <2>2 DEF IsLast
<1> HIDE DEF n
<1>4. /\ ChangesOf(d)' = {} => decision'[d].status = "pending"
      /\ \A i \in DOMAIN audit' :
          IsLast(i, ChangesOf(d)') => decision'[d].status = audit'[i].after
  <2>1. CASE e.on = d /\ e.before # e.after
    <3>1. ChangesOf(d)' = ChangesOf(d) \union {n}
      BY <2>1, EntriesGrow DEF n
    <3>2. \A i \in DOMAIN audit' : IsLast(i, ChangesOf(d)') => i = n
      BY <3>1, <1>2, <1>3
    <3>3. ChangesOf(d)' # {}
      BY <3>1
    <3> QED
      BY <2>1, <3>2, <3>3, <1>1
  <2>2. CASE ~(e.on = d /\ e.before # e.after)
    <3>1. ChangesOf(d)' = ChangesOf(d)
      BY <2>2, EntriesGrow
    <3> QED
      BY <2>2, <3>1, <1>1, <1>2, <1>3 DEF DecisionOnRecord
  <2> QED
    BY <2>1, <2>2
<1>5. /\ ApprovalsOf(d)' = {} => decision'[d].by = Nobody
      /\ \A i \in DOMAIN audit' :
          IsLast(i, ApprovalsOf(d)') => decision'[d].by = audit'[i].user
  <2>1. CASE e.on = d /\ e.event = "decision.approved"
    <3>1. ApprovalsOf(d)' = ApprovalsOf(d) \union {n}
      BY <2>1, EntriesGrow DEF n
    <3>2. \A i \in DOMAIN audit' : IsLast(i, ApprovalsOf(d)') => i = n
      BY <3>1, <1>2, <1>3
    <3>3. ApprovalsOf(d)' # {}
      BY <3>1
    <3> QED
      BY <2>1, <3>2, <3>3, <1>1
  <2>2. CASE ~(e.on = d /\ e.event = "decision.approved")
    <3>1. ApprovalsOf(d)' = ApprovalsOf(d)
      BY <2>2, EntriesGrow
    <3> QED
      BY <2>2, <3>1, <1>1, <1>2, <1>3 DEF DecisionOnRecord
  <2> QED
    BY <2>1, <2>2
<1> QED
  BY <1>4, <1>5

\* An add-back stays on record through an entry on it if it takes its user over or has an
\* approver on record already, and through any other entry if it stays as it is.
LEMMA AddbackStaysOnRecord ==
    ASSUME DecisionsTypeOK, AddbackOnRecord, NEW e \in AuditRows, audit' = Append(audit, e),
           \A a \in Addbacks :
              IF e.on = a
              THEN addback'[a] = e.user \/ (EntriesOn(a) # {} /\ addback'[a] = addback[a])
              ELSE addback'[a] = addback[a]
    PROVE  AddbackOnRecord'
<1> DEFINE n == Len(audit) + 1
           Signed(a) == {audit[i].user : i \in EntriesOn(a)}
<1> SUFFICES ASSUME NEW a \in Addbacks
             PROVE  IF Signed(a)' = {} THEN addback'[a] = Nobody ELSE addback'[a] \in Signed(a)'
  BY DEF AddbackOnRecord
<1>1. audit'[n] = e /\ \A i \in DOMAIN audit : audit'[i] = audit[i]
  BY AuditGrows
<1>2. EntriesOn(a) \subseteq DOMAIN audit
  BY DEF EntriesOn
<1>3. Signed(a)' = Signed(a) \union IF e.on = a THEN {e.user} ELSE {}
  <2>1. EntriesOn(a)' = IF e.on = a THEN EntriesOn(a) \union {n} ELSE EntriesOn(a)
    BY EntriesGrow
  <2> QED
    BY <1>1, <1>2, <2>1
<1>4. EntriesOn(a) # {} => Signed(a) # {}
  OBVIOUS
<1>5. IF Signed(a) = {} THEN addback[a] = Nobody ELSE addback[a] \in Signed(a)
  BY DEF AddbackOnRecord
<1> QED
  BY <1>3, <1>4, <1>5

-----------------------------------------------------------------------------
\* A request that ends, with an entry in the log or without, leaves what the others know.
LEMMA RequestEnds ==
    ASSUME DecisionsIInv, NEW r \in Handlers, request' = [request EXCEPT ![r] = NoHandler],
           \A x : EntriesOn(x) # {} => EntriesOn(x)' # {}
    PROVE  /\ RequestsKnow'
           /\ request' = [q \in Handlers |-> request'[q]]
           /\ \A q \in Handlers : request'[q].verb \in Verbs \union {"none"}
<1>1. \A q \in Handlers : request'[q] = IF q = r THEN NoHandler ELSE request[q]
  BY DEF DecisionsIInv
<1>2. request' = [q \in Handlers |-> request'[q]]
  BY DEF DecisionsIInv
<1>3. NoHandler.verb = "none"
  BY DEF NoHandler
<1>4. ASSUME NEW q \in Handlers, request'[q].verb # "none"
      PROVE  request'[q] = request[q]
  BY <1>1, <1>3, <1>4
<1>5. RequestsKnow'
  BY <1>4 DEF DecisionsIInv, RequestsKnow, Subjects
<1> QED
  BY <1>1, <1>2, <1>3, <1>5 DEF DecisionsIInv, DecisionsInv, DecisionsTypeOK

\* What the kinds of request are about, spelled out.
LEMMA SubjectsAre ==
    /\ Subjects("approve_decision") = Decisions
    /\ Subjects("reject_decision") = Decisions
    /\ Subjects("approve_addback") = Addbacks
    /\ Subjects("create_qoe_run") = {"qoe"}
  BY DEF Subjects

\* A step that logs an entry and keeps rows and log in line keeps the invariant.
LEMMA LoggedPreserves ==
    ASSUME DecisionsIInv, NEW r \in Handlers, NEW e \in AuditRows,
           audit' = Append(audit, e), Answered(r), DecisionsTypeOK',
           \A d \in Decisions :
              /\ decision'[d].status = IF e.on = d /\ e.before # e.after THEN e.after
                                       ELSE decision[d].status
              /\ decision'[d].by = IF e.on = d /\ e.event = "decision.approved" THEN e.user
                                   ELSE decision[d].by
              /\ decision'[d].status = "pending" => decision'[d].by = Nobody,
           \A a \in Addbacks :
              IF e.on = a
              THEN addback'[a] = e.user \/ (EntriesOn(a) # {} /\ addback'[a] = addback[a])
              ELSE addback'[a] = addback[a]
    PROVE  DecisionsIInv'
<1>1. DecisionsTypeOK
  BY DEF DecisionsIInv, DecisionsInv
<1>2. DecisionOnRecord'
  BY <1>1, DecisionStaysOnRecord DEF DecisionsIInv, DecisionsInv
<1>3. AddbackOnRecord'
  BY <1>1, AddbackStaysOnRecord DEF DecisionsIInv, DecisionsInv
<1>4. \A x : EntriesOn(x) # {} => EntriesOn(x)' # {}
  BY <1>1, EntriesGrow
<1>5. RequestsKnow' /\ request' = [q \in Handlers |-> request'[q]]
  BY <1>4, RequestEnds DEF Answered
<1> QED
  BY <1>2, <1>3, <1>5 DEF DecisionsIInv, DecisionsInv

LEMMA ApproveDecisionPreserves ==
    ASSUME DecisionsIInv, NEW r \in Handlers, approve_decision(r)
    PROVE  DecisionsIInv'
<1> DEFINE q == request[r]
           e == [event |-> "decision.approved", on |-> q.on, user |-> q.user,
                 before |-> q.read.status, after |-> "approved"]
<1>1. DecisionsTypeOK
  BY DEF DecisionsIInv, DecisionsInv
<1>2. /\ q.on \in Decisions /\ q.user \in Analysts
      /\ q.read.status = "pending" /\ q.read.by = Nobody
  BY SubjectsAre DEF DecisionsIInv, RequestsKnow, approve_decision
<1>3. q.on \notin Addbacks /\ q.user # Nobody
  BY <1>2, DecisionsAssumption
<1>4. e \in AuditRows /\ audit' = Append(audit, e)
  BY <1>2 DEF AuditRows, DecisionStatuses, approve_decision, Logged
<1>5. decision' = [decision EXCEPT ![q.on] = [status |-> "approved", by |-> q.user]]
  BY <1>2, <1>3 DEF approve_decision, Written
<1>6. DecisionsTypeOK'
  <2>1. decision' \in [Decisions -> [status: DecisionStatuses, by: Analysts \union {Nobody}]]
    BY <1>1, <1>2, <1>5 DEF DecisionsTypeOK, DecisionStatuses
  <2>2. audit' \in Seq(AuditRows) /\ Len(audit') = Len(audit) + 1 /\ Len(audit) \in Nat
    BY <1>1, <1>4, AuditGrows
  <2>3. /\ Len(audit) < MaxAudit /\ request' = [request EXCEPT ![r] = NoHandler]
        /\ UNCHANGED <<addback, package, filed>>
    BY DEF approve_decision, Answered
  <2>4. \A x \in Handlers : request'[x].verb \in Verbs \union {"none"}
    BY <2>3, <1>1 DEF DecisionsIInv, DecisionsTypeOK, NoHandler
  <2> QED
    BY <1>1, <2>1, <2>2, <2>3, <2>4, DecisionsAssumption DEF DecisionsTypeOK
<1>7. \A d \in Decisions : decision'[d] = IF d = q.on THEN [status |-> "approved", by |-> q.user]
                                          ELSE decision[d]
  BY <1>1, <1>5 DEF DecisionsTypeOK
<1>8. Answered(r) /\ addback' = addback
  BY DEF approve_decision
<1>9. /\ e.on = q.on /\ e.before = "pending" /\ e.after = "approved"
      /\ e.event = "decision.approved" /\ e.user = q.user
  BY <1>2
<1>10. \A d \in Decisions : decision[d].status = "pending" => decision[d].by = Nobody
  BY DEF DecisionsIInv
<1>11. \A a \in Addbacks : e.on # a
  BY <1>3, <1>9
<1> HIDE DEF e, q
<1> QED
  BY <1>4, <1>6, <1>7, <1>8, <1>9, <1>10, <1>11, LoggedPreserves

LEMMA RejectDecisionPreserves ==
    ASSUME DecisionsIInv, NEW r \in Handlers, reject_decision(r)
    PROVE  DecisionsIInv'
<1> DEFINE q == request[r]
           e == [event |-> "decision.rejected", on |-> q.on, user |-> q.user,
                 before |-> q.read.status, after |-> "rejected"]
<1>1. DecisionsTypeOK
  BY DEF DecisionsIInv, DecisionsInv
<1>2. q.on \in Decisions /\ q.user \in Analysts /\ q.read.status \in DecisionStatuses
  BY SubjectsAre DEF DecisionsIInv, RequestsKnow, reject_decision
<1>3. q.on \notin Addbacks
  BY <1>2, DecisionsAssumption
<1>4. e \in AuditRows /\ audit' = Append(audit, e)
  BY <1>2 DEF AuditRows, DecisionStatuses, reject_decision, Logged
<1>5. decision' = [decision EXCEPT
                    ![q.on].status = IF "rejected" = q.read.status THEN @ ELSE "rejected"]
  BY DEF reject_decision, Written
<1>6. DecisionsTypeOK'
  <2>1. decision' \in [Decisions -> [status: DecisionStatuses, by: Analysts \union {Nobody}]]
    BY <1>1, <1>2, <1>5 DEF DecisionsTypeOK, DecisionStatuses
  <2>2. audit' \in Seq(AuditRows) /\ Len(audit') = Len(audit) + 1 /\ Len(audit) \in Nat
    BY <1>1, <1>4, AuditGrows
  <2>3. /\ Len(audit) < MaxAudit /\ request' = [request EXCEPT ![r] = NoHandler]
        /\ UNCHANGED <<addback, package, filed>>
    BY DEF reject_decision, Answered
  <2>4. \A x \in Handlers : request'[x].verb \in Verbs \union {"none"}
    BY <2>3, <1>1 DEF DecisionsIInv, DecisionsTypeOK, NoHandler
  <2> QED
    BY <1>1, <2>1, <2>2, <2>3, <2>4, DecisionsAssumption DEF DecisionsTypeOK
<1>7. \A d \in Decisions :
        /\ decision'[d].by = decision[d].by
        /\ decision'[d].status = IF d = q.on /\ q.read.status # "rejected" THEN "rejected"
                                 ELSE decision[d].status
  BY <1>1, <1>5 DEF DecisionsTypeOK
<1>8. Answered(r) /\ addback' = addback
  BY DEF reject_decision
<1>9. /\ e.on = q.on /\ e.before = q.read.status /\ e.after = "rejected"
      /\ e.event = "decision.rejected" /\ e.user = q.user
  OBVIOUS
<1>10. \A d \in Decisions : decision[d].status = "pending" => decision[d].by = Nobody
  BY DEF DecisionsIInv
<1>11. \A a \in Addbacks : e.on # a
  BY <1>3, <1>9
<1> HIDE DEF e, q
<1> QED
  BY <1>4, <1>6, <1>7, <1>8, <1>9, <1>10, <1>11, LoggedPreserves

LEMMA ApproveAddbackPreserves ==
    ASSUME DecisionsIInv, NEW r \in Handlers, approve_addback(r)
    PROVE  DecisionsIInv'
<1> DEFINE q == request[r]
           e == [event |-> "esop_adjustment.approved", on |-> q.on, user |-> q.user,
                 before |-> "", after |-> q.user]
<1>1. DecisionsTypeOK
  BY DEF DecisionsIInv, DecisionsInv
<1>2. /\ q.on \in Addbacks /\ q.user \in Analysts
      /\ q.read.by # Nobody => EntriesOn(q.on) # {}
  BY SubjectsAre DEF DecisionsIInv, RequestsKnow, approve_addback
<1>3. q.on \notin Decisions /\ q.user # Nobody
  BY <1>2, DecisionsAssumption
<1>4. e \in AuditRows /\ audit' = Append(audit, e)
  BY <1>2 DEF AuditRows, approve_addback, Logged
<1>5. addback' = [addback EXCEPT ![q.on] = IF q.user = q.read.by THEN @ ELSE q.user]
  BY DEF approve_addback, Written
<1>6. DecisionsTypeOK'
  <2>1. addback' \in [Addbacks -> Analysts \union {Nobody}]
    BY <1>1, <1>2, <1>5 DEF DecisionsTypeOK
  <2>2. audit' \in Seq(AuditRows) /\ Len(audit') = Len(audit) + 1 /\ Len(audit) \in Nat
    BY <1>1, <1>4, AuditGrows
  <2>3. /\ Len(audit) < MaxAudit /\ request' = [request EXCEPT ![r] = NoHandler]
        /\ UNCHANGED <<decision, package, filed>>
    BY DEF approve_addback, Answered
  <2>4. \A x \in Handlers : request'[x].verb \in Verbs \union {"none"}
    BY <2>3, <1>1 DEF DecisionsIInv, DecisionsTypeOK, NoHandler
  <2> QED
    BY <1>1, <2>1, <2>2, <2>3, <2>4, DecisionsAssumption DEF DecisionsTypeOK
<1>7. \A a \in Addbacks :
        addback'[a] = IF a = q.on /\ q.user # q.read.by THEN q.user ELSE addback[a]
  BY <1>1, <1>5 DEF DecisionsTypeOK
<1>8. Answered(r) /\ decision' = decision
  BY DEF approve_addback
<1>9. e.on = q.on /\ e.user = q.user /\ e.event = "esop_adjustment.approved"
  OBVIOUS
<1>10. \A d \in Decisions : decision[d].status = "pending" => decision[d].by = Nobody
  BY DEF DecisionsIInv
<1>11. \A d \in Decisions : e.on # d
  BY <1>3, <1>9
<1> HIDE DEF e, q
<1>12. \A a \in Addbacks :
         IF e.on = a
         THEN addback'[a] = e.user \/ (EntriesOn(a) # {} /\ addback'[a] = addback[a])
         ELSE addback'[a] = addback[a]
  BY <1>2, <1>3, <1>7, <1>9
<1> QED
  BY <1>4, <1>6, <1>8, <1>10, <1>11, <1>12, LoggedPreserves

LEMMA CreateQoeRunPreserves ==
    ASSUME DecisionsIInv, NEW r \in Handlers, create_qoe_run(r)
    PROVE  DecisionsIInv'
<1> DEFINE q == request[r]
           e == [event |-> "qoe_run.created", on |-> q.on, user |-> q.user,
                 before |-> "", after |-> "draft"]
<1>1. DecisionsTypeOK
  BY DEF DecisionsIInv, DecisionsInv
<1>2. q.on = "qoe" /\ q.user \in Analysts
  BY SubjectsAre DEF DecisionsIInv, RequestsKnow, create_qoe_run
<1>3. \A d \in Decisions \union Addbacks : q.on # d
  BY <1>2, DecisionsAssumption
<1>4. e \in AuditRows /\ audit' = Append(audit, e)
  BY <1>2 DEF AuditRows, create_qoe_run, Logged
<1>5. DecisionsTypeOK'
  <2>1. package' \in [status: {"absent", "draft", "approved"}, by: Analysts \union {Nobody},
                      bundle: SUBSET Evidence]
    BY <1>1 DEF DecisionsTypeOK, create_qoe_run
  <2>2. audit' \in Seq(AuditRows) /\ Len(audit') = Len(audit) + 1 /\ Len(audit) \in Nat
    BY <1>1, <1>4, AuditGrows
  <2>3. /\ Len(audit) < MaxAudit /\ request' = [request EXCEPT ![r] = NoHandler]
        /\ UNCHANGED <<decision, addback, filed>>
    BY DEF create_qoe_run, Answered
  <2>4. \A x \in Handlers : request'[x].verb \in Verbs \union {"none"}
    BY <2>3, <1>1 DEF DecisionsIInv, DecisionsTypeOK, NoHandler
  <2> QED
    BY <1>1, <2>1, <2>2, <2>3, <2>4, DecisionsAssumption DEF DecisionsTypeOK
<1>6. Answered(r) /\ UNCHANGED <<decision, addback>>
  BY DEF create_qoe_run
<1>7. \A d \in Decisions : decision[d].status = "pending" => decision[d].by = Nobody
  BY DEF DecisionsIInv
<1>8. \A d \in Decisions \union Addbacks : e.on # d
  BY <1>3
<1> HIDE DEF e, q
<1> QED
  BY <1>4, <1>5, <1>6, <1>7, <1>8, LoggedPreserves

\* Steps that log nothing and leave decisions and add-backs alone.
LEMMA UnloggedPreserves ==
    ASSUME DecisionsIInv, DecisionsTypeOK', RequestsKnow',
           request' = [r \in Handlers |-> request'[r]],
           UNCHANGED <<decision, addback, audit>>
    PROVE  DecisionsIInv'
<1>1. \A x : /\ EntriesOn(x)' = EntriesOn(x) /\ ChangesOf(x)' = ChangesOf(x)
             /\ ApprovalsOf(x)' = ApprovalsOf(x)
  BY DEF EntriesOn, ChangesOf, ApprovalsOf
<1>2. DecisionOnRecord'
  BY <1>1 DEF DecisionsIInv, DecisionsInv, DecisionOnRecord, IsLast
<1>3. AddbackOnRecord'
  BY <1>1 DEF DecisionsIInv, DecisionsInv, AddbackOnRecord
<1> QED
  BY <1>2, <1>3 DEF DecisionsIInv, DecisionsInv

LEMMA ReadPreserves ==
    ASSUME DecisionsIInv, NEW r \in Handlers, NEW verb \in Verbs, NEW on \in Subjects(verb),
           NEW user \in Analysts, handler_read(r, verb, on, user)
    PROVE  DecisionsIInv'
<1>1. DecisionsTypeOK
  BY DEF DecisionsIInv, DecisionsInv
<1> DEFINE new == [verb |-> verb, on |-> on, user |-> user,
                   read |-> Reading(verb, on), files |-> filed]
<1>2. \A q \in Handlers : request'[q] = IF q = r THEN new ELSE request[q]
  BY DEF DecisionsIInv, handler_read
<1>3. verb = "approve_decision" => new.read.status = "pending" /\ new.read.by = Nobody
  BY SubjectsAre DEF handler_read, Answerable, Reading, DecisionsIInv
<1>4. verb = "reject_decision" => new.read.status \in DecisionStatuses
  BY <1>1, SubjectsAre DEF Reading, DecisionsTypeOK
<1>5. verb = "approve_addback" => (new.read.by # Nobody => EntriesOn(on) # {})
  BY SubjectsAre DEF Reading, DecisionsIInv, DecisionsInv, AddbackOnRecord
<1>6. /\ new.verb = verb /\ new.on = on /\ new.user = user /\ new.files \subseteq Evidence
      /\ verb # "none"
  BY <1>1 DEF DecisionsTypeOK, Verbs
<1> HIDE DEF new
<1>7. UNCHANGED <<decision, addback, package, filed, audit>>
  BY DEF handler_read
<1>8. \A x : EntriesOn(x)' = EntriesOn(x)
  BY <1>7 DEF EntriesOn
<1>9. RequestsKnow'
  <2> SUFFICES ASSUME NEW p \in Handlers, request'[p].verb # "none"
               PROVE  LET q == request'[p] IN
                      /\ q.on \in Subjects(q.verb) /\ q.user \in Analysts /\ q.files \subseteq Evidence
                      /\ q.verb = "approve_decision" => q.read.status = "pending" /\ q.read.by = Nobody
                      /\ q.verb = "reject_decision" => q.read.status \in DecisionStatuses
                      /\ q.verb = "approve_addback" => (q.read.by # Nobody => EntriesOn(q.on) # {})
    BY <1>8 DEF RequestsKnow, Subjects
  <2>1. CASE p = r
    BY <2>1, <1>2, <1>3, <1>4, <1>5, <1>6
  <2>2. CASE p # r
    BY <2>2, <1>2 DEF DecisionsIInv, RequestsKnow
  <2> QED
    BY <2>1, <2>2
<1>10. request' = [q \in Handlers |-> request'[q]]
  BY DEF handler_read, DecisionsIInv
<1>11. DecisionsTypeOK'
  BY <1>1, <1>2, <1>6, <1>7 DEF DecisionsTypeOK
<1> QED
  BY <1>7, <1>9, <1>10, <1>11, UnloggedPreserves

LEMMA BuildPreserves ==
    ASSUME DecisionsIInv, NEW r \in Handlers, build_valuation_package(r)
    PROVE  DecisionsIInv'
<1>1. DecisionsTypeOK
  BY DEF DecisionsIInv, DecisionsInv
<1>2. request[r].user \in Analysts /\ request[r].files \subseteq Evidence
  BY DEF DecisionsIInv, RequestsKnow, build_valuation_package
<1>3. /\ UNCHANGED <<decision, addback, filed, audit>>
      /\ request' = [request EXCEPT ![r] = NoHandler]
  BY DEF build_valuation_package
<1>4. \A x : EntriesOn(x)' = EntriesOn(x)
  BY <1>3 DEF EntriesOn
<1>5. package' \in [status: {"absent", "draft", "approved"}, by: Analysts \union {Nobody},
                    bundle: SUBSET Evidence]
  BY <1>1, <1>2 DEF DecisionsTypeOK, build_valuation_package, Written
<1>6. /\ RequestsKnow' /\ request' = [q \in Handlers |-> request'[q]]
      /\ \A q \in Handlers : request'[q].verb \in Verbs \union {"none"}
  BY <1>3, <1>4, RequestEnds
<1>7. DecisionsTypeOK'
  BY <1>1, <1>3, <1>5, <1>6 DEF DecisionsTypeOK
<1> QED
  BY <1>3, <1>6, <1>7, UnloggedPreserves

LEMMA DecisionsIInvInit == DecisionsInit => DecisionsIInv
<1> SUFFICES ASSUME DecisionsInit PROVE DecisionsIInv
  OBVIOUS
<1>1. DOMAIN audit = {} /\ audit \in Seq(AuditRows) /\ Len(audit) = 0
  BY DEF DecisionsInit
<1>2. \A x : EntriesOn(x) = {} /\ ChangesOf(x) = {} /\ ApprovalsOf(x) = {}
  BY <1>1 DEF EntriesOn, ChangesOf, ApprovalsOf
<1>3. DecisionsTypeOK
  BY <1>1, DecisionsAssumption
  DEF DecisionsInit, DecisionsTypeOK, DecisionStatuses, NoHandler
<1>4. DecisionOnRecord /\ AddbackOnRecord
  BY <1>1, <1>2 DEF DecisionsInit, DecisionOnRecord, AddbackOnRecord
<1> QED
  BY <1>3, <1>4 DEF DecisionsInit, DecisionsIInv, DecisionsInv, RequestsKnow, NoHandler

LEMMA DecisionsIInvNext == DecisionsIInv /\ [DecisionsNext]_decisionVars => DecisionsIInv'
<1> SUFFICES ASSUME DecisionsIInv, [DecisionsNext]_decisionVars PROVE DecisionsIInv'
  OBVIOUS
<1>1. ASSUME NEW r \in Handlers, NEW verb \in Verbs, NEW user \in Analysts,
             NEW on \in Subjects(verb), handler_read(r, verb, on, user)
      PROVE  DecisionsIInv'
  BY <1>1, ReadPreserves
<1>2. ASSUME NEW r \in Handlers, handler_abort(r)
      PROVE  DecisionsIInv'
  <2>1. /\ UNCHANGED <<decision, addback, package, filed, audit>>
        /\ request' = [request EXCEPT ![r] = NoHandler]
    BY <1>2 DEF handler_abort
  <2>2. \A x : EntriesOn(x)' = EntriesOn(x)
    BY <2>1 DEF EntriesOn
  <2>3. /\ RequestsKnow' /\ request' = [q \in Handlers |-> request'[q]]
        /\ \A q \in Handlers : request'[q].verb \in Verbs \union {"none"}
    BY <2>1, <2>2, RequestEnds
  <2>4. DecisionsTypeOK'
    BY <2>1, <2>3 DEF DecisionsIInv, DecisionsInv, DecisionsTypeOK
  <2> QED
    BY <2>1, <2>3, <2>4, UnloggedPreserves
<1>3. ASSUME NEW f \in Evidence \ filed, evidence_filed(f)
      PROVE  DecisionsIInv'
  <2>1. UNCHANGED <<decision, addback, package, request, audit>> /\ filed' \subseteq Evidence
    BY <1>3 DEF evidence_filed, DecisionsIInv, DecisionsInv, DecisionsTypeOK
  <2>2. \A x : EntriesOn(x)' = EntriesOn(x)
    BY <2>1 DEF EntriesOn
  <2>3. RequestsKnow'
    BY <2>1, <2>2 DEF DecisionsIInv, RequestsKnow, Subjects
  <2> QED
    BY <2>1, <2>3, UnloggedPreserves DEF DecisionsIInv, DecisionsInv, DecisionsTypeOK
<1>4. CASE UNCHANGED decisionVars
  <2>1. UNCHANGED <<decision, addback, package, filed, request, audit>>
    BY <1>4 DEF decisionVars
  <2>2. \A x : EntriesOn(x)' = EntriesOn(x)
    BY <2>1 DEF EntriesOn
  <2>3. RequestsKnow'
    BY <2>1, <2>2 DEF DecisionsIInv, RequestsKnow, Subjects
  <2> QED
    BY <2>1, <2>3, UnloggedPreserves DEF DecisionsIInv, DecisionsInv, DecisionsTypeOK
<1> QED
  BY <1>1, <1>2, <1>3, <1>4, ApproveDecisionPreserves, RejectDecisionPreserves,
     ApproveAddbackPreserves, CreateQoeRunPreserves, BuildPreserves
  DEF DecisionsNext

\* Every reachable state of decisions, add-backs and package satisfies the inductive
\* invariant, whatever requests overlap.
THEOREM DecisionsInvariant == DecisionsSpec => []DecisionsIInv
  BY DecisionsIInvInit, DecisionsIInvNext, PTL DEF DecisionsSpec

\* The audit log tells the status and the approver of each decision and each add-back,
\* for any number of analysts and requests.
THEOREM DecisionsInvHolds == DecisionsSpec => []DecisionsInv
<1>1. DecisionsIInv => DecisionsInv
  BY DEF DecisionsIInv
<1> QED
  BY <1>1, DecisionsInvariant, PTL

-----------------------------------------------------------------------------
(* What the assistant proposes                                             *)

USE CooAssumption

LEMMA WatchersFinite ==
  ASSUME NEW a
  PROVE  /\ IsFiniteSet(Watchers(a))
         /\ Cardinality(Watchers(a)) \in Nat
         /\ Cardinality(Watchers(a)) <= Cardinality(Requests)
         /\ Cardinality(Requests) \in Nat
<1>1. Watchers(a) \in SUBSET Requests
  BY DEF Watchers
<1> QED
  BY <1>1, FS_Subset, FS_CardinalityType

\* A request that lets go of an action makes room for what it has done to it.
LEMMA WatcherLeaves ==
  ASSUME CooInv, NEW v \in Requests, decide[v].verb # "none",
         decide' = [decide EXCEPT ![v] = NoRequest]
  PROVE  \A a \in Actions :
            Cardinality(Watchers(a))' =
                IF a = decide[v].on THEN Cardinality(Watchers(a)) - 1
                                    ELSE Cardinality(Watchers(a))
<1> SUFFICES ASSUME NEW a \in Actions
             PROVE  Cardinality(Watchers(a))' =
                        IF a = decide[v].on THEN Cardinality(Watchers(a)) - 1
                                            ELSE Cardinality(Watchers(a))
  OBVIOUS
<1>1. a # 0
  BY DEF Actions
<1>2. Watchers(a)' = Watchers(a) \ {v}
  BY <1>1 DEF CooInv, Watchers, NoRequest
<1>3. v \in Watchers(a) <=> a = decide[v].on
  BY DEF Watchers
<1> QED
  BY <1>2, <1>3, WatchersFinite, FS_RemoveElement

LEMMA CooInitInv == CooInit => CooInv
<1> SUFFICES ASSUME CooInit PROVE CooInv
  OBVIOUS
<1>1. \A a \in Actions : Traces(a) = 0 /\ Cardinality(Watchers(a)) <= Cardinality(Requests)
  BY WatchersFinite DEF CooInit, Traces
<1>2. OutcomeOnRecord
  BY <1>1 DEF CooInit, OutcomeOnRecord, NoAction
<1>3. \A a \in Actions : Traces(a) + Cardinality(Watchers(a)) <= Cardinality(Requests)
  BY <1>1, WatchersFinite
<1> QED
  BY <1>2, <1>3
  DEF CooInit, CooInv, NoAction, NoRequest, Kinds, ActionStatuses, Results

\* An answer adds actions that nobody has seen and leaves the others alone.
LEMMA SendInv ==
  ASSUME CooInv, NEW s \in Sends, SendStep(s)
  PROVE  CooInv'
<1>1. CASE UNCHANGED <<action, decide, letters, chores>>
  BY <1>1 DEF CooInv, OutcomeOnRecord, Traces, Watchers
<1>2. ASSUME NEW rows \in SUBSET Actions, NEW kindOf \in [rows -> Kinds],
             send_commit(s, kindOf)
      PROVE  CooInv'
  <2>1. \A a \in Actions : action'[a] = action[a] \/
            /\ action[a].status = "absent"
            /\ action'[a].status = "pending" /\ action'[a].result = "none"
            /\ action'[a].kind \in Kinds
    BY <1>2 DEF send_commit, Proposed
  <2>2. action' \in [Actions -> [kind: Kinds, status: ActionStatuses, result: Results]]
    BY <1>2 DEF send_commit, Proposed, CooInv, ActionStatuses, Results
  <2>3. \A a \in Actions : Traces(a)' = Traces(a) /\ Watchers(a)' = Watchers(a)
    BY <1>2 DEF send_commit, Traces, Watchers
  <2>4. \A a \in Actions : action[a].status = "absent" => ~(Traces(a) > 0) \/ action[a].kind = "business_change"
    BY DEF CooInv, OutcomeOnRecord
  <2>5. \A a \in Actions : action[a].status = "absent" => ~(Traces(a) > 0)
    BY <2>4 DEF CooInv, OutcomeOnRecord
  <2>6. OutcomeOnRecord'
    BY <2>1, <2>3, <2>5 DEF CooInv, OutcomeOnRecord
  <2> QED
    BY <1>2, <2>1, <2>2, <2>3, <2>6 DEF CooInv, send_commit
<1> QED
  BY <1>1, <1>2 DEF SendStep, send_read, send_abort

LEMMA DecideReadInv ==
  ASSUME CooInv, NEW v \in Requests, NEW verb \in {"approve", "reject"}, NEW a \in Actions,
         decide_read(v, verb, a)
  PROVE  CooInv'
<1>1. \A b \in Actions : Traces(b)' = Traces(b)
  BY DEF decide_read, Traces
<1>2. OutcomeOnRecord'
  BY <1>1 DEF CooInv, OutcomeOnRecord, decide_read
<1>3. Traces(a) = 0
  <2>1. Traces(a) \in Nat
    BY DEF CooInv, Traces
  <2> QED
    BY <2>1 DEF CooInv, OutcomeOnRecord, decide_read, Decidable
<1>4. \A b \in Actions : b # a => Watchers(b)' = Watchers(b)
  BY DEF CooInv, decide_read, Watchers, NoRequest, Actions
<1>5. \A b \in Actions : Traces(b)' + Cardinality(Watchers(b))' <= Cardinality(Requests)
  <2> SUFFICES ASSUME NEW b \in Actions
               PROVE  Traces(b)' + Cardinality(Watchers(b))' <= Cardinality(Requests)
    OBVIOUS
  <2>1. Watchers(b)' \in SUBSET Requests
    BY DEF Watchers
  <2>2. Cardinality(Watchers(b)') \in Nat /\ Cardinality(Watchers(b)') <= Cardinality(Requests)
    BY <2>1, FS_Subset, FS_CardinalityType
  <2> QED
    BY <1>1, <1>3, <1>4, <2>2, FS_CardinalityType DEF CooInv
<1>6. decide' \in [Requests -> [verb: {"none", "approve", "reject"}, on: Nat,
                                mail: {"none"} \union MailOutcomes]]
  BY DEF CooInv, decide_read, Actions
<1>7. \A w \in Requests : decide'[w] = IF w = v THEN [verb |-> verb, on |-> a, mail |-> "none"]
                                                ELSE decide[w]
  BY DEF CooInv, decide_read
<1> QED
  BY <1>2, <1>5, <1>6, <1>7 DEF CooInv, decide_read, Decidable

LEMMA SendEmailInv ==
  ASSUME CooInv, NEW v \in Requests, NEW answer \in MailOutcomes, NEW taken \in BOOLEAN,
         send_email(v, answer, taken)
  PROVE  CooInv'
<1>1. \A b \in Actions : Traces(b)' = Traces(b) /\ Watchers(b)' = Watchers(b)
  BY DEF CooInv, send_email, Traces, Watchers
<1>2. OutcomeOnRecord'
  BY <1>1 DEF CooInv, OutcomeOnRecord, send_email
<1> QED
  BY <1>1, <1>2 DEF CooInv, send_email

\* An approval trades its place among the watchers for one trace at most.
LEMMA ApproveInv ==
  ASSUME CooInv, NEW v \in Requests, approve_commit(v)
  PROVE  CooInv'
<1> DEFINE a == decide[v].on
<1>1. a \in Actions /\ action[a].status # "absent" /\ decide[v].verb # "none"
  BY DEF CooInv, approve_commit
<1>2. /\ action[a].kind \in Kinds
      /\ ResultOf(v) \in Results \ {"none"}
  BY <1>1 DEF CooInv, approve_commit, execute_action, ResultOf, Kinds, Results
<1>3. /\ StatusOf(ResultOf(v)) \in ActionStatuses
      /\ StatusOf(ResultOf(v)) = "failed" <=> ResultOf(v) = "failed"
      /\ StatusOf(ResultOf(v)) \in {"executed", "failed"}
  BY DEF StatusOf, ActionStatuses
<1>4. \A b \in Actions : action'[b] =
        IF b = a THEN [kind |-> action[a].kind, status |-> StatusOf(ResultOf(v)),
                       result |-> ResultOf(v)]
                 ELSE action[b]
  BY <1>1 DEF CooInv, approve_commit, execute_action
<1>5. /\ letters' \in [Actions -> Nat]
      /\ chores' \in [Actions -> [open: Nat, done: Nat]]
  BY <1>1 DEF CooInv, approve_commit, execute_action
<1>6. \A b \in Actions : letters'[b] =
        IF b = a /\ action[a].kind = "employee_email" THEN letters[b] + 1 ELSE letters[b]
  BY <1>1 DEF CooInv, approve_commit, execute_action
<1>7. \A b \in Actions :
        /\ chores'[b].done = chores[b].done
        /\ chores'[b].open = IF b = a /\ action[a].kind = "employee_task"
                             THEN chores[b].open + 1 ELSE chores[b].open
  BY <1>1 DEF CooInv, approve_commit, execute_action
<1>8. \A b \in Actions : Traces(b) \in Nat
  BY DEF CooInv, Traces
<1>9. \A b \in Actions : Traces(b)' =
        IF b = a /\ action[a].kind # "business_change" THEN Traces(b) + 1 ELSE Traces(b)
  <2> SUFFICES ASSUME NEW b \in Actions
               PROVE  Traces(b)' = IF b = a /\ action[a].kind # "business_change"
                                   THEN Traces(b) + 1 ELSE Traces(b)
    OBVIOUS
  <2>1. letters[b] \in Nat /\ chores[b].open \in Nat /\ chores[b].done \in Nat
    BY DEF CooInv
  <2>2. Traces(b)' = letters'[b] + chores'[b].open + chores'[b].done
    BY DEF Traces
  <2>3. action[a].kind \in {"employee_email", "employee_task", "business_change"}
    BY <1>2 DEF Kinds
  <2> QED
    BY <2>1, <2>2, <2>3, <1>6, <1>7 DEF Traces
<1>10. OutcomeOnRecord'
  <2> SUFFICES ASSUME NEW b \in Actions
               PROVE  /\ action'[b].status \in {"absent", "pending"} => action'[b].result = "none"
                      /\ action'[b].status = "failed"
                            <=> action'[b].result = "failed" /\ action'[b].status # "rejected"
                      /\ action'[b].status = "executed" => action'[b].result # "none"
                      /\ Traces(b)' > 0
                            <=> action'[b].result # "none" /\ action'[b].kind # "business_change"
    BY DEF OutcomeOnRecord
  <2>1. CASE b # a
    BY <2>1, <1>4, <1>9 DEF CooInv, OutcomeOnRecord
  <2>2. CASE b = a
    <3>1. action[a].kind = "business_change" => ~(Traces(a) > 0)
      BY <1>1 DEF CooInv, OutcomeOnRecord
    <3>2. Traces(b)' > 0 <=> action[a].kind # "business_change"
      BY <2>2, <3>1, <1>1, <1>8, <1>9
    <3> QED
      BY <2>2, <3>2, <1>2, <1>3, <1>4
  <2> QED
    BY <2>1, <2>2
<1>11. \A b \in Actions : Traces(b)' + Cardinality(Watchers(b))' <= Cardinality(Requests)
  <2> SUFFICES ASSUME NEW b \in Actions
               PROVE  Traces(b)' + Cardinality(Watchers(b))' <= Cardinality(Requests)
    OBVIOUS
  <2>1. Cardinality(Watchers(b))' = IF b = a THEN Cardinality(Watchers(b)) - 1
                                             ELSE Cardinality(Watchers(b))
    BY <1>1, WatcherLeaves DEF approve_commit
  <2>2. Traces(b) + Cardinality(Watchers(b)) <= Cardinality(Requests)
    BY DEF CooInv
  <2> QED
    BY <2>1, <2>2, <1>1, <1>8, <1>9, WatchersFinite
<1>12. action' \in [Actions -> [kind: Kinds, status: ActionStatuses, result: Results]]
  BY <1>1, <1>2, <1>3 DEF CooInv, approve_commit, execute_action
<1>13. decide' \in [Requests -> [verb: {"none", "approve", "reject"}, on: Nat,
                                mail: {"none"} \union MailOutcomes]]
  BY DEF CooInv, approve_commit, NoRequest
<1>14. \A w \in Requests : decide'[w] = IF w = v THEN NoRequest ELSE decide[w]
  BY DEF CooInv, approve_commit
<1>15. \A b \in Actions : /\ action'[b].kind = action[b].kind
                          /\ action[b].status # "absent" => action'[b].status # "absent"
  BY <1>3, <1>4
<1> QED
  BY <1>5, <1>10, <1>11, <1>12, <1>13, <1>14, <1>15 DEF CooInv, NoRequest

LEMMA RejectInv ==
  ASSUME CooInv, NEW v \in Requests, reject_commit(v)
  PROVE  CooInv'
<1> DEFINE a == decide[v].on
<1>1. a \in Actions /\ action[a].status # "absent" /\ decide[v].verb # "none"
  BY DEF CooInv, reject_commit
<1>2. \A b \in Actions : action'[b] =
        IF b = a THEN [kind |-> action[a].kind, status |-> "rejected",
                       result |-> action[a].result]
                 ELSE action[b]
  BY <1>1 DEF CooInv, reject_commit
<1>3. \A b \in Actions : Traces(b)' = Traces(b) /\ Traces(b) \in Nat
  BY DEF CooInv, reject_commit, Traces
<1>4. OutcomeOnRecord'
  BY <1>2, <1>3 DEF CooInv, OutcomeOnRecord
<1>5. \A b \in Actions : Traces(b)' + Cardinality(Watchers(b))' <= Cardinality(Requests)
  <2> SUFFICES ASSUME NEW b \in Actions
               PROVE  Traces(b)' + Cardinality(Watchers(b))' <= Cardinality(Requests)
    OBVIOUS
  <2>1. Cardinality(Watchers(b))' = IF b = a THEN Cardinality(Watchers(b)) - 1
                                             ELSE Cardinality(Watchers(b))
    BY <1>1, WatcherLeaves DEF reject_commit
  <2>2. Traces(b) + Cardinality(Watchers(b)) <= Cardinality(Requests)
    BY DEF CooInv
  <2> QED
    BY <2>1, <2>2, <1>3, WatchersFinite
<1>6. action' \in [Actions -> [kind: Kinds, status: ActionStatuses, result: Results]]
  BY <1>1 DEF CooInv, reject_commit, ActionStatuses
<1>7. decide' \in [Requests -> [verb: {"none", "approve", "reject"}, on: Nat,
                                mail: {"none"} \union MailOutcomes]]
  BY DEF CooInv, reject_commit, NoRequest
<1>8. \A w \in Requests : decide'[w] = IF w = v THEN NoRequest ELSE decide[w]
  BY DEF CooInv, reject_commit
<1> QED
  BY <1>2, <1>4, <1>5, <1>6, <1>7, <1>8 DEF CooInv, NoRequest, reject_commit

LEMMA AbortInv ==
  ASSUME CooInv, NEW v \in Requests, decide_abort(v)
  PROVE  CooInv'
<1>1. decide[v].verb # "none"
  BY DEF CooInv, decide_abort
<1>2. \A b \in Actions : Traces(b)' = Traces(b) /\ Traces(b) \in Nat
  BY DEF CooInv, decide_abort, Traces
<1>3. OutcomeOnRecord'
  BY <1>2 DEF CooInv, OutcomeOnRecord, decide_abort
<1>4. \A b \in Actions : Traces(b)' + Cardinality(Watchers(b))' <= Cardinality(Requests)
  <2> SUFFICES ASSUME NEW b \in Actions
               PROVE  Traces(b)' + Cardinality(Watchers(b))' <= Cardinality(Requests)
    OBVIOUS
  <2>1. Cardinality(Watchers(b))' = IF b = decide[v].on THEN Cardinality(Watchers(b)) - 1
                                                       ELSE Cardinality(Watchers(b))
    BY <1>1, WatcherLeaves DEF decide_abort
  <2>2. Traces(b) + Cardinality(Watchers(b)) <= Cardinality(Requests)
    BY DEF CooInv
  <2> QED
    BY <2>1, <2>2, <1>2, WatchersFinite
<1>5. \A w \in Requests : decide'[w] = IF w = v THEN NoRequest ELSE decide[w]
  BY DEF CooInv, decide_abort
<1>6. decide' \in [Requests -> [verb: {"none", "approve", "reject"}, on: Nat,
                                mail: {"none"} \union MailOutcomes]]
  BY DEF CooInv, decide_abort, NoRequest
<1> QED
  BY <1>3, <1>4, <1>5, <1>6 DEF CooInv, decide_abort, NoRequest

LEMMA CompleteTaskInv ==
  ASSUME CooInv, NEW a \in Actions, complete_employee_task(a)
  PROVE  CooInv'
<1>1. chores' \in [Actions -> [open: Nat, done: Nat]]
  BY DEF CooInv, complete_employee_task
<1>2. \A b \in Actions : Traces(b)' = Traces(b) /\ Watchers(b)' = Watchers(b)
  BY DEF CooInv, complete_employee_task, Traces, Watchers
<1>3. OutcomeOnRecord'
  BY <1>2 DEF CooInv, OutcomeOnRecord, complete_employee_task
<1> QED
  BY <1>1, <1>2, <1>3 DEF CooInv, complete_employee_task

LEMMA CooNextInv ==
  ASSUME CooInv, [CooNext]_cooVars
  PROVE  CooInv'
<1>1. CASE UNCHANGED cooVars
  BY <1>1 DEF cooVars, CooInv, OutcomeOnRecord, Traces, Watchers
<1>2. ASSUME NEW s \in Sends, SendStep(s) PROVE CooInv'
  BY <1>2, SendInv
<1>3. ASSUME NEW v \in Requests, DecideStep(v) PROVE CooInv'
  BY <1>3, DecideReadInv, SendEmailInv, ApproveInv, RejectInv, AbortInv DEF DecideStep
<1>4. ASSUME NEW a \in Actions, complete_employee_task(a) PROVE CooInv'
  BY <1>4, CompleteTaskInv
<1> QED
  BY <1>1, <1>2, <1>3, <1>4 DEF CooNext

\* Every reachable state of the tray satisfies the inductive invariant.
THEOREM CooInvariant == CooSpec => []CooInv
BY CooInitInv, CooNextInv, PTL DEF CooSpec

\* What was carried out is on record, whatever raced with it.
THEOREM OutcomeOnRecordHolds == CooSpec => []OutcomeOnRecord
<1>1. CooInv => OutcomeOnRecord
  BY DEF CooInv
<1> QED
  BY <1>1, CooInvariant, PTL

\* An action is carried out no more often than there are requests.
THEOREM ExecutionsBoundedHolds == CooSpec => []ExecutionsBounded
<1>1. CooInv => ExecutionsBounded
  <2> SUFFICES ASSUME CooInv, NEW a \in Actions
               PROVE  Traces(a) <= Cardinality(Requests)
    BY DEF ExecutionsBounded
  <2>1. Traces(a) \in Nat
    BY DEF CooInv, Traces
  <2> QED
    BY <2>1, WatchersFinite DEF CooInv
<1> QED
  BY <1>1, CooInvariant, PTL

-----------------------------------------------------------------------------
Stays(a) ==
    /\ Settled(a)'
    /\ action'[a] = action[a] /\ outbox'[a] = outbox[a] /\ Traces(a)' = Traces(a)

LEMMA SettledStays ==
  ASSUME CooInv, [CooNext]_cooVars, NEW a \in Actions, Settled(a)
  PROVE  Stays(a)
<1>1. a # 0
  BY DEF Actions
<1>2. CASE UNCHANGED cooVars
  BY <1>2 DEF Stays, Settled, cooVars, Traces
<1>3. ASSUME NEW s \in Sends, SendStep(s) PROVE Stays(a)
  BY <1>3
  DEF SendStep, send_read, send_commit, send_abort, Proposed, Stays, Settled, Traces
<1>4. ASSUME NEW v \in Requests, NEW verb \in {"approve", "reject"}, NEW b \in Actions,
             decide_read(v, verb, b)
      PROVE  Stays(a)
  BY <1>4 DEF decide_read, Decidable, CooInv, Stays, Settled, Traces
<1>5. ASSUME NEW v \in Requests, NEW answer \in MailOutcomes, NEW taken \in BOOLEAN,
             send_email(v, answer, taken)
      PROVE  Stays(a)
  <2>1. decide[v].on # a
    BY DEF Settled
  <2>2. \A w \in Requests : decide'[w].on = decide[w].on
    BY <1>5 DEF send_email, CooInv
  <2>3. outbox'[a] = outbox[a]
    BY <1>5, <2>1 DEF send_email
  <2> QED
    BY <1>5, <2>2, <2>3 DEF send_email, Stays, Settled, Traces
<1>6. ASSUME NEW v \in Requests, approve_commit(v) \/ reject_commit(v) \/ decide_abort(v)
      PROVE  Stays(a)
  <2>1. decide[v].on # a
    BY DEF Settled
  <2>2. \A w \in Requests : decide'[w].on # a
    <3>1. decide' = [decide EXCEPT ![v] = NoRequest]
      BY <1>6 DEF approve_commit, reject_commit, decide_abort
    <3>2. NoRequest.on = 0
      BY DEF NoRequest
    <3> QED
      BY <1>1, <3>1, <3>2 DEF CooInv, Settled
  <2>3. action'[a] = action[a] /\ Traces(a)' = Traces(a)
    BY <1>6, <2>1
    DEF approve_commit, execute_action, reject_commit, decide_abort, CooInv, Traces
  <2> QED
    BY <1>6, <2>2, <2>3 DEF approve_commit, reject_commit, decide_abort, Stays, Settled
<1>7. ASSUME NEW b \in Actions, complete_employee_task(b) PROVE Stays(a)
  <2>1. Traces(a)' = Traces(a)
    BY <1>7 DEF complete_employee_task, CooInv, Traces
  <2> QED
    BY <1>7, <2>1 DEF complete_employee_task, Stays, Settled
<1> QED
  BY <1>2, <1>3, <1>4, <1>5, <1>6, <1>7 DEF CooNext, DecideStep

\* What is decided, and watched by no open request, is settled for good.
THEOREM DecisionSettlesHolds == CooSpec => DecisionSettles
<1>1. CooInv /\ [CooNext]_cooVars =>
        [\A a \in Actions : Settled(a) =>
            /\ Settled(a)'
            /\ action'[a] = action[a] /\ outbox'[a] = outbox[a] /\ Traces(a)' = Traces(a)
        ]_cooVars
  BY SettledStays DEF Stays
<1> QED
  BY <1>1, CooInvariant, PTL DEF CooSpec, DecisionSettles

-----------------------------------------------------------------------------
(* The conversation                                                        *)

Messages == [seq: Nat, role: {"user", "assistant"}]

\* The numbers in use are those up to the answer to the last question, and a request that
\* waits for its answer holds the number of a question already asked or of the next one.
TurnsUpTo(k) ==
    /\ k % 2 = 0
    /\ Used = 1..k
    /\ \A s \in Sends : send[s] # 0 => send[s] % 2 = 1 /\ send[s] <= k + 1

TurnsInv ==
    /\ messages \in Seq(Messages)
    /\ Len(messages) <= 2 * MaxTurns
    /\ send \in [Sends -> Nat]
    /\ outbox \in [Actions -> 0..MaxMails]
    /\ \A i \in DOMAIN messages : messages[i].role = "user" <=> messages[i].seq % 2 = 1
    /\ \E k \in Nat : TurnsUpTo(k)

LEMMA LastSeq ==
    ASSUME NEW k \in Nat \ {0}
    PROVE  Max(1..k) = k
<1>1. k \in 1..k /\ \A y \in 1..k : k >= y
  OBVIOUS
<1>2. Max(1..k) \in 1..k /\ \A y \in 1..k : Max(1..k) >= y
  BY <1>1 DEF Max
<1> QED
  BY <1>1, <1>2

LEMMA NextSeqAfter ==
    ASSUME NEW k \in Nat, Used = 1..k
    PROVE  NextSeq = k + 1
<1>1. CASE k = 0
  <2>1. Used = {}
    BY <1>1
  <2> QED
    BY <1>1, <2>1 DEF NextSeq
<1>2. CASE k # 0
  <2>1. 1 \in 1..k
    BY <1>2
  <2> QED
    BY <1>2, <2>1, LastSeq DEF NextSeq
<1> QED
  BY <1>1, <1>2

\* A turn puts a question with the number of the request and an answer with the next.
LEMMA TurnAppended ==
    ASSUME NEW n \in Nat, messages \in Seq(Messages), messages' = messages \o Turn(n)
    PROVE  /\ messages' \in Seq(Messages)
           /\ Len(messages') = Len(messages) + 2
           /\ Used' = Used \union {n, n + 1}
           /\ \A i \in DOMAIN messages' :
                \/ i \in DOMAIN messages /\ messages'[i] = messages[i]
                \/ messages'[i] = [seq |-> n, role |-> "user"]
                \/ messages'[i] = [seq |-> n + 1, role |-> "assistant"]
<1> DEFINE turn == Turn(n)
<1>1. /\ turn \in Seq(Messages) /\ Len(turn) = 2
      /\ turn[1] = [seq |-> n, role |-> "user"] /\ turn[2] = [seq |-> n + 1, role |-> "assistant"]
  BY DEF Turn, Messages
<1> HIDE DEF turn
<1>2. /\ messages' \in Seq(Messages) /\ Len(messages') = Len(messages) + 2
      /\ \A i \in 1..Len(messages) : messages'[i] = messages[i]
      /\ messages'[Len(messages) + 1] = turn[1] /\ messages'[Len(messages) + 2] = turn[2]
  <2>1. messages' = messages \o turn
    BY DEF turn
  <2>2. /\ Len(messages \o turn) = Len(messages) + 2
        /\ \A i \in 1..(Len(messages) + 2) :
              (messages \o turn)[i] = IF i <= Len(messages) THEN messages[i] ELSE turn[i - Len(messages)]
        /\ messages \o turn \in Seq(Messages)
    <3>1. /\ messages \o turn \in Seq(Messages)
          /\ Len(messages \o turn) = Len(messages) + Len(turn)
          /\ \A i \in 1..(Len(messages) + Len(turn)) :
              (messages \o turn)[i] = IF i <= Len(messages) THEN messages[i] ELSE turn[i - Len(messages)]
      BY <1>1, ConcatProperties
    <3>2. Len(turn) = 2
      BY <1>1
    <3> QED
      BY <3>1, <3>2
  <2>3. Len(messages) \in Nat
    OBVIOUS
  <2> QED
    BY <2>1, <2>2, <2>3
<1>3. /\ DOMAIN messages = 1..Len(messages) /\ DOMAIN messages' = 1..(Len(messages) + 2)
      /\ Len(messages) \in Nat
  BY <1>2
<1>4. \A i \in DOMAIN messages' : i \in DOMAIN messages \/ i = Len(messages) + 1 \/ i = Len(messages) + 2
  BY <1>3
<1>5. Used' = Used \union {n, n + 1}
  <2>1. \A i \in DOMAIN messages' : messages'[i].seq \in Used \union {n, n + 1}
    BY <1>1, <1>2, <1>3, <1>4 DEF Used
  <2>2. \A i \in DOMAIN messages : i \in DOMAIN messages' /\ messages'[i].seq = messages[i].seq
    BY <1>2, <1>3
  <2>3. \A q \in {1, 2} : Len(messages) + q \in DOMAIN messages' /\ messages'[Len(messages) + q] = turn[q]
    BY <1>2, <1>3
  <2>4. /\ Len(messages) + 1 \in DOMAIN messages' /\ messages'[Len(messages) + 1].seq = n
        /\ Len(messages) + 2 \in DOMAIN messages' /\ messages'[Len(messages) + 2].seq = n + 1
    BY <1>1, <2>3
  <2>5. Used' = {messages'[i].seq : i \in DOMAIN messages'}
    BY DEF Used
  <2>6. Used' \subseteq Used \union {n, n + 1}
    BY <2>1, <2>5
  <2>7. Used \subseteq Used'
    BY <2>2, <2>5 DEF Used
  <2>8. n \in Used' /\ n + 1 \in Used'
    BY <2>4, <2>5
  <2> QED
    BY <2>6, <2>7, <2>8
<1> QED
  BY <1>1, <1>2, <1>3, <1>4, <1>5

\* The number of a question and that of its answer leave no gap.
LEMMA TurnFits ==
    ASSUME NEW k \in Nat, k % 2 = 0, NEW n \in Nat, n % 2 = 1, n <= k + 1
    PROVE  (1..k) \union {n, n + 1} = IF n = k + 1 THEN 1..(k + 2) ELSE 1..k
<1>1. CASE n = k + 1
  BY <1>1
<1>2. CASE n # k + 1
  <2>1. n # k
    OBVIOUS
  <2>2. n \in 1..k /\ n + 1 \in 1..k
    BY <1>2, <2>1
  <2> QED
    BY <1>2, <2>2
<1> QED
  BY <1>1, <1>2

LEMMA TurnsInit == CooInit => TurnsInv
<1> SUFFICES ASSUME CooInit
             PROVE  TurnsInv
  OBVIOUS
<1>1. Used = {}
  BY DEF CooInit, Used
<1>2. TurnsUpTo(0)
  <2>1. 1..0 = {} /\ 0 % 2 = 0
    OBVIOUS
  <2> QED
    BY <1>1, <2>1 DEF CooInit, TurnsUpTo
<1> QED
  BY <1>2, CooAssumption DEF CooInit, TurnsInv

LEMMA TurnsSend ==
    ASSUME TurnsInv, NEW s \in Sends, SendStep(s)
    PROVE  TurnsInv'
<1>1. PICK k \in Nat : TurnsUpTo(k)
  BY DEF TurnsInv
<1>2. CASE send_read(s)
  <2>1. /\ send' = [send EXCEPT ![s] = k + 1] /\ UNCHANGED <<messages, outbox>>
    BY <1>1, <1>2, NextSeqAfter DEF send_read, TurnsUpTo
  <2>2. (k + 1) % 2 = 1
    BY <1>1 DEF TurnsUpTo
  <2>3. TurnsUpTo(k)'
    BY <1>1, <2>1, <2>2 DEF TurnsUpTo, TurnsInv, Used
  <2> QED
    BY <2>1, <2>3 DEF TurnsInv
<1>3. ASSUME NEW rows \in SUBSET Actions, NEW kindOf \in [rows -> Kinds], send_commit(s, kindOf)
      PROVE  TurnsInv'
  <2> DEFINE n == send[s]
  <2>0. PICK j \in Nat : j = IF n = k + 1 THEN k + 2 ELSE k
    OBVIOUS
  <2>1. /\ n \in Nat /\ n % 2 = 1 /\ n <= k + 1 /\ Len(messages) + 2 <= 2 * MaxTurns
        /\ messages' = messages \o Turn(n) /\ send' = [send EXCEPT ![s] = 0]
        /\ outbox' = outbox /\ messages \in Seq(Messages)
    BY <1>1, <1>3 DEF send_commit, TurnsUpTo, TurnsInv
  <2>2. /\ messages' \in Seq(Messages) /\ Len(messages') = Len(messages) + 2
        /\ Used' = Used \union {n, n + 1}
        /\ \A i \in DOMAIN messages' :
                \/ i \in DOMAIN messages /\ messages'[i] = messages[i]
                \/ messages'[i] = [seq |-> n, role |-> "user"]
                \/ messages'[i] = [seq |-> n + 1, role |-> "assistant"]
    BY <2>1, TurnAppended
  <2>3. Used' = 1..j
    BY <1>1, <2>0, <2>1, <2>2, TurnFits DEF TurnsUpTo
  <2>4. j % 2 = 0 /\ k <= j
    BY <1>1, <2>0 DEF TurnsUpTo
  <2>5. send' \in [Sends -> Nat] /\ \A q \in Sends : send'[q] = IF q = s THEN 0 ELSE send[q]
    BY <2>1 DEF TurnsInv
  <2>6. \A q \in Sends : send'[q] # 0 => send'[q] % 2 = 1 /\ send'[q] <= j + 1
    <3> SUFFICES ASSUME NEW q \in Sends, send'[q] # 0
                 PROVE  send'[q] % 2 = 1 /\ send'[q] <= j + 1
      OBVIOUS
    <3>1. /\ send'[q] = send[q] /\ send[q] \in Nat
          /\ send[q] % 2 = 1 /\ send[q] <= k + 1
      BY <1>1, <2>5 DEF TurnsUpTo, TurnsInv
    <3> QED
      BY <2>4, <3>1
  <2>7. TurnsUpTo(j)'
    BY <2>3, <2>4, <2>6 DEF TurnsUpTo
  <2>8. (n + 1) % 2 # 1
    BY <2>1
  <2>9. \A i \in DOMAIN messages : messages[i].role = "user" <=> messages[i].seq % 2 = 1
    BY DEF TurnsInv
  <2> HIDE DEF n
  <2>10. ASSUME NEW i \in DOMAIN messages'
         PROVE  messages'[i].role = "user" <=> messages'[i].seq % 2 = 1
    <3>1. CASE i \in DOMAIN messages /\ messages'[i] = messages[i]
      BY <2>9, <3>1
    <3>2. CASE messages'[i] = [seq |-> n, role |-> "user"]
      BY <2>1, <3>2
    <3>3. CASE messages'[i] = [seq |-> n + 1, role |-> "assistant"]
      BY <2>8, <3>3
    <3> QED
      BY <2>2, <3>1, <3>2, <3>3
  <2>11. Len(messages') <= 2 * MaxTurns
    BY <2>1, <2>2
  <2>12. outbox' \in [Actions -> 0..MaxMails]
    BY <2>1 DEF TurnsInv
  <2>13. \E m \in Nat : TurnsUpTo(m)'
    BY <2>4, <2>7
  <2> QED
    BY <2>2, <2>5, <2>10, <2>11, <2>12, <2>13 DEF TurnsInv, TurnsUpTo, Used
<1>4. CASE send_abort(s)
  <2>1. /\ send' = [send EXCEPT ![s] = 0] /\ UNCHANGED <<messages, outbox>>
    BY <1>4 DEF send_abort
  <2>2. TurnsUpTo(k)'
    BY <1>1, <2>1 DEF TurnsUpTo, TurnsInv, Used
  <2> QED
    BY <2>1, <2>2 DEF TurnsInv
<1> QED
  BY <1>2, <1>3, <1>4 DEF SendStep

\* Nothing but the requests of the conversation touches it; e-mails have their bound.
LEMMA TurnsElse ==
    ASSUME TurnsInv, UNCHANGED <<messages, send>>, outbox' \in [Actions -> 0..MaxMails]
    PROVE  TurnsInv'
  BY DEF TurnsInv, TurnsUpTo, Used

LEMMA TurnsNext ==
    ASSUME CooInv, TurnsInv, [CooNext]_cooVars
    PROVE  TurnsInv'
<1>1. outbox \in [Actions -> 0..MaxMails]
  BY DEF TurnsInv
<1>2. CASE UNCHANGED cooVars
  BY <1>1, <1>2, TurnsElse DEF cooVars
<1>3. ASSUME NEW s \in Sends, SendStep(s) PROVE TurnsInv'
  BY <1>3, TurnsSend
<1>4. ASSUME NEW v \in Requests, DecideStep(v) PROVE TurnsInv'
  <2>1. ASSUME NEW answer \in MailOutcomes, NEW taken \in BOOLEAN, send_email(v, answer, taken)
        PROVE  TurnsInv'
    <3> DEFINE a == decide[v].on
    <3>1. a \in Actions /\ outbox[a] < MaxMails
      BY <2>1 DEF send_email, CooInv
    <3>2. outbox' = IF taken THEN [outbox EXCEPT ![a] = @ + 1] ELSE outbox
      BY <2>1 DEF send_email
    <3>3. outbox[a] + 1 \in 0..MaxMails
      BY <1>1, <3>1, CooAssumption
    <3> HIDE DEF a
    <3>4. outbox' \in [Actions -> 0..MaxMails]
      BY <1>1, <3>1, <3>2, <3>3
    <3> QED
      BY <2>1, <3>4, TurnsElse DEF send_email
  <2> QED
    BY <1>1, <1>4, <2>1, TurnsElse
    DEF DecideStep, decide_read, approve_commit, reject_commit, decide_abort
<1>5. ASSUME NEW a \in Actions, complete_employee_task(a) PROVE TurnsInv'
  BY <1>1, <1>5, TurnsElse DEF complete_employee_task
<1> QED
  BY <1>2, <1>3, <1>4, <1>5 DEF CooNext

\* The conversation (send_message in routers/coo.py): however many messages are in
\* flight, rows are well-formed and questions and answers take turns without a gap.
THEOREM ConversationInvHolds == CooSpec => []ConversationInv
<1>1. CooInit => CooInv /\ TurnsInv
  BY CooInitInv, TurnsInit
<1>2. CooInv /\ TurnsInv /\ [CooNext]_cooVars => (CooInv /\ TurnsInv)'
  BY CooNextInv, TurnsNext
<1>3. CooInv /\ TurnsInv => ConversationInv
  <2> SUFFICES ASSUME CooInv, TurnsInv
               PROVE  ConversationInv
    OBVIOUS
  <2>1. CooTypeOK
    BY DEF CooInv, TurnsInv, CooTypeOK, Messages
  <2>2. PICK k \in Nat : Used = 1..k
    BY DEF TurnsInv, TurnsUpTo
  <2>3. Cardinality(1..k) = k
    BY FS_Interval
  <2>4. TurnsAlternate
    BY <2>2, <2>3 DEF TurnsInv, TurnsAlternate
  <2> QED
    BY <2>1, <2>4 DEF ConversationInv
<1> QED
  BY <1>1, <1>2, <1>3, PTL DEF CooSpec

-----------------------------------------------------------------------------
(* The tray as a docket                                                    *)

\* The parts of the docket, as CooActions maps them.
RulingOn(a) == IF action[a].status \in {"absent", "pending"} THEN {}
               ELSE {<<action[a].status, action[a].result>>}
HeardBy(v) == IF decide[v] = NoRequest THEN {} ELSE {decide[v].on}
EffectsOn(a) == outbox[a] + Traces(a)

LEMMA TrayTypes ==
    ASSUME CooInv, TurnsInv
    PROVE  /\ action \in [Actions -> [kind: Kinds, status: ActionStatuses, result: Results]]
           /\ decide \in [Requests -> [verb: {"none", "approve", "reject"}, on: Nat,
                                       mail: {"none"} \union MailOutcomes]]
           /\ \A a \in Actions : outbox[a] \in Nat /\ Traces(a) \in Nat /\ EffectsOn(a) \in Nat
           /\ \A v \in Requests : decide[v] # NoRequest =>
                /\ decide[v].verb # "none" /\ decide[v].on \in Actions
                /\ action[decide[v].on].status # "absent"
<1>1. \A a \in Actions : outbox[a] \in Nat
  BY CooAssumption DEF TurnsInv
<1>2. \A a \in Actions : Traces(a) \in Nat
  BY DEF CooInv, Traces
<1> QED
  BY <1>1, <1>2 DEF CooInv, EffectsOn

LEMMA CooDocketStutter ==
    ASSUME UNCHANGED <<action, decide, outbox>>, \A a \in Actions : Traces(a)' = Traces(a)
    PROVE  UNCHANGED CooDocket!docketVars
BY DEF CooDocket!docketVars

\* The proposals of an answer are raised.
LEMMA ProposalsRaise ==
    ASSUME CooInv, NEW s \in Sends, NEW rows \in SUBSET Actions, NEW kindOf \in [rows -> Kinds],
           send_commit(s, kindOf)
    PROVE  [CooDocket!DocketNext]_CooDocket!docketVars
<1>1. /\ UNCHANGED <<decide, outbox, letters, chores>>
      /\ \A a \in rows : action[a].status = "absent"
      /\ action' = Proposed(kindOf) /\ DOMAIN kindOf = rows
  BY DEF send_commit
<1>2. \A a \in Actions :
        /\ a \in rows => action'[a].status = "pending"
        /\ a \notin rows => action'[a] = action[a]
  BY <1>1 DEF Proposed
<1>3. [a \in Actions |-> RulingOn(a)]' = [a \in Actions |-> RulingOn(a)]
  BY <1>1, <1>2 DEF RulingOn
<1>4. {a \in Actions : action[a].status # "absent"}'
        = {a \in Actions : action[a].status # "absent"} \union rows
  BY <1>2
<1>5. [a \in Actions |-> EffectsOn(a)]' = [a \in Actions |-> EffectsOn(a)]
  BY <1>1 DEF EffectsOn, Traces
<1>6. CASE rows = {}
  <2>1. {a \in Actions : action[a].status # "absent"}' = {a \in Actions : action[a].status # "absent"}
    BY <1>4, <1>6
  <2> QED
    BY <1>1, <1>3, <1>5, <2>1 DEF CooDocket!docketVars, RulingOn, EffectsOn
<1>7. CASE rows # {}
  <2>1. CooDocket!Raise(rows)
    BY <1>1, <1>3, <1>4, <1>5, <1>7 DEF CooDocket!Raise, RulingOn, EffectsOn
  <2> QED
    BY <2>1 DEF CooDocket!DocketNext
<1> QED
  BY <1>6, <1>7

\* A request that reads a pending action takes it up.
LEMMA DecideReadHears ==
    ASSUME CooInv, NEW v \in Requests, NEW verb \in {"approve", "reject"}, NEW a \in Actions,
           decide_read(v, verb, a)
    PROVE  CooDocket!DocketNext
<1> DEFINE q == [verb |-> verb, on |-> a, mail |-> "none"]
<1>1. /\ decide[v] = NoRequest /\ action[a].status = "pending"
      /\ decide' = [decide EXCEPT ![v] = q]
      /\ UNCHANGED <<action, outbox, letters, chores>>
  BY DEF decide_read, Decidable
<1>2. decide'[v] = q /\ \A u \in Requests \ {v} : decide'[u] = decide[u]
  BY <1>1 DEF CooInv
<1>3. q # NoRequest /\ q.on = a /\ q.mail = decide[v].mail
  BY <1>1 DEF NoRequest
<1> HIDE DEF q
<1>4. [u \in Requests |-> HeardBy(u)]' = [[u \in Requests |-> HeardBy(u)] EXCEPT ![v] = {a}]
  BY <1>2, <1>3 DEF HeardBy
<1>5. {u \in Requests : decide[u].mail # "none"}' = {u \in Requests : decide[u].mail # "none"}
  BY <1>2, <1>3
<1>6. [b \in Actions |-> EffectsOn(b)]' = [b \in Actions |-> EffectsOn(b)]
  BY <1>1 DEF EffectsOn, Traces
<1>7. CooDocket!Hear(v, a)
  BY <1>1, <1>4, <1>5, <1>6 DEF CooDocket!Hear, HeardBy, EffectsOn
<1> QED
  BY <1>7 DEF CooDocket!DocketNext

\* SendGrid's answer is the one thing done before the decision, whether it took the e-mail.
LEMMA SendEmailActs ==
    ASSUME CooInv, TurnsInv, NEW v \in Requests, NEW answer \in MailOutcomes,
           NEW taken \in BOOLEAN, send_email(v, answer, taken)
    PROVE  CooDocket!DocketNext
<1>1. /\ decide[v].verb = "approve" /\ decide[v].mail = "none"
      /\ decide' = [decide EXCEPT ![v].mail = answer]
      /\ outbox' = IF taken THEN [outbox EXCEPT ![decide[v].on] = @ + 1] ELSE outbox
      /\ UNCHANGED <<action, letters, chores>>
  BY DEF send_email
<1>2. decide[v] # NoRequest /\ answer # "none"
  BY <1>1, CooAssumption DEF NoRequest
<1>3. PICK a \in Actions : a = decide[v].on
  BY <1>2, TrayTypes
<1>4. PICK n \in {0, 1} : n = IF taken THEN 1 ELSE 0
  OBVIOUS
<1>5. /\ decide'[v].on = a /\ decide'[v].mail = answer /\ decide'[v].verb = "approve"
      /\ \A u \in Requests \ {v} : decide'[u] = decide[u]
  BY <1>1, <1>3, TrayTypes
<1>6. decide'[v] # NoRequest
  BY <1>5 DEF NoRequest
<1>7. \A b \in Actions : outbox'[b] = IF b = a THEN outbox[b] + n ELSE outbox[b]
  BY <1>1, <1>3, <1>4, TrayTypes DEF TurnsInv
<1>8. \A b \in Actions : EffectsOn(b)' = IF b = a THEN EffectsOn(b) + n ELSE EffectsOn(b)
  <2>1. \A b \in Actions : Traces(b)' = Traces(b)
    BY <1>1 DEF Traces
  <2>2. \A b \in Actions : outbox[b] \in Nat /\ Traces(b) \in Nat
    BY TrayTypes
  <2> QED
    BY <1>7, <2>1, <2>2 DEF EffectsOn
<1>9. a \in HeardBy(v)
  BY <1>2, <1>3 DEF HeardBy
<1>10. [u \in Requests |-> HeardBy(u)]' = [u \in Requests |-> HeardBy(u)]
  BY <1>2, <1>3, <1>5, <1>6 DEF HeardBy
<1>11. {u \in Requests : decide[u].mail # "none"}' = {u \in Requests : decide[u].mail # "none"} \union {v}
  BY <1>2, <1>5
<1>12. [b \in Actions |-> EffectsOn(b)]' = [[b \in Actions |-> EffectsOn(b)] EXCEPT ![a] = @ + n]
  BY <1>8
<1>13. CooDocket!Act(v, a)
  BY <1>1, <1>9, <1>10, <1>11, <1>12 DEF CooDocket!Act, HeardBy, EffectsOn
<1> QED
  BY <1>13 DEF CooDocket!DocketNext

\* A request that is through has nothing taken up any more.
LEMMA RequestGone ==
    ASSUME CooInv, NEW v \in Requests, decide' = [decide EXCEPT ![v] = NoRequest]
    PROVE  /\ [u \in Requests |-> HeardBy(u)]' = [[u \in Requests |-> HeardBy(u)] EXCEPT ![v] = {}]
           /\ {u \in Requests : decide[u].mail # "none"}'
                = {u \in Requests : decide[u].mail # "none"} \ {v}
<1>1. decide'[v] = NoRequest /\ \A u \in Requests \ {v} : decide'[u] = decide[u]
  BY DEF CooInv
<1>2. NoRequest.mail = "none"
  BY DEF NoRequest
<1> QED
  BY <1>1, <1>2 DEF HeardBy

\* What a commit writes about its action is a ruling, with one more trace or none.
LEMMA CommitRules ==
    ASSUME CooInv, TurnsInv, NEW v \in Requests, decide[v] # NoRequest,
           decide' = [decide EXCEPT ![v] = NoRequest], UNCHANGED outbox,
           NEW a \in Actions, a = decide[v].on,
           NEW row \in [kind: Kinds, status: ActionStatuses \ {"absent", "pending"}, result: Results],
           action' = [action EXCEPT ![a] = row],
           NEW n \in {0, 1},
           \A b \in Actions : Traces(b)' = IF b = a THEN Traces(b) + n ELSE Traces(b)
    PROVE  CooDocket!DocketNext
<1>1. action'[a] = row /\ \A b \in Actions \ {a} : action'[b] = action[b]
  BY TrayTypes
<1>2. action[a].status # "absent" /\ row.status \notin {"absent", "pending"}
  BY TrayTypes
<1>3. {b \in Actions : action[b].status # "absent"}' = {b \in Actions : action[b].status # "absent"}
  BY <1>1, <1>2
<1>4. [b \in Actions |-> RulingOn(b)]'
        = [[b \in Actions |-> RulingOn(b)] EXCEPT ![a] = {<<row.status, row.result>>}]
  BY <1>1, <1>2 DEF RulingOn
<1>5. [b \in Actions |-> EffectsOn(b)]' = [[b \in Actions |-> EffectsOn(b)] EXCEPT ![a] = @ + n]
  BY TrayTypes DEF EffectsOn
<1>6. a \in HeardBy(v)
  BY DEF HeardBy
<1>7. CooDocket!Rule(v, a, <<row.status, row.result>>)
  BY <1>3, <1>4, <1>5, <1>6, RequestGone DEF CooDocket!Rule, RulingOn, HeardBy, EffectsOn
<1>8. <<row.status, row.result>> \in ActionStatuses \X Results
  OBVIOUS
<1> QED
  BY <1>7, <1>8 DEF CooDocket!DocketNext

LEMMA ApproveRules ==
    ASSUME CooInv, TurnsInv, NEW v \in Requests, approve_commit(v)
    PROVE  CooDocket!DocketNext
<1> DEFINE a == decide[v].on
           row == [action[a] EXCEPT !.status = StatusOf(ResultOf(v)), !.result = ResultOf(v)]
           n == IF action[a].kind = "business_change" THEN 0 ELSE 1
<1>1. decide[v] # NoRequest /\ a \in Actions
  BY TrayTypes DEF approve_commit, NoRequest
<1>2. /\ action[a].kind = "employee_email" => decide[v].mail # "none"
      /\ letters' = IF action[a].kind = "employee_email" THEN [letters EXCEPT ![a] = @ + 1]
                                                         ELSE letters
      /\ chores' = IF action[a].kind = "employee_task" THEN [chores EXCEPT ![a].open = @ + 1]
                                                       ELSE chores
      /\ decide' = [decide EXCEPT ![v] = NoRequest] /\ UNCHANGED outbox
  BY DEF approve_commit, execute_action
<1>3. action[a] \in [kind: Kinds, status: ActionStatuses, result: Results]
  BY <1>1, TrayTypes
<1>4. ResultOf(v) \in Results
  BY <1>1, <1>2, TrayTypes, CooAssumption DEF ResultOf, Results
<1>5. row \in [kind: Kinds, status: ActionStatuses \ {"absent", "pending"}, result: Results]
  BY <1>3, <1>4 DEF StatusOf, ActionStatuses
<1>6. action' = [action EXCEPT ![a] = row]
  BY <1>1, TrayTypes DEF approve_commit, execute_action
<1>7. /\ letters \in [Actions -> Nat] /\ chores \in [Actions -> [open: Nat, done: Nat]]
      /\ action[a].kind \in {"employee_email", "employee_task", "business_change"}
  BY <1>3 DEF CooInv, Kinds
<1> HIDE DEF a, row
<1>8. \A b \in Actions : Traces(b)' = IF b = a THEN Traces(b) + n ELSE Traces(b)
  BY <1>1, <1>2, <1>7 DEF Traces
<1> QED
  BY <1>1, <1>2, <1>5, <1>6, <1>8, CommitRules DEF a

LEMMA RejectRules ==
    ASSUME CooInv, TurnsInv, NEW v \in Requests, reject_commit(v)
    PROVE  CooDocket!DocketNext
<1> DEFINE a == decide[v].on
           row == [action[a] EXCEPT !.status = "rejected"]
<1>1. decide[v] # NoRequest /\ a \in Actions
  BY TrayTypes DEF reject_commit, NoRequest
<1>2. action[a] \in [kind: Kinds, status: ActionStatuses, result: Results]
  BY <1>1, TrayTypes
<1>3. row \in [kind: Kinds, status: ActionStatuses \ {"absent", "pending"}, result: Results]
  BY <1>2 DEF ActionStatuses
<1>4. /\ action' = [action EXCEPT ![a] = row]
      /\ decide' = [decide EXCEPT ![v] = NoRequest] /\ UNCHANGED <<outbox, letters, chores>>
  BY <1>1, TrayTypes DEF reject_commit
<1>5. \A b \in Actions : Traces(b)' = IF b = a THEN Traces(b) + 0 ELSE Traces(b)
  BY <1>4, TrayTypes DEF Traces
<1> QED
  BY <1>1, <1>3, <1>4, <1>5, CommitRules

\* A request that is dropped leaves its action.
LEMMA DecideAbortLeaves ==
    ASSUME CooInv, NEW v \in Requests, decide_abort(v)
    PROVE  CooDocket!DocketNext
<1>1. decide' = [decide EXCEPT ![v] = NoRequest] /\ UNCHANGED <<action, outbox, letters, chores>>
  BY DEF decide_abort
<1>2. [b \in Actions |-> EffectsOn(b)]' = [b \in Actions |-> EffectsOn(b)]
  BY <1>1 DEF EffectsOn, Traces
<1>3. CooDocket!Leave(v)
  BY <1>1, <1>2, RequestGone DEF CooDocket!Leave, HeardBy, EffectsOn
<1> QED
  BY <1>3 DEF CooDocket!DocketNext

LEMMA CooStepDocket ==
    ASSUME CooInv, TurnsInv, [CooNext]_cooVars
    PROVE  [CooDocket!DocketNext]_CooDocket!docketVars
<1>1. ASSUME NEW s \in Sends, SendStep(s) PROVE [CooDocket!DocketNext]_CooDocket!docketVars
  <2>1. CASE UNCHANGED <<action, decide, outbox, letters, chores>>
    BY <2>1, CooDocketStutter DEF Traces
  <2> QED
    BY <1>1, <2>1, ProposalsRaise DEF SendStep, send_read, send_abort
<1>2. ASSUME NEW v \in Requests, DecideStep(v) PROVE CooDocket!DocketNext
  BY <1>2, DecideReadHears, SendEmailActs, ApproveRules, RejectRules, DecideAbortLeaves
  DEF DecideStep
<1>3. ASSUME NEW a \in Actions, complete_employee_task(a) PROVE UNCHANGED CooDocket!docketVars
  <2>1. \A b \in Actions : Traces(b)' = Traces(b)
    BY <1>3 DEF complete_employee_task, CooInv, Traces
  <2> QED
    BY <1>3, <2>1, CooDocketStutter DEF complete_employee_task
<1>4. CASE UNCHANGED cooVars
  BY <1>4, CooDocketStutter DEF cooVars, Traces
<1> QED
  BY <1>1, <1>2, <1>3, <1>4 DEF CooNext

LEMMA CooInitDocket == CooInit => CooDocket!DocketInit
<1> SUFFICES ASSUME CooInit PROVE CooDocket!DocketInit
  OBVIOUS
<1>1. \A a \in Actions : Traces(a) = 0 /\ outbox[a] = 0
  BY DEF CooInit, Traces
<1> QED
  BY <1>1 DEF CooInit, CooDocket!DocketInit, NoAction, NoRequest

\* The tray implements Docket (approve_action and reject_action in routers/coo.py): an
\* action is mailed once and carried out once by each request that read it as pending, and
\* not at all by anyone once it is decided and before no open request.
THEOREM CooImplementsDocket == CooSpec => CooRefinesDocket
<1>1. CooInit => CooInv /\ TurnsInv
  BY CooInitInv, TurnsInit
<1>2. CooInv /\ TurnsInv /\ [CooNext]_cooVars => (CooInv /\ TurnsInv)'
  BY CooNextInv, TurnsNext
<1>3. CooInv /\ TurnsInv /\ [CooNext]_cooVars => [CooDocket!DocketNext]_CooDocket!docketVars
  BY CooStepDocket
<1> QED
  BY <1>1, <1>2, <1>3, CooInitDocket, PTL DEF CooSpec, CooRefinesDocket, CooDocket!DocketSpec

=============================================================================
