---------------------------- MODULE MonitorProofs ----------------------------
(***************************************************************************)
(* For any sources, runs and requests: an observation that is analyzed is  *)
(* taken up by no run that had not taken it up before, and a diagnosis     *)
(* that is settled stays as it is.  The first rests on what a run has      *)
(* inserted and not committed: it is inserted by no other run and seen by  *)
(* none (MineIsNew), and what a run works on is its own or committed.      *)
(* A third result bounds the diagnoses a source can have: those there are  *)
(* and the runs that may still add one are no more than the runs.  Last,   *)
(* the diagnoses implement Docket.                                         *)
(***************************************************************************)
EXTENDS Monitor, FiniteSetTheorems, TLAPS

RunRecords == [kind: MonKinds, phase: {"idle", "collecting", "diagnosing"}, seen: SUBSET Sources,
               asks: SUBSET Sources, mine: SUBSET Sources, counted: SUBSET Sources,
               todo: SUBSET Sources, drafts: SUBSET (Sources \X Opinions)]
DiagRecords == [status: DiagStatuses, second: Opinions, described: BOOLEAN, url: BOOLEAN]
VerdictRecords == [verb: {"approve", "reject"}, on: Diagnoses,
                   github: {"none", "skipped", "created", "error"}]

MonTypes ==
    /\ obs \in [Sources -> ObsStatuses]
    /\ diag \in [Sources -> Seq(DiagRecords)]
    /\ mon \in [MonitorRuns -> RunRecords]
    /\ verdict \in [Deciders -> VerdictRecords \union {NoVerdict}]
    /\ pulls \in [Diagnoses -> Nat]

\* What a run has inserted is committed by nobody and inserted by no other run.
MineIsNew ==
    \A r \in MonitorRuns : \A s \in mon[r].mine :
        obs[s] = "absent" /\ \A q \in MonitorRuns \ {r} : s \notin mon[q].mine

\* What a run works on is in the table, or of its own making.
WorkKnown ==
    \A r \in MonitorRuns :
        /\ mon[r].phase = "diagnosing" => mon[r].asks = {}
        /\ mon[r].phase # "diagnosing" => mon[r].todo = {} /\ mon[r].drafts = {}
        /\ \A s \in mon[r].todo \union DraftedBy(r) : s \in mon[r].mine \/ obs[s] # "absent"

MonIInv == MonTypes /\ MineIsNew /\ WorkKnown

-----------------------------------------------------------------------------
(* What a run adds to the diagnoses                                        *)

LEMMA SetToSeqIsSeq ==
    ASSUME NEW S, IsFiniteSet(S)
    PROVE  SetToSeq(S) \in Seq(S)
<1>1. Cardinality(S) \in Nat /\ ExistsBijection(1..Cardinality(S), S)
  BY FS_CardinalityType
<1>2. \E f \in [1..Cardinality(S) -> S] : IsInjective(f)
  BY <1>1 DEF ExistsBijection, Bijection, Injection, IsInjective
<1>3. SetToSeq(S) \in [1..Cardinality(S) -> S]
  BY <1>2 DEF SetToSeq
<1> QED
  BY <1>1, <1>3

LEMMA SetToSeqLen ==
    ASSUME NEW S, IsFiniteSet(S)
    PROVE  Len(SetToSeq(S)) = Cardinality(S)
<1>1. Cardinality(S) \in Nat /\ ExistsBijection(1..Cardinality(S), S)
  BY FS_CardinalityType
<1>2. \E f \in [1..Cardinality(S) -> S] : IsInjective(f)
  BY <1>1 DEF ExistsBijection, Bijection, Injection, IsInjective
<1>3. SetToSeq(S) \in [1..Cardinality(S) -> S]
  BY <1>2 DEF SetToSeq
<1> QED
  BY <1>1, <1>3

Drafts(r, s) == {Draft(d[2]) : d \in {e \in mon[r].drafts : e[1] = s}}

LEMMA DraftsAreDiagnoses ==
    ASSUME MonTypes, NEW r \in MonitorRuns, NEW s \in Sources
    PROVE  IsFiniteSet(Drafts(r, s)) /\ Drafts(r, s) \subseteq DiagRecords
<1> DEFINE All == {Draft("approve"), Draft("concerns"), Draft("reject")}
<1>1. IsFiniteSet(All)
  <2>1. IsFiniteSet({} \union {Draft("approve")})
    BY FS_EmptySet, FS_AddElement
  <2>2. IsFiniteSet(({} \union {Draft("approve")}) \union {Draft("concerns")})
    BY <2>1, FS_AddElement
  <2>3. IsFiniteSet((({} \union {Draft("approve")}) \union {Draft("concerns")}) \union {Draft("reject")})
    BY <2>2, FS_AddElement
  <2>4. All = (({} \union {Draft("approve")}) \union {Draft("concerns")}) \union {Draft("reject")}
    OBVIOUS
  <2> QED
    BY <2>3, <2>4
<1>2. \A d \in mon[r].drafts : d[2] \in Opinions
  BY DEF MonTypes, RunRecords
<1>3. Drafts(r, s) \subseteq All
  BY <1>2, MonitorAssumption DEF Drafts
<1>4. \A o \in Opinions : Draft(o) \in DiagRecords
  BY DEF Draft, DiagRecords, DiagStatuses
<1> QED
  BY <1>1, <1>2, <1>3, <1>4, FS_Subset DEF Drafts

LEMMA CommitAppends ==
    ASSUME MonTypes, NEW r \in MonitorRuns, run_commit(r), NEW s \in Sources
    PROVE  /\ diag'[s] \in Seq(DiagRecords)
           /\ Len(diag[s]) <= Len(diag'[s])
           /\ \A i \in 1..Len(diag[s]) : diag'[s][i] = diag[s][i]
<1>1. PICK q : q = SetToSeq(Drafts(r, s))
  OBVIOUS
<1>2. q \in Seq(Drafts(r, s))
  BY <1>1, DraftsAreDiagnoses, SetToSeqIsSeq
<1>3. q \in Seq(DiagRecords) /\ diag[s] \in Seq(DiagRecords)
  BY <1>2, DraftsAreDiagnoses DEF MonTypes
<1>4. diag'[s] = diag[s] \o q
  BY <1>1 DEF run_commit, Drafts
<1> QED
  BY <1>3, <1>4

-----------------------------------------------------------------------------
(* The types                                                               *)

LEMMA NoMonIsRun == NoMon \in RunRecords
  BY DEF NoMon, RunRecords, MonKinds

LEMMA RunTypes ==
    ASSUME MonTypes, NEW r \in MonitorRuns,
           \/ \E k \in {"loop", "request"} : monitor_start(r, k)
           \/ CollectStep(r) \/ collectors_done(r)
           \/ \E s \in Sources, o \in Opinions : diagnose(r, s, o)
           \/ run_commit(r) \/ run_deadlock(r) \/ run_lost(r)
    PROVE  MonTypes'
<1>1. mon[r] \in RunRecords /\ mon \in [MonitorRuns -> RunRecords]
  BY DEF MonTypes
<1>2. ASSUME NEW k \in {"loop", "request"}, monitor_start(r, k) PROVE MonTypes'
  <2>1. [mon[r] EXCEPT !.kind = k, !.phase = "collecting"] \in RunRecords
    BY <1>1 DEF RunRecords, MonKinds
  <2>2. mon' \in [MonitorRuns -> RunRecords]
    BY <1>1, <1>2, <2>1 DEF monitor_start
  <2> QED
    BY <1>2, <2>2 DEF monitor_start, MonTypes
<1>3. ASSUME NEW s \in Sources, observation_check(r, s) PROVE MonTypes'
  <2>1. \A b \in SUBSET Sources : [mon[r] EXCEPT !.seen = @ \union {s}, !.asks = b] \in RunRecords
    BY <1>1 DEF RunRecords
  <2>2. mon' \in [MonitorRuns -> RunRecords]
    BY <1>1, <1>3, <2>1 DEF observation_check
  <2> QED
    BY <1>3, <2>2 DEF observation_check, MonTypes
<1>4. ASSUME observation_insert(r) PROVE MonTypes'
  <2>1. PICK s \in mon[r].asks :
            mon' = [mon EXCEPT ![r].asks = {}, ![r].mine = @ \union {s}, ![r].counted = @ \union {s}]
    BY <1>4 DEF observation_insert
  <2>2. s \in Sources
    BY <1>1 DEF RunRecords
  <2>3. [mon[r] EXCEPT !.asks = {}, !.mine = @ \union {s}, !.counted = @ \union {s}] \in RunRecords
    BY <1>1, <2>2 DEF RunRecords
  <2>4. mon' \in [MonitorRuns -> RunRecords]
    BY <1>1, <2>1, <2>3
  <2> QED
    BY <1>4, <2>4 DEF observation_insert, MonTypes
<1>5. ASSUME NEW goesOn \in BOOLEAN, observation_conflict(r, goesOn) PROVE MonTypes'
  <2>1. [mon[r] EXCEPT !.asks = {}, !.mine = {}] \in RunRecords
    BY <1>1 DEF RunRecords
  <2>2. mon' \in [MonitorRuns -> RunRecords]
    BY <1>1, <1>5, <2>1, NoMonIsRun DEF observation_conflict
  <2> QED
    BY <1>5, <2>2 DEF observation_conflict, MonTypes
<1>6. ASSUME collectors_done(r) PROVE MonTypes'
  <2>1. New(r) \in SUBSET Sources
    BY <1>1 DEF New, RunRecords
  <2>2. \A b \in {{}, mon[r].mine} :
            [mon[r] EXCEPT !.phase = "diagnosing", !.todo = New(r), !.mine = b] \in RunRecords
    BY <1>1, <2>1 DEF RunRecords
  <2>3. mon' \in [MonitorRuns -> RunRecords]
    BY <1>1, <1>6, <2>2 DEF collectors_done
  <2>4. obs' \in [Sources -> ObsStatuses]
    BY <1>6 DEF collectors_done, MonTypes, ObsStatuses
  <2> QED
    BY <1>6, <2>3, <2>4 DEF collectors_done, MonTypes
<1>7. ASSUME NEW s \in Sources, NEW o \in Opinions, diagnose(r, s, o) PROVE MonTypes'
  <2>1. [mon[r] EXCEPT !.todo = @ \ {s}, !.drafts = @ \union {<<s, o>>}] \in RunRecords
    <3>1. PICK d : d = mon[r].drafts \union {<<s, o>>}
      OBVIOUS
    <3>2. mon[r].drafts \in SUBSET (Sources \X Opinions) /\ <<s, o>> \in Sources \X Opinions
      BY <1>1 DEF RunRecords
    <3>3. d \in SUBSET (Sources \X Opinions)
      BY <3>1, <3>2
    <3>4. [mon[r] EXCEPT !.todo = mon[r].todo \ {s}, !.drafts = d] \in RunRecords
      BY <1>1, <3>3 DEF RunRecords
    <3> QED
      BY <3>1, <3>4
  <2>2. mon' \in [MonitorRuns -> RunRecords]
    BY <1>1, <1>7, <2>1 DEF diagnose
  <2> QED
    BY <1>7, <2>2 DEF diagnose, MonTypes
<1>8. ASSUME run_commit(r) PROVE MonTypes'
  <2>1. mon' \in [MonitorRuns -> RunRecords]
    BY <1>1, <1>8, NoMonIsRun DEF run_commit
  <2>2. obs' \in [Sources -> ObsStatuses]
    BY <1>8 DEF run_commit, MonTypes, ObsStatuses
  <2>3. diag' \in [Sources -> Seq(DiagRecords)]
    <3>1. \A s \in Sources : diag'[s] \in Seq(DiagRecords)
      BY <1>8, CommitAppends
    <3>2. diag' = [s \in Sources |-> diag'[s]]
      BY <1>8 DEF run_commit
    <3> QED
      BY <3>1, <3>2
  <2> QED
    BY <1>8, <2>1, <2>2, <2>3 DEF run_commit, MonTypes
<1>9. ASSUME run_deadlock(r) \/ run_lost(r) PROVE MonTypes'
  <2>1. mon' \in [MonitorRuns -> RunRecords]
    BY <1>1, <1>9, NoMonIsRun DEF run_deadlock, run_lost
  <2> QED
    BY <1>9, <2>1 DEF run_deadlock, run_lost, MonTypes
<1> QED
  BY <1>2, <1>3, <1>4, <1>5, <1>6, <1>7, <1>8, <1>9 DEF CollectStep

LEMMA DiagnosesProduct == \A d \in Diagnoses : d[1] \in Sources /\ d[2] \in Ordinals /\ d # <<>>
  BY DEF Diagnoses

\* A function on the indices of a sequence is a sequence of the same length.
LEMMA SameIndices ==
    ASSUME NEW q \in Seq(DiagRecords), NEW t \in [DOMAIN q -> DiagRecords]
    PROVE  t \in Seq(DiagRecords) /\ Len(t) = Len(q)
<1>1. DOMAIN q = 1..Len(q) /\ Len(q) \in Nat
  OBVIOUS
<1>2. t \in [1..Len(q) -> DiagRecords]
  BY <1>1
<1> QED
  BY <1>1, <1>2

LEMMA VerdictTypes ==
    ASSUME MonTypes, NEW v \in Deciders, VerdictStep(v)
    PROVE  MonTypes'
<1>1. ASSUME NEW verb \in {"approve", "reject"}, NEW d \in Diagnoses, verdict_read(v, verb, d)
      PROVE  MonTypes'
  <2>1. [verb |-> verb, on |-> d, github |-> "none"] \in VerdictRecords
    BY DEF VerdictRecords
  <2> QED
    BY <1>1, <2>1 DEF verdict_read, MonTypes
<1>2. verdict[v].verb \in {"approve", "reject"} => verdict[v] \in VerdictRecords
  BY DEF MonTypes, NoVerdict
<1>3. ASSUME NEW answer \in {"skipped", "created", "error"}, NEW opened \in BOOLEAN,
             open_draft_pr(v, answer, opened)
      PROVE  MonTypes'
  <2>1. [verdict[v] EXCEPT !.github = answer] \in VerdictRecords /\ verdict[v].on \in Diagnoses
    BY <1>2, <1>3 DEF open_draft_pr, VerdictRecords
  <2>2. verdict' \in [Deciders -> VerdictRecords \union {NoVerdict}]
    BY <1>3, <2>1 DEF open_draft_pr, MonTypes
  <2>3. pulls' \in [Diagnoses -> Nat]
    BY <1>3, <2>1 DEF open_draft_pr, MonTypes
  <2> QED
    BY <1>3, <2>2, <2>3 DEF open_draft_pr, MonTypes
<1>4. verdict[v].verb \in {"approve", "reject"} /\ verdict' = [verdict EXCEPT ![v] = NoVerdict]
        => verdict' \in [Deciders -> VerdictRecords \union {NoVerdict}]
  BY DEF MonTypes
<1>5. ASSUME approve_diagnosis(v) PROVE MonTypes'
  <2> DEFINE d == verdict[v].on
             row == [diag[d[1]][d[2]] EXCEPT !.status = "approved", !.described = TRUE,
                        !.url = @ \/ verdict[v].github = "created"]
  <2>1. d[1] \in Sources
    BY <1>2, <1>5 DEF approve_diagnosis, VerdictRecords, Diagnoses
  <2>2. diag[d[1]] \in Seq(DiagRecords)
    BY <2>1 DEF MonTypes
  <2>3. d[2] \in 1..Len(diag[d[1]]) => row \in DiagRecords
    <3>1. PICK n : n = d[2]
      OBVIOUS
    <3>2. n \in 1..Len(diag[d[1]]) => diag[d[1]][n] \in DiagRecords
      BY <2>2
    <3>3. PICK old : old = diag[d[1]][d[2]]
      OBVIOUS
    <3>4. d[2] \in 1..Len(diag[d[1]]) => old \in DiagRecords
      BY <3>1, <3>2, <3>3
    <3>5. PICK url \in BOOLEAN : url = (old.url \/ verdict[v].github = "created")
      OBVIOUS
    <3>6. old \in DiagRecords => [old EXCEPT !.status = "approved", !.described = TRUE, !.url = url]
                                    \in DiagRecords
      BY DEF DiagRecords, DiagStatuses
    <3> QED
      BY <3>3, <3>4, <3>5, <3>6
  <2> HIDE DEF row
  <2>4. [diag[d[1]] EXCEPT ![d[2]] = row] \in [DOMAIN diag[d[1]] -> DiagRecords]
    <3>1. PICK q \in Seq(DiagRecords) : q = diag[d[1]]
      BY <2>2
    <3>2. PICK n : n = d[2]
      OBVIOUS
    <3>3. q \in [1..Len(q) -> DiagRecords] /\ DOMAIN q = 1..Len(q)
      OBVIOUS
    <3>4. CASE n \in 1..Len(q)
      BY <2>3, <3>1, <3>2, <3>3, <3>4
    <3>5. CASE n \notin 1..Len(q)
      BY <3>1, <3>2, <3>3, <3>5
    <3> QED
      BY <3>4, <3>5
  <2>5. [diag[d[1]] EXCEPT ![d[2]] = row] \in Seq(DiagRecords)
    BY <2>2, <2>4, SameIndices
  <2>6. diag' = [diag EXCEPT ![d[1]] = [diag[d[1]] EXCEPT ![d[2]] = row]]
    BY <1>5 DEF approve_diagnosis, RowOf, row
  <2>7. diag' \in [Sources -> Seq(DiagRecords)]
    BY <2>1, <2>5, <2>6 DEF MonTypes
  <2> QED
    BY <1>4, <1>5, <2>7 DEF approve_diagnosis, MonTypes
<1>6. ASSUME reject_diagnosis(v) PROVE MonTypes'
  <2> DEFINE d == verdict[v].on
             row == [diag[d[1]][d[2]] EXCEPT !.status = "rejected"]
  <2>1. d[1] \in Sources
    BY <1>2, <1>6 DEF reject_diagnosis, VerdictRecords, Diagnoses
  <2>2. diag[d[1]] \in Seq(DiagRecords)
    BY <2>1 DEF MonTypes
  <2>3. d[2] \in 1..Len(diag[d[1]]) => row \in DiagRecords
    <3>1. PICK old : old = diag[d[1]][d[2]]
      OBVIOUS
    <3>2. PICK n : n = d[2]
      OBVIOUS
    <3>3. n \in 1..Len(diag[d[1]]) => old \in DiagRecords
      BY <2>2, <3>1, <3>2
    <3>4. old \in DiagRecords => [old EXCEPT !.status = "rejected"] \in DiagRecords
      BY DEF DiagRecords, DiagStatuses
    <3> QED
      BY <3>1, <3>2, <3>3, <3>4
  <2> HIDE DEF row
  <2>4. [diag[d[1]] EXCEPT ![d[2]] = row] \in [DOMAIN diag[d[1]] -> DiagRecords]
    <3>1. PICK q \in Seq(DiagRecords) : q = diag[d[1]]
      BY <2>2
    <3>2. PICK n : n = d[2]
      OBVIOUS
    <3>3. q \in [1..Len(q) -> DiagRecords] /\ DOMAIN q = 1..Len(q)
      OBVIOUS
    <3>4. CASE n \in 1..Len(q)
      BY <2>3, <3>1, <3>2, <3>3, <3>4
    <3>5. CASE n \notin 1..Len(q)
      BY <3>1, <3>2, <3>3, <3>5
    <3> QED
      BY <3>4, <3>5
  <2>5. [diag[d[1]] EXCEPT ![d[2]] = row] \in Seq(DiagRecords)
    BY <2>2, <2>4, SameIndices
  <2>6. diag' = [diag EXCEPT ![d[1]] = [diag[d[1]] EXCEPT ![d[2]] = row]]
    BY <1>6 DEF reject_diagnosis, row
  <2>7. diag' \in [Sources -> Seq(DiagRecords)]
    BY <2>1, <2>5, <2>6 DEF MonTypes
  <2> QED
    BY <1>4, <1>6, <2>7 DEF reject_diagnosis, MonTypes
<1>7. ASSUME verdict_abort(v) PROVE MonTypes'
  BY <1>7 DEF verdict_abort, MonTypes
<1> QED
  BY <1>1, <1>3, <1>5, <1>6, <1>7 DEF VerdictStep

-----------------------------------------------------------------------------
(* The invariant                                                           *)

LEMMA RunPreserves ==
    ASSUME MonIInv, NEW r \in MonitorRuns,
           \/ \E k \in {"loop", "request"} : monitor_start(r, k)
           \/ CollectStep(r) \/ collectors_done(r)
           \/ \E s \in Sources, o \in Opinions : diagnose(r, s, o)
           \/ run_commit(r) \/ run_deadlock(r) \/ run_lost(r)
    PROVE  MonIInv'
<1>1. mon[r] \in RunRecords /\ mon \in [MonitorRuns -> RunRecords] /\ obs \in [Sources -> ObsStatuses]
  BY DEF MonIInv, MonTypes
<1>2. MonTypes'
  BY RunTypes DEF MonIInv
<1>3. NoMon.mine = {} /\ NoMon.todo = {} /\ NoMon.drafts = {} /\ NoMon.phase = "idle"
  BY DEF NoMon
<1>4. ASSUME NEW k \in {"loop", "request"}, monitor_start(r, k) PROVE MonIInv'
  BY <1>1, <1>2, <1>3, <1>4 DEF monitor_start, MonIInv, MineIsNew, WorkKnown, DraftedBy
<1>5. ASSUME NEW s \in Sources, observation_check(r, s) PROVE MonIInv'
  BY <1>1, <1>2, <1>5 DEF observation_check, MonIInv, MineIsNew, WorkKnown, DraftedBy
<1>6. ASSUME observation_insert(r) PROVE MonIInv'
  <2>1. PICK s \in mon[r].asks :
            /\ ~InsertWaits(r, s) /\ obs[s] = "absent"
            /\ mon' = [mon EXCEPT ![r].asks = {}, ![r].mine = @ \union {s}, ![r].counted = @ \union {s}]
    BY <1>6 DEF observation_insert
  <2>2. /\ mon'[r].phase = mon[r].phase /\ mon'[r].mine = mon[r].mine \union {s}
        /\ mon'[r].todo = mon[r].todo /\ mon'[r].drafts = mon[r].drafts /\ mon'[r].asks = {}
        /\ \A q \in MonitorRuns \ {r} : mon'[q] = mon[q]
        /\ obs' = obs
    BY <1>1, <1>6, <2>1 DEF observation_insert, RunRecords
  <2>3. MineIsNew'
    <3> SUFFICES ASSUME NEW q \in MonitorRuns, NEW x \in mon'[q].mine
                 PROVE  obs'[x] = "absent" /\ \A p \in MonitorRuns \ {q} : x \notin mon'[p].mine
      BY DEF MineIsNew
    <3>1. \A p \in MonitorRuns \ {r} : s \notin mon[p].mine
      BY <2>1 DEF InsertWaits
    <3>2. /\ mon'[r].mine = mon[r].mine \union {s} /\ obs' = obs /\ obs[s] = "absent"
          /\ \A p \in MonitorRuns \ {r} : mon'[p].mine = mon[p].mine
      BY <2>1, <2>2
    <3>3. MineIsNew
      BY DEF MonIInv
    <3>4. CASE q = r
      BY <3>1, <3>2, <3>3, <3>4 DEF MineIsNew
    <3>5. CASE q # r
      BY <3>1, <3>2, <3>3, <3>5 DEF MineIsNew
    <3> QED
      BY <3>4, <3>5
  <2>4. WorkKnown'
    BY <2>2 DEF MonIInv, WorkKnown, DraftedBy
  <2> QED
    BY <1>2, <2>3, <2>4 DEF MonIInv
<1>7. ASSUME NEW goesOn \in BOOLEAN, observation_conflict(r, goesOn) PROVE MonIInv'
  <2>1. mon[r].asks # {}
    BY <1>7 DEF observation_conflict
  <2>2. mon[r].todo = {} /\ mon[r].drafts = {} /\ mon[r].phase # "diagnosing"
    BY <2>1 DEF MonIInv, WorkKnown
  <2>3. /\ mon'[r].phase # "diagnosing" /\ mon'[r].mine = {} /\ mon'[r].todo = {}
        /\ mon'[r].drafts = {}
        /\ \A q \in MonitorRuns \ {r} : mon'[q] = mon[q]
        /\ obs' = obs
    BY <1>1, <1>3, <1>7, <2>2 DEF observation_conflict, RunRecords
  <2>4. MineIsNew' /\ WorkKnown'
    BY <2>3 DEF MonIInv, MineIsNew, WorkKnown, DraftedBy
  <2> QED
    BY <1>2, <2>4 DEF MonIInv
<1>8. ASSUME collectors_done(r) PROVE MonIInv'
  <2>1. /\ mon[r].phase = "collecting" /\ mon'[r].todo = New(r) /\ mon'[r].drafts = mon[r].drafts
        /\ mon'[r].asks = {}
        /\ mon'[r].mine = (IF mon[r].kind = "loop" THEN {} ELSE mon[r].mine)
        /\ mon'[r].phase = "diagnosing"
        /\ \A q \in MonitorRuns \ {r} : mon'[q] = mon[q]
        /\ \A s \in Sources : obs'[s] = IF mon[r].kind = "loop" /\ s \in mon[r].mine
                                         THEN "new" ELSE obs[s]
    BY <1>1, <1>8 DEF collectors_done, RunRecords
  <2>2. \A q \in MonitorRuns : mon[q] \in RunRecords /\ mon[q].mine \subseteq Sources
    BY <1>1 DEF RunRecords
  <2>3. MineIsNew'
    BY <2>1, <2>2 DEF MonIInv, MineIsNew
  <2>4. mon[r].drafts = {}
    BY <2>1 DEF MonIInv, WorkKnown
  <2>5. \A s \in New(r) : s \in mon[r].mine \/ obs[s] = "new"
    BY DEF New
  <2>6. \A q \in MonitorRuns : \A s \in mon[q].todo \union DraftedBy(q) : s \in Sources
    BY <2>2 DEF RunRecords, DraftedBy
  <2>7. ASSUME NEW q \in MonitorRuns
        PROVE  /\ mon'[q].phase = "diagnosing" => mon'[q].asks = {}
               /\ mon'[q].phase # "diagnosing" => mon'[q].todo = {} /\ mon'[q].drafts = {}
               /\ \A s \in mon'[q].todo \union DraftedBy(q)' : s \in mon'[q].mine \/ obs'[s] # "absent"
    <3>1. CASE q = r
      <4>1. DraftedBy(q)' = {}
        BY <2>1, <2>4, <3>1 DEF DraftedBy
      <4>2. New(r) \subseteq Sources
        BY <2>2 DEF New
      <4> QED
        BY <2>1, <2>5, <3>1, <4>1, <4>2
    <3>2. CASE q # r
      <4>1. DraftedBy(q)' = DraftedBy(q) /\ mon'[q] = mon[q]
        BY <2>1, <3>2 DEF DraftedBy
      <4> QED
        BY <2>1, <2>6, <4>1 DEF MonIInv, WorkKnown
    <3> QED
      BY <3>1, <3>2
  <2>8. WorkKnown'
    BY <2>7 DEF WorkKnown
  <2> QED
    BY <1>2, <2>3, <2>8 DEF MonIInv
<1>9. ASSUME NEW s \in Sources, NEW o \in Opinions, diagnose(r, s, o) PROVE MonIInv'
  <2>1. /\ s \in mon[r].todo /\ mon'[r].phase = mon[r].phase /\ mon'[r].mine = mon[r].mine
        /\ mon'[r].todo = mon[r].todo \ {s} /\ mon'[r].drafts = mon[r].drafts \union {<<s, o>>}
        /\ mon'[r].asks = mon[r].asks
        /\ \A q \in MonitorRuns \ {r} : mon'[q] = mon[q]
        /\ obs' = obs
    BY <1>1, <1>9 DEF diagnose, RunRecords
  <2>2. MineIsNew'
    <3>1. \A q \in MonitorRuns : mon'[q].mine = mon[q].mine
      BY <2>1
    <3>2. MineIsNew /\ obs' = obs
      BY <2>1 DEF MonIInv
    <3>3. SUFFICES ASSUME NEW q \in MonitorRuns, NEW x \in mon'[q].mine
                   PROVE  obs'[x] = "absent" /\ \A p \in MonitorRuns \ {q} : x \notin mon'[p].mine
      BY DEF MineIsNew
    <3> QED
      BY <3>1, <3>2, <3>3 DEF MineIsNew
  <2>3. DraftedBy(r)' = DraftedBy(r) \union {s} /\ \A q \in MonitorRuns \ {r} : DraftedBy(q)' = DraftedBy(q)
    <3>1. DraftedBy(r)' = {d[1] : d \in mon[r].drafts \union {<<s, o>>}}
      BY <2>1 DEF DraftedBy
    <3>2. {d[1] : d \in mon[r].drafts \union {<<s, o>>}} = {d[1] : d \in mon[r].drafts} \union {s}
      <4>1. PICK D : D = mon[r].drafts
        OBVIOUS
      <4>2. PICK e : e = <<s, o>>
        OBVIOUS
      <4>3. e[1] = s
        BY <4>2
      <4>4. {d[1] : d \in D \union {e}} = {d[1] : d \in D} \union {e[1]}
        OBVIOUS
      <4> QED
        BY <4>1, <4>2, <4>3, <4>4
    <3>3. \A q \in MonitorRuns \ {r} : DraftedBy(q)' = DraftedBy(q)
      BY <2>1 DEF DraftedBy
    <3> QED
      BY <3>1, <3>2, <3>3 DEF DraftedBy
  <2>4. mon[r].phase = "diagnosing"
    BY <2>1 DEF MonIInv, WorkKnown
  <2>5. WorkKnown'
    BY <2>1, <2>3, <2>4 DEF MonIInv, WorkKnown
  <2> QED
    BY <1>2, <2>2, <2>5 DEF MonIInv
<1>10. ASSUME run_commit(r) PROVE MonIInv'
  <2>1. /\ mon'[r] = NoMon /\ \A q \in MonitorRuns \ {r} : mon'[q] = mon[q]
        /\ \A s \in Sources : obs'[s] = IF s \in DraftedBy(r) THEN "analyzed" ELSE obs[s]
    BY <1>1, <1>10 DEF run_commit
  <2>2. \A q \in MonitorRuns : /\ mon[q].mine \subseteq Sources
                               /\ mon[q].todo \union DraftedBy(q) \subseteq Sources
    BY <1>1 DEF RunRecords, DraftedBy
  <2>3. \A s \in DraftedBy(r) : \A q \in MonitorRuns \ {r} : s \notin mon[q].mine
    BY DEF MonIInv, MineIsNew, WorkKnown
  <2>4. MineIsNew'
    BY <1>3, <2>1, <2>2, <2>3 DEF MonIInv, MineIsNew
  <2>5. DraftedBy(r)' = {} /\ \A q \in MonitorRuns \ {r} : DraftedBy(q)' = DraftedBy(q)
    BY <1>3, <2>1 DEF DraftedBy
  <2>6. WorkKnown'
    BY <1>3, <2>1, <2>2, <2>5 DEF MonIInv, WorkKnown
  <2> QED
    BY <1>2, <2>4, <2>6 DEF MonIInv
<1>11. ASSUME run_deadlock(r) \/ run_lost(r) PROVE MonIInv'
  BY <1>1, <1>2, <1>3, <1>11 DEF run_deadlock, run_lost, MonIInv, MineIsNew, WorkKnown, DraftedBy
<1> QED
  BY <1>4, <1>5, <1>6, <1>7, <1>8, <1>9, <1>10, <1>11 DEF CollectStep

LEMMA MonInitOK == MonInit => MonIInv
<1> SUFFICES ASSUME MonInit PROVE MonIInv
  OBVIOUS
<1>1. MonTypes
  <2>1. diag \in [Sources -> Seq(DiagRecords)]
    BY DEF MonInit
  <2> QED
    BY <2>1, NoMonIsRun DEF MonInit, MonTypes, ObsStatuses
<1>2. \A r \in MonitorRuns : mon[r].mine = {} /\ mon[r].todo = {} /\ mon[r].drafts = {}
                               /\ mon[r].phase = "idle"
  BY DEF MonInit, NoMon
<1> QED
  BY <1>1, <1>2 DEF MonIInv, MineIsNew, WorkKnown, DraftedBy

LEMMA MonNextOK == MonIInv /\ [MonNext]_monVars => MonIInv'
<1> SUFFICES ASSUME MonIInv, [MonNext]_monVars PROVE MonIInv'
  OBVIOUS
<1>1. ASSUME NEW s \in Sources, source_fails(s) PROVE MonIInv'
  BY <1>1 DEF source_fails, MonIInv, MonTypes, MineIsNew, WorkKnown, DraftedBy
<1>2. ASSUME NEW v \in Deciders, VerdictStep(v) PROVE MonIInv'
  <2>1. UNCHANGED <<obs, mon>>
    BY <1>2 DEF VerdictStep, verdict_read, open_draft_pr, approve_diagnosis, reject_diagnosis, verdict_abort
  <2> QED
    BY <1>2, <2>1, VerdictTypes DEF MonIInv, MineIsNew, WorkKnown, DraftedBy
<1>3. CASE UNCHANGED monVars
  BY <1>3 DEF monVars, MonIInv, MonTypes, MineIsNew, WorkKnown, DraftedBy
<1> QED
  BY <1>1, <1>2, <1>3, RunPreserves DEF MonNext, MonStep

\* The strengthened invariant, for every value of the constants.
THEOREM MonInvariant == MonSpec => []MonIInv
  BY MonInitOK, MonNextOK, PTL DEF MonSpec

-----------------------------------------------------------------------------
(* The properties                                                          *)

LEMMA AnalyzedStays ==
    ASSUME MonIInv, [MonNext]_monVars, NEW s \in Sources, obs[s] = "analyzed"
    PROVE  obs'[s] = "analyzed" /\ \A r \in MonitorRuns : s \in mon'[r].todo => s \in mon[r].todo
<1>1. \A r \in MonitorRuns : s \notin mon[r].mine
  BY DEF MonIInv, MineIsNew
<1>2. /\ mon \in [MonitorRuns -> RunRecords] /\ NoMon.todo = {}
      /\ \A r \in MonitorRuns : mon[r] \in RunRecords
  BY DEF MonIInv, MonTypes, NoMon
<1>3. ASSUME NEW r \in MonitorRuns, collectors_done(r)
      PROVE  obs'[s] = "analyzed" /\ \A q \in MonitorRuns : s \in mon'[q].todo => s \in mon[q].todo
  <2>1. s \notin New(r)
    BY <1>1 DEF New
  <2>2. mon'[r].todo = New(r) /\ \A q \in MonitorRuns \ {r} : mon'[q] = mon[q]
    BY <1>2, <1>3 DEF collectors_done, RunRecords
  <2>3. obs'[s] = obs[s]
    BY <1>1, <1>3 DEF collectors_done
  <2> QED
    BY <2>1, <2>2, <2>3
<1>4. ASSUME NEW r \in MonitorRuns, run_commit(r)
      PROVE  obs'[s] = "analyzed" /\ \A q \in MonitorRuns : s \in mon'[q].todo => s \in mon[q].todo
  BY <1>2, <1>4 DEF run_commit
<1>5. ASSUME NEW r \in MonitorRuns,
             \/ \E k \in {"loop", "request"} : monitor_start(r, k)
             \/ CollectStep(r)
             \/ \E x \in Sources, o \in Opinions : diagnose(r, x, o)
             \/ run_deadlock(r) \/ run_lost(r)
      PROVE  obs' = obs /\ \A q \in MonitorRuns : mon'[q].todo \subseteq mon[q].todo
  <2>1. ASSUME NEW k \in {"loop", "request"}, monitor_start(r, k)
        PROVE  obs' = obs /\ \A q \in MonitorRuns : mon'[q].todo \subseteq mon[q].todo
    BY <1>2, <2>1 DEF monitor_start, RunRecords
  <2>2. ASSUME NEW x \in Sources, observation_check(r, x)
        PROVE  obs' = obs /\ \A q \in MonitorRuns : mon'[q].todo \subseteq mon[q].todo
    BY <1>2, <2>2 DEF observation_check, RunRecords
  <2>3. ASSUME observation_insert(r)
        PROVE  obs' = obs /\ \A q \in MonitorRuns : mon'[q].todo \subseteq mon[q].todo
    BY <1>2, <2>3 DEF observation_insert, RunRecords
  <2>4. ASSUME NEW goesOn \in BOOLEAN, observation_conflict(r, goesOn)
        PROVE  obs' = obs /\ \A q \in MonitorRuns : mon'[q].todo \subseteq mon[q].todo
    BY <1>2, <2>4 DEF observation_conflict, RunRecords
  <2>5. ASSUME NEW x \in Sources, NEW o \in Opinions, diagnose(r, x, o)
        PROVE  obs' = obs /\ \A q \in MonitorRuns : mon'[q].todo \subseteq mon[q].todo
    BY <1>2, <2>5 DEF diagnose, RunRecords
  <2>6. ASSUME run_deadlock(r) \/ run_lost(r)
        PROVE  obs' = obs /\ \A q \in MonitorRuns : mon'[q].todo \subseteq mon[q].todo
    BY <1>2, <2>6 DEF run_deadlock, run_lost
  <2> QED
    BY <1>5, <2>1, <2>2, <2>3, <2>4, <2>5, <2>6 DEF CollectStep
<1>6. ASSUME NEW v \in Deciders, VerdictStep(v) PROVE UNCHANGED <<obs, mon>>
  BY <1>6 DEF VerdictStep, verdict_read, open_draft_pr, approve_diagnosis, reject_diagnosis, verdict_abort
<1>7. ASSUME NEW x \in Sources, source_fails(x) PROVE UNCHANGED <<obs, mon>>
  BY <1>7 DEF source_fails
<1>8. CASE UNCHANGED monVars
  BY <1>8 DEF monVars
<1> QED
  BY <1>3, <1>4, <1>5, <1>6, <1>7, <1>8 DEF MonNext, MonStep

\* An observation that is analyzed stays so and is diagnosed by no later run
\* (workers/monitor_tasks.py: all "new" observations are diagnosed), for any sources and runs.
THEOREM NoSecondDiagnosisHolds == MonSpec => NoSecondDiagnosis
<1>1. MonIInv /\ [MonNext]_monVars =>
        [\A s \in Sources : obs[s] = "analyzed" =>
            /\ obs'[s] = "analyzed"
            /\ \A r \in MonitorRuns : s \in mon'[r].todo => s \in mon[r].todo]_monVars
  BY AnalyzedStays
<1> QED
  BY <1>1, MonInvariant, PTL DEF MonSpec, NoSecondDiagnosis

\* What is written of one diagnosis leaves the others as they are.
LEMMA OtherRowKept ==
    ASSUME MonTypes, NEW d \in Diagnoses, NEW e \in Diagnoses, d # e, NEW row,
           diag' = [diag EXCEPT ![e[1]] = [diag[e[1]] EXCEPT ![e[2]] = row]],
           Exists(d)
    PROVE  Exists(d)' /\ RowOf(d)' = RowOf(d)
<1>1. d[1] \in Sources /\ e[1] \in Sources /\ ~(d[1] = e[1] /\ d[2] = e[2])
  BY DEF Diagnoses
<1>2. DOMAIN diag'[d[1]] = DOMAIN diag[d[1]]
  BY <1>1 DEF MonTypes
<1>3. diag'[d[1]][d[2]] = diag[d[1]][d[2]]
  BY <1>1 DEF MonTypes, Exists
<1> QED
  BY <1>2, <1>3 DEF Exists, RowOf

LEMMA SettledStays ==
    ASSUME MonIInv, [MonNext]_monVars, NEW d \in Diagnoses, Settled(d)
    PROVE  Settled(d)' /\ RowOf(d)' = RowOf(d) /\ pulls'[d] = pulls[d]
<1>1. /\ MonTypes /\ d[1] \in Sources /\ d # <<>> /\ Exists(d) /\ RowOf(d).status # "proposed"
      /\ \A v \in Deciders : verdict[v].on # d
  BY DiagnosesProduct DEF MonIInv, Settled
<1>2. CASE UNCHANGED <<diag, verdict, pulls>>
  BY <1>2 DEF Settled, Exists, RowOf
<1>3. ASSUME NEW r \in MonitorRuns, run_commit(r)
      PROVE  Settled(d)' /\ RowOf(d)' = RowOf(d) /\ pulls'[d] = pulls[d]
  <2>1. PICK n : n = d[2]
    OBVIOUS
  <2>2. diag[d[1]] \in Seq(DiagRecords) /\ n \in 1..Len(diag[d[1]])
    BY <1>1, <2>1 DEF MonTypes, Exists
  <2>3. n \in DOMAIN diag'[d[1]] /\ diag'[d[1]][n] = diag[d[1]][n]
    BY <1>1, <1>3, <2>2, CommitAppends
  <2>4. Exists(d)' /\ RowOf(d)' = RowOf(d)
    BY <2>1, <2>3 DEF Exists, RowOf
  <2> QED
    BY <1>1, <1>3, <2>4 DEF run_commit, Settled
<1>4. ASSUME NEW v \in Deciders, VerdictStep(v)
      PROVE  Settled(d)' /\ RowOf(d)' = RowOf(d) /\ pulls'[d] = pulls[d]
  <2>1. NoVerdict.on # d /\ NoVerdict.verb = "none"
    BY <1>1 DEF NoVerdict
  <2>2. verdict[v].verb \in {"approve", "reject"} => verdict[v] \in VerdictRecords /\ verdict[v].on \in Diagnoses
    BY <1>1 DEF MonTypes, NoVerdict, VerdictRecords
  <2>3. ASSUME NEW verb \in {"approve", "reject"}, NEW e \in Diagnoses, verdict_read(v, verb, e)
        PROVE  Settled(d)' /\ RowOf(d)' = RowOf(d) /\ pulls'[d] = pulls[d]
    <3>1. e # d
      BY <1>1, <2>3 DEF verdict_read, Proposed
    <3>2. \A u \in Deciders : verdict'[u].on # d
      BY <1>1, <2>3, <3>1 DEF verdict_read, MonTypes
    <3> QED
      BY <1>1, <2>3, <3>2 DEF verdict_read, Settled, Exists, RowOf
  <2>4. ASSUME NEW answer \in {"skipped", "created", "error"}, NEW opened \in BOOLEAN,
               open_draft_pr(v, answer, opened)
        PROVE  Settled(d)' /\ RowOf(d)' = RowOf(d) /\ pulls'[d] = pulls[d]
    <3>1. verdict[v] \in VerdictRecords /\ verdict[v].on # d
      BY <1>1, <2>2, <2>4 DEF open_draft_pr
    <3>2. pulls'[d] = pulls[d]
      BY <1>1, <2>4, <3>1 DEF open_draft_pr, MonTypes
    <3>3. \A u \in Deciders : verdict'[u].on # d
      BY <1>1, <2>4, <3>1 DEF open_draft_pr, MonTypes, VerdictRecords
    <3> QED
      BY <1>1, <2>4, <3>2, <3>3 DEF open_draft_pr, Settled, Exists, RowOf
  <2>5. ASSUME verdict' = [verdict EXCEPT ![v] = NoVerdict]
        PROVE  \A u \in Deciders : verdict'[u].on # d
    BY <1>1, <2>1, <2>5 DEF MonTypes
  <2>6. ASSUME approve_diagnosis(v)
        PROVE  Settled(d)' /\ RowOf(d)' = RowOf(d) /\ pulls'[d] = pulls[d]
    <3> DEFINE e == verdict[v].on
    <3>1. e \in Diagnoses /\ e # d
      BY <1>1, <2>2, <2>6 DEF approve_diagnosis
    <3>2. PICK row : row = [RowOf(e) EXCEPT !.status = "approved", !.described = TRUE,
                                            !.url = @ \/ verdict[v].github = "created"]
      OBVIOUS
    <3>3. diag' = [diag EXCEPT ![e[1]] = [diag[e[1]] EXCEPT ![e[2]] = row]]
      BY <2>6, <3>2 DEF approve_diagnosis
    <3> HIDE DEF e
    <3>4. Exists(d)' /\ RowOf(d)' = RowOf(d)
      BY <1>1, <3>1, <3>3, OtherRowKept
    <3> QED
      BY <1>1, <2>5, <2>6, <3>4 DEF approve_diagnosis, Settled
  <2>7. ASSUME reject_diagnosis(v)
        PROVE  Settled(d)' /\ RowOf(d)' = RowOf(d) /\ pulls'[d] = pulls[d]
    <3> DEFINE e == verdict[v].on
    <3>1. e \in Diagnoses /\ e # d
      BY <1>1, <2>2, <2>7 DEF reject_diagnosis
    <3>2. PICK row : row = [diag[e[1]][e[2]] EXCEPT !.status = "rejected"]
      OBVIOUS
    <3>3. diag' = [diag EXCEPT ![e[1]] = [diag[e[1]] EXCEPT ![e[2]] = row]]
      BY <2>7, <3>2 DEF reject_diagnosis
    <3> HIDE DEF e
    <3>4. Exists(d)' /\ RowOf(d)' = RowOf(d)
      BY <1>1, <3>1, <3>3, OtherRowKept
    <3> QED
      BY <1>1, <2>5, <2>7, <3>4 DEF reject_diagnosis, Settled
  <2>8. ASSUME verdict_abort(v)
        PROVE  Settled(d)' /\ RowOf(d)' = RowOf(d) /\ pulls'[d] = pulls[d]
    BY <1>1, <2>5, <2>8 DEF verdict_abort, Settled, Exists, RowOf
  <2> QED
    BY <1>4, <2>3, <2>4, <2>6, <2>7, <2>8 DEF VerdictStep
<1>5. ASSUME NEW r \in MonitorRuns,
             \/ \E k \in {"loop", "request"} : monitor_start(r, k)
             \/ CollectStep(r) \/ collectors_done(r)
             \/ \E s \in Sources, o \in Opinions : diagnose(r, s, o)
             \/ run_deadlock(r) \/ run_lost(r)
      PROVE  UNCHANGED <<diag, verdict, pulls>>
  BY <1>5 DEF monitor_start, CollectStep, observation_check, observation_insert, observation_conflict,
              collectors_done, diagnose, run_deadlock, run_lost
<1>6. ASSUME NEW s \in Sources, source_fails(s) PROVE UNCHANGED <<diag, verdict, pulls>>
  BY <1>6 DEF source_fails
<1>7. CASE UNCHANGED monVars
  BY <1>2, <1>7 DEF monVars
<1> QED
  BY <1>2, <1>3, <1>4, <1>5, <1>6, <1>7 DEF MonNext, MonStep

\* Once its last open request is through, a decided diagnosis stays as it is and gets no
\* further pull request (routers/monitor.py), for any number of racing requests.
THEOREM DiagnosisSettlesHolds == MonSpec => DiagnosisSettles
<1>1. MonIInv /\ [MonNext]_monVars =>
        [\A d \in Diagnoses : Settled(d) =>
            Settled(d)' /\ RowOf(d)' = RowOf(d) /\ pulls'[d] = pulls[d]]_monVars
  BY SettledStays
<1> QED
  BY <1>1, MonInvariant, PTL DEF MonSpec, DiagnosisSettles

-----------------------------------------------------------------------------
(* How many diagnoses a failure gets                                       *)

\* The run will diagnose the source, or has done so and not committed it.
Takes(r, s) == s \in mon[r].todo \/ s \in DraftedBy(r)
Takers(s) == {r \in MonitorRuns : Takes(r, s)}

\* A run looks for one observation at a time and diagnoses each once.
DiagnosesOnce(r) ==
    /\ mon[r].asks = {} \/ \E s \in Sources : mon[r].asks = {s}
    /\ \A s \in mon[r].todo : s \notin DraftedBy(r)
    /\ \A d, e \in mon[r].drafts : d[1] = e[1] => d = e

\* The diagnoses there are and those that runs still have to commit.
DiagnosesBounded ==
    \A s \in Sources :
        /\ obs[s] # "analyzed" => Len(diag[s]) = 0
        /\ Len(diag[s]) + Cardinality(Takers(s)) <= Cardinality(MonitorRuns)

MonCounts ==
    /\ broken \subseteq Sources
    /\ pulls \in [Diagnoses -> 0..MaxPulls]
    /\ runsLost \in 0..MaxLost /\ overlaps \in 0..MaxOverlaps

MonBounds == MonCounts /\ DiagnosesBounded /\ \A r \in MonitorRuns : DiagnosesOnce(r)

LEMMA TakersFinite ==
    ASSUME NEW s
    PROVE  /\ IsFiniteSet(Takers(s)) /\ Cardinality(Takers(s)) \in Nat
           /\ Cardinality(Takers(s)) <= Cardinality(MonitorRuns)
           /\ Cardinality(MonitorRuns) \in Nat
<1>1. Takers(s) \in SUBSET MonitorRuns /\ IsFiniteSet(MonitorRuns)
  BY MonitorAssumption DEF Takers
<1> QED
  BY <1>1, FS_Subset, FS_CardinalityType

\* The numbers change by steps that look at their bounds.
LEMMA CountsKept ==
    ASSUME MonTypes, MonCounts, [MonNext]_monVars
    PROVE  MonCounts'
<1> USE MonitorAssumption
<1>1. ASSUME NEW s \in Sources, source_fails(s) PROVE MonCounts'
  BY <1>1 DEF source_fails, MonCounts
<1>2. ASSUME NEW r \in MonitorRuns, NEW k, monitor_start(r, k) PROVE MonCounts'
  BY <1>2 DEF monitor_start, MonCounts
<1>3. ASSUME NEW r \in MonitorRuns, MonStep(r) PROVE MonCounts'
  BY <1>3 DEF MonStep, CollectStep, observation_check, observation_insert, observation_conflict,
              collectors_done, diagnose, run_commit, run_deadlock, MonCounts
<1>4. ASSUME NEW r \in MonitorRuns, run_lost(r) PROVE MonCounts'
  BY <1>4 DEF run_lost, MonCounts
<1>5. ASSUME NEW v \in Deciders, NEW answer, NEW opened \in BOOLEAN, open_draft_pr(v, answer, opened)
      PROVE  MonCounts'
  <2> DEFINE d == verdict[v].on
  <2>1. pulls[d] < MaxPulls /\ pulls' = IF opened THEN [pulls EXCEPT ![d] = @ + 1] ELSE pulls
    BY <1>5 DEF open_draft_pr
  <2>2. pulls \in [Diagnoses -> 0..MaxPulls]
    BY DEF MonCounts
  <2>3. d \in Diagnoses
    BY <1>5 DEF open_draft_pr, MonTypes, NoVerdict, VerdictRecords
  <2> HIDE DEF d
  <2>4. pulls[d] + 1 \in 0..MaxPulls
    BY <2>1, <2>2, <2>3
  <2>5. pulls' \in [Diagnoses -> 0..MaxPulls]
    BY <2>1, <2>2, <2>3, <2>4
  <2> QED
    BY <1>5, <2>5 DEF open_draft_pr, MonCounts
<1>6. ASSUME NEW v \in Deciders, UNCHANGED <<broken, pulls, runsLost, overlaps>> PROVE MonCounts'
  BY <1>6 DEF MonCounts
<1>7. ASSUME NEW v \in Deciders, VerdictStep(v) PROVE MonCounts'
  BY <1>5, <1>6, <1>7 DEF VerdictStep, verdict_read, approve_diagnosis, reject_diagnosis, verdict_abort
<1>8. CASE UNCHANGED monVars
  BY <1>8 DEF monVars, MonCounts
<1> QED
  BY <1>1, <1>2, <1>3, <1>4, <1>7, <1>8 DEF MonNext

\* Nothing is added to the diagnoses, and nobody takes up what is analyzed.
LEMMA NothingAdded ==
    ASSUME MonIInv, DiagnosesBounded,
           \A s \in Sources : Len(diag'[s]) = Len(diag[s]),
           \A s \in Sources : obs[s] = "analyzed" =>
                obs'[s] = "analyzed" /\ Takers(s)' \subseteq Takers(s)
    PROVE  DiagnosesBounded'
<1> SUFFICES ASSUME NEW s \in Sources
             PROVE  /\ obs'[s] # "analyzed" => Len(diag'[s]) = 0
                    /\ Len(diag'[s]) + Cardinality(Takers(s)') <= Cardinality(MonitorRuns)
  BY DEF DiagnosesBounded
<1>1. Takers(s)' \in SUBSET MonitorRuns /\ IsFiniteSet(MonitorRuns)
  BY MonitorAssumption DEF Takers
<1>2. /\ Cardinality(Takers(s)') \in Nat /\ Cardinality(MonitorRuns) \in Nat
      /\ Cardinality(Takers(s)') <= Cardinality(MonitorRuns)
  BY <1>1, FS_Subset, FS_CardinalityType
<1>3. /\ Len(diag'[s]) = Len(diag[s]) /\ Len(diag[s]) \in Nat
      /\ obs[s] # "analyzed" => Len(diag[s]) = 0
      /\ Len(diag[s]) + Cardinality(Takers(s)) <= Cardinality(MonitorRuns)
  BY DEF DiagnosesBounded, MonIInv, MonTypes
<1>4. CASE obs[s] # "analyzed"
  BY <1>2, <1>3, <1>4
<1>5. CASE obs[s] = "analyzed"
  <2>1. obs'[s] = "analyzed" /\ Takers(s)' \in SUBSET Takers(s)
    BY <1>5
  <2>2. Cardinality(Takers(s)') <= Cardinality(Takers(s))
    BY <2>1, TakersFinite, FS_Subset
  <2> QED
    BY <1>2, <1>3, <2>1, <2>2, TakersFinite
<1> QED
  BY <1>4, <1>5

\* A run that does not commit: what is analyzed is none of the sources it takes up.
LEMMA UncommittedBounded ==
    ASSUME MonIInv, MonBounds, NEW r \in MonitorRuns, DiagnosesOnce(r)',
           \A q \in MonitorRuns \ {r} : mon'[q] = mon[q],
           diag' = diag,
           \A s \in Sources : obs[s] = "analyzed" =>
                obs'[s] = "analyzed" /\ (Takes(r, s)' => Takes(r, s))
    PROVE  DiagnosesBounded' /\ \A q \in MonitorRuns : DiagnosesOnce(q)'
<1>1. \A q \in MonitorRuns \ {r} : DraftedBy(q)' = DraftedBy(q)
  BY DEF DraftedBy
<1>2. \A q \in MonitorRuns : DiagnosesOnce(q)'
  BY <1>1 DEF MonBounds, DiagnosesOnce
<1>3. \A s \in Sources : obs[s] = "analyzed" => Takers(s)' \subseteq Takers(s)
  BY <1>1 DEF Takers, Takes
<1>4. DiagnosesBounded'
  BY <1>3, NothingAdded DEF MonBounds
<1> QED
  BY <1>2, <1>4

LEMMA CollectBounded ==
    ASSUME MonIInv, MonBounds, NEW r \in MonitorRuns,
           \/ \E k \in {"loop", "request"} : monitor_start(r, k)
           \/ CollectStep(r) \/ collectors_done(r)
           \/ run_deadlock(r) \/ run_lost(r)
    PROVE  DiagnosesBounded' /\ \A q \in MonitorRuns : DiagnosesOnce(q)'
<1>1. mon[r] \in RunRecords /\ mon \in [MonitorRuns -> RunRecords] /\ DiagnosesOnce(r)
  BY DEF MonIInv, MonTypes, MonBounds
<1>2. NoMon.asks = {} /\ NoMon.todo = {} /\ NoMon.drafts = {}
  BY DEF NoMon
<1>3. ASSUME mon' = [mon EXCEPT ![r] = NoMon], diag' = diag, obs' = obs
      PROVE  DiagnosesBounded' /\ \A q \in MonitorRuns : DiagnosesOnce(q)'
  <2>1. mon'[r] = NoMon /\ \A q \in MonitorRuns \ {r} : mon'[q] = mon[q]
    BY <1>1, <1>3
  <2>2. DiagnosesOnce(r)' /\ \A s : ~Takes(r, s)'
    BY <1>2, <2>1 DEF DiagnosesOnce, Takes, DraftedBy
  <2> QED
    BY <1>3, <2>1, <2>2, UncommittedBounded
<1>4. ASSUME NEW a, a = {} \/ \E s \in Sources : a = {s},
             mon'[r].asks = a, mon'[r].todo = mon[r].todo, mon'[r].drafts = mon[r].drafts,
             \A q \in MonitorRuns \ {r} : mon'[q] = mon[q], diag' = diag, obs' = obs
      PROVE  DiagnosesBounded' /\ \A q \in MonitorRuns : DiagnosesOnce(q)'
  <2>1. DiagnosesOnce(r)' /\ \A s : Takes(r, s)' => Takes(r, s)
    BY <1>1, <1>4 DEF DiagnosesOnce, Takes, DraftedBy
  <2> QED
    BY <1>4, <2>1, UncommittedBounded
<1>5. ASSUME NEW k \in {"loop", "request"}, monitor_start(r, k)
      PROVE  DiagnosesBounded' /\ \A q \in MonitorRuns : DiagnosesOnce(q)'
  BY <1>1, <1>2, <1>4, <1>5 DEF monitor_start, RunRecords
<1>6. ASSUME NEW s \in Sources, observation_check(r, s)
      PROVE  DiagnosesBounded' /\ \A q \in MonitorRuns : DiagnosesOnce(q)'
  <2>1. PICK a : a = IF Observed(r, s) THEN {} ELSE {s}
    OBVIOUS
  <2>2. /\ mon'[r].asks = a /\ mon'[r].todo = mon[r].todo /\ mon'[r].drafts = mon[r].drafts
        /\ \A q \in MonitorRuns \ {r} : mon'[q] = mon[q]
        /\ diag' = diag /\ obs' = obs
    BY <1>1, <1>6, <2>1 DEF observation_check, RunRecords
  <2> QED
    BY <1>4, <2>1, <2>2
<1>7. ASSUME observation_insert(r)
      PROVE  DiagnosesBounded' /\ \A q \in MonitorRuns : DiagnosesOnce(q)'
  <2>1. /\ mon'[r].asks = {} /\ mon'[r].todo = mon[r].todo /\ mon'[r].drafts = mon[r].drafts
        /\ \A q \in MonitorRuns \ {r} : mon'[q] = mon[q]
        /\ diag' = diag /\ obs' = obs
    BY <1>1, <1>7 DEF observation_insert, RunRecords
  <2> QED
    BY <1>4, <2>1
<1>8. ASSUME NEW goesOn \in BOOLEAN, observation_conflict(r, goesOn)
      PROVE  DiagnosesBounded' /\ \A q \in MonitorRuns : DiagnosesOnce(q)'
  <2>1. CASE goesOn
    <3>1. /\ mon'[r].asks = {} /\ mon'[r].todo = mon[r].todo /\ mon'[r].drafts = mon[r].drafts
          /\ \A q \in MonitorRuns \ {r} : mon'[q] = mon[q]
          /\ diag' = diag /\ obs' = obs
      BY <1>1, <1>8, <2>1 DEF observation_conflict, RunRecords
    <3> QED
      BY <1>4, <3>1
  <2>2. CASE ~goesOn
    BY <1>3, <1>8, <2>2 DEF observation_conflict
  <2> QED
    BY <2>1, <2>2
<1>9. ASSUME collectors_done(r)
      PROVE  DiagnosesBounded' /\ \A q \in MonitorRuns : DiagnosesOnce(q)'
  <2>1. /\ mon[r].phase = "collecting" /\ mon'[r].todo = New(r) /\ mon'[r].drafts = mon[r].drafts
        /\ mon'[r].asks = {} /\ diag' = diag
        /\ \A q \in MonitorRuns \ {r} : mon'[q] = mon[q]
        /\ \A s \in Sources : obs'[s] = IF mon[r].kind = "loop" /\ s \in mon[r].mine
                                         THEN "new" ELSE obs[s]
    BY <1>1, <1>9 DEF collectors_done, RunRecords
  <2>2. mon[r].drafts = {}
    BY <2>1 DEF MonIInv, WorkKnown
  <2>3. DraftedBy(r)' = {}
    BY <2>1, <2>2 DEF DraftedBy
  <2>4. \A s \in mon[r].mine : obs[s] = "absent"
    BY DEF MonIInv, MineIsNew
  <2>5. \A s \in New(r) : obs[s] # "analyzed"
    BY <2>4 DEF New
  <2>6. DiagnosesOnce(r)'
    BY <2>1, <2>2, <2>3 DEF DiagnosesOnce
  <2>7. \A s \in Sources : obs[s] = "analyzed" => obs'[s] = "analyzed" /\ ~Takes(r, s)'
    BY <2>1, <2>3, <2>4, <2>5 DEF Takes
  <2> QED
    BY <2>1, <2>6, <2>7, UncommittedBounded
<1>10. ASSUME run_deadlock(r) \/ run_lost(r)
       PROVE  DiagnosesBounded' /\ \A q \in MonitorRuns : DiagnosesOnce(q)'
  BY <1>3, <1>10 DEF run_deadlock, run_lost
<1> QED
  BY <1>5, <1>6, <1>7, <1>8, <1>9, <1>10 DEF CollectStep

LEMMA DiagnoseBounded ==
    ASSUME MonIInv, MonBounds, NEW r \in MonitorRuns, NEW s \in Sources, NEW o \in Opinions,
           diagnose(r, s, o)
    PROVE  DiagnosesBounded' /\ \A q \in MonitorRuns : DiagnosesOnce(q)'
<1>1. mon[r] \in RunRecords /\ mon \in [MonitorRuns -> RunRecords] /\ DiagnosesOnce(r)
  BY DEF MonIInv, MonTypes, MonBounds
<1>2. /\ s \in mon[r].todo /\ mon'[r].asks = mon[r].asks
      /\ mon'[r].todo = mon[r].todo \ {s} /\ mon'[r].drafts = mon[r].drafts \union {<<s, o>>}
      /\ \A q \in MonitorRuns \ {r} : mon'[q] = mon[q]
      /\ obs' = obs /\ diag' = diag
  BY <1>1 DEF diagnose, RunRecords
<1>3. PICK e : e = <<s, o>>
  OBVIOUS
<1>4. e[1] = s /\ mon'[r].drafts = mon[r].drafts \union {e}
  BY <1>2, <1>3
<1>5. DraftedBy(r)' = DraftedBy(r) \union {s}
  BY <1>4 DEF DraftedBy
<1>6. \A d \in mon[r].drafts : d[1] # s
  BY <1>1, <1>2 DEF DiagnosesOnce, DraftedBy
<1>7. DiagnosesOnce(r)'
  <2>1. \A d, f \in mon'[r].drafts : d[1] = f[1] => d = f
    BY <1>1, <1>4, <1>6 DEF DiagnosesOnce
  <2>2. \A x \in mon'[r].todo : x \notin DraftedBy(r)'
    BY <1>1, <1>2, <1>5 DEF DiagnosesOnce
  <2> QED
    BY <1>1, <1>2, <2>1, <2>2 DEF DiagnosesOnce
<1>8. \A x \in Sources : Takes(r, x)' => Takes(r, x)
  BY <1>2, <1>5 DEF Takes
<1> QED
  BY <1>2, <1>7, <1>8, UncommittedBounded

\* What a commit appends: one diagnosis of a source that the run has drafted, or none.
LEMMA CommitAppendsOne ==
    ASSUME MonIInv, MonBounds, NEW r \in MonitorRuns, run_commit(r), NEW s \in Sources
    PROVE  Len(diag'[s]) = Len(diag[s]) + IF s \in DraftedBy(r) THEN 1 ELSE 0
<1> DEFINE own == {e \in mon[r].drafts : e[1] = s}
           new == SetToSeq(Drafts(r, s))
<1>1. diag[s] \in Seq(DiagRecords)
  BY DEF MonIInv, MonTypes
<1>2. IsFiniteSet(Drafts(r, s)) /\ new \in Seq(Drafts(r, s))
  BY DraftsAreDiagnoses, SetToSeqIsSeq DEF MonIInv
<1>3. diag'[s] = diag[s] \o new
  BY DEF run_commit, Drafts
<1>4. Drafts(r, s) = {Draft(d[2]) : d \in own}
  BY DEF Drafts
<1> HIDE DEF new
<1>7. Len(diag'[s]) = Len(diag[s]) + Len(new) /\ Len(diag[s]) \in Nat
  <2>1. diag[s] \in Seq(DiagRecords \union Drafts(r, s)) /\ new \in Seq(DiagRecords \union Drafts(r, s))
    BY <1>1, <1>2
  <2>2. Len(diag[s] \o new) = Len(diag[s]) + Len(new)
    BY <2>1
  <2> QED
    BY <1>1, <1>3, <2>2
<1>5. CASE s \in DraftedBy(r)
  <2>1. PICK e \in mon[r].drafts : e[1] = s
    BY <1>5 DEF DraftedBy
  <2>2. own = {e}
    BY <2>1 DEF MonBounds, DiagnosesOnce
  <2>3. Drafts(r, s) = {Draft(e[2])}
    BY <1>4, <2>2
  <2>4. Len(new) = 1
    BY <2>3, SetToSeqLen, FS_Singleton, <1>2 DEF new
  <2> QED
    BY <1>5, <1>7, <2>4
<1>6. CASE s \notin DraftedBy(r)
  <2>1. own = {}
    BY <1>6 DEF DraftedBy
  <2>2. Drafts(r, s) = {}
    BY <1>4, <2>1
  <2>3. Len(new) = 0
    BY <2>2, SetToSeqLen, FS_EmptySet, <1>2 DEF new
  <2> QED
    BY <1>6, <1>7, <2>3
<1> QED
  BY <1>5, <1>6

LEMMA CommitBounded ==
    ASSUME MonIInv, MonBounds, NEW r \in MonitorRuns, run_commit(r)
    PROVE  DiagnosesBounded' /\ \A q \in MonitorRuns : DiagnosesOnce(q)'
<1>1. /\ mon'[r] = NoMon /\ \A q \in MonitorRuns \ {r} : mon'[q] = mon[q]
      /\ \A s \in Sources : obs'[s] = IF s \in DraftedBy(r) THEN "analyzed" ELSE obs[s]
  BY DEF run_commit, MonIInv, MonTypes
<1>2. NoMon.asks = {} /\ NoMon.todo = {} /\ NoMon.drafts = {}
  BY DEF NoMon
<1>3. DraftedBy(r)' = {} /\ \A q \in MonitorRuns \ {r} : DraftedBy(q)' = DraftedBy(q)
  BY <1>1, <1>2 DEF DraftedBy
<1>4. \A q \in MonitorRuns : DiagnosesOnce(q)'
  BY <1>1, <1>2, <1>3 DEF MonBounds, DiagnosesOnce
<1>5. \A s : Takers(s)' = Takers(s) \ {r}
  BY <1>1, <1>2, <1>3 DEF Takers, Takes
<1>6. DiagnosesBounded'
  <2> SUFFICES ASSUME NEW s \in Sources
               PROVE  /\ obs'[s] # "analyzed" => Len(diag'[s]) = 0
                      /\ Len(diag'[s]) + Cardinality(Takers(s)') <= Cardinality(MonitorRuns)
    BY DEF DiagnosesBounded
  <2>1. /\ Len(diag[s]) \in Nat
        /\ obs[s] # "analyzed" => Len(diag[s]) = 0
        /\ Len(diag[s]) + Cardinality(Takers(s)) <= Cardinality(MonitorRuns)
    BY DEF MonBounds, DiagnosesBounded, MonIInv, MonTypes
  <2>2. Cardinality(Takers(s)') = IF r \in Takers(s) THEN Cardinality(Takers(s)) - 1
                                                     ELSE Cardinality(Takers(s))
    BY <1>5, TakersFinite, FS_RemoveElement
  <2>3. s \in DraftedBy(r) => r \in Takers(s)
    BY DEF Takers, Takes
  <2>4. Len(diag'[s]) = Len(diag[s]) + IF s \in DraftedBy(r) THEN 1 ELSE 0
    BY CommitAppendsOne
  <2>5. CASE s \in DraftedBy(r)
    <3>1. /\ obs'[s] = "analyzed" /\ Len(diag'[s]) = Len(diag[s]) + 1
          /\ Cardinality(Takers(s)') = Cardinality(Takers(s)) - 1
      BY <1>1, <2>2, <2>3, <2>4, <2>5
    <3> QED
      BY <2>1, <3>1, TakersFinite
  <2>6. CASE s \notin DraftedBy(r)
    <3>1. /\ obs'[s] = obs[s] /\ Len(diag'[s]) = Len(diag[s])
          /\ \/ Cardinality(Takers(s)') = Cardinality(Takers(s)) - 1
             \/ Cardinality(Takers(s)') = Cardinality(Takers(s))
      BY <1>1, <2>1, <2>2, <2>4, <2>6
    <3> QED
      BY <2>1, <3>1, TakersFinite
  <2> QED
    BY <2>5, <2>6
<1> QED
  BY <1>4, <1>6

\* A verdict changes rows of diagnoses that are there, and adds none.
LEMMA VerdictBounded ==
    ASSUME MonIInv, MonBounds, NEW v \in Deciders, VerdictStep(v)
    PROVE  DiagnosesBounded' /\ \A q \in MonitorRuns : DiagnosesOnce(q)'
<1>1. UNCHANGED <<obs, mon>>
  BY DEF VerdictStep, verdict_read, open_draft_pr, approve_diagnosis, reject_diagnosis, verdict_abort
<1>2. \A q \in MonitorRuns : DiagnosesOnce(q)'
  BY <1>1 DEF MonBounds, DiagnosesOnce, DraftedBy
<1>3. \A s : Takers(s)' = Takers(s)
  BY <1>1 DEF Takers, Takes, DraftedBy
<1>4. ASSUME NEW s \in Sources PROVE Len(diag'[s]) = Len(diag[s])
  <2>1. diag[s] \in Seq(DiagRecords) /\ diag \in [Sources -> Seq(DiagRecords)]
    BY DEF MonIInv, MonTypes
  <2>2. ASSUME NEW t \in Sources, NEW n, NEW row, diag' = [diag EXCEPT ![t] = [diag[t] EXCEPT ![n] = row]]
        PROVE  Len(diag'[s]) = Len(diag[s])
    <3>1. diag'[s] = diag[s] \/ diag'[s] = [diag[s] EXCEPT ![n] = row]
      BY <2>1, <2>2
    <3>2. Len([diag[s] EXCEPT ![n] = row]) = Len(diag[s])
      BY <2>1
    <3> QED
      BY <3>1, <3>2
  <2>3. verdict[v].verb \in {"approve", "reject"} => verdict[v].on[1] \in Sources
    BY DEF MonIInv, MonTypes, NoVerdict, VerdictRecords, Diagnoses
  <2>4. ASSUME approve_diagnosis(v) PROVE Len(diag'[s]) = Len(diag[s])
    BY <2>2, <2>3, <2>4 DEF approve_diagnosis
  <2>5. ASSUME reject_diagnosis(v) PROVE Len(diag'[s]) = Len(diag[s])
    BY <2>2, <2>3, <2>5 DEF reject_diagnosis
  <2>6. CASE diag' = diag
    BY <2>6
  <2> QED
    BY <2>4, <2>5, <2>6 DEF VerdictStep, verdict_read, open_draft_pr, verdict_abort
<1> QED
  BY <1>1, <1>2, <1>3, <1>4, NothingAdded DEF MonBounds

LEMMA BoundsInit == MonInit => MonBounds
<1> SUFFICES ASSUME MonInit PROVE MonBounds
  OBVIOUS
<1>1. \A r \in MonitorRuns : mon[r].asks = {} /\ mon[r].todo = {} /\ mon[r].drafts = {}
  BY DEF MonInit, NoMon
<1>2. \A s \in Sources : Len(diag[s]) = 0 /\ Takers(s) = {}
  BY <1>1 DEF MonInit, Takers, Takes, DraftedBy
<1>3. DiagnosesBounded
  BY <1>2, FS_EmptySet, TakersFinite DEF DiagnosesBounded
<1>4. MonCounts
  BY MonitorAssumption DEF MonInit, MonCounts
<1> QED
  BY <1>1, <1>3, <1>4 DEF MonBounds, DiagnosesOnce

LEMMA BoundsNext == MonIInv /\ MonBounds /\ [MonNext]_monVars => MonBounds'
<1> SUFFICES ASSUME MonIInv, MonBounds, [MonNext]_monVars PROVE MonBounds'
  OBVIOUS
<1>1. MonCounts'
  BY CountsKept DEF MonIInv, MonBounds
<1>2. ASSUME UNCHANGED <<obs, diag, mon>> PROVE MonBounds'
  <2>1. \A s : Takers(s)' = Takers(s)
    BY <1>2 DEF Takers, Takes, DraftedBy
  <2> QED
    BY <1>1, <1>2, <2>1 DEF MonBounds, DiagnosesBounded, DiagnosesOnce, DraftedBy
<1>3. ASSUME NEW s \in Sources, source_fails(s) PROVE MonBounds'
  BY <1>2, <1>3 DEF source_fails
<1>4. ASSUME NEW r \in MonitorRuns, monitor_start(r, "loop") \/ monitor_start(r, "request") PROVE MonBounds'
  BY <1>1, <1>4, CollectBounded DEF MonBounds
<1>5. ASSUME NEW r \in MonitorRuns, MonStep(r) PROVE MonBounds'
  BY <1>1, <1>5, CollectBounded, DiagnoseBounded, CommitBounded DEF MonStep, MonBounds
<1>6. ASSUME NEW r \in MonitorRuns, run_lost(r) PROVE MonBounds'
  BY <1>1, <1>6, CollectBounded DEF MonBounds
<1>7. ASSUME NEW v \in Deciders, VerdictStep(v) PROVE MonBounds'
  BY <1>1, <1>7, VerdictBounded DEF MonBounds
<1>8. CASE UNCHANGED monVars
  BY <1>2, <1>8 DEF monVars
<1> QED
  BY <1>3, <1>4, <1>5, <1>6, <1>7, <1>8 DEF MonNext

\* Rows and sessions are well formed, and a failure has no more diagnoses than there are
\* runs that could have taken it up before the first of them committed.
THEOREM MonTypeOKHolds == MonSpec => []MonTypeOK
<1>1. MonInit => MonIInv /\ MonBounds
  BY MonInitOK, BoundsInit
<1>2. MonIInv /\ MonBounds /\ [MonNext]_monVars => (MonIInv /\ MonBounds)'
  BY MonNextOK, BoundsNext
<1>3. MonIInv /\ MonBounds => MonTypeOK
  <2> SUFFICES ASSUME MonIInv, MonBounds PROVE MonTypeOK
    OBVIOUS
  <2>1. ASSUME NEW s \in Sources
        PROVE  /\ Len(diag[s]) <= Cardinality(MonitorRuns)
               /\ Range(diag[s]) \subseteq DiagRecords
    <3>1. diag[s] \in Seq(DiagRecords)
      BY DEF MonIInv, MonTypes
    <3>2. Len(diag[s]) + Cardinality(Takers(s)) <= Cardinality(MonitorRuns)
      BY DEF MonBounds, DiagnosesBounded
    <3>3. Len(diag[s]) <= Cardinality(MonitorRuns)
      BY <3>1, <3>2, TakersFinite
    <3> QED
      BY <3>1, <3>3 DEF Range
  <2>2. ASSUME NEW r \in MonitorRuns
        PROVE  /\ mon[r] \in RunRecords
               /\ Cardinality(mon[r].asks) <= 1
    <3>1. Cardinality(mon[r].asks) \in {0, 1}
      BY FS_EmptySet, FS_Singleton DEF MonBounds, DiagnosesOnce
    <3> QED
      BY <3>1 DEF MonIInv, MonTypes
  <2>3. \A r \in MonitorRuns :
            /\ mon[r].kind \in MonKinds /\ mon[r].phase \in {"idle", "collecting", "diagnosing"}
            /\ UNION {mon[r].seen, mon[r].asks, mon[r].mine, mon[r].counted, mon[r].todo} \subseteq Sources
            /\ mon[r].drafts \subseteq Sources \X Opinions
    BY <2>2 DEF RunRecords
  <2>4. \A v \in Deciders : verdict[v] = NoVerdict \/ verdict[v].on \in Diagnoses
    BY DEF MonIInv, MonTypes, VerdictRecords
  <2> QED
    BY <2>1, <2>2, <2>3, <2>4 DEF MonTypeOK, MonIInv, MonTypes, MonBounds, MonCounts, DiagRecords
<1> QED
  BY <1>1, <1>2, <1>3, PTL DEF MonSpec

-----------------------------------------------------------------------------
(* The diagnoses as a docket                                               *)

\* The parts of the docket, as Monitor maps them.
RulingOn(d) == IF ~Exists(d) \/ Proposed(d) THEN {} ELSE {RowOf(d)}
HeardBy(v) == IF verdict[v] = NoVerdict THEN {} ELSE {verdict[v].on}

\* What a request has taken up is in the table.
HeardExist == \A v \in Deciders : HeardBy(v) \subseteq {d \in Diagnoses : Exists(d)}

LEMMA VerdictOpen ==
    ASSUME MonTypes, NEW v \in Deciders
    PROVE  /\ verdict[v] # NoVerdict <=> verdict[v] \in VerdictRecords
           /\ verdict[v].verb \in {"approve", "reject"} => verdict[v] # NoVerdict
           /\ verdict[v] # NoVerdict => verdict[v].on \in Diagnoses
           /\ NoVerdict.github = "none"
<1>1. NoVerdict \notin VerdictRecords /\ NoVerdict.verb = "none" /\ NoVerdict.github = "none"
  BY DEF NoVerdict, VerdictRecords
<1> QED
  BY <1>1 DEF MonTypes, VerdictRecords

LEMMA MonDocketStutter ==
    ASSUME UNCHANGED <<diag, verdict, pulls>>
    PROVE  UNCHANGED MonDocket!docketVars
BY DEF MonDocket!docketVars, Exists, Proposed, RowOf

\* What a commit of a run adds are proposals.
LEMMA CommitAddsProposals ==
    ASSUME MonTypes, NEW r \in MonitorRuns, run_commit(r), NEW d \in Diagnoses
    PROVE  /\ Exists(d) => Exists(d)' /\ RowOf(d)' = RowOf(d)
           /\ ~Exists(d) /\ Exists(d)' => Proposed(d)'
<1>1. d[1] \in Sources /\ d[2] \in Nat
  BY FS_CardinalityType, MonitorAssumption DEF Diagnoses, Ordinals
<1>2. PICK old \in Seq(DiagRecords) : old = diag[d[1]]
  BY <1>1 DEF MonTypes
<1>3. PICK q : q = SetToSeq(Drafts(r, d[1]))
  OBVIOUS
<1>4. q \in Seq(Drafts(r, d[1]))
  BY <1>1, <1>3, DraftsAreDiagnoses, SetToSeqIsSeq
<1>5. q \in Seq(DiagRecords)
  BY <1>1, <1>4, DraftsAreDiagnoses
<1>6. diag'[d[1]] = old \o q
  BY <1>1, <1>2, <1>3 DEF run_commit, Drafts
<1>7. \A i \in 1..Len(q) : q[i].status = "proposed"
  <2> SUFFICES ASSUME NEW i \in 1..Len(q) PROVE q[i].status = "proposed"
    OBVIOUS
  <2>1. q[i] \in Drafts(r, d[1])
    BY <1>4
  <2>2. \A o : Draft(o).status = "proposed"
    BY DEF Draft
  <2> QED
    BY <2>1, <2>2 DEF Drafts
<1>8. PICK n \in Nat : n = d[2]
  BY <1>1
<1>9. n \in 1..Len(old) => n \in DOMAIN (old \o q) /\ (old \o q)[n] = old[n]
  BY <1>2, <1>5
<1>10. n \in DOMAIN (old \o q) /\ n \notin 1..Len(old) => (old \o q)[n].status = "proposed"
  <2> SUFFICES ASSUME n \in DOMAIN (old \o q), n \notin 1..Len(old)
               PROVE  (old \o q)[n].status = "proposed"
    OBVIOUS
  <2>1. n - Len(old) \in 1..Len(q) /\ (old \o q)[n] = q[n - Len(old)]
    BY <1>2, <1>5
  <2> QED
    BY <1>7, <2>1
<1>11. DOMAIN old = 1..Len(old)
  BY <1>2
<1> QED
  BY <1>2, <1>6, <1>8, <1>9, <1>10, <1>11 DEF Exists, RowOf, Proposed

\* A verdict's row: it exists still, and nothing else is touched.
LEMMA RowWritten ==
    ASSUME MonTypes, NEW e \in Diagnoses, NEW row, Exists(e),
           diag' = [diag EXCEPT ![e[1]] = [diag[e[1]] EXCEPT ![e[2]] = row]]
    PROVE  /\ Exists(e)' /\ RowOf(e)' = row
           /\ \A d \in Diagnoses : Exists(d)' <=> Exists(d)
           /\ \A d \in Diagnoses \ {e} : Exists(d) => RowOf(d)' = RowOf(d)
<1>1. e[1] \in Sources
  BY DiagnosesProduct
<1>2. \A d \in Diagnoses : DOMAIN diag'[d[1]] = DOMAIN diag[d[1]]
  BY DiagnosesProduct DEF MonTypes
<1>3. diag'[e[1]][e[2]] = row
  BY <1>1 DEF MonTypes, Exists
<1> QED
  BY <1>2, <1>3, OtherRowKept DEF Exists, RowOf

\* The diagnoses of a run are raised when it commits.
LEMMA DiagnosesRaise ==
    ASSUME MonTypes, NEW r \in MonitorRuns, run_commit(r)
    PROVE  [MonDocket!DocketNext]_MonDocket!docketVars
<1>1. verdict' = verdict /\ pulls' = pulls
  BY DEF run_commit
<1>2. \A d \in Diagnoses :
        /\ Exists(d) => Exists(d)' /\ RowOf(d)' = RowOf(d)
        /\ ~Exists(d) /\ Exists(d)' => Proposed(d)'
  BY CommitAddsProposals
<1>3. PICK S : S = {d \in Diagnoses : ~Exists(d) /\ Exists(d)'}
  OBVIOUS
<1>4. {d \in Diagnoses : Exists(d)}' = {d \in Diagnoses : Exists(d)} \union S
  BY <1>2, <1>3
<1>5. [d \in Diagnoses |-> RulingOn(d)]' = [d \in Diagnoses |-> RulingOn(d)]
  BY <1>2 DEF RulingOn, Proposed
<1>6. CASE S = {}
  <2>1. {d \in Diagnoses : Exists(d)}' = {d \in Diagnoses : Exists(d)}
    BY <1>4, <1>6
  <2> QED
    BY <1>1, <1>5, <2>1 DEF MonDocket!docketVars, RulingOn
<1>7. CASE S # {}
  <2>1. MonDocket!Raise(S)
    BY <1>1, <1>3, <1>4, <1>5, <1>7 DEF MonDocket!Raise, RulingOn
  <2>2. S \in SUBSET Diagnoses
    BY <1>3
  <2> QED
    BY <2>1, <2>2 DEF MonDocket!DocketNext
<1> QED
  BY <1>6, <1>7

\* A request that reads a proposal takes it up.
LEMMA VerdictReadHears ==
    ASSUME MonTypes, HeardExist, NEW v \in Deciders, NEW verb \in {"approve", "reject"},
           NEW d \in Diagnoses, verdict_read(v, verb, d)
    PROVE  MonDocket!DocketNext /\ HeardExist'
<1> DEFINE q == [verb |-> verb, on |-> d, github |-> "none"]
<1>1. /\ verdict[v] = NoVerdict /\ Exists(d) /\ Proposed(d)
      /\ verdict' = [verdict EXCEPT ![v] = q]
      /\ UNCHANGED <<diag, pulls>>
  BY DEF verdict_read, Proposed
<1>2. verdict'[v] = q /\ \A u \in Deciders \ {v} : verdict'[u] = verdict[u]
  BY <1>1 DEF MonTypes
<1>3. q # NoVerdict /\ q.on = d /\ q.github = verdict[v].github
  BY <1>1 DEF NoVerdict
<1> HIDE DEF q
<1>4. HeardBy(v) = {} /\ HeardBy(v)' = {d} /\ \A u \in Deciders \ {v} : HeardBy(u)' = HeardBy(u)
  BY <1>1, <1>2, <1>3 DEF HeardBy
<1>5. [u \in Deciders |-> HeardBy(u)]' = [[u \in Deciders |-> HeardBy(u)] EXCEPT ![v] = {d}]
  BY <1>4
<1>6. {u \in Deciders : verdict[u].github # "none"}' = {u \in Deciders : verdict[u].github # "none"}
  BY <1>2, <1>3
<1>7. {e \in Diagnoses : Exists(e)}' = {e \in Diagnoses : Exists(e)}
  BY <1>1 DEF Exists
<1>8. [e \in Diagnoses |-> RulingOn(e)]' = [e \in Diagnoses |-> RulingOn(e)]
  BY <1>1 DEF RulingOn, Exists, Proposed, RowOf
<1>9. MonDocket!Hear(v, d)
  BY <1>1, <1>4, <1>5, <1>6, <1>7, <1>8 DEF MonDocket!Hear, HeardBy, RulingOn
<1>10. HeardExist'
  BY <1>1, <1>4, <1>7 DEF HeardExist
<1> QED
  BY <1>9, <1>10 DEF MonDocket!DocketNext

\* GitHub is asked once before the approval, whether it opens a pull request or not.
LEMMA OpenDraftPrActs ==
    ASSUME MonTypes, HeardExist, NEW v \in Deciders,
           NEW answer \in {"skipped", "created", "error"}, NEW opened \in BOOLEAN,
           open_draft_pr(v, answer, opened)
    PROVE  MonDocket!DocketNext /\ HeardExist'
<1>1. /\ verdict[v].verb = "approve" /\ verdict[v].github = "none"
      /\ verdict' = [verdict EXCEPT ![v].github = answer]
      /\ pulls' = IF opened THEN [pulls EXCEPT ![verdict[v].on] = @ + 1] ELSE pulls
      /\ diag' = diag
  BY DEF open_draft_pr
<1>2. verdict[v] # NoVerdict /\ verdict[v] \in VerdictRecords /\ answer # "none"
  BY <1>1, VerdictOpen
<1>3. PICK d \in Diagnoses : d = verdict[v].on
  BY <1>2, VerdictOpen
<1>4. PICK n \in {0, 1} : n = IF opened THEN 1 ELSE 0
  OBVIOUS
<1>5. /\ verdict'[v].on = d /\ verdict'[v].github = answer /\ verdict'[v].verb = "approve"
      /\ \A u \in Deciders \ {v} : verdict'[u] = verdict[u]
  BY <1>1, <1>2, <1>3 DEF MonTypes, VerdictRecords
<1>6. verdict'[v] # NoVerdict
  BY <1>5 DEF NoVerdict
<1>7. HeardBy(v) = {d} /\ \A u \in Deciders : HeardBy(u)' = HeardBy(u)
  BY <1>2, <1>3, <1>5, <1>6 DEF HeardBy
<1>8. {u \in Deciders : verdict[u].github # "none"}'
        = {u \in Deciders : verdict[u].github # "none"} \union {v}
  BY <1>2, <1>5
<1>9. pulls' = [pulls EXCEPT ![d] = @ + n]
  <2>1. CASE opened
    BY <1>1, <1>3, <1>4, <2>1
  <2>2. CASE ~opened
    <3>1. n = 0 /\ pulls' = pulls /\ pulls \in [Diagnoses -> Nat]
      BY <1>1, <1>4, <2>2 DEF MonTypes
    <3>2. pulls[d] + n = pulls[d]
      BY <3>1
    <3> QED
      BY <3>1, <3>2
  <2> QED
    BY <2>1, <2>2
<1>10. {e \in Diagnoses : Exists(e)}' = {e \in Diagnoses : Exists(e)}
  BY <1>1 DEF Exists
<1>11. [e \in Diagnoses |-> RulingOn(e)]' = [e \in Diagnoses |-> RulingOn(e)]
  BY <1>1 DEF RulingOn, Exists, Proposed, RowOf
<1>12. [u \in Deciders |-> HeardBy(u)]' = [u \in Deciders |-> HeardBy(u)]
  BY <1>7
<1>13. MonDocket!Act(v, d)
  BY <1>1, <1>7, <1>8, <1>9, <1>10, <1>11, <1>12 DEF MonDocket!Act, HeardBy, RulingOn
<1>14. HeardExist'
  BY <1>7, <1>10 DEF HeardExist
<1> QED
  BY <1>13, <1>14 DEF MonDocket!DocketNext

\* A request that is through has nothing taken up any more.
LEMMA VerdictGone ==
    ASSUME MonTypes, HeardExist, NEW v \in Deciders, verdict' = [verdict EXCEPT ![v] = NoVerdict],
           \A d \in Diagnoses : Exists(d) => Exists(d)'
    PROVE  /\ [u \in Deciders |-> HeardBy(u)]' = [[u \in Deciders |-> HeardBy(u)] EXCEPT ![v] = {}]
           /\ {u \in Deciders : verdict[u].github # "none"}'
                = {u \in Deciders : verdict[u].github # "none"} \ {v}
           /\ HeardExist'
<1>1. verdict'[v] = NoVerdict /\ \A u \in Deciders \ {v} : verdict'[u] = verdict[u]
  BY DEF MonTypes
<1>2. HeardBy(v)' = {} /\ \A u \in Deciders \ {v} : HeardBy(u)' = HeardBy(u)
  BY <1>1 DEF HeardBy
<1>3. NoVerdict.github = "none"
  BY DEF NoVerdict
<1>4. {d \in Diagnoses : Exists(d)} \subseteq {d \in Diagnoses : Exists(d)}'
  OBVIOUS
<1>5. HeardExist'
  BY <1>2, <1>4 DEF HeardExist
<1> QED
  BY <1>1, <1>2, <1>3, <1>5

\* What a commit writes of its diagnosis is a ruling, and opens nothing by itself.
LEMMA VerdictRules ==
    ASSUME MonTypes, HeardExist, NEW v \in Deciders, NEW d \in Diagnoses,
           HeardBy(v) = {d}, NEW row \in DiagRecords, row.status # "proposed",
           diag' = [diag EXCEPT ![d[1]] = [diag[d[1]] EXCEPT ![d[2]] = row]],
           verdict' = [verdict EXCEPT ![v] = NoVerdict], pulls' = pulls
    PROVE  MonDocket!DocketNext /\ HeardExist'
<1>1. Exists(d)
  BY DEF HeardExist
<1>2. /\ Exists(d)' /\ RowOf(d)' = row
      /\ \A e \in Diagnoses : Exists(e)' <=> Exists(e)
      /\ \A e \in Diagnoses \ {d} : Exists(e) => RowOf(e)' = RowOf(e)
  BY <1>1, RowWritten
<1>3. {e \in Diagnoses : Exists(e)}' = {e \in Diagnoses : Exists(e)}
  BY <1>2
<1>4. [e \in Diagnoses |-> RulingOn(e)]' = [[e \in Diagnoses |-> RulingOn(e)] EXCEPT ![d] = {row}]
  <2>1. RulingOn(d)' = {row}
    BY <1>2 DEF RulingOn, Proposed
  <2>2. \A e \in Diagnoses \ {d} : RulingOn(e)' = RulingOn(e)
    BY <1>2 DEF RulingOn, Proposed
  <2> QED
    BY <2>1, <2>2
<1>5. pulls' = [pulls EXCEPT ![d] = @ + 0]
  BY DEF MonTypes
<1>6. /\ [u \in Deciders |-> HeardBy(u)]' = [[u \in Deciders |-> HeardBy(u)] EXCEPT ![v] = {}]
      /\ {u \in Deciders : verdict[u].github # "none"}'
           = {u \in Deciders : verdict[u].github # "none"} \ {v}
      /\ HeardExist'
  BY <1>2, VerdictGone
<1>7. MonDocket!Rule(v, d, row)
  BY <1>3, <1>4, <1>5, <1>6 DEF MonDocket!Rule, HeardBy, RulingOn
<1> QED
  BY <1>6, <1>7 DEF MonDocket!DocketNext, DiagRecords

LEMMA ApprovalRules ==
    ASSUME MonTypes, HeardExist, NEW v \in Deciders, approve_diagnosis(v)
    PROVE  MonDocket!DocketNext /\ HeardExist'
<1>1. verdict[v] # NoVerdict
  BY VerdictOpen DEF approve_diagnosis
<1>2. PICK d \in Diagnoses : d = verdict[v].on
  BY <1>1, VerdictOpen
<1>3. HeardBy(v) = {d} /\ Exists(d)
  BY <1>1, <1>2 DEF HeardBy, HeardExist
<1>4. RowOf(d) \in DiagRecords
  BY <1>3, DiagnosesProduct DEF RowOf, Exists, MonTypes
<1>5. PICK row : row = [RowOf(d) EXCEPT !.status = "approved", !.described = TRUE,
                                        !.url = @ \/ verdict[v].github = "created"]
  OBVIOUS
<1>6. row \in DiagRecords /\ row.status # "proposed"
  BY <1>4, <1>5 DEF DiagRecords, DiagStatuses
<1>7. /\ diag' = [diag EXCEPT ![d[1]] = [diag[d[1]] EXCEPT ![d[2]] = row]]
      /\ verdict' = [verdict EXCEPT ![v] = NoVerdict] /\ pulls' = pulls
  BY <1>2, <1>5 DEF approve_diagnosis
<1> QED
  BY <1>3, <1>6, <1>7, VerdictRules

LEMMA RejectionRules ==
    ASSUME MonTypes, HeardExist, NEW v \in Deciders, reject_diagnosis(v)
    PROVE  MonDocket!DocketNext /\ HeardExist'
<1>1. verdict[v] # NoVerdict
  BY VerdictOpen DEF reject_diagnosis
<1>2. PICK d \in Diagnoses : d = verdict[v].on
  BY <1>1, VerdictOpen
<1>3. HeardBy(v) = {d} /\ Exists(d)
  BY <1>1, <1>2 DEF HeardBy, HeardExist
<1>4. RowOf(d) \in DiagRecords
  BY <1>3, DiagnosesProduct DEF RowOf, Exists, MonTypes
<1>5. PICK row : row = [RowOf(d) EXCEPT !.status = "rejected"]
  OBVIOUS
<1>6. row \in DiagRecords /\ row.status # "proposed"
  BY <1>4, <1>5 DEF DiagRecords, DiagStatuses
<1>7. /\ diag' = [diag EXCEPT ![d[1]] = [diag[d[1]] EXCEPT ![d[2]] = row]]
      /\ verdict' = [verdict EXCEPT ![v] = NoVerdict] /\ pulls' = pulls
  BY <1>2, <1>5 DEF reject_diagnosis, RowOf
<1> QED
  BY <1>3, <1>6, <1>7, VerdictRules

\* A request that is dropped leaves its diagnosis.
LEMMA VerdictAbortLeaves ==
    ASSUME MonTypes, HeardExist, NEW v \in Deciders, verdict_abort(v)
    PROVE  MonDocket!DocketNext /\ HeardExist'
<1>1. verdict' = [verdict EXCEPT ![v] = NoVerdict] /\ UNCHANGED <<diag, pulls>>
  BY DEF verdict_abort
<1>2. {e \in Diagnoses : Exists(e)}' = {e \in Diagnoses : Exists(e)}
  BY <1>1 DEF Exists
<1>3. [e \in Diagnoses |-> RulingOn(e)]' = [e \in Diagnoses |-> RulingOn(e)]
  BY <1>1 DEF RulingOn, Exists, Proposed, RowOf
<1>4. \A e \in Diagnoses : Exists(e) => Exists(e)'
  BY <1>1 DEF Exists
<1>5. /\ [u \in Deciders |-> HeardBy(u)]' = [[u \in Deciders |-> HeardBy(u)] EXCEPT ![v] = {}]
      /\ {u \in Deciders : verdict[u].github # "none"}'
           = {u \in Deciders : verdict[u].github # "none"} \ {v}
      /\ HeardExist'
  BY <1>1, <1>4, VerdictGone
<1>6. MonDocket!Leave(v)
  BY <1>1, <1>2, <1>3, <1>5 DEF MonDocket!Leave, HeardBy, RulingOn
<1> QED
  BY <1>5, <1>6 DEF MonDocket!DocketNext

LEMMA MonStepDocket ==
    ASSUME MonTypes, HeardExist, [MonNext]_monVars
    PROVE  [MonDocket!DocketNext]_MonDocket!docketVars /\ HeardExist'
<1>1. ASSUME UNCHANGED <<diag, verdict, pulls>>
      PROVE  UNCHANGED MonDocket!docketVars /\ HeardExist'
  <2>1. HeardExist'
    BY <1>1 DEF HeardExist, HeardBy, Exists
  <2> QED
    BY <1>1, <2>1, MonDocketStutter
<1>2. ASSUME NEW r \in MonitorRuns, run_commit(r)
      PROVE  [MonDocket!DocketNext]_MonDocket!docketVars /\ HeardExist'
  <2>1. \A v \in Deciders : HeardBy(v)' = HeardBy(v)
    BY <1>2 DEF run_commit, HeardBy
  <2>2. \A d \in Diagnoses : Exists(d) => Exists(d)'
    BY <1>2, CommitAddsProposals
  <2>3. {d \in Diagnoses : Exists(d)} \subseteq {d \in Diagnoses : Exists(d)}'
    BY <2>2
  <2>4. HeardExist'
    BY <2>1, <2>3 DEF HeardExist
  <2> QED
    BY <1>2, <2>4, DiagnosesRaise
<1>3. ASSUME NEW v \in Deciders, VerdictStep(v) PROVE MonDocket!DocketNext /\ HeardExist'
  BY <1>3, VerdictReadHears, OpenDraftPrActs, ApprovalRules, RejectionRules, VerdictAbortLeaves
  DEF VerdictStep
<1>4. ASSUME NEW r \in MonitorRuns,
             \/ \E k \in {"loop", "request"} : monitor_start(r, k)
             \/ CollectStep(r) \/ collectors_done(r)
             \/ \E s \in Sources, o \in Opinions : diagnose(r, s, o)
             \/ run_deadlock(r) \/ run_lost(r)
      PROVE  UNCHANGED <<diag, verdict, pulls>>
  BY <1>4 DEF monitor_start, CollectStep, observation_check, observation_insert, observation_conflict,
              collectors_done, diagnose, run_deadlock, run_lost
<1>5. ASSUME NEW s \in Sources, source_fails(s) PROVE UNCHANGED <<diag, verdict, pulls>>
  BY <1>5 DEF source_fails
<1>6. CASE UNCHANGED monVars
  BY <1>1, <1>6 DEF monVars
<1> QED
  BY <1>1, <1>2, <1>3, <1>4, <1>5, <1>6 DEF MonNext, MonStep

LEMMA MonInitDocket == MonInit => MonDocket!DocketInit /\ HeardExist
<1> SUFFICES ASSUME MonInit PROVE MonDocket!DocketInit /\ HeardExist
  OBVIOUS
<1>1. \A d \in Diagnoses : ~Exists(d)
  BY DiagnosesProduct DEF MonInit, Exists
<1>2. \A v \in Deciders : HeardBy(v) = {} /\ verdict[v] = NoVerdict /\ NoVerdict.github = "none"
  BY DEF MonInit, HeardBy, NoVerdict
<1>3. HeardExist
  BY <1>2 DEF HeardExist
<1> QED
  BY <1>1, <1>2, <1>3 DEF MonInit, MonDocket!DocketInit, HeardBy

\* The diagnoses implement Docket (run_monitor, approve_diagnosis and reject_diagnosis in
\* routers/monitor.py): each request that read a diagnosis as
\* proposed asks GitHub at most once, and none does once it is decided and before no open
\* request, whatever runs of the monitor overlap with them.
THEOREM MonImplementsDocket == MonSpec => MonRefinesDocket
<1>1. MonInit => MonDocket!DocketInit /\ HeardExist
  BY MonInitDocket
<1>2. MonIInv /\ HeardExist /\ [MonNext]_monVars
        => [MonDocket!DocketNext]_MonDocket!docketVars /\ HeardExist'
  BY MonStepDocket DEF MonIInv
<1> QED
  BY <1>1, <1>2, MonInvariant, PTL DEF MonSpec, MonRefinesDocket, MonDocket!DocketSpec

=============================================================================
