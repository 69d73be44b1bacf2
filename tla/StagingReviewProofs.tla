------------------------- MODULE StagingReviewProofs -------------------------
(***************************************************************************)
(* Ingestion and the reviews of what it stages, for any number of uploads, *)
(* workers, failures and reviewers: one original of each content, staged   *)
(* once per delivery and only when committed, and decisions that are       *)
(* undone knowingly and leave their trail.                                 *)
(***************************************************************************)
EXTENDS StagingReview, FiniteSetTheorems, TLAPS

\* Uploads that have inserted a row they have not committed.
Holding(u) == upload[u].phase \in {"inserted", "sent"}

\* An upload's row is open, its own, and without a message until one is sent.
UploadsHold ==
    /\ \A u \in Uploads : Holding(u) =>
        /\ upload[u].row \in Raws
        /\ raw[upload[u].row].state = "open"
        /\ upload[u].phase = "inserted" => upload[u].row \notin published
    /\ \A u, w \in Uploads : Holding(u) /\ Holding(w) /\ upload[u].row = upload[w].row => u = w

Live == {r \in Raws : raw[r].state \in {"open", "committed"}}

\* The unique index, for rows that are not committed yet, too.
OneLive == \A r, q \in Live : raw[r].checksum = raw[q].checksum => r = q

AbsentUnsent == \A r \in Raws : raw[r].state = "absent" => r \notin published

\* A worker has work only from a message, and scores only what is committed.
JobsFounded ==
    \A p \in Processors :
        /\ job[p].phase # "idle" => job[p].row \in published
        /\ job[p].phase \in {"scored", "stored"} => raw[job[p].row].state = "committed"

FaultsCover == \A r \in Raws : redelivered[r] <= faults

\* What is still to stage of a raw record: its message, or the worker that has it.
AtWork(r) == {p \in Processors : job[p].phase \in {"taken", "scored"} /\ job[p].row = r}
Waiting(r) == IF r \in inbox THEN 1 ELSE 0
Sent(r) == IF r \in published THEN 1 ELSE 0

\* Each delivery is spent on a message, a worker or a staged record.
DeliveriesPay ==
    \A r \in Raws :
        Cardinality(StagedOf(r)) + Cardinality(AtWork(r)) + Waiting(r) <= Sent(r) + redelivered[r]

IngestIInv ==
    /\ IngestionTypeOK
    /\ UploadsHold
    /\ OneLive
    /\ AbsentUnsent
    /\ JobsFounded
    /\ StagedIsCommitted
    /\ FaultsCover
    /\ DeliveriesPay

-----------------------------------------------------------------------------
(* Counting                                                                *)

LEMMA StagedOfFinite ==
    ASSUME NEW r
    PROVE  IsFiniteSet(StagedOf(r)) /\ Cardinality(StagedOf(r)) \in Nat
<1>1. IsFiniteSet(StagedRows) /\ StagedOf(r) \in SUBSET StagedRows
  BY IngestionAssumption, FS_Interval DEF StagedRows, StagedOf
<1> QED
  BY <1>1, FS_Subset, FS_CardinalityType

LEMMA AtWorkFinite ==
    ASSUME NEW r
    PROVE  IsFiniteSet(AtWork(r)) /\ Cardinality(AtWork(r)) \in Nat
<1>1. IsFiniteSet(Processors) /\ AtWork(r) \in SUBSET Processors
  BY IngestionAssumption DEF AtWork
<1> QED
  BY <1>1, FS_Subset, FS_CardinalityType

\* A worker that is through with its message.
LEMMA JobEnds ==
    ASSUME IngestionTypeOK, NEW p \in Processors, NEW r \in Raws,
           job' = [job EXCEPT ![p] = IdleJob] \/ job' = [job EXCEPT ![p].phase = "stored"]
    PROVE  Cardinality(AtWork(r))' = IF p \in AtWork(r) THEN Cardinality(AtWork(r)) - 1
                                                        ELSE Cardinality(AtWork(r))
<1>1. AtWork(r)' = AtWork(r) \ {p}
  BY DEF IngestionTypeOK, JobStates, AtWork, IdleJob
<1> QED
  BY <1>1, AtWorkFinite, FS_RemoveElement

LEMMA JobBegins ==
    ASSUME IngestionTypeOK, NEW p \in Processors, NEW q \in Raws, NEW r \in Raws,
           job[p].phase = "idle", job' = [job EXCEPT ![p] = [phase |-> "taken", row |-> q]]
    PROVE  Cardinality(AtWork(r))' = IF r = q THEN Cardinality(AtWork(r)) + 1
                                              ELSE Cardinality(AtWork(r))
<1>1. p \notin AtWork(r)
  BY DEF AtWork
<1>2. AtWork(r)' = IF r = q THEN AtWork(r) \union {p} ELSE AtWork(r)
  BY DEF IngestionTypeOK, JobStates, AtWork
<1> QED
  BY <1>1, <1>2, AtWorkFinite, FS_AddElement

LEMMA RecordStaged ==
    ASSUME IngestionTypeOK, NEW s \in StagedRows, NEW route, NEW q \in Raws, NEW r \in Raws,
           staged' = [staged EXCEPT ![s] = [status |-> route, row |-> q]]
    PROVE  Cardinality(StagedOf(r))' <= IF r = q THEN Cardinality(StagedOf(r)) + 1
                                                 ELSE Cardinality(StagedOf(r))
<1>1. CASE r = q
  <2>1. StagedOf(r)' = StagedOf(r) \union {s}
    BY <1>1 DEF IngestionTypeOK, StagedOf
  <2> QED
    BY <1>1, <2>1, StagedOfFinite, FS_AddElement
<1>2. CASE r # q
  <2>1. StagedOf(r)' = StagedOf(r) \ {s}
    BY <1>2 DEF IngestionTypeOK, StagedOf
  <2>2. Cardinality(StagedOf(r) \ {s}) \in {Cardinality(StagedOf(r)), Cardinality(StagedOf(r)) - 1}
    BY StagedOfFinite, FS_RemoveElement
  <2> QED
    BY <1>2, <2>1, <2>2, StagedOfFinite
<1> QED
  BY <1>1, <1>2

-----------------------------------------------------------------------------
(* Ingestion                                                               *)

LEMMA RowsAreNat == NoRow \notin Raws /\ Raws \subseteq Nat /\ StagedRows \subseteq Nat
BY IngestionAssumption DEF NoRow, Raws, StagedRows

LEMMA IngestionInitOK == IngestionInit => IngestIInv
<1> SUFFICES ASSUME IngestionInit PROVE IngestIInv
  OBVIOUS
<1>1. SomeCompany \in Companies /\ SomeChecksum \in Checksums
  BY IngestionAssumption DEF SomeCompany, SomeChecksum
<1>2. IngestionTypeOK
  <2>1. raw \in [Raws -> RawStates]
    BY <1>1 DEF IngestionInit, RawStates
  <2>2. IdleUpload \in UploadStates /\ IdleJob \in JobStates
    BY <1>1 DEF UploadStates, JobStates, IdleUpload, IdleJob
  <2>3. upload \in [Uploads -> UploadStates] /\ job \in [Processors -> JobStates]
    BY <2>2 DEF IngestionInit
  <2>4. staged \in [StagedRows -> [status: StagedStatuses, row: Raws \union {NoRow}]]
    BY DEF IngestionInit, StagedStatuses
  <2>5. /\ tries \in [Raws -> 0..MaxTaskRetries] /\ faults \in 0..MaxFaults
        /\ redelivered \in [Raws -> 0..MaxFaults]
        /\ published \subseteq Raws /\ inbox \subseteq published /\ lost \subseteq published
    BY IngestionAssumption DEF IngestionInit
  <2> QED
    BY <2>1, <2>3, <2>4, <2>5 DEF IngestionTypeOK
<1>3. UploadsHold /\ OneLive /\ AbsentUnsent /\ JobsFounded /\ FaultsCover
  BY DEF IngestionInit, UploadsHold, Holding, OneLive, Live, AbsentUnsent, JobsFounded, FaultsCover,
     IdleUpload, IdleJob
<1>4. \A r \in Raws : StagedOf(r) = {} /\ AtWork(r) = {} /\ Waiting(r) = 0 /\ Sent(r) = 0
  BY RowsAreNat DEF IngestionInit, StagedOf, AtWork, IdleJob, Waiting, Sent
<1>5. StagedIsCommitted
  BY <1>4 DEF StagedIsCommitted
<1>6. DeliveriesPay
  <2>1. Cardinality({}) = 0
    BY FS_EmptySet
  <2> QED
    BY <1>4, <2>1 DEF IngestionInit, DeliveriesPay
<1> QED
  BY <1>2, <1>3, <1>5, <1>6 DEF IngestIInv

\* Before its INSERT an upload touches nothing but itself.
LEMMA UploadChecksPreserve ==
    ASSUME IngestIInv, NEW u \in Uploads,
           \/ \E c \in Companies, k \in Checksums : upload_check(u, c, k)
           \/ upload_refused(u)
    PROVE  IngestIInv'
<1>1. /\ UNCHANGED <<raw, published, inbox, tries, job, staged, faults, redelivered, lost>>
      /\ \A w \in Uploads : w # u => upload'[w] = upload[w]
      /\ upload'[u].phase \in {"checked", "refused"}
      /\ upload' \in [Uploads -> UploadStates]
  BY DEF IngestIInv, IngestionTypeOK, UploadStates, upload_check, upload_refused
<1>2. IngestionTypeOK'
  BY <1>1 DEF IngestIInv, IngestionTypeOK
<1>3. UploadsHold'
  BY <1>1 DEF IngestIInv, UploadsHold, Holding
<1> QED
  BY <1>1, <1>2, <1>3 DEF IngestIInv, OneLive, Live, AbsentUnsent, JobsFounded, StagedIsCommitted,
     FaultsCover, DeliveriesPay, StagedOf, AtWork, Waiting, Sent

LEMMA InsertPreserves ==
    ASSUME IngestIInv, NEW u \in Uploads, upload_insert(u)
    PROVE  IngestIInv'
<1>1. PICK r \in Raws :
        /\ raw[r].state = "absent"
        /\ raw' = [raw EXCEPT ![r] = [state |-> "open", company |-> upload[u].company,
                                      checksum |-> upload[u].checksum]]
        /\ upload' = [upload EXCEPT ![u].phase = "inserted", ![u].row = r]
  BY DEF upload_insert
<1>2. /\ UNCHANGED <<published, inbox, tries, job, staged, faults, redelivered, lost>>
      /\ upload[u].phase = "checked" /\ ChecksumFree(upload[u].checksum)
  BY DEF upload_insert
<1>3. IngestionTypeOK'
  <2>1. upload[u].company \in Companies /\ upload[u].checksum \in Checksums
    BY DEF IngestIInv, IngestionTypeOK, UploadStates
  <2>2. raw' \in [Raws -> RawStates]
    <3>1. [state |-> "open", company |-> upload[u].company, checksum |-> upload[u].checksum] \in RawStates
      BY <2>1 DEF RawStates
    <3> QED
      BY <1>1, <3>1 DEF IngestIInv, IngestionTypeOK
  <2>3. upload' \in [Uploads -> UploadStates]
    <3>1. upload \in [Uploads -> UploadStates]
      BY DEF IngestIInv, IngestionTypeOK
    <3>2. [[upload[u] EXCEPT !.phase = "inserted"] EXCEPT !.row = r] \in UploadStates
      BY <3>1 DEF UploadStates
    <3> QED
      BY <1>1, <3>1, <3>2 DEF UploadStates
  <2> QED
    BY <1>2, <2>2, <2>3 DEF IngestIInv, IngestionTypeOK
<1>4. raw'[r].state = "open" /\ raw'[r].checksum = upload[u].checksum
      /\ \A q \in Raws : q # r => raw'[q] = raw[q]
  BY <1>1 DEF IngestIInv, IngestionTypeOK
<1>5. /\ upload'[u].phase = "inserted" /\ upload'[u].row = r
      /\ \A w \in Uploads : w # u => upload'[w] = upload[w]
  BY <1>1 DEF IngestIInv, IngestionTypeOK, UploadStates
<1>6. UploadsHold'
  <2>1. \A w \in Uploads : Holding(w) => upload[w].row \in Raws /\ upload[w].row # r
    BY <1>1 DEF IngestIInv, UploadsHold
  <2>2. r \notin published'
    BY <1>1, <1>2 DEF IngestIInv, AbsentUnsent
  <2>3. \A w \in Uploads : w # u => /\ Holding(w)' = Holding(w)
                                   /\ upload'[w].row = upload[w].row
    BY <1>5 DEF Holding
  <2> QED
    BY <1>2, <1>4, <1>5, <2>1, <2>2, <2>3 DEF IngestIInv, UploadsHold
<1>7. OneLive'
  BY <1>2, <1>4 DEF IngestIInv, OneLive, Live, ChecksumFree, WithChecksum
<1>8. AbsentUnsent' /\ FaultsCover' /\ DeliveriesPay'
  BY <1>2, <1>4 DEF IngestIInv, AbsentUnsent, FaultsCover, DeliveriesPay, StagedOf, AtWork, Waiting, Sent
<1>9. JobsFounded'
  BY <1>1, <1>2, <1>4 DEF IngestIInv, IngestionTypeOK, JobsFounded, AbsentUnsent
<1>10. StagedIsCommitted'
  BY <1>1, <1>2, <1>4 DEF IngestIInv, StagedIsCommitted, StagedOf
<1> QED
  BY <1>3, <1>6, <1>7, <1>8, <1>9, <1>10 DEF IngestIInv

LEMMA SendPreserves ==
    ASSUME IngestIInv, NEW u \in Uploads, upload_send(u) \/ upload_unsent(u)
    PROVE  IngestIInv'
<1>1. /\ upload[u].phase = "inserted"
      /\ upload' = [upload EXCEPT ![u].phase = "sent"]
      /\ UNCHANGED <<raw, tries, job, staged, faults, redelivered, lost>>
      /\ \/ published' = published /\ inbox' = inbox
         \/ published' = published \union {upload[u].row} /\ inbox' = inbox \union {upload[u].row}
  BY DEF upload_send, upload_unsent
<1>2. upload[u].row \in Raws /\ upload[u].row \notin published /\ upload[u].row \notin inbox
      /\ raw[upload[u].row].state = "open"
  BY <1>1 DEF IngestIInv, IngestionTypeOK, UploadsHold, Holding
<1>3. IngestionTypeOK'
  BY <1>1, <1>2 DEF IngestIInv, IngestionTypeOK, UploadStates
<1>4. /\ upload'[u].phase = "sent" /\ upload'[u].row = upload[u].row
      /\ \A w \in Uploads : w # u => upload'[w] = upload[w]
  BY <1>1 DEF IngestIInv, IngestionTypeOK, UploadStates
<1>5. UploadsHold'
  BY <1>1, <1>4 DEF IngestIInv, UploadsHold, Holding
<1>6. OneLive' /\ AbsentUnsent' /\ JobsFounded' /\ StagedIsCommitted' /\ FaultsCover'
  BY <1>1, <1>2 DEF IngestIInv, OneLive, Live, AbsentUnsent, JobsFounded, StagedIsCommitted, StagedOf,
     FaultsCover
<1>7. DeliveriesPay'
  <2> SUFFICES ASSUME NEW r \in Raws
               PROVE  (Cardinality(StagedOf(r)) + Cardinality(AtWork(r)) + Waiting(r)
                          <= Sent(r) + redelivered[r])'
    BY DEF DeliveriesPay
  <2>1. StagedOf(r)' = StagedOf(r) /\ AtWork(r)' = AtWork(r)
    BY <1>1 DEF StagedOf, AtWork
  <2>2. Waiting(r)' - Waiting(r) = Sent(r)' - Sent(r)
    BY <1>1, <1>2 DEF Waiting, Sent
  <2>3. Waiting(r) \in Nat /\ Sent(r) \in Nat /\ Waiting(r)' \in Nat /\ Sent(r)' \in Nat
        /\ redelivered[r] \in Int /\ redelivered'[r] = redelivered[r]
    BY <1>1 DEF Waiting, Sent, IngestIInv, IngestionTypeOK
  <2> QED
    BY <2>1, <2>2, <2>3, StagedOfFinite, AtWorkFinite DEF IngestIInv, DeliveriesPay
<1> QED
  BY <1>3, <1>5, <1>6, <1>7 DEF IngestIInv

\* The row of an upload becomes "committed" or "gone".
LEMMA UploadEndsPreserve ==
    ASSUME IngestIInv, NEW u \in Uploads, upload_commit(u) \/ upload_abort(u)
    PROVE  IngestIInv'
<1> DEFINE r == upload[u].row
<1>1. /\ UNCHANGED <<published, inbox, tries, job, staged, faults, redelivered, lost>>
      /\ upload' = [upload EXCEPT ![u] = IdleUpload]
      /\ \/ ~Holding(u) /\ raw' = raw
         \/ /\ Holding(u)
            /\ \E end \in {"committed", "gone"} : raw' = [raw EXCEPT ![r].state = end]
  BY DEF upload_commit, upload_abort, Holding
<1>2. SomeCompany \in Companies /\ SomeChecksum \in Checksums
  BY IngestionAssumption DEF SomeCompany, SomeChecksum
<1>3. Holding(u) => r \in Raws /\ raw[r].state = "open"
  BY DEF IngestIInv, UploadsHold
<1>4. raw' \in [Raws -> RawStates]
  <2>1. CASE raw' = raw
    BY <2>1 DEF IngestIInv, IngestionTypeOK
  <2>2. ASSUME NEW end \in {"committed", "gone"}, Holding(u), raw' = [raw EXCEPT ![r].state = end]
        PROVE  raw' \in [Raws -> RawStates]
    <3>1. raw \in [Raws -> RawStates] /\ r \in Raws
      BY <1>3, <2>2 DEF IngestIInv, IngestionTypeOK
    <3> QED
      BY <2>2, <3>1 DEF RawStates
  <2> QED
    BY <1>1, <2>1, <2>2
<1>5. upload' \in [Uploads -> UploadStates]
  BY <1>1, <1>2 DEF IngestIInv, IngestionTypeOK, UploadStates, IdleUpload
<1>6. IngestionTypeOK'
  BY <1>1, <1>4, <1>5 DEF IngestIInv, IngestionTypeOK
<1>7. \A q \in Raws :
        /\ raw'[q].checksum = raw[q].checksum
        /\ ~(Holding(u) /\ q = r) => raw'[q] = raw[q]
        /\ raw'[q].state # raw[q].state => raw[q].state = "open" /\ raw'[q].state \in {"committed", "gone"}
  BY <1>1, <1>3 DEF IngestIInv, IngestionTypeOK, RawStates
<1>8. ~Holding(u)' /\ \A w \in Uploads : w # u => upload'[w] = upload[w]
  BY <1>1 DEF IngestIInv, IngestionTypeOK, Holding, IdleUpload
<1>9. UploadsHold'
  BY <1>1, <1>7, <1>8 DEF IngestIInv, UploadsHold, Holding
<1>10. OneLive'
  BY <1>7 DEF IngestIInv, OneLive, Live
<1>11. AbsentUnsent' /\ StagedIsCommitted'
  BY <1>1, <1>7 DEF IngestIInv, AbsentUnsent, StagedIsCommitted, StagedOf
<1>12. JobsFounded'
  <2>1. \A p \in Processors : job[p].phase # "idle" => job[p].row \in Raws
    BY DEF IngestIInv, IngestionTypeOK, JobsFounded
  <2> QED
    BY <1>1, <1>7, <2>1 DEF IngestIInv, JobsFounded
<1>13. FaultsCover' /\ DeliveriesPay'
  BY <1>1 DEF IngestIInv, FaultsCover, DeliveriesPay, StagedOf, AtWork, Waiting, Sent
<1> QED
  BY <1>6, <1>9, <1>10, <1>11, <1>12, <1>13 DEF IngestIInv

\* Workers leave raw records and uploads alone.
LEMMA WorkLeaves ==
    ASSUME IngestIInv, UNCHANGED <<raw, upload, published>>
    PROVE  UploadsHold' /\ OneLive' /\ AbsentUnsent'
BY DEF IngestIInv, UploadsHold, Holding, OneLive, Live, AbsentUnsent

LEMMA TakePreserves ==
    ASSUME IngestIInv, NEW p \in Processors, NEW q \in Raws, process_take(p, q)
    PROVE  IngestIInv'
<1>1. /\ job[p].phase = "idle" /\ q \in inbox /\ q \in published
      /\ inbox' = inbox \ {q}
      /\ job' = [job EXCEPT ![p] = [phase |-> "taken", row |-> q]]
      /\ UNCHANGED <<raw, upload, published, tries, staged, faults, redelivered, lost>>
  BY DEF process_take, IngestIInv, IngestionTypeOK
<1>2. IngestionTypeOK'
  BY <1>1 DEF IngestIInv, IngestionTypeOK, JobStates
<1>3. JobsFounded'
  BY <1>1 DEF IngestIInv, IngestionTypeOK, JobsFounded
<1>4. StagedIsCommitted' /\ FaultsCover'
  BY <1>1 DEF IngestIInv, StagedIsCommitted, StagedOf, FaultsCover
<1>5. DeliveriesPay'
  <2> SUFFICES ASSUME NEW r \in Raws
               PROVE  (Cardinality(StagedOf(r)) + Cardinality(AtWork(r)) + Waiting(r)
                          <= Sent(r) + redelivered[r])'
    BY DEF DeliveriesPay
  <2>1. Cardinality(AtWork(r))' = IF r = q THEN Cardinality(AtWork(r)) + 1 ELSE Cardinality(AtWork(r))
    BY <1>1, JobBegins DEF IngestIInv
  <2>2. StagedOf(r)' = StagedOf(r) /\ Sent(r)' = Sent(r) /\ redelivered'[r] = redelivered[r]
    BY <1>1 DEF StagedOf, Sent
  <2>3. Waiting(r)' = IF r = q THEN Waiting(r) - 1 ELSE Waiting(r)
    BY <1>1 DEF Waiting
  <2>4. Waiting(r) \in Nat /\ Sent(r) \in Nat /\ redelivered[r] \in Int
    BY DEF Waiting, Sent, IngestIInv, IngestionTypeOK
  <2> QED
    BY <2>1, <2>2, <2>3, <2>4, StagedOfFinite, AtWorkFinite DEF IngestIInv, DeliveriesPay
<1> QED
  BY <1>1, <1>2, <1>3, <1>4, <1>5, WorkLeaves DEF IngestIInv

LEMMA ScorePreserves ==
    ASSUME IngestIInv, NEW p \in Processors, process_score(p)
    PROVE  IngestIInv'
<1>1. /\ job[p].phase = "taken" /\ raw[job[p].row].state = "committed"
      /\ job' = [job EXCEPT ![p].phase = "scored"]
      /\ UNCHANGED <<raw, upload, published, inbox, tries, staged, faults, redelivered, lost>>
  BY DEF process_score
<1>2. IngestionTypeOK'
  BY <1>1 DEF IngestIInv, IngestionTypeOK, JobStates
<1>3. JobsFounded'
  BY <1>1 DEF IngestIInv, IngestionTypeOK, JobStates, JobsFounded
<1>4. \A r : AtWork(r)' = AtWork(r)
  BY <1>1 DEF IngestIInv, IngestionTypeOK, JobStates, AtWork
<1>5. StagedIsCommitted' /\ FaultsCover' /\ DeliveriesPay'
  BY <1>1, <1>4 DEF IngestIInv, StagedIsCommitted, FaultsCover, DeliveriesPay, StagedOf, Waiting, Sent
<1> QED
  BY <1>1, <1>2, <1>3, <1>5, WorkLeaves DEF IngestIInv

LEMMA RoutesUndecided == UploadRoutes \subseteq {"auto_approved", "needs_review", "pending"}
BY DEF UploadRoutes, Route

LEMMA StorePreserves ==
    ASSUME IngestIInv, NEW p \in Processors, process_store(p)
    PROVE  IngestIInv'
<1>1. PICK s \in StagedRows, route \in UploadRoutes :
        staged' = [staged EXCEPT ![s] = [status |-> route, row |-> job[p].row]]
  BY DEF process_store
<1>2. /\ job[p].phase = "scored"
      /\ job' = [job EXCEPT ![p].phase = "stored"]
      /\ UNCHANGED <<raw, upload, published, inbox, tries, faults, redelivered, lost>>
  BY DEF process_store
<1>3. job[p].row \in Raws /\ raw[job[p].row].state = "committed" /\ p \in AtWork(job[p].row)
  BY <1>2 DEF IngestIInv, IngestionTypeOK, JobsFounded, AtWork
<1>4. route \in StagedStatuses
  BY RoutesUndecided DEF StagedStatuses
<1>5. IngestionTypeOK'
  BY <1>1, <1>2, <1>3, <1>4 DEF IngestIInv, IngestionTypeOK, JobStates
<1>6. JobsFounded'
  BY <1>2, <1>3 DEF IngestIInv, IngestionTypeOK, JobStates, JobsFounded
<1>7. StagedIsCommitted'
  BY <1>1, <1>2, <1>3 DEF IngestIInv, IngestionTypeOK, StagedIsCommitted, StagedOf
<1>8. FaultsCover'
  BY <1>2 DEF IngestIInv, FaultsCover
<1>9. DeliveriesPay'
  <2> SUFFICES ASSUME NEW r \in Raws
               PROVE  (Cardinality(StagedOf(r)) + Cardinality(AtWork(r)) + Waiting(r)
                          <= Sent(r) + redelivered[r])'
    BY DEF DeliveriesPay
  <2>1. Cardinality(AtWork(r))' = IF p \in AtWork(r) THEN Cardinality(AtWork(r)) - 1
                                                     ELSE Cardinality(AtWork(r))
    BY <1>2, JobEnds DEF IngestIInv
  <2>2. Cardinality(StagedOf(r))' <= IF r = job[p].row THEN Cardinality(StagedOf(r)) + 1
                                                       ELSE Cardinality(StagedOf(r))
    BY <1>1, <1>3, RecordStaged DEF IngestIInv
  <2>3. Waiting(r)' = Waiting(r) /\ Sent(r)' = Sent(r) /\ redelivered'[r] = redelivered[r]
    BY <1>2 DEF Waiting, Sent
  <2>4. Waiting(r) \in Nat /\ Sent(r) \in Nat /\ redelivered[r] \in Int
    BY DEF Waiting, Sent, IngestIInv, IngestionTypeOK
  <2>5. Cardinality(StagedOf(r))' \in Nat
    <3>1. IsFiniteSet(StagedRows) /\ StagedOf(r)' \in SUBSET StagedRows
      BY IngestionAssumption, FS_Interval DEF StagedRows, StagedOf
    <3> QED
      BY <3>1, FS_Subset, FS_CardinalityType
  <2>6. r = job[p].row => p \in AtWork(r)
    BY <1>3
  <2>7. p \in AtWork(r) => r = job[p].row
    BY DEF AtWork
  <2> QED
    BY <2>1, <2>2, <2>3, <2>4, <2>5, <2>6, <2>7, StagedOfFinite, AtWorkFinite DEF IngestIInv, DeliveriesPay
<1> QED
  BY <1>2, <1>5, <1>6, <1>7, <1>8, <1>9, WorkLeaves DEF IngestIInv

\* The ways a worker gets rid of its message: done with it, or back to the broker.
LEMMA WorkEndsPreserve ==
    ASSUME IngestIInv, NEW p \in Processors,
           \/ process_not_found(p)
           \/ process_ack(p)
           \/ process_retry(p)
           \/ process_give_up(p)
           \/ worker_lost(p)
           \/ child_lost(p)
    PROVE  IngestIInv'
<1> DEFINE q == job[p].row
<1>1. /\ job[p].phase # "idle"
      /\ job' = [job EXCEPT ![p] = IdleJob]
      /\ UNCHANGED <<raw, upload, published, staged>>
  BY DEF process_not_found, process_ack, process_retry, process_give_up, worker_lost, child_lost
<1>2. q \in published /\ q \in Raws
  BY <1>1 DEF IngestIInv, IngestionTypeOK, JobsFounded
<1>3. \/ inbox' = inbox /\ redelivered' = redelivered
      \/ /\ inbox' = inbox \union {q} /\ redelivered' = redelivered
         /\ job[p].phase \in {"taken", "scored"}
      \/ /\ inbox' = inbox \union {q} /\ redelivered' = [redelivered EXCEPT ![q] = @ + 1]
         /\ faults' = faults + 1 /\ faults < MaxFaults
  BY DEF process_not_found, process_ack, process_retry, process_give_up, worker_lost, child_lost
<1>4. faults' \in 0..MaxFaults /\ faults' \in {faults, faults + 1}
  BY IngestionAssumption DEF process_not_found, process_ack, process_retry, process_give_up, worker_lost,
     child_lost, IngestIInv, IngestionTypeOK
<1>5. tries' \in [Raws -> 0..MaxTaskRetries]
  BY <1>2, IngestionAssumption DEF process_not_found, process_ack, process_retry, process_give_up,
     worker_lost, child_lost, IngestIInv, IngestionTypeOK
<1>6. lost' \in {lost, lost \union {q}}
  BY DEF process_not_found, process_ack, process_retry, process_give_up, worker_lost, child_lost
<1>7. FaultsCover' /\ redelivered' \in [Raws -> 0..MaxFaults]
  <2>1. faults \in Nat /\ MaxFaults \in Nat /\ redelivered \in [Raws -> 0..MaxFaults]
        /\ \A r \in Raws : redelivered[r] <= faults
    BY IngestionAssumption DEF IngestIInv, IngestionTypeOK, FaultsCover
  <2>2. CASE redelivered' = redelivered
    BY <1>4, <2>1, <2>2 DEF FaultsCover
  <2>3. CASE redelivered' = [redelivered EXCEPT ![q] = @ + 1] /\ faults' = faults + 1 /\ faults < MaxFaults
    BY <1>2, <2>1, <2>3 DEF FaultsCover
  <2> QED
    BY <1>3, <2>2, <2>3
<1>8. IngestionTypeOK'
  <2>1. job' \in [Processors -> JobStates]
    BY <1>1 DEF IngestIInv, IngestionTypeOK, JobStates, IdleJob
  <2>2. inbox' \subseteq published' /\ lost' \subseteq published'
    BY <1>1, <1>2, <1>3, <1>6 DEF IngestIInv, IngestionTypeOK
  <2> QED
    BY <1>1, <1>4, <1>5, <1>7, <2>1, <2>2 DEF IngestIInv, IngestionTypeOK
<1>9. JobsFounded'
  BY <1>1 DEF IngestIInv, IngestionTypeOK, JobsFounded, IdleJob
<1>10. StagedIsCommitted'
  BY <1>1 DEF IngestIInv, StagedIsCommitted, StagedOf
<1>11. DeliveriesPay'
  <2> SUFFICES ASSUME NEW r \in Raws
               PROVE  (Cardinality(StagedOf(r)) + Cardinality(AtWork(r)) + Waiting(r)
                          <= Sent(r) + redelivered[r])'
    BY DEF DeliveriesPay
  <2>1. Cardinality(AtWork(r))' = IF p \in AtWork(r) THEN Cardinality(AtWork(r)) - 1
                                                     ELSE Cardinality(AtWork(r))
    BY <1>1, JobEnds DEF IngestIInv
  <2>2. StagedOf(r)' = StagedOf(r) /\ Sent(r)' = Sent(r)
    BY <1>1 DEF StagedOf, Sent
  <2>3. Waiting(r) \in 0..1 /\ Waiting(r)' \in 0..1 /\ Sent(r) \in Nat /\ redelivered[r] \in Int
    BY DEF Waiting, Sent, IngestIInv, IngestionTypeOK
  <2>4. Waiting(r)' # Waiting(r) => r = q
    BY <1>3 DEF Waiting
  <2>5. redelivered'[r] = redelivered[r] \/ redelivered'[r] = redelivered[r] + 1
    BY <1>2, <1>3 DEF IngestIInv, IngestionTypeOK
  <2>6. r = q /\ Waiting(r)' # Waiting(r) => p \in AtWork(r) \/ redelivered'[r] = redelivered[r] + 1
    BY <1>2, <1>3 DEF AtWork, Waiting, IngestIInv, IngestionTypeOK
  <2> QED
    BY <2>1, <2>2, <2>3, <2>4, <2>5, <2>6, StagedOfFinite, AtWorkFinite DEF IngestIInv, DeliveriesPay
<1> QED
  BY <1>1, <1>7, <1>8, <1>9, <1>10, <1>11, WorkLeaves DEF IngestIInv

LEMMA IngestionNextOK ==
    ASSUME IngestIInv, [IngestionNext]_ingestVars
    PROVE  IngestIInv'
<1>1. ASSUME NEW u \in Uploads, UploadStep(u) PROVE IngestIInv'
  BY <1>1, UploadChecksPreserve, InsertPreserves, SendPreserves, UploadEndsPreserve DEF UploadStep
<1>2. ASSUME NEW p \in Processors, NEW r \in Raws, process_take(p, r) PROVE IngestIInv'
  BY <1>2, TakePreserves
<1>3. ASSUME NEW p \in Processors, ProcessStep(p) PROVE IngestIInv'
  BY <1>3, ScorePreserves, StorePreserves, WorkEndsPreserve DEF ProcessStep
<1>4. CASE UNCHANGED ingestVars
  BY <1>4 DEF ingestVars, IngestIInv, IngestionTypeOK, UploadsHold, Holding, OneLive, Live, AbsentUnsent,
     JobsFounded, StagedIsCommitted, StagedOf, FaultsCover, DeliveriesPay, AtWork, Waiting, Sent
<1> QED
  BY <1>1, <1>2, <1>3, <1>4, WorkEndsPreserve DEF IngestionNext

\* The strengthened invariant of ingestion, for every value of the constants.
THEOREM IngestionInvariant == IngestionSpec => []IngestIInv
BY IngestionInitOK, IngestionNextOK, PTL DEF IngestionSpec

LEMMA IngestionImplied == IngestIInv => IngestionInv /\ StagedPerDelivery
<1> SUFFICES ASSUME IngestIInv PROVE IngestionInv /\ StagedPerDelivery
  OBVIOUS
<1>1. OneOriginal
  BY DEF IngestIInv, OneLive, Live, OneOriginal, Committed
<1>2. ASSUME NEW r \in Raws PROVE Cardinality(StagedOf(r)) <= 1 + redelivered[r]
  <2>1. Waiting(r) \in Nat /\ Sent(r) \in 0..1 /\ redelivered[r] \in Int
    BY DEF Waiting, Sent, IngestIInv, IngestionTypeOK
  <2> QED
    BY <2>1, StagedOfFinite, AtWorkFinite DEF IngestIInv, DeliveriesPay
<1> QED
  BY <1>1, <1>2 DEF IngestIInv, IngestionInv, StagedPerDelivery

\* However many uploads of one content race, fail and are retried, there is one original,
\* and nothing is staged for an upload that was rolled back (routers/ingestion.py).
THEOREM IngestionInvHolds == IngestionSpec => []IngestionInv
<1>1. IngestIInv => IngestionInv
  BY IngestionImplied
<1> QED
  BY <1>1, IngestionInvariant, PTL

\* Only a redelivered message stages its record again (task_acks_late).
THEOREM StagedPerDeliveryHolds == IngestionSpec => []StagedPerDelivery
<1>1. IngestIInv => StagedPerDelivery
  BY IngestionImplied
<1> QED
  BY <1>1, IngestionInvariant, PTL

-----------------------------------------------------------------------------
(* Reviews                                                                 *)

DecidedStatuses == {"approved", "rejected"}

\* What a request has read as decided is decided still.
SeenDecided ==
    \A v \in Reviewers : \A s \in DOMAIN review[v].seen :
        review[v].seen[s] \in DecidedStatuses => staged[s].status \in DecidedStatuses

\* A single approval has read its record undecided.
ApprovesUndecided ==
    \A v \in Reviewers : review[v].verb = "approve" =>
        \A s \in DOMAIN review[v].seen : review[v].seen[s] \in Undecided

ReviewIInv ==
    /\ IngestIInv
    /\ ReviewTypeOK
    /\ SeenDecided
    /\ ApprovesUndecided
    /\ RejectedLeavesTrail
    /\ MatchedIsDecided

LEMMA SeenRows ==
    ASSUME ReviewTypeOK, NEW v \in Reviewers
    PROVE  /\ review[v].verb \in Verbs \union {"none"}
           /\ DOMAIN review[v].seen \subseteq StagedRows
           /\ review[v].seen \in Readings
BY DEF ReviewTypeOK, Readings

LEMMA NoReviewTyped == NoReview \in [verb: Verbs \union {"none"}, seen: Readings] /\ DOMAIN NoReview.seen = {}
<1>1. [s \in {} |-> "absent"] \in [{} -> StagedStatuses] /\ {} \in SUBSET StagedRows
  OBVIOUS
<1>2. [s \in {} |-> "absent"] \in Readings
  BY <1>1 DEF Readings
<1> QED
  BY <1>2 DEF NoReview

LEMMA ReviewInitOK == ReviewInit => ReviewIInv
<1> SUFFICES ASSUME ReviewInit PROVE ReviewIInv
  OBVIOUS
<1>1. IngestIInv
  BY IngestionInitOK DEF ReviewInit
<1>2. ReviewTypeOK
  BY <1>1, NoReviewTyped DEF IngestIInv, ReviewInit, ReviewTypeOK
<1>3. SeenDecided /\ ApprovesUndecided
  BY NoReviewTyped DEF ReviewInit, SeenDecided, ApprovesUndecided
<1>4. RejectedLeavesTrail /\ MatchedIsDecided
  BY DEF ReviewInit, IngestionInit, RejectedLeavesTrail, MatchedIsDecided
<1> QED
  BY <1>1, <1>2, <1>3, <1>4 DEF ReviewIInv

\* Ingestion gives a record its first status and never touches it again.
LEMMA IngestionStages ==
    ASSUME IngestIInv, [IngestionNext]_ingestVars, NEW s \in StagedRows
    PROVE  \/ staged'[s].status = staged[s].status
           \/ staged[s].status = "absent" /\ staged'[s].status \notin DecidedStatuses
<1>1. ASSUME NEW p \in Processors, process_store(p)
      PROVE  \/ staged'[s].status = staged[s].status
             \/ staged[s].status = "absent" /\ staged'[s].status \notin DecidedStatuses
  <2>1. PICK t \in StagedRows, route \in UploadRoutes :
          /\ staged[t].status = "absent"
          /\ staged' = [staged EXCEPT ![t] = [status |-> route, row |-> job[p].row]]
    BY <1>1 DEF process_store
  <2>2. route \notin DecidedStatuses
    BY RoutesUndecided DEF DecidedStatuses
  <2> QED
    BY <2>1, <2>2 DEF IngestIInv, IngestionTypeOK
<1>2. ASSUME NEW u \in Uploads, UploadStep(u) PROVE staged' = staged
  BY <1>2 DEF UploadStep, upload_check, upload_insert, upload_refused, upload_send, upload_unsent,
     upload_commit, upload_abort
<1>3. ASSUME NEW p \in Processors,
             \/ \E r \in Raws : process_take(p, r)
             \/ process_not_found(p) \/ process_score(p) \/ process_ack(p)
             \/ process_retry(p) \/ process_give_up(p) \/ worker_lost(p) \/ child_lost(p)
      PROVE  staged' = staged
  BY <1>3 DEF process_take, process_not_found, process_score, process_ack, process_retry,
     process_give_up, worker_lost, child_lost
<1>4. CASE UNCHANGED ingestVars
  BY <1>4 DEF ingestVars
<1> QED
  BY <1>1, <1>2, <1>3, <1>4 DEF IngestionNext, ProcessStep

LEMMA IngestionReviewed ==
    ASSUME ReviewIInv, [IngestionNext]_ingestVars, UNCHANGED reviewVars
    PROVE  ReviewIInv'
<1>1. IngestIInv'
  BY IngestionNextOK DEF ReviewIInv
<1>2. UNCHANGED <<review, matched, trail>>
  BY DEF reviewVars
<1>3. ReviewTypeOK'
  BY <1>1, <1>2 DEF ReviewIInv, IngestIInv, ReviewTypeOK
<1>4. \A s \in StagedRows :
        /\ staged[s].status \in DecidedStatuses => staged'[s].status = staged[s].status
        /\ staged'[s].status \in DecidedStatuses => staged'[s].status = staged[s].status
  BY IngestionStages DEF ReviewIInv, DecidedStatuses
<1>5. SeenDecided'
  BY <1>2, <1>4, SeenRows DEF ReviewIInv, SeenDecided
<1>6. ApprovesUndecided'
  BY <1>2 DEF ReviewIInv, ApprovesUndecided
<1>7. RejectedLeavesTrail' /\ MatchedIsDecided'
  BY <1>2, <1>4 DEF ReviewIInv, ReviewTypeOK, RejectedLeavesTrail, MatchedIsDecided, DecidedStatuses
<1> QED
  BY <1>1, <1>3, <1>5, <1>6, <1>7 DEF ReviewIInv

LEMMA ReviewReadPreserves ==
    ASSUME ReviewIInv, NEW v \in Reviewers, NEW verb \in Verbs, NEW rows \in SUBSET StagedRows,
           review_read(v, verb, rows)
    PROVE  ReviewIInv'
<1> DEFINE found == [s \in rows |-> staged[s].status]
<1>1. /\ review' = [review EXCEPT ![v] = [verb |-> verb, seen |-> found]]
      /\ verb = "approve" => \A s \in rows : staged[s].status \in Undecided
      /\ UNCHANGED <<ingestVars, matched, trail>>
  BY DEF review_read
<1>2. UNCHANGED <<raw, upload, published, inbox, tries, job, staged, faults, redelivered, lost>>
  BY <1>1 DEF ingestVars
<1>3. IngestIInv'
  BY <1>1, IngestionNextOK DEF ReviewIInv
<1>4. found \in [rows -> StagedStatuses]
  BY DEF ReviewIInv, IngestIInv, IngestionTypeOK
<1>5. found \in Readings /\ DOMAIN found = rows
  BY <1>4 DEF Readings
<1>6. ReviewTypeOK'
  BY <1>1, <1>3, <1>5 DEF ReviewIInv, IngestIInv, ReviewTypeOK
<1>7. /\ review'[v].verb = verb /\ review'[v].seen = found
      /\ \A w \in Reviewers : w # v => review'[w] = review[w]
  BY <1>1 DEF ReviewIInv, ReviewTypeOK
<1>8. SeenDecided'
  BY <1>2, <1>5, <1>7 DEF ReviewIInv, SeenDecided
<1>9. ApprovesUndecided'
  BY <1>1, <1>5, <1>7 DEF ReviewIInv, ApprovesUndecided
<1>10. RejectedLeavesTrail' /\ MatchedIsDecided'
  BY <1>1, <1>2 DEF ReviewIInv, RejectedLeavesTrail, MatchedIsDecided
<1> QED
  BY <1>3, <1>6, <1>8, <1>9, <1>10 DEF ReviewIInv

\* What a commit makes of the records.
LEMMA CommitDecides ==
    ASSUME ReviewIInv, NEW v \in Reviewers, review_commit(v), NEW s \in StagedRows
    PROVE  /\ staged'[s].row = staged[s].row
           /\ staged'[s].status = StatusAfter(v, s)
           /\ staged'[s].status \in DecidedStatuses \/ staged'[s].status = staged[s].status
<1>1. staged' = [q \in StagedRows |-> [staged[q] EXCEPT !.status = StatusAfter(v, q)]]
  BY DEF review_commit
<1>2. staged[s] \in [status: StagedStatuses, row: Raws \union {NoRow}]
  BY DEF ReviewIInv, IngestIInv, IngestionTypeOK
<1>3. staged'[s].row = staged[s].row /\ staged'[s].status = StatusAfter(v, s)
  BY <1>1, <1>2
<1> QED
  BY <1>3 DEF StatusAfter, Decision, DecidedStatuses

LEMMA CommitPreserves ==
    ASSUME ReviewIInv, NEW v \in Reviewers, review_commit(v)
    PROVE  ReviewIInv'
<1>1. /\ review[v].verb \in Verbs
      /\ trail' = [s \in StagedRows |->
                      IF s \in Decides(v) THEN trail[s] \union EventsOf(review[v].verb) ELSE trail[s]]
      /\ matched' = IF review[v].verb = "match" THEN matched \union Decides(v) ELSE matched
      /\ review' = [review EXCEPT ![v] = NoReview]
      /\ UNCHANGED <<raw, upload, published, inbox, tries, job, faults, redelivered, lost>>
  BY SeenRows DEF review_commit, ReviewIInv
<1>2. Decides(v) \subseteq DOMAIN review[v].seen /\ Decides(v) \subseteq StagedRows
  BY SeenRows DEF Decides, ReviewIInv
<1>3. staged' \in [StagedRows -> [status: StagedStatuses, row: Raws \union {NoRow}]]
  <2>1. staged' = [s \in StagedRows |-> [staged[s] EXCEPT !.status = StatusAfter(v, s)]]
    BY DEF review_commit
  <2>2. ASSUME NEW s \in StagedRows
        PROVE  [staged[s] EXCEPT !.status = StatusAfter(v, s)]
                  \in [status: StagedStatuses, row: Raws \union {NoRow}]
    <3>1. staged[s] \in [status: StagedStatuses, row: Raws \union {NoRow}]
      BY DEF ReviewIInv, IngestIInv, IngestionTypeOK
    <3>2. StatusAfter(v, s) \in StagedStatuses
      BY <3>1 DEF StatusAfter, Decision, StagedStatuses
    <3> QED
      BY <3>1, <3>2
  <2> QED
    BY <2>1, <2>2
<1>4. \A r : StagedOf(r)' = StagedOf(r)
  BY CommitDecides DEF StagedOf
<1>5. IngestIInv'
  <2>1. IngestionTypeOK'
    BY <1>1, <1>3 DEF ReviewIInv, IngestIInv, IngestionTypeOK
  <2>2. UploadsHold' /\ OneLive' /\ AbsentUnsent'
    BY <1>1, WorkLeaves DEF ReviewIInv
  <2>3. JobsFounded' /\ FaultsCover'
    BY <1>1 DEF ReviewIInv, IngestIInv, JobsFounded, FaultsCover
  <2>4. StagedIsCommitted' /\ DeliveriesPay'
    BY <1>1, <1>4 DEF ReviewIInv, IngestIInv, StagedIsCommitted, DeliveriesPay, AtWork, Waiting, Sent
  <2> QED
    BY <2>1, <2>2, <2>3, <2>4 DEF IngestIInv
<1>6. ReviewTypeOK'
  <2>1. EventsOf(review[v].verb) \subseteq Events
    BY <1>1 DEF EventsOf, Events, Verbs
  <2>2. trail' \in [StagedRows -> SUBSET Events]
    BY <1>1, <2>1 DEF ReviewIInv, ReviewTypeOK
  <2> QED
    BY <1>1, <1>2, <1>5, <2>2, NoReviewTyped DEF IngestIInv, ReviewIInv, ReviewTypeOK
<1>7. /\ review'[v] = NoReview
      /\ \A w \in Reviewers : w # v => review'[w] = review[w]
  BY <1>1 DEF ReviewIInv, ReviewTypeOK
<1>8. SeenDecided'
  BY <1>7, CommitDecides, SeenRows, NoReviewTyped DEF ReviewIInv, SeenDecided
<1>9. ApprovesUndecided'
  BY <1>7, NoReviewTyped DEF ReviewIInv, ApprovesUndecided
<1>10. RejectedLeavesTrail'
  <2> SUFFICES ASSUME NEW s \in StagedRows, staged'[s].status = "rejected"
               PROVE  "rejected" \in trail'[s]
    BY DEF RejectedLeavesTrail
  <2>1. trail[s] \subseteq trail'[s] /\ (s \in Decides(v) => EventsOf(review[v].verb) \subseteq trail'[s])
    BY <1>1
  <2>2. CASE staged[s].status = "rejected"
    BY <2>1, <2>2 DEF ReviewIInv, RejectedLeavesTrail
  <2>3. CASE staged[s].status # "rejected"
    <3>1. s \in Decides(v) /\ Decision(review[v].verb) = "rejected"
      BY <2>3, CommitDecides DEF StatusAfter
    <3>2. "rejected" \in EventsOf(review[v].verb)
      BY <3>1 DEF Decision, EventsOf
    <3> QED
      BY <2>1, <3>1, <3>2
  <2> QED
    BY <2>2, <2>3
<1>11. MatchedIsDecided'
  <2> SUFFICES ASSUME NEW s \in matched' PROVE staged'[s].status \in DecidedStatuses
    BY DEF MatchedIsDecided, DecidedStatuses
  <2>1. s \in StagedRows
    BY <1>1, <1>2 DEF ReviewIInv, ReviewTypeOK
  <2>2. CASE s \in matched
    BY <2>1, <2>2, CommitDecides DEF ReviewIInv, MatchedIsDecided, DecidedStatuses
  <2>3. CASE s \notin matched
    <3>1. review[v].verb = "match" /\ s \in Decides(v)
      BY <1>1, <2>3
    <3>2. CASE review[v].seen[s] = "approved"
      BY <1>2, <2>1, <3>1, <3>2, CommitDecides DEF ReviewIInv, SeenDecided, DecidedStatuses
    <3>3. CASE review[v].seen[s] # "approved"
      BY <2>1, <3>1, <3>3, CommitDecides DEF StatusAfter, Decision, DecidedStatuses
    <3> QED
      BY <3>2, <3>3
  <2> QED
    BY <2>2, <2>3
<1> QED
  BY <1>5, <1>6, <1>8, <1>9, <1>10, <1>11 DEF ReviewIInv

LEMMA ReviewAbortPreserves ==
    ASSUME ReviewIInv, NEW v \in Reviewers, review_abort(v)
    PROVE  ReviewIInv'
<1>1. review' = [review EXCEPT ![v] = NoReview] /\ UNCHANGED <<ingestVars, matched, trail>>
  BY DEF review_abort
<1>2. staged' = staged
  BY <1>1 DEF ingestVars
<1>3. IngestIInv'
  BY <1>1, IngestionNextOK DEF ReviewIInv
<1>4. ReviewTypeOK'
  BY <1>1, <1>3, NoReviewTyped DEF ReviewIInv, IngestIInv, ReviewTypeOK
<1>5. /\ review'[v] = NoReview
      /\ \A w \in Reviewers : w # v => review'[w] = review[w]
  BY <1>1 DEF ReviewIInv, ReviewTypeOK
<1>6. SeenDecided' /\ ApprovesUndecided'
  BY <1>2, <1>5, NoReviewTyped DEF ReviewIInv, SeenDecided, ApprovesUndecided
<1>7. RejectedLeavesTrail' /\ MatchedIsDecided'
  BY <1>1, <1>2 DEF ReviewIInv, RejectedLeavesTrail, MatchedIsDecided
<1> QED
  BY <1>3, <1>4, <1>6, <1>7 DEF ReviewIInv

LEMMA ReviewNextOK ==
    ASSUME ReviewIInv, [ReviewNext]_<<ingestVars, reviewVars>>
    PROVE  ReviewIInv'
<1>1. CASE UNCHANGED <<ingestVars, reviewVars>>
  BY <1>1, IngestionReviewed
<1> QED
  BY <1>1, IngestionReviewed, ReviewReadPreserves, CommitPreserves, ReviewAbortPreserves DEF ReviewNext

\* The strengthened invariant of ingestion and reviews, for every value of the constants.
THEOREM ReviewInvariant == ReviewSpec => []ReviewIInv
BY ReviewInitOK, ReviewNextOK, PTL DEF ReviewSpec

\* Every rejection that stands is in the audit log, bulk approvals that write none
\* notwithstanding (routers/staging.py).
THEOREM RejectedLeavesTrailHolds == ReviewSpec => []RejectedLeavesTrail
<1>1. ReviewIInv => RejectedLeavesTrail
  BY DEF ReviewIInv
<1> QED
  BY <1>1, ReviewInvariant, PTL

\* A record matched to an entity never waits for a review again (match_exception).
THEOREM MatchedIsDecidedHolds == ReviewSpec => []MatchedIsDecided
<1>1. ReviewIInv => MatchedIsDecided
  BY DEF ReviewIInv
<1> QED
  BY <1>1, ReviewInvariant, PTL

\* The invariants of ingestion hold with reviewers at work on what it stages.
THEOREM ReviewedIngestionHolds == ReviewSpec => [](IngestionInv /\ StagedPerDelivery)
<1>1. ReviewIInv => IngestionInv /\ StagedPerDelivery
  BY IngestionImplied DEF ReviewIInv
<1> QED
  BY <1>1, ReviewInvariant, PTL

UndoneKnowingly(s) ==
    (staged[s].status = "rejected" /\ staged'[s].status # "rejected") =>
        \E v \in Reviewers :
            /\ s \in DOMAIN review[v].seen
            /\ \/ review[v].seen[s] \in Undecided
               \/ review[v].verb = "match" /\ review[v].seen[s] # "approved"

LEMMA CommitKnows ==
    ASSUME ReviewIInv, NEW v \in Reviewers, review_commit(v), NEW s \in StagedRows
    PROVE  UndoneKnowingly(s)
<1> SUFFICES ASSUME staged[s].status = "rejected", staged'[s].status # "rejected"
             PROVE  /\ s \in DOMAIN review[v].seen
                    /\ \/ review[v].seen[s] \in Undecided
                       \/ review[v].verb = "match" /\ review[v].seen[s] # "approved"
  BY DEF UndoneKnowingly
<1>1. s \in Decides(v) /\ Decision(review[v].verb) # "rejected"
      /\ review[v].seen[s] # Decision(review[v].verb)
  BY CommitDecides DEF StatusAfter
<1>2. review[v].verb \in {"approve", "match", "bulk"}
  BY <1>1, SeenRows DEF review_commit, Decision, Verbs, ReviewIInv
<1>3. s \in DOMAIN review[v].seen /\ (review[v].verb = "bulk" => review[v].seen[s] \in Undecided)
  BY <1>1 DEF Decides
<1> QED
  BY <1>1, <1>2, <1>3 DEF Decision, ReviewIInv, ApprovesUndecided

LEMMA StepKnows ==
    ASSUME ReviewIInv, [ReviewNext]_<<ingestVars, reviewVars>>, NEW s \in StagedRows
    PROVE  UndoneKnowingly(s)
<1>1. CASE [IngestionNext]_ingestVars
  BY <1>1, IngestionStages DEF ReviewIInv, DecidedStatuses, UndoneKnowingly
<1>2. ASSUME NEW v \in Reviewers, review_commit(v) PROVE UndoneKnowingly(s)
  BY <1>2, CommitKnows
<1>3. ASSUME NEW v \in Reviewers,
             \/ \E verb \in Verbs, rows \in SUBSET StagedRows \ {{}} : review_read(v, verb, rows)
             \/ review_abort(v)
      PROVE  UndoneKnowingly(s)
  BY <1>3 DEF review_read, review_abort, ingestVars, UndoneKnowingly
<1>4. CASE UNCHANGED <<ingestVars, reviewVars>>
  BY <1>4 DEF ingestVars, UndoneKnowingly
<1> QED
  BY <1>1, <1>2, <1>3, <1>4 DEF ReviewNext

\* A rejection is taken back only by a request that read the record undecided, or by a
\* match that read it as anything but approved (routers/staging.py).
THEOREM RejectionUndoneKnowinglyHolds == ReviewSpec => RejectionUndoneKnowingly
<1>1. ReviewIInv /\ [ReviewNext]_<<ingestVars, reviewVars>> =>
        [\A s \in StagedRows : UndoneKnowingly(s)]_<<staged, review>>
  BY StepKnows
<1>2. (\A s \in StagedRows : UndoneKnowingly(s)) <=>
        \A s \in StagedRows :
            (staged[s].status = "rejected" /\ staged'[s].status # "rejected") =>
                \E v \in Reviewers :
                    /\ s \in DOMAIN review[v].seen
                    /\ \/ review[v].seen[s] \in Undecided
                       \/ review[v].verb = "match" /\ review[v].seen[s] # "approved"
  BY DEF UndoneKnowingly
<1> QED
  BY <1>1, <1>2, ReviewInvariant, PTL DEF ReviewSpec, RejectionUndoneKnowingly

\* Files, staged rows, open reviews and the audit trail keep their shape through every
\* approval, rejection, match, bulk action and ingestion (routers/staging.py, agents/ingestion.py).
THEOREM ReviewTypeOKHolds == ReviewSpec => []ReviewTypeOK
<1>1. ReviewIInv => ReviewTypeOK
  BY DEF ReviewIInv
<1> QED
  BY <1>1, ReviewInvariant, PTL

=============================================================================
