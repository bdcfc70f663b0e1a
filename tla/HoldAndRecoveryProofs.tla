------------------------ MODULE HoldAndRecoveryProofs ------------------------
(* Theorems about LegalHolds, for any number of operations, holds, faults    *)
(* and changes outside the workflow, and about RecoveryCopies, for any       *)
(* number of versions, hold changes, failures and deaths.                    *)
(*                                                                           *)
(* Legal holds: the three properties hold together.  What is active follows  *)
(* from the latest application (LatestDecides), an application is made only  *)
(* of the one pending operation (OnePending) whose status the object already *)
(* has (ObjectFollows), and what is published is audited and applied         *)
(* (PlaceOK).                                                                *)
(*                                                                           *)
(* Recovery copies: what the reconciler found true of a version at a cutoff  *)
(* stays true whatever is published, held or copied later (Kept), so that    *)
(* its row needs to be justified only where the reconciler itself moves.     *)
EXTENDS LegalHolds, RecoveryCopies, FiniteSetTheorems, WellFoundedInduction, TLAPS

-----------------------------------------------------------------------------
(* The inductive invariant.                                                *)

\* An operation in progress is the only one, and its hold is the one its
\* request named: requests expire or end before the next one is recorded.
Shaped(o) ==
    /\ row[o].state # "none" => row[o].hold \in Hold
    /\ row[o].state # "APPLIED" => row[o].appliedAt = 0 /\ ~row[o].published
    /\ row[o].appliedAt <= clock
OnePending ==
    \A o \in Op : Shaped(o) /\
        (row[o].state \in Pending =>
            /\ \A p \in Op \ {o} : row[p].state \notin Pending
            /\ RequestMatchesHolds(row[o].status, row[o].hold))

\* What the worker's place says of the operation it works at.
PlaceOK ==
    /\ At("observe") \/ At("begin") => worker.op \in Op /\ Current.state = "APPROVED" /\ late = None
    /\ At("put") => worker.op \in Op /\ Current.state = "APPLYING" /\ late = None
    /\ At("reread") \/ At("verify") \/ At("apply") => worker.op \in Op /\ Current.state = "APPLYING"
    /\ At("readback") \/ At("failed") => worker.op \in Op
    /\ At("publish") \/ At("ack") =>
          worker.op \in Op /\ Current.state = "APPLIED" /\ worker.op \in audited
    /\ At("ack") => worker.op \in ledger.changes
    /\ \A o \in worker.queue : row[o].state = "APPLIED"

\* Without drift the object has the status Aurora records, except while a
\* change is being applied; a put still on its way belongs to that change.
ObjectFollows ==
    drift = 0 =>
        /\ (\A o \in Op : row[o].state # "APPLYING") => (s3 = "ON" <=> ActiveHolds # {})
        /\ late # None => Applying(late)
        /\ At("reread") => late = None \/ s3 = Opposite(Current.status)
        /\ At("verify") \/ At("apply") => late = None
        /\ At("apply") => s3 = Current.status

\* The latest application decides what is active.
LatestDecides ==
    \A o \in Op : row[o].state = "APPLIED" =>
        /\ row[o].appliedAt = clock => (row[o].status = "ON" <=> ActiveHolds # {})
        /\ \E p \in Op : row[p].state = "APPLIED" /\ row[p].appliedAt = clock
        /\ \A p \in Op \ {o} : row[p].appliedAt # row[o].appliedAt

\* The projection is one of the publications, and none is newer.
ProjectionOK ==
    /\ ledger.current = None <=> ledger.changes = {}
    /\ ledger.current # None => ledger.current \in ledger.changes
    /\ \A o \in ledger.changes : row[o].appliedAt <= row[ledger.current].appliedAt

IInv == /\ TypeOK /\ OnePending /\ PlaceOK /\ ObjectFollows /\ LatestDecides
        /\ ProjectionOK /\ RecoveryFollowsAudit

-----------------------------------------------------------------------------
(* The worker's place, and what a step leaves alone.                        *)

Workers == [pc : Steps, op : Op \cup {None}, queue : SUBSET Op]

\* Moving on changes neither the operation at hand nor the queue.
LEMMA GotoIs ==
    ASSUME TypeOK, NEW place \in Steps, Goto(place)
    PROVE  /\ worker' \in Workers
           /\ worker'.pc = place /\ worker'.op = worker.op /\ worker'.queue = worker.queue
BY DEF TypeOK, Goto, Workers

\* An invocation that has ended has no operation and no queue.
LEMMA IdleIs ==
    ASSUME worker' = Idle
    PROVE  worker' \in Workers /\ worker'.pc = "idle" /\ worker'.queue = {}
BY DEF Idle, Workers, Steps

\* Skipping an item only shortens the queue.
LEMMA NextItemIs ==
    ASSUME TypeOK, NEW o, NextItem(o)
    PROVE  /\ worker' \in Workers
           /\ worker'.pc = "audit" /\ worker'.queue \subseteq worker.queue
BY DEF TypeOK, NextItem, Workers, Steps

\* A fault is counted within its bound.
LEMMA FaultIs ==
    ASSUME ConstantsAssumption, TypeOK, Fault \/ UNCHANGED faults
    PROVE  faults' \in 0 .. MaxFaults
BY DEF ConstantsAssumption, TypeOK, Fault

\* None is no operation, and a status is not None.
LEMMA NoneIs == ASSUME ConstantsAssumption PROVE None \notin Op /\ None \notin Status
BY DEF ConstantsAssumption, Op, Status

\* Steps that leave the rows and the holds alone keep what is said of them.
LEMMA RowsFrame ==
    ASSUME OnePending, LatestDecides, UNCHANGED <<row, holds, clock>>
    PROVE  OnePending' /\ LatestDecides'
BY DEF OnePending, LatestDecides, Shaped, RequestMatchesHolds, ActiveHolds

\* A step of the worker that leaves the stores alone has to be justified by
\* the place it leads to only.
LEMMA WorkerStep ==
    ASSUME ConstantsAssumption, IInv, UNCHANGED <<database, s3, ledger, drift, late>>,
           Fault \/ UNCHANGED faults, worker' \in Workers, PlaceOK',
           drift = 0 => /\ worker'.pc = "reread" => late = None \/ s3 = Opposite(row[worker'.op].status)
                        /\ worker'.pc \in {"verify", "apply"} => late = None
                        /\ worker'.pc = "apply" => s3 = row[worker'.op].status
    PROVE  IInv'
<1>1. TypeOK'
  BY FaultIs DEF IInv, TypeOK, Workers, database
<1>2. OnePending' /\ LatestDecides'
  BY RowsFrame DEF IInv, database
<1>3. ObjectFollows'
  BY DEF IInv, ObjectFollows, At, Current, ActiveHolds, Applying, database
<1>4. ProjectionOK' /\ RecoveryFollowsAudit'
  BY DEF IInv, ProjectionOK, RecoveryFollowsAudit, database
<1> QED BY <1>1, <1>2, <1>3, <1>4 DEF IInv

-----------------------------------------------------------------------------
(* Steps that only move the worker.                                         *)

\* Listing pending rows, taking one, looking at the object, and coming back
\* from a failure change nothing that is stored.
LEMMA MoveStep ==
    ASSUME ConstantsAssumption, IInv,
           \/ \E o \in Op : TakePending(o)
           \/ NothingDue \/ Observe \/ Reread \/ Verify \/ ReadBack \/ RecordFailure
           \/ ListApplied \/ OutboxDone
    PROVE  IInv'
<1> USE DEF Steps
<1>1. TypeOK /\ worker \in Workers
  BY DEF IInv, TypeOK, Workers
<1>2. ASSUME NEW o \in Op, TakePending(o) PROVE IInv'
  <2>1. /\ worker' \in Workers /\ worker'.op = o /\ worker'.queue = worker.queue
        /\ worker'.pc = IF row[o].state = "APPROVED" THEN "observe" ELSE "put"
    BY <1>1, <1>2 DEF TakePending, Workers
  <2>2. row[o].state \in {"APPROVED", "APPLYING"} /\ late = None
        /\ UNCHANGED <<database, s3, ledger, late, faults, drift>>
    BY <1>2 DEF TakePending
  <2>3. PlaceOK'
    BY <2>1, <2>2 DEF IInv, PlaceOK, At, Current, database
  <2> QED BY <2>1, <2>2, <2>3, WorkerStep
<1>3. CASE NothingDue
  <2>1. worker' \in Workers /\ worker'.pc = "outbox" /\ worker'.queue = worker.queue
    BY <1>1, <1>3, GotoIs DEF NothingDue
  <2>2. UNCHANGED <<database, s3, ledger, late, faults, drift>>
    BY <1>3 DEF NothingDue
  <2>3. PlaceOK'
    BY <2>1, <2>2 DEF IInv, PlaceOK, At, Current, database
  <2> QED BY <2>1, <2>2, <2>3, WorkerStep
<1>4. CASE Observe
  <2>1. /\ worker' \in Workers /\ worker'.pc \in {"begin", "failed"}
        /\ worker'.op = worker.op /\ worker'.queue = worker.queue
    BY <1>1, <1>4, GotoIs DEF Observe
  <2>2. At("observe") /\ UNCHANGED <<database, s3, ledger, late, faults, drift>>
    BY <1>4 DEF Observe
  <2>3. PlaceOK'
    BY <2>1, <2>2 DEF IInv, PlaceOK, At, Current, database
  <2> QED BY <2>1, <2>2, <2>3, WorkerStep
<1>5. CASE Reread
  <2>1. /\ worker' \in Workers /\ worker'.pc \in {"verify", "failed"}
        /\ worker'.op = worker.op /\ worker'.queue = worker.queue
        /\ worker'.pc = "verify" => s3 = Current.status
    BY <1>1, <1>5, GotoIs DEF Reread
  <2>2. At("reread") /\ UNCHANGED <<database, s3, ledger, late, drift>> /\ (Fault \/ UNCHANGED faults)
    BY <1>5 DEF Reread
  <2>3. PlaceOK'
    BY <2>1, <2>2 DEF IInv, PlaceOK, At, Current, database
  <2>4. Current.status \in Status
    BY <1>1, <2>2 DEF IInv, PlaceOK, Current, TypeOK, Rows
  <2>5. Opposite(Current.status) # Current.status
    BY <2>4 DEF Opposite, Status
  <2>6. drift = 0 /\ worker'.pc = "verify" => late = None
    BY <2>1, <2>2, <2>5 DEF IInv, ObjectFollows
  <2> QED BY <2>1, <2>2, <2>3, <2>6, WorkerStep
<1>6. CASE Verify
  <2>1. /\ worker' \in Workers /\ worker'.pc \in {"apply", "failed"}
        /\ worker'.op = worker.op /\ worker'.queue = worker.queue
        /\ worker'.pc = "apply" => s3 = Current.status
    BY <1>1, <1>6, GotoIs DEF Verify
  <2>2. At("verify") /\ UNCHANGED <<database, s3, ledger, late, drift>> /\ (Fault \/ UNCHANGED faults)
    BY <1>6 DEF Verify
  <2>3. PlaceOK'
    BY <2>1, <2>2 DEF IInv, PlaceOK, At, Current, database
  <2>4. drift = 0 /\ worker'.pc = "apply" => late = None /\ s3 = row[worker'.op].status
    BY <2>1, <2>2 DEF IInv, ObjectFollows, Current
  <2> QED BY <2>1, <2>2, <2>3, <2>4, WorkerStep
<1>7. CASE ReadBack
  <2>1. worker' \in Workers /\ worker'.pc \in {"outbox", "failed"}
        /\ worker'.op = worker.op /\ worker'.queue = worker.queue
    BY <1>1, <1>7, GotoIs DEF ReadBack
  <2>2. At("readback") /\ UNCHANGED <<database, s3, ledger, late, drift>> /\ (Fault \/ UNCHANGED faults)
    BY <1>7 DEF ReadBack
  <2>3. PlaceOK'
    BY <2>1, <2>2 DEF IInv, PlaceOK, At, Current, database
  <2> QED BY <2>1, <2>2, <2>3, WorkerStep
<1>8. CASE RecordFailure
  <2>1. /\ worker' \in Workers /\ worker'.pc \in {"outbox", "idle"}
        /\ worker'.queue \subseteq worker.queue
    BY <1>1, <1>8, GotoIs, IdleIs DEF RecordFailure
  <2>2. UNCHANGED <<database, s3, ledger, late, faults, drift>>
    BY <1>8 DEF RecordFailure
  <2>3. PlaceOK'
    BY <2>1, <2>2 DEF IInv, PlaceOK, At, Current, database
  <2> QED BY <2>1, <2>2, <2>3, WorkerStep
<1>9. CASE ListApplied
  <2>1. worker' \in Workers /\ worker'.pc = "audit" /\ worker'.queue = Unpublished
    BY <1>1, <1>9 DEF ListApplied, Workers, Unpublished
  <2>2. UNCHANGED <<database, s3, ledger, late, faults, drift>>
    BY <1>9 DEF ListApplied
  <2>3. PlaceOK'
    BY <2>1, <2>2 DEF PlaceOK, At, Current, database, Unpublished
  <2> QED BY <2>1, <2>2, <2>3, WorkerStep
<1>10. CASE OutboxDone
  <2>1. worker' \in Workers /\ worker'.pc = "expired" /\ worker'.queue = worker.queue
    BY <1>1, <1>10, GotoIs DEF OutboxDone
  <2>2. UNCHANGED <<database, s3, ledger, late, faults, drift>>
    BY <1>10 DEF OutboxDone
  <2>3. PlaceOK'
    BY <2>1, <2>2 DEF IInv, PlaceOK, At, Current, database
  <2> QED BY <2>1, <2>2, <2>3, WorkerStep
<1> QED BY <1>2, <1>3, <1>4, <1>5, <1>6, <1>7, <1>8, <1>9, <1>10

-----------------------------------------------------------------------------
(* The object in S3.                                                        *)

\* The put, the late arrival and the death of the worker keep the object with
\* the change that is being applied.
LEMMA ObjectStep ==
    ASSUME ConstantsAssumption, IInv, Put \/ LateArrives \/ Drift \/ Crash
    PROVE  IInv'
<1> USE DEF Steps
<1>1. TypeOK /\ worker \in Workers
  BY DEF IInv, TypeOK, Workers
<1>2. UNCHANGED <<database, ledger>> /\ (Fault \/ UNCHANGED faults)
  BY DEF Put, LateArrives, Drift, Crash
<1>3. OnePending' /\ LatestDecides' /\ ProjectionOK' /\ RecoveryFollowsAudit'
  BY <1>2, RowsFrame DEF IInv, ProjectionOK, RecoveryFollowsAudit, database
<1>4. faults' \in 0 .. MaxFaults
  BY <1>1, <1>2, FaultIs
<1>5. \A o \in Op : row[o].status \in Status
  BY <1>1 DEF TypeOK, Rows
<1>6. CASE Put
  <2>1. /\ At("put") /\ worker.op \in Op /\ Current.state = "APPLYING" /\ late = None
        /\ UNCHANGED drift
    BY <1>6 DEF Put, IInv, PlaceOK
  <2>2. /\ worker' \in Workers /\ worker'.op = worker.op /\ worker'.queue = worker.queue
        /\ \/ worker'.pc = "verify" /\ s3' = Current.status /\ UNCHANGED late
           \/ worker'.pc = "reread" /\ s3 = Opposite(Current.status)
              /\ (UNCHANGED late \/ (UNCHANGED s3 /\ late' = Current.status))
           \/ worker'.pc = "failed" /\ late' \in {late, Current.status}
    BY <1>1, <1>6, GotoIs DEF Put
  <2>3. s3' \in {s3, Current.status} /\ late' \in {None, Current.status}
    BY <1>6, <2>1 DEF Put
  <2>4. TypeOK'
    BY <1>1, <1>2, <1>4, <1>5, <2>1, <2>2, <2>3 DEF TypeOK, Workers, Current, database
  <2>5. PlaceOK'
    BY <1>2, <2>1, <2>2 DEF IInv, PlaceOK, At, Current, database
  <2>6. \E o \in Op : row'[o].state = "APPLYING" /\ row'[o].status = Current.status
    BY <1>2, <2>1 DEF Current, database
  <2>7. ObjectFollows'
    <3>1. Current' = Current /\ Current.status # None
      BY <1>2, <1>5, <2>1, <2>2, NoneIs DEF Current, database
    <3>2. late' # None => Applying(late)'
      BY <2>3, <2>6 DEF Applying
    <3>3. \E o \in Op : row'[o].state = "APPLYING"
      BY <2>6
    <3>4. At("reread")' => late' = None \/ s3' = Opposite(Current.status)
      BY <2>1, <2>2 DEF At
    <3>5. ~At("apply")' /\ (At("verify")' => late' = None)
      BY <2>1, <2>2 DEF At
    <3> QED BY <3>1, <3>2, <3>3, <3>4, <3>5 DEF ObjectFollows, Opposite
  <2> QED BY <1>3, <2>4, <2>5, <2>7 DEF IInv
<1>7. CASE LateArrives
  <2>1. late' = None /\ s3' \in {s3, late} /\ late # None /\ UNCHANGED <<worker, drift>>
    BY <1>7 DEF LateArrives
  <2>2. TypeOK'
    BY <1>1, <1>2, <1>4, <2>1 DEF TypeOK, database
  <2>3. PlaceOK'
    BY <1>2, <2>1 DEF IInv, PlaceOK, At, Current, database
  <2>4. ObjectFollows'
    BY <1>2, <2>1 DEF IInv, ObjectFollows, At, Current, Applying, ActiveHolds, database
  <2> QED BY <1>3, <2>2, <2>3, <2>4 DEF IInv
<1>8. CASE Drift
  <2>1. drift' \in 0 .. MaxDrift /\ drift' # 0 /\ s3' \in Status /\ UNCHANGED <<worker, late>>
    BY <1>1, <1>8 DEF Drift, TypeOK, Opposite, Status, ConstantsAssumption
  <2>2. TypeOK'
    BY <1>1, <1>2, <1>4, <2>1 DEF TypeOK, database
  <2>3. PlaceOK'
    BY <1>2, <2>1 DEF IInv, PlaceOK, At, Current, database
  <2>4. ObjectFollows'
    BY <2>1 DEF ObjectFollows
  <2> QED BY <1>3, <2>2, <2>3, <2>4 DEF IInv
<1>9. CASE Crash
  <2>1. worker' \in Workers /\ worker'.pc = "idle" /\ worker'.queue = {} /\ UNCHANGED <<s3, drift>>
    BY <1>9, IdleIs DEF Crash
  <2>2. \/ UNCHANGED late
        \/ At("put") /\ late' = Current.status
    BY <1>9 DEF Crash
  <2>3. At("put") => worker.op \in Op /\ Current.state = "APPLYING"
    BY DEF IInv, PlaceOK
  <2>4. TypeOK'
    BY <1>1, <1>2, <1>4, <1>5, <2>1, <2>2, <2>3 DEF TypeOK, Workers, Current, database
  <2>5. PlaceOK'
    BY <2>1 DEF PlaceOK, At
  <2>6. drift = 0 => (late' # None => Applying(late)')
    <3>1. CASE UNCHANGED late
      BY <1>2, <3>1 DEF IInv, ObjectFollows, Applying, database
    <3>2. CASE At("put") /\ late' = Current.status
      BY <1>2, <2>3, <3>2 DEF Applying, Current, database
    <3> QED BY <2>2, <3>1, <3>2
  <2>7. ObjectFollows'
    BY <1>2, <2>1, <2>6 DEF IInv, ObjectFollows, At, ActiveHolds, database
  <2> QED BY <1>3, <2>4, <2>5, <2>7 DEF IInv
<1> QED BY <1>6, <1>7, <1>8, <1>9

-----------------------------------------------------------------------------
(* The rows that are not applied.                                           *)

\* A step that touches no applied row, no hold and no event, and whose other
\* rows stay unapplied, keeps what is said of applications and publications.
LEMMA UnappliedFrame ==
    ASSUME IInv, UNCHANGED <<holds, audited, s3, ledger, clock, late, drift>>,
           \A o \in Op : row[o].state = "APPLIED" \/ row'[o].state = "APPLIED" => row'[o] = row[o],
           \A o \in Op : row'[o].state # "APPLIED" => row'[o].appliedAt = 0 /\ ~row'[o].published
    PROVE  LatestDecides' /\ ProjectionOK' /\ RecoveryFollowsAudit'
<1>1. LatestDecides'
  <2>1. \A o \in Op : row[o].state # "APPLIED" => row[o].appliedAt = row'[o].appliedAt
    BY DEF IInv, OnePending, Shaped
  <2> QED BY <2>1 DEF IInv, LatestDecides, ActiveHolds
<1>2. ledger.changes \subseteq Op /\ \A o \in ledger.changes : row'[o] = row[o] /\ row[o].state = "APPLIED"
  BY DEF IInv, RecoveryFollowsAudit, TypeOK
<1>3. ProjectionOK'
  BY <1>2 DEF IInv, ProjectionOK
<1>4. RecoveryFollowsAudit'
  BY <1>2 DEF IInv, RecoveryFollowsAudit
<1> QED BY <1>1, <1>3, <1>4

\* A step that neither begins nor ends an application leaves the object with
\* the rows.
LEMMA ObjectFrame ==
    ASSUME IInv, UNCHANGED <<holds, s3, late, drift>>,
           \A o \in Op : (row'[o].state = "APPLYING" <=> row[o].state = "APPLYING")
                         /\ (row[o].state = "APPLYING" => row'[o].status = row[o].status),
           \/ worker'.pc = worker.pc /\ worker'.op = worker.op
           \/ worker'.pc \notin {"reread", "verify", "apply"}
    PROVE  ObjectFollows'
<1>1. (\A o \in Op : row'[o].state # "APPLYING") <=> \A o \in Op : row[o].state # "APPLYING"
  OBVIOUS
<1>2. ActiveHolds' = ActiveHolds
  BY DEF ActiveHolds
<1>3. late' # None /\ drift = 0 => Applying(late)'
  BY DEF IInv, ObjectFollows, Applying
<1>4. CASE worker'.pc = worker.pc /\ worker'.op = worker.op
  <2>1. At("reread") \/ At("apply") => worker.op \in Op /\ Current'.status = Current.status
    BY <1>4 DEF IInv, PlaceOK, Current
  <2> QED BY <1>1, <1>2, <1>3, <1>4, <2>1 DEF IInv, ObjectFollows, At, Opposite
<1>5. CASE worker'.pc \notin {"reread", "verify", "apply"}
  BY <1>1, <1>2, <1>3, <1>5 DEF IInv, ObjectFollows, At
<1> QED BY <1>4, <1>5

\* The requests that expire were only requested.
LEMMA Expires ==
    ASSUME IInv, NEW stale \in SUBSET StaleRequests, NEW p \in Op
    PROVE  /\ [row[p] EXCEPT !.state = "EXPIRED"] \in Rows
           /\ p \in stale => row[p].state = "REQUESTED"
           /\ [row[p] EXCEPT !.state = "EXPIRED"].state = "EXPIRED"
           /\ [row[p] EXCEPT !.state = "EXPIRED"].status = row[p].status
           /\ [row[p] EXCEPT !.state = "EXPIRED"].hold = row[p].hold
           /\ [row[p] EXCEPT !.state = "EXPIRED"].appliedAt = row[p].appliedAt
           /\ [row[p] EXCEPT !.state = "EXPIRED"].published = row[p].published
<1>1. row[p] \in Rows
  BY DEF IInv, TypeOK
<1> QED BY <1>1 DEF Rows, StaleRequests

\* A request takes the place of the ones it lets expire.
LEMMA RequestStep ==
    ASSUME ConstantsAssumption, IInv, NEW o \in Op, NEW status \in Status, NEW h \in Hold,
           Request(o, status, h)
    PROVE  IInv'
<1>1. PICK stale \in SUBSET StaleRequests : RecordRequest(o, status, h, stale)
  BY DEF Request
<1>2. row[o].state = "none" /\ UNCHANGED <<holds, audited, s3, ledger, clock, worker, late, faults, drift>>
  BY DEF Request
<1> DEFINE new == [NoRow EXCEPT !.state = "REQUESTED", !.status = status, !.hold = h]
<1>3. new \in Rows /\ new.state = "REQUESTED" /\ new.status = status /\ new.hold = h
      /\ new.appliedAt = 0 /\ ~new.published
  BY DEF NoRow, Rows, Pending
<1> HIDE DEF new
<1>4. row' = [p \in Op |-> IF p = o THEN new
                           ELSE IF p \in stale THEN [row[p] EXCEPT !.state = "EXPIRED"] ELSE row[p]]
  BY <1>1 DEF RecordRequest, new
<1>5. row'[o] = new /\ \A p \in Op \ {o} : row'[p] = IF p \in stale THEN [row[p] EXCEPT !.state = "EXPIRED"] ELSE row[p]
  BY <1>4
<1>6. \A p \in Op : row[p] \in Rows
  BY DEF IInv, TypeOK
<1>7. TypeOK'
  <2>1. row' \in [Op -> Rows]
    BY <1>3, <1>4, <1>6, Expires
  <2>2. apiEvents' \subseteq {"request", "approval"} \X Op
    BY <1>1 DEF RecordRequest, IInv, TypeOK
  <2> QED BY <1>2, <2>1, <2>2 DEF IInv, TypeOK
<1>8. \A p \in Op \ {o} : row'[p].state = row[p].state \/ (row[p].state = "REQUESTED" /\ row'[p].state = "EXPIRED")
  <2> SUFFICES ASSUME NEW p \in Op \ {o}
               PROVE  row'[p].state = row[p].state \/ (row[p].state = "REQUESTED" /\ row'[p].state = "EXPIRED")
    OBVIOUS
  <2>1. CASE p \in stale
    <3>1. row'[p] = [row[p] EXCEPT !.state = "EXPIRED"]
      BY <1>5, <2>1
    <3>2. row[p].state = "REQUESTED" /\ [row[p] EXCEPT !.state = "EXPIRED"].state = "EXPIRED"
      BY <2>1, Expires
    <3> QED BY <3>1, <3>2
  <2>2. CASE p \notin stale
    BY <1>5, <2>2
  <2> QED BY <2>1, <2>2
<1>9. \A p \in Op \ {o} : /\ row'[p].status = row[p].status /\ row'[p].hold = row[p].hold
                          /\ row'[p].appliedAt = row[p].appliedAt /\ row'[p].published = row[p].published
  BY <1>5, Expires
<1>10. \A p \in Op \ {o} : row'[p].state \notin Pending
  BY <1>1, <1>5, Expires DEF RecordRequest, Pending
<1>11. \A p \in Op : Shaped(p)'
  <2>1. Shaped(o)'
    BY <1>2, <1>3, <1>5 DEF Shaped, IInv, TypeOK
  <2>2. ASSUME NEW p \in Op \ {o} PROVE Shaped(p)'
    BY <1>2, <1>8, <1>9 DEF IInv, OnePending, Shaped
  <2> QED BY <2>1, <2>2
<1>12. RequestMatchesHolds(status, h)'
  BY <1>1, <1>2 DEF RecordRequest, RequestMatchesHolds, ActiveHolds
<1>13. OnePending'
  <2>1. RequestMatchesHolds(row[o].status, row[o].hold)'
    BY <1>3, <1>5, <1>12 DEF RequestMatchesHolds, ActiveHolds
  <2>2. ASSUME NEW p \in Op, row'[p].state \in Pending
        PROVE  p = o
    BY <1>10, <2>2
  <2> QED BY <1>10, <1>11, <2>1, <2>2 DEF OnePending
<1>14. /\ \A p \in Op : row[p].state = "APPLIED" \/ row'[p].state = "APPLIED" => row'[p] = row[p]
       /\ \A p \in Op : row'[p].state # "APPLIED" => row'[p].appliedAt = 0 /\ ~row'[p].published
  <2>1. row'[o].state # "APPLIED" /\ row[o].state # "APPLIED"
    BY <1>2, <1>3, <1>5
  <2>2. \A p \in Op \ {o} : row[p].state = "APPLIED" \/ row'[p].state = "APPLIED" => row'[p] = row[p]
    BY <1>5, Expires
  <2> QED BY <1>11, <2>1, <2>2 DEF Shaped
<1>15. \A p \in Op : (row'[p].state = "APPLYING" <=> row[p].state = "APPLYING")
                     /\ (row[p].state = "APPLYING" => row'[p].status = row[p].status)
  BY <1>2, <1>3, <1>5, <1>8, <1>9
<1>16. PlaceOK'
  <2>1. \A p \in Op : row[p].state \in {"APPROVED", "APPLYING", "APPLIED"} => row'[p].state = row[p].state
    BY <1>2, <1>8
  <2>2. worker.queue \subseteq Op
    BY DEF IInv, TypeOK
  <2> QED BY <1>2, <2>1, <2>2 DEF IInv, PlaceOK, At, Current
<1> QED BY <1>2, <1>7, <1>13, <1>14, <1>15, <1>16, UnappliedFrame, ObjectFrame DEF IInv

\* Approval, the passage of time and the expiry of requests change only rows
\* whose application has not begun.
LEMMA WaitingStep ==
    ASSUME ConstantsAssumption, IInv, ExpireStale \/ \E o \in Op : Approve(o) \/ Age(o)
    PROVE  IInv'
<1>1. /\ UNCHANGED <<holds, audited, s3, ledger, clock, late, faults, drift>>
      /\ worker' = worker \/ (worker' \in Workers /\ worker'.pc = "list" /\ worker'.queue = worker.queue)
  <2>1. "list" \in Steps
    BY DEF Steps
  <2> QED BY <2>1, GotoIs DEF ExpireStale, Approve, RecordApproval, Age, IInv
<1>2. /\ row' \in [Op -> Rows]
      /\ \A p \in Op :
           /\ row'[p].state = row[p].state
              \/ (row[p].state = "REQUESTED" /\ row'[p].state \in {"APPROVED", "EXPIRED"})
           /\ row'[p].status = row[p].status /\ row'[p].hold = row[p].hold
           /\ row'[p].appliedAt = row[p].appliedAt /\ row'[p].published = row[p].published
           /\ row[p].state # "REQUESTED" => row'[p] = row[p]
  <2>1. \A p \in Op : row[p] \in Rows
    BY DEF IInv, TypeOK
  <2>2. CASE ExpireStale
    <3>1. PICK stale \in SUBSET StaleRequests :
             row' = [p \in Op |-> IF p \in stale THEN [row[p] EXCEPT !.state = "EXPIRED"] ELSE row[p]]
      BY <2>2 DEF ExpireStale
    <3> QED BY <2>1, <3>1, Expires
  <2>3. CASE \E o \in Op : Approve(o)
    <3>0. PICK o \in Op : Approve(o)
      BY <2>3
    <3>1. row[o].state = "REQUESTED" /\ row' = [row EXCEPT ![o] = [row[o] EXCEPT !.state = "APPROVED"]]
      BY <3>0 DEF Approve, RecordApproval, IInv, TypeOK
    <3>2. /\ [row[o] EXCEPT !.state = "APPROVED"] \in Rows
          /\ [row[o] EXCEPT !.state = "APPROVED"].state = "APPROVED"
          /\ [row[o] EXCEPT !.state = "APPROVED"].status = row[o].status
          /\ [row[o] EXCEPT !.state = "APPROVED"].hold = row[o].hold
          /\ [row[o] EXCEPT !.state = "APPROVED"].appliedAt = row[o].appliedAt
          /\ [row[o] EXCEPT !.state = "APPROVED"].published = row[o].published
      BY <2>1 DEF Rows, Pending
    <3> QED BY <2>1, <3>1, <3>2 DEF IInv, TypeOK
  <2>4. CASE \E o \in Op : Age(o)
    <3>0. PICK o \in Op : Age(o)
      BY <2>4
    <3> DEFINE older == [row[o] EXCEPT !.age = IF row[o].age = "fresh" THEN "due" ELSE "over"]
    <3>1. row[o].state = "REQUESTED" /\ row' = [row EXCEPT ![o] = older]
      BY <3>0 DEF Age, IInv, TypeOK
    <3>2. /\ older \in Rows /\ older.state = row[o].state /\ older.status = row[o].status
          /\ older.hold = row[o].hold /\ older.appliedAt = row[o].appliedAt
          /\ older.published = row[o].published
      BY <2>1 DEF Rows
    <3> HIDE DEF older
    <3> QED BY <2>1, <3>1, <3>2 DEF IInv, TypeOK
  <2> QED BY <2>2, <2>3, <2>4
<1>3. TypeOK'
  <2>1. apiEvents' \subseteq {"request", "approval"} \X Op
    BY DEF ExpireStale, Approve, RecordApproval, Age, IInv, TypeOK
  <2> QED BY <1>1, <1>2, <2>1 DEF IInv, TypeOK, Workers
<1>4. OnePending'
  <2>1. \A p \in Op : row'[p].state \in Pending => row[p].state \in Pending
    BY <1>2 DEF Pending
  <2>2. \A p \in Op : RequestMatchesHolds(row[p].status, row[p].hold)' <=> RequestMatchesHolds(row[p].status, row[p].hold)
    BY <1>1, <1>2 DEF RequestMatchesHolds, ActiveHolds
  <2>3. \A p \in Op : Shaped(p)'
    BY <1>1, <1>2 DEF IInv, OnePending, Shaped
  <2> QED BY <2>1, <2>2, <2>3 DEF IInv, OnePending
<1>5. /\ \A p \in Op : row[p].state = "APPLIED" \/ row'[p].state = "APPLIED" => row'[p] = row[p]
      /\ \A p \in Op : row'[p].state # "APPLIED" => row'[p].appliedAt = 0 /\ ~row'[p].published
  BY <1>2 DEF IInv, OnePending, Shaped
<1>6. PlaceOK'
  <2>1. \A p \in Op : row[p].state \in {"APPROVED", "APPLYING", "APPLIED"} => row'[p].state = row[p].state
    BY <1>2
  <2>2. worker.queue \subseteq Op
    BY DEF IInv, TypeOK
  <2> QED BY <1>1, <2>1, <2>2 DEF IInv, PlaceOK, At, Current
<1>7. ObjectFollows'
  <2>1. \A p \in Op : (row'[p].state = "APPLYING" <=> row[p].state = "APPLYING") /\ row'[p].status = row[p].status
    BY <1>2
  <2> QED BY <1>1, <2>1, ObjectFrame
<1> QED BY <1>1, <1>3, <1>4, <1>5, <1>6, <1>7, UnappliedFrame DEF IInv

-----------------------------------------------------------------------------
(* The change itself.                                                       *)

\* Making the attempt durable keeps the approved operation the pending one.
LEMMA BeginStep == ASSUME ConstantsAssumption, IInv, BeginApply PROVE IInv'
<1> USE DEF Steps
<1> DEFINE o == worker.op
           begun == [row[o] EXCEPT !.state = "APPLYING"]
<1>1. /\ At("begin") /\ o \in Op /\ row[o].state = "APPROVED" /\ late = None
      /\ row[o] \in Rows /\ TypeOK
  BY DEF BeginApply, IInv, PlaceOK, Current, TypeOK
<1>2. /\ UNCHANGED <<holds, apiEvents, audited, s3, ledger, clock, late, drift>>
      /\ Fault \/ UNCHANGED faults
      /\ row' = row \/ row' = [row EXCEPT ![o] = begun]
      /\ worker' \in Workers /\ worker'.op = o /\ worker'.queue = worker.queue
      /\ \/ worker'.pc = "put" /\ row' = [row EXCEPT ![o] = begun]
         \/ worker'.pc = "failed"
  BY <1>1, GotoIs DEF BeginApply, Unanswered, TypeOK
<1>3. /\ begun \in Rows /\ begun.state = "APPLYING" /\ begun.status = row[o].status
      /\ begun.hold = row[o].hold /\ begun.appliedAt = row[o].appliedAt
      /\ begun.published = row[o].published
  BY <1>1 DEF Rows, Pending
<1> HIDE DEF begun, o
<1>4. CASE row' = row /\ worker'.pc = "failed"
  <2>1. PlaceOK'
    BY <1>1, <1>2, <1>4 DEF IInv, PlaceOK, At, Current, o
  <2> QED BY <1>2, <1>4, <2>1, WorkerStep DEF database
<1>5. CASE row' = [row EXCEPT ![o] = begun]
  <2>1. row' \in [Op -> Rows] /\ row'[o] = begun /\ \A p \in Op \ {o} : row'[p] = row[p]
    BY <1>1, <1>3, <1>5 DEF TypeOK
  <2>2. TypeOK'
    BY <1>1, <1>2, <2>1, FaultIs DEF TypeOK, Workers
  <2>3. OnePending'
    <3>1. \A p \in Op : row'[p].state \in Pending <=> row[p].state \in Pending
      BY <1>1, <1>3, <2>1 DEF Pending
    <3>2. \A p \in Op : /\ row'[p].status = row[p].status /\ row'[p].hold = row[p].hold
                        /\ row'[p].appliedAt = row[p].appliedAt /\ row'[p].published = row[p].published
      BY <1>3, <2>1
    <3>3. \A p \in Op : /\ row'[p].state = "none" <=> row[p].state = "none"
                        /\ row'[p].state = "APPLIED" <=> row[p].state = "APPLIED"
      BY <1>1, <1>3, <2>1
    <3>4. \A p \in Op : Shaped(p)'
      BY <1>2, <3>2, <3>3 DEF IInv, OnePending, Shaped
    <3>5. \A p \in Op : RequestMatchesHolds(row[p].status, row[p].hold)' <=> RequestMatchesHolds(row[p].status, row[p].hold)
      BY <1>2, <3>2 DEF RequestMatchesHolds, ActiveHolds
    <3> QED BY <3>1, <3>4, <3>5 DEF IInv, OnePending
  <2>4. PlaceOK'
    <3>1. \A p \in worker.queue : p \in Op /\ row'[p].state = "APPLIED"
      BY <1>1, <2>1 DEF IInv, PlaceOK, TypeOK
    <3> QED BY <1>1, <1>2, <1>3, <2>1, <3>1 DEF PlaceOK, At, Current
  <2>5. ObjectFollows'
    BY <1>1, <1>2, <1>3, <2>1 DEF ObjectFollows, At
  <2>6. LatestDecides' /\ ProjectionOK' /\ RecoveryFollowsAudit'
    <3>1. \A p \in Op : row[p].state = "APPLIED" \/ row'[p].state = "APPLIED" => row'[p] = row[p]
      BY <1>1, <1>3, <2>1
    <3>2. \A p \in Op : row'[p].state # "APPLIED" => row'[p].appliedAt = 0 /\ ~row'[p].published
      BY <2>3 DEF OnePending, Shaped
    <3> QED BY <1>2, <3>1, <3>2, UnappliedFrame
  <2> QED BY <2>2, <2>3, <2>4, <2>5, <2>6 DEF IInv
<1> QED BY <1>2, <1>4, <1>5

\* The confirmation makes the hold what the object is, and is the latest.
LEMMA ConfirmStep ==
    ASSUME ConstantsAssumption, IInv, At("apply"), Confirm(worker.op),
           Goto("outbox") \/ Goto("readback"), Fault \/ UNCHANGED faults,
           UNCHANGED <<apiEvents, audited, s3, ledger, late, drift>>
    PROVE  IInv'
<1> USE DEF Steps
<1>0. PICK o \in Op : o = worker.op
  BY DEF IInv, PlaceOK
<1> DEFINE h == row[o].hold
           applied == [row[o] EXCEPT !.state = "APPLIED", !.appliedAt = clock + 1]
<1>1. /\ TypeOK /\ o \in Op /\ row[o] \in Rows /\ row[o].state = "APPLYING" /\ clock \in Nat
      /\ row[o].status \in Status
  BY <1>0 DEF IInv, PlaceOK, TypeOK, Current, Rows
<1>3. h \in Hold /\ ~row[o].published
  BY <1>1 DEF IInv, OnePending, Shaped
<1>4. /\ worker' \in Workers /\ worker'.pc \in {"outbox", "readback"}
      /\ worker'.op = o /\ worker'.queue = worker.queue
  BY <1>0, <1>1, GotoIs
<1>5. /\ holds' = [holds EXCEPT ![h] = IF row[o].status = "ON" THEN "active" ELSE "released"]
      /\ clock' = clock + 1 /\ row' = [row EXCEPT ![o] = applied]
      /\ row[o].status = "OFF" => ActiveHolds = {h}
      /\ row[o].status = "ON" => ActiveHolds = {}
  BY <1>0, <1>1 DEF Confirm, TypeOK
<1>6. /\ applied \in Rows /\ applied.state = "APPLIED" /\ applied.status = row[o].status
      /\ applied.hold = h /\ applied.appliedAt = clock + 1 /\ applied.published = row[o].published
  <2>1. /\ applied.state = "APPLIED" /\ applied.status = row[o].status
        /\ applied.hold = h /\ applied.appliedAt = clock + 1 /\ applied.published = row[o].published
    BY <1>1 DEF Rows
  <2>2. clock + 1 \in Nat
    BY <1>1
  <2>3. applied \in Rows
    BY <1>1, <2>2 DEF Rows
  <2> QED BY <2>1, <2>3
<1> HIDE DEF applied, h
<1>7. /\ row' \in [Op -> Rows] /\ row'[o] = applied /\ \A p \in Op \ {o} : row'[p] = row[p]
      /\ holds' \in [Hold -> {"none", "active", "released"}]
  BY <1>1, <1>3, <1>5, <1>6 DEF TypeOK
<1>8. row[o].status = "ON" <=> ActiveHolds' # {}
  <2>1. CASE row[o].status = "ON"
    <3>1. holds'[h] = "active"
      BY <1>1, <1>3, <1>5, <2>1 DEF TypeOK
    <3> QED BY <1>3, <2>1, <3>1 DEF ActiveHolds
  <2>2. CASE row[o].status # "ON"
    <3>1. ActiveHolds = {h} /\ holds'[h] = "released" /\ \A g \in Hold \ {h} : holds'[g] = holds[g]
      BY <1>1, <1>3, <1>5, <2>2 DEF TypeOK, Status
    <3> QED BY <2>2, <3>1 DEF ActiveHolds
  <2> QED BY <2>1, <2>2
<1>9. \A p \in Op : row'[p].state \notin Pending
  <2>1. row[o].state \in Pending
    BY <1>1 DEF Pending
  <2> QED BY <1>1, <1>6, <1>7, <2>1 DEF IInv, OnePending, Pending
<1>10. \A p \in Op : row[p].appliedAt \in Nat /\ row[p].appliedAt <= clock
  BY <1>1 DEF IInv, OnePending, Shaped, TypeOK, Rows
<1>11. TypeOK'
  BY <1>1, <1>4, <1>5, <1>7, FaultIs DEF TypeOK, Workers
<1>12. OnePending'
  <2>1. Shaped(o)'
    BY <1>1, <1>3, <1>5, <1>6, <1>7 DEF Shaped
  <2>2. ASSUME NEW p \in Op \ {o} PROVE Shaped(p)'
    BY <1>1, <1>5, <1>7, <1>10 DEF Shaped, IInv, OnePending
  <2> QED BY <1>9, <2>1, <2>2 DEF OnePending
<1>13. PlaceOK'
  <2>1. \A p \in worker.queue : p \in Op /\ row'[p].state = "APPLIED"
    BY <1>1, <1>6, <1>7 DEF IInv, PlaceOK, TypeOK
  <2> QED BY <1>1, <1>4, <2>1 DEF PlaceOK, At
<1>14. ObjectFollows'
  <2>1. drift = 0 => s3 = row[o].status /\ late = None
    BY <1>0 DEF IInv, ObjectFollows, Current
  <2> QED BY <1>1, <1>4, <1>8, <2>1 DEF ObjectFollows, At
<1>15. LatestDecides'
  <2>1. row'[o].state = "APPLIED" /\ row'[o].appliedAt = clock' /\ row'[o].status = row[o].status
    BY <1>5, <1>6, <1>7
  <2>2. \A p \in Op \ {o} : row'[p] = row[p] /\ row[p].appliedAt # clock'
    BY <1>1, <1>5, <1>7, <1>10
  <2> SUFFICES ASSUME NEW q \in Op, row'[q].state = "APPLIED"
               PROVE  /\ row'[q].appliedAt = clock' => (row'[q].status = "ON" <=> ActiveHolds' # {})
                      /\ \A p \in Op \ {q} : row'[p].appliedAt # row'[q].appliedAt
    BY <1>1, <2>1 DEF LatestDecides
  <2>3. CASE q = o
    BY <1>8, <2>1, <2>2, <2>3
  <2>4. CASE q # o
    BY <2>1, <2>2, <2>4 DEF IInv, LatestDecides
  <2> QED BY <2>3, <2>4
<1>16. \A p \in ledger.changes : p \in Op /\ p # o
  BY <1>1 DEF IInv, RecoveryFollowsAudit, TypeOK
<1>17. ProjectionOK' /\ RecoveryFollowsAudit'
  <2>1. ProjectionOK'
    BY <1>7, <1>16 DEF IInv, ProjectionOK
  <2>2. \A p \in Op : row'[p].published = row[p].published
    BY <1>6, <1>7
  <2>3. RecoveryFollowsAudit'
    BY <1>7, <1>16, <2>2 DEF IInv, RecoveryFollowsAudit
  <2> QED BY <2>1, <2>3
<1> QED BY <1>11, <1>12, <1>13, <1>14, <1>15, <1>17 DEF IInv

\* A confirmation is answered, or read back; one that failed changes nothing.
LEMMA ApplyStep == ASSUME ConstantsAssumption, IInv, Apply PROVE IInv'
<1> USE DEF Steps
<1>1. At("apply") /\ UNCHANGED <<apiEvents, audited, s3, ledger, late, drift>>
  BY DEF Apply
<1>2. CASE Confirm(worker.op) /\ (Goto("outbox") \/ Goto("readback")) /\ (Fault \/ UNCHANGED faults)
  BY <1>1, <1>2, ConfirmStep
<1>3. CASE UNCHANGED <<row, holds, clock>> /\ Goto("readback") /\ Fault
  <2>1. /\ worker' \in Workers /\ worker'.pc = "readback"
        /\ worker'.op = worker.op /\ worker'.queue = worker.queue
    BY <1>3, GotoIs DEF IInv
  <2>2. PlaceOK'
    BY <1>1, <1>3, <2>1 DEF IInv, PlaceOK, At, Current
  <2> QED BY <1>1, <1>3, <2>1, <2>2, WorkerStep DEF database
<1> QED BY <1>2, <1>3 DEF Apply

-----------------------------------------------------------------------------
(* The outbox: audit, publication, acknowledgement.                         *)

\* The next item of the queue is an applied operation.
LEMMA FirstIs ==
    ASSUME IInv, NEW o \in First(worker.queue)
    PROVE  o \in worker.queue /\ o \in Op /\ row[o].state = "APPLIED"
BY DEF IInv, First, PlaceOK, TypeOK

\* Committing events only adds to what a publication may rely on.
LEMMA AuditStep ==
    ASSUME ConstantsAssumption, IInv,
           UNCHANGED <<row, holds, apiEvents, s3, ledger, clock, late, drift>>,
           Fault \/ UNCHANGED faults, audited \subseteq audited', audited' \subseteq Op,
           worker' \in Workers, worker'.queue \subseteq worker.queue,
           \/ worker'.pc \in {"audit", "idle"}
           \/ worker'.pc = "publish" /\ worker'.op \in audited'
              /\ row[worker'.op].state = "APPLIED"
    PROVE  IInv'
<1>1. TypeOK'
  BY FaultIs DEF IInv, TypeOK, Workers
<1>2. OnePending' /\ LatestDecides'
  BY RowsFrame DEF IInv
<1>3. PlaceOK'
  BY DEF IInv, PlaceOK, At, Current
<1>4. ObjectFollows'
  BY DEF IInv, ObjectFollows, At, ActiveHolds, Applying
<1>5. ProjectionOK' /\ RecoveryFollowsAudit'
  BY DEF IInv, ProjectionOK, RecoveryFollowsAudit
<1> QED BY <1>1, <1>2, <1>3, <1>4, <1>5 DEF IInv

\* What is published next has its event, whatever the answer said.
LEMMA CommitStep == ASSUME ConstantsAssumption, IInv, CommitAudit PROVE IInv'
<1>1. TypeOK /\ audited \subseteq Op /\ worker \in Workers
  BY DEF IInv, TypeOK, Workers
<1>2. PICK o \in First(worker.queue) :
         \/ /\ audited' = audited \cup {o} /\ UNCHANGED faults
            /\ worker' = [worker EXCEPT !.pc = "publish", !.op = o]
         \/ audited' \in Unanswered(audited, audited \cup {o}) /\ Fault /\ NextItem(o)
  BY DEF CommitAudit
<1>3. o \in Op /\ row[o].state = "APPLIED"
  BY <1>2, FirstIs
<1>4. UNCHANGED <<row, holds, apiEvents, s3, ledger, clock, late, drift>>
  BY DEF CommitAudit
<1>5. CASE /\ audited' = audited \cup {o} /\ UNCHANGED faults
           /\ worker' = [worker EXCEPT !.pc = "publish", !.op = o]
  <2>1. /\ worker' \in Workers /\ worker'.pc = "publish" /\ worker'.op = o
        /\ worker'.queue = worker.queue
    BY <1>1, <1>3, <1>5 DEF Workers, Steps
  <2> QED BY <1>1, <1>3, <1>4, <1>5, <2>1, AuditStep
<1>6. CASE audited' \in Unanswered(audited, audited \cup {o}) /\ Fault /\ NextItem(o)
  <2>1. worker' \in Workers /\ worker'.pc = "audit" /\ worker'.queue \subseteq worker.queue
    BY <1>1, <1>6, NextItemIs
  <2> QED BY <1>1, <1>3, <1>4, <1>6, <2>1, AuditStep DEF Unanswered
<1> QED BY <1>2, <1>5, <1>6

\* Events of expired requests are only more of them.
LEMMA ExpiredStep == ASSUME ConstantsAssumption, IInv, AuditExpired PROVE IInv'
<1>1. /\ worker' \in Workers /\ worker'.pc = "idle" /\ worker'.queue = {}
      /\ UNCHANGED <<row, holds, apiEvents, s3, ledger, clock, late, drift>>
      /\ Fault \/ UNCHANGED faults
  BY IdleIs DEF AuditExpired
<1>2. audited \subseteq audited' /\ audited' \subseteq Op
  BY DEF AuditExpired, UnauditedExpired, IInv, TypeOK
<1> QED BY <1>1, <1>2, AuditStep

\* A publication of an audited operation joins the ledger, and leads it exactly
\* when no publication is newer.
LEMMA PublicationIs ==
    ASSUME ConstantsAssumption, IInv, UNCHANGED row, NEW o \in audited, row[o].state = "APPLIED",
           PublishChange(o)
    PROVE  /\ ledger' \in [changes : SUBSET Op, current : Op \cup {None}]
           /\ ledger'.changes = ledger.changes \cup {o}
           /\ ProjectionOK'
<1>1. o \in Op /\ o # None /\ ledger \in [changes : SUBSET Op, current : Op \cup {None}]
  BY NoneIs DEF IInv, TypeOK
<1>2. \A p \in Op : row[p].appliedAt \in Nat
  BY DEF IInv, TypeOK, Rows
<1>3. /\ ledger'.changes = ledger.changes \cup {o}
      /\ ledger' \in [changes : SUBSET Op, current : Op \cup {None}]
      /\ \/ ledger'.current = o
            /\ (ledger.current = None \/ row[ledger.current].appliedAt < row[o].appliedAt)
         \/ ledger'.current = ledger.current /\ o \in ledger.changes
         \/ /\ ledger'.current = ledger.current /\ ledger.current # None
            /\ ~(row[ledger.current].appliedAt < row[o].appliedAt)
  BY <1>1 DEF PublishChange, AlreadyPublished
<1>4. /\ ledger.current = None <=> ledger.changes = {}
      /\ ledger.current # None => ledger.current \in ledger.changes
      /\ \A p \in ledger.changes : row[p].appliedAt <= row[ledger.current].appliedAt
  BY DEF IInv, ProjectionOK
<1>5. ledger'.current # None /\ ledger'.current \in ledger'.changes
  BY <1>1, <1>3, <1>4
<1>6. \A p \in ledger'.changes : row[p].appliedAt <= row[ledger'.current].appliedAt
  <2>1. CASE /\ ledger'.current = o
             /\ ledger.current = None \/ row[ledger.current].appliedAt < row[o].appliedAt
    BY <1>1, <1>2, <1>3, <1>4, <2>1
  <2>2. CASE ledger'.current = ledger.current /\ o \in ledger.changes
    BY <1>3, <1>4, <2>2
  <2>3. CASE /\ ledger'.current = ledger.current /\ ledger.current # None
             /\ ~(row[ledger.current].appliedAt < row[o].appliedAt)
    <3>1. ledger.current \in Op
      BY <1>1, <2>3
    <3> QED BY <1>1, <1>2, <1>3, <1>4, <2>3, <3>1
  <2> QED BY <1>3, <2>1, <2>2, <2>3
<1> QED BY <1>3, <1>5, <1>6 DEF ProjectionOK

\* Publishing an applied and audited operation.
LEMMA PublishStep == ASSUME ConstantsAssumption, IInv, Publish PROVE IInv'
<1> USE DEF Steps
<1>1. PICK o \in Op : o = worker.op /\ row[o].state = "APPLIED" /\ o \in audited
  BY DEF Publish, IInv, PlaceOK, Current
<1>2. UNCHANGED <<database, s3, late, drift>> /\ (Fault \/ UNCHANGED faults)
  BY DEF Publish
<1>3. /\ worker' \in Workers /\ worker'.queue \subseteq worker.queue
      /\ \/ PublishChange(o) /\ worker'.pc = "ack" /\ worker'.op = o
         \/ (PublishChange(o) \/ UNCHANGED ledger) /\ worker'.pc = "audit"
  BY <1>1, GotoIs, NextItemIs DEF Publish, IInv
<1>4. CASE UNCHANGED ledger /\ worker'.pc = "audit"
  <2>1. PlaceOK'
    BY <1>2, <1>3, <1>4 DEF IInv, PlaceOK, At, database
  <2> QED BY <1>2, <1>3, <1>4, <2>1, WorkerStep
<1>5. CASE PublishChange(o)
  <2>1. /\ ledger' \in [changes : SUBSET Op, current : Op \cup {None}]
        /\ ledger'.changes = ledger.changes \cup {o} /\ ProjectionOK'
    BY <1>1, <1>2, <1>5, PublicationIs DEF database
  <2>2. TypeOK'
    BY <1>2, <1>3, <2>1, FaultIs DEF IInv, TypeOK, Workers, database
  <2>3. OnePending' /\ LatestDecides'
    BY <1>2, RowsFrame DEF IInv, database
  <2>4. PlaceOK'
    BY <1>1, <1>2, <1>3, <2>1 DEF IInv, PlaceOK, At, Current, database
  <2>5. ObjectFollows'
    BY <1>2, <1>3 DEF IInv, ObjectFollows, At, ActiveHolds, Applying, database
  <2>6. RecoveryFollowsAudit'
    BY <1>1, <1>2, <2>1 DEF IInv, RecoveryFollowsAudit, database
  <2> QED BY <2>1, <2>2, <2>3, <2>4, <2>5, <2>6 DEF IInv
<1> QED BY <1>3, <1>4, <1>5

\* The outbox lets an operation go that the recovery ledger has.
LEMMA AcknowledgeStep == ASSUME ConstantsAssumption, IInv, Acknowledge PROVE IInv'
<1> USE DEF Steps
<1>1. PICK o \in Op : o = worker.op /\ row[o].state = "APPLIED" /\ o \in audited
                      /\ o \in ledger.changes
  BY DEF Acknowledge, IInv, PlaceOK, Current
<1>2. /\ worker' \in Workers /\ worker'.queue \subseteq worker.queue /\ worker'.pc = "audit"
      /\ UNCHANGED <<holds, apiEvents, audited, s3, ledger, clock, late, drift>>
      /\ Fault \/ UNCHANGED faults
  BY NextItemIs DEF Acknowledge, IInv
<1> DEFINE done == [row[o] EXCEPT !.published = TRUE]
<1>3. UNCHANGED row \/ row' = [row EXCEPT ![o] = done]
  BY <1>1 DEF Acknowledge, AcknowledgePublication, IInv, TypeOK
<1>4. /\ done \in Rows /\ done.state = "APPLIED" /\ done.status = row[o].status
      /\ done.hold = row[o].hold /\ done.appliedAt = row[o].appliedAt /\ done.published = TRUE
  <2>1. row[o] \in Rows
    BY <1>1 DEF IInv, TypeOK
  <2> QED BY <1>1, <2>1 DEF Rows
<1> HIDE DEF done
<1>5. CASE UNCHANGED row
  <2>1. PlaceOK'
    BY <1>2, <1>5 DEF IInv, PlaceOK, At
  <2> QED BY <1>2, <1>5, <2>1, WorkerStep DEF database
<1>6. CASE row' = [row EXCEPT ![o] = done]
  <2>1. row' \in [Op -> Rows] /\ row'[o] = done /\ \A p \in Op \ {o} : row'[p] = row[p]
    BY <1>1, <1>4, <1>6 DEF IInv, TypeOK
  <2>2. \A p \in Op : /\ row'[p].state = row[p].state /\ row'[p].status = row[p].status
                      /\ row'[p].hold = row[p].hold /\ row'[p].appliedAt = row[p].appliedAt
                      /\ row'[p].published => row[p].published \/ p = o
    BY <1>1, <1>4, <2>1
  <2>3. TypeOK'
    BY <1>2, <2>1, FaultIs DEF IInv, TypeOK, Workers
  <2>4. OnePending'
    <3>1. \A p \in Op : Shaped(p)'
      BY <1>1, <1>2, <2>2 DEF IInv, OnePending, Shaped
    <3>2. \A p \in Op : RequestMatchesHolds(row[p].status, row[p].hold)' <=> RequestMatchesHolds(row[p].status, row[p].hold)
      BY <1>2, <2>2 DEF RequestMatchesHolds, ActiveHolds
    <3> QED BY <2>2, <3>1, <3>2 DEF IInv, OnePending
  <2>5. PlaceOK'
    <3>1. \A p \in worker.queue : p \in Op /\ row'[p].state = "APPLIED"
      BY <2>2 DEF IInv, PlaceOK, TypeOK
    <3> QED BY <1>2, <3>1 DEF PlaceOK, At
  <2>6. ObjectFollows'
    BY <1>2, <2>2, ObjectFrame
  <2>7. LatestDecides'
    BY <1>2, <2>2 DEF IInv, LatestDecides, ActiveHolds
  <2>8. ledger.changes \subseteq Op
    BY DEF IInv, TypeOK
  <2>9. ProjectionOK' /\ RecoveryFollowsAudit'
    <3>1. ProjectionOK'
      BY <1>2, <2>2, <2>8 DEF IInv, ProjectionOK
    <3>2. RecoveryFollowsAudit'
      BY <1>1, <1>2, <2>2, <2>8 DEF IInv, RecoveryFollowsAudit
    <3> QED BY <3>1, <3>2
  <2> QED BY <2>3, <2>4, <2>5, <2>6, <2>7, <2>9 DEF IInv
<1> QED BY <1>3, <1>5, <1>6

-----------------------------------------------------------------------------
(* The theorems.                                                            *)

\* Nothing is requested, held, audited or published.
LEMMA Initially == ASSUME ConstantsAssumption, Init PROVE IInv
<1> USE DEF Init
<1>1. TypeOK
  <2>1. NoRow \in Rows
    BY DEF NoRow, Rows, Status
  <2>2. Idle \in Workers
    BY DEF Idle, Workers, Steps
  <2> QED BY <2>1, <2>2 DEF TypeOK, Workers, Status, ConstantsAssumption
<1>2. \A o \in Op : row[o].state = "none" /\ row[o].appliedAt = 0 /\ ~row[o].published
  BY DEF NoRow
<1>3. OnePending
  BY <1>2 DEF OnePending, Shaped, Pending
<1>4. PlaceOK
  BY <1>2 DEF PlaceOK, At, Idle
<1>5. ObjectFollows
  BY <1>2 DEF ObjectFollows, ActiveHolds, At, Idle
<1>6. LatestDecides
  BY <1>2 DEF LatestDecides
<1>7. ProjectionOK /\ RecoveryFollowsAudit
  BY <1>2 DEF ProjectionOK, RecoveryFollowsAudit
<1> QED BY <1>1, <1>3, <1>4, <1>5, <1>6, <1>7 DEF IInv

\* A step that changes nothing keeps all of it.
LEMMA Stutters == ASSUME IInv, UNCHANGED vars PROVE IInv'
<1> USE DEF vars
<1>1. TypeOK' /\ PlaceOK'
  BY DEF IInv, TypeOK, PlaceOK, At, Current
<1>2. OnePending' /\ LatestDecides'
  BY RowsFrame DEF IInv
<1>3. ObjectFollows'
  BY DEF IInv, ObjectFollows, At, Current, ActiveHolds, Applying
<1>4. ProjectionOK' /\ RecoveryFollowsAudit'
  BY DEF IInv, ProjectionOK, RecoveryFollowsAudit
<1> QED BY <1>1, <1>2, <1>3, <1>4 DEF IInv

\* The rows, the object, the holds and the recovery ledger keep in step.
LEMMA Inductive == Spec => []IInv
<1>1. Init => IInv
  BY ConstantsAssumption, Initially
<1>2. IInv /\ [Next]_vars => IInv'
  <2> SUFFICES ASSUME IInv, [Next]_vars PROVE IInv'
    OBVIOUS
  <2> USE ConstantsAssumption
  <2>1. CASE \E o \in Op, status \in Status, h \in Hold : Request(o, status, h)
    BY <2>1, RequestStep
  <2>2. CASE \E o \in Op : Approve(o) \/ Age(o) \/ TakePending(o)
    BY <2>2, WaitingStep, MoveStep
  <2>3. CASE Sweep
    BY <2>3, WaitingStep, MoveStep, BeginStep, ObjectStep, ApplyStep DEF Sweep
  <2>4. CASE Outboxes
    BY <2>4, MoveStep, CommitStep, PublishStep, AcknowledgeStep, ExpiredStep DEF Outboxes
  <2>5. CASE Crash \/ LateArrives \/ Drift
    BY <2>5, ObjectStep
  <2>6. CASE UNCHANGED vars
    BY <2>6, Stutters
  <2> QED BY <2>1, <2>2, <2>3, <2>4, <2>5, <2>6 DEF Next
<1> QED BY <1>1, <1>2, PTL DEF Spec

\* Without changes behind the workflow's back, a hold Aurora calls active is on
\* in S3 and an object held in S3 has its row, but for the change in progress.
THEOREM HoldsCorrect == Spec => []HoldsMatchObject
<1>1. IInv => HoldsMatchObject
  <2> SUFFICES ASSUME IInv, drift = 0
               PROVE  /\ ActiveHolds # {} => s3 = "ON" \/ Applying("OFF")
                      /\ s3 = "ON" => ActiveHolds # {} \/ Applying("ON")
    BY DEF IInv, HoldsMatchObject
  <2>1. CASE \A o \in Op : row[o].state # "APPLYING"
    BY <2>1 DEF IInv, ObjectFollows
  <2>2. CASE \E o \in Op : row[o].state = "APPLYING"
    <3>1. PICK o \in Op : row[o].state = "APPLYING"
      BY <2>2
    <3>2. row[o].hold \in Hold /\ row[o].status \in Status
      BY <3>1 DEF IInv, TypeOK, OnePending, Shaped, Rows
    <3>3. RequestMatchesHolds(row[o].status, row[o].hold)
      BY <3>1 DEF IInv, OnePending, Pending
    <3>4. CASE row[o].status = "ON"
      BY <3>1, <3>3, <3>4 DEF RequestMatchesHolds, Applying
    <3>5. CASE row[o].status = "OFF"
      BY <3>1, <3>3, <3>5 DEF RequestMatchesHolds, Applying
    <3> QED BY <3>2, <3>4, <3>5 DEF Status
  <2> QED BY <2>1, <2>2
<1> QED BY <1>1, Inductive, PTL

\* Whatever the recovery ledger carries was applied and audited before, and the
\* outbox lets an operation go only when the ledger has it.
THEOREM RecoveryCorrect == Spec => []RecoveryFollowsAudit
BY Inductive, PTL DEF IInv

\* The projection is the latest publication; with the outbox empty it is the
\* hold that Aurora records.
THEOREM ProjectionCorrect == Spec => []ProjectionIsLatest
<1>1. IInv => ProjectionIsLatest
  <2> SUFFICES ASSUME IInv, Unpublished = {}, ledger.current # None
               PROVE  row[ledger.current].status = "ON" <=> ActiveHolds # {}
    BY DEF IInv, ProjectionOK, ProjectionIsLatest
  <2>1. /\ ledger.current \in ledger.changes /\ ledger.current \in Op
        /\ row[ledger.current].state = "APPLIED"
    BY DEF IInv, ProjectionOK, RecoveryFollowsAudit, TypeOK
  <2>2. PICK p \in Op : row[p].state = "APPLIED" /\ row[p].appliedAt = clock
    BY <2>1 DEF IInv, LatestDecides
  <2>3. p \in ledger.changes
    BY <2>2 DEF Unpublished, IInv, RecoveryFollowsAudit
  <2>4. /\ row[p].appliedAt <= row[ledger.current].appliedAt
        /\ row[ledger.current].appliedAt <= clock
    BY <2>1, <2>3 DEF IInv, ProjectionOK, OnePending, Shaped
  <2>5. clock \in Nat /\ row[ledger.current].appliedAt \in Nat
    BY <2>1 DEF IInv, TypeOK, Rows
  <2>6. row[ledger.current].appliedAt = clock
    BY <2>2, <2>4, <2>5
  <2> QED BY <2>1, <2>6 DEF IInv, LatestDecides
<1> QED BY <1>1, Inductive, PTL

-----------------------------------------------------------------------------
(* RecoveryCopies: the inductive invariant.                                  *)

\* Versions and publications.
StoredBy(o, time) == object[o].stored # Absent /\ object[o].stored <= time
Out(publication, time) ==
    publication.state \in {"flying", "visible"} /\ publication.at <= time

\* What is published is stored; nothing is under way for longer than Window;
\* a complete replication shows the present hold, which is that of the latest
\* operation; operations are applied in order.
PublicationsOK ==
    /\ \A o \in Object :
          /\ object[o].stored # Absent => object[o].stored <= now
          /\ object[o].replication = "COMPLETED" => object[o].replica = object[o].hold
          /\ promotion[o].state # "none" => object[o].stored # Absent
          /\ promotion[o].state \in {"flying", "visible"} => object[o].stored <= promotion[o].at
          /\ promotion[o].state = "flying" => now <= promotion[o].at + Window
    /\ \A k \in HoldOp :
          /\ hold[k].state = "flying" => now <= hold[k].at + Window
          /\ hold[k].at <= MaxTime + k
          /\ hold[k].state # "none" => \A j \in HoldOp : j < k => hold[j].state # "none"
          /\ \A o \in Object : LatestOp(k, o) => object[o].hold = hold[k].status

\* The copy of a version accounts for everything published by a time.
Fine(o, time) ==
    /\ object[o].replica # Absent
    /\ \A k \in HoldOp : LatestOp(k, o) /\ Out(hold[k], time)
          => object[o].replica = hold[k].status
AllFine(time) == \A o \in Object : Out(promotion[o], time) => Fine(o, time)

\* The changes a generation looks at.
ChangesIn(g) == {c \in Changes : g.after < c.at /\ c.at <= g.cutoff}

BackfillOK(g) ==
    /\ g.cutoff < now
    /\ g.repair # Absent => g.cutoff <= g.repair
    /\ g.through # Absent => g.through <= g.cutoff /\ AllFine(g.through)
    /\ g.verified => g.through = g.cutoff
    /\ g.phase = "SOURCE" =>
          \A o \in Object : StoredBy(o, g.cutoff) /\ o <= g.cursor => Fine(o, g.cutoff)
    /\ g.phase = "CHANGES" =>
          /\ g.through # Absent /\ g.after = g.through
          /\ g.cutoff + Settle <= now
          /\ \A c \in ChangesIn(g) : SortKey(c) <= g.cursor => Fine(c.object, g.cutoff)
    /\ g.phase = "DESTINATION" => AllFine(g.cutoff)

SourcePageOK(g, r) ==
    /\ r.target \in Object /\ StoredBy(r.target, g.cutoff)
    /\ \A o \in Object : StoredBy(o, g.cutoff) /\ o < r.target => o <= g.cursor
    /\ r.last => \A o \in Object : StoredBy(o, g.cutoff) => o <= r.target
    /\ r.source \in HoldStatus => Fine(r.target, g.cutoff)
ChangePageOK(g, r) ==
    /\ ~r.last
    /\ \E c \in ChangesIn(g) :
          /\ SortKey(c) = r.target
          /\ r.source \in HoldStatus => Fine(c.object, g.cutoff)
    /\ \A c \in ChangesIn(g) : SortKey(c) < r.target => SortKey(c) <= g.cursor
RunOK(g, r) ==
    /\ r.pc # "idle" => g # Absent
    /\ r.pc = "heads" =>
          /\ g.phase \in {"SOURCE", "CHANGES"}
          /\ g.phase = "SOURCE" => SourcePageOK(g, r)
          /\ g.phase = "CHANGES" => ChangePageOK(g, r)

RecoveryInv ==
    /\ RecoveryTypeOK
    /\ PublicationsOK
    /\ backfill # Absent => BackfillOK(backfill)
    /\ RunOK(backfill, run)

-----------------------------------------------------------------------------
(* Constants, sets of numbers and keys.                                    *)

LEMMA RecoveryConstants ==
    /\ Objects \in Nat /\ Objects > 0 /\ MaxTroubles \in Nat /\ Settle \in Nat
    /\ Window \in Nat /\ Interval \in Nat /\ MaxTime \in Nat /\ MaxFailures \in Nat
    /\ Window < Settle /\ Settle < MaxTime
    /\ Absent \notin Time /\ Absent \notin HoldStatus
BY RecoveryAssumption, AbsentAssumption DEF RecoveryAssumption, AbsentAssumption

LEMMA LeastExists ==
    ASSUME NEW S \in SUBSET Nat, S # {}
    PROVE  \E n \in S : \A m \in S : n <= m
<1> DEFINE Less == {ss \in Nat \X Nat : ss[1] < ss[2]}
<1>1. IsWellFoundedOn(Less, Nat)
  BY NatLessThanWellFounded DEF OpToRel
<1> HIDE DEF Less
<1>2. PICK n \in S : \A m \in S : <<m, n>> \notin Less
  BY <1>1, WFMin
<1>3. ASSUME NEW m \in S PROVE n <= m
  <2>1. m \in Nat /\ n \in Nat /\ <<m, n>> \in Nat \X Nat
    BY <1>2
  <2>2. ~(<<m, n>>[1] < <<m, n>>[2])
    BY <1>2, <2>1, Zenon DEF Less
  <2> QED BY <2>1, <2>2
<1> QED BY <1>2, <1>3

\* The next item of a listing is its least.
LEMMA MinIs ==
    ASSUME NEW S \in SUBSET Nat, S # {}
    PROVE  Min(S) \in S /\ \A m \in S : Min(S) <= m
<1>1. \E n \in S : \A m \in S : n <= m
  BY LeastExists
<1> QED BY <1>1 DEF Min

\* What is left of the budget can be counted.
LEMMA BudgetIs ==
    ASSUME RecoveryTypeOK
    PROVE  /\ Cardinality(Applied) \in Nat
           /\ Mishap \/ UNCHANGED mishaps => mishaps' \in 0 .. MaxTroubles
<1>1. IsFiniteSet(HoldOp)
  BY RecoveryConstants, FS_Interval DEF HoldOp
<1>2. Applied \subseteq HoldOp
  BY DEF Applied
<1>3. Cardinality(Applied) \in Nat
  BY <1>1, <1>2, FS_Subset, FS_CardinalityType
<1> QED BY <1>3, RecoveryConstants DEF RecoveryTypeOK, Mishap, Trouble

\* A change has a time, a number and a version.
LEMMA ChangeIs ==
    ASSUME RecoveryTypeOK, NEW c \in Changes
    PROVE  /\ c.at \in Nat /\ c.object \in Object
           /\ c.id \in 1 .. MaxTroubles + Objects
<1>1. \A k \in HoldOp : hold[k].at \in Nat /\ hold[k].object \in Object
  BY RecoveryConstants DEF RecoveryTypeOK, HoldChanges
<1>2. \A o \in Object : promotion[o].at \in Nat
  BY RecoveryConstants DEF RecoveryTypeOK, Publications, Time
<1>3. CASE \E k \in HoldOp : c = [at |-> hold[k].at, id |-> k, object |-> hold[k].object]
  BY <1>1, <1>3, RecoveryConstants DEF HoldOp
<1>4. CASE \E o \in Object : c = [at |-> promotion[o].at, id |-> MaxTroubles + o, object |-> o]
  BY <1>2, <1>4, RecoveryConstants DEF Object
<1> QED BY <1>3, <1>4 DEF Changes

\* The two parts of a key can be told apart.
LEMMA PartsOfKey ==
    ASSUME NEW a \in Nat, NEW b \in Nat, NEW n \in Nat,
           NEW i \in Nat, NEW j \in Nat, 0 < i, i < n, 0 < j, j < n,
           a * n + i = b * n + j
    PROVE  a = b /\ i = j
<1>1. ASSUME NEW x \in Nat, NEW y \in Nat, x < y PROVE x * n + n <= y * n
  <2>1. PICK d \in Nat : y = x + 1 + d
    <3>1. y - x - 1 \in Nat /\ y = x + 1 + (y - x - 1)
      BY <1>1
    <3> QED BY <3>1
  <2>2. y * n = x * n + n + d * n /\ d * n >= 0
    BY <2>1
  <2> QED BY <2>2
<1>2. a * n \in Nat /\ b * n \in Nat
  OBVIOUS
<1>3. ~(a < b) /\ ~(b < a)
  BY <1>1, <1>2
<1> QED BY <1>2, <1>3

LEMMA KeysDiffer ==
    ASSUME RecoveryTypeOK, NEW c \in Changes, NEW d \in Changes
    PROVE  /\ SortKey(c) \in Nat /\ SortKey(c) > 0
           /\ SortKey(c) = SortKey(d) => c = d
<1> DEFINE n == MaxTroubles + Objects + 1
<1>1. /\ n \in Nat /\ c.at \in Nat /\ d.at \in Nat
      /\ c.id \in Nat /\ 0 < c.id /\ c.id < n
      /\ d.id \in Nat /\ 0 < d.id /\ d.id < n
  BY ChangeIs, RecoveryConstants
<1>2. SortKey(c) = c.at * n + c.id /\ SortKey(d) = d.at * n + d.id
  BY DEF SortKey
<1> HIDE DEF n
<1>3. SortKey(c) \in Nat /\ SortKey(c) > 0
  <2>1. c.at * n \in Nat
    BY <1>1
  <2> QED BY <1>1, <1>2, <2>1
<1>4. ASSUME SortKey(c) = SortKey(d) PROVE c = d
  <2>1. c.at = d.at /\ c.id = d.id
    <3>1. c.at * n + c.id = d.at * n + d.id
      BY <1>2, <1>4
    <3>2. /\ c.at \in Nat /\ d.at \in Nat /\ n \in Nat /\ c.id \in Nat /\ d.id \in Nat
          /\ 0 < c.id /\ c.id < n /\ 0 < d.id /\ d.id < n
      BY <1>1
    <3> QED BY <3>1, <3>2, PartsOfKey
  <2>2. CASE c.id \in HoldOp
    BY <2>1, <2>2, RecoveryConstants DEF Changes, HoldOp, Object
  <2>3. CASE c.id \notin HoldOp
    BY <2>1, <2>3, RecoveryConstants DEF Changes, HoldOp, Object
  <2> QED BY <2>2, <2>3
<1> QED BY <1>3, <1>4

-----------------------------------------------------------------------------
(* What a step leaves of the past.                                          *)

\* What was stored, published and copied by an earlier time is not undone, and
\* what the settled part of the ledger shows does not change.
Kept ==
    /\ now' \in Int /\ now <= now'
    /\ \A time \in Int : time < now =>
          /\ \A o \in Object :
                /\ StoredBy(o, time)' <=> StoredBy(o, time)
                /\ Out(promotion[o], time)' => Out(promotion[o], time)
                /\ Fine(o, time) => Fine(o, time)'
          /\ time + Settle <= now =>
                \A c : (c \in Changes /\ c.at <= time)' <=> (c \in Changes /\ c.at <= time)

\* A change is in the ledger by a time before and after, or neither.
Shown(publication, time) == publication.state = "visible" /\ publication.at <= time
LEMMA ChangesKept ==
    ASSUME NEW time,
           \A k \in HoldOp :
              /\ Shown(hold[k], time)' <=> Shown(hold[k], time)
              /\ Shown(hold[k], time) =>
                    hold'[k].at = hold[k].at /\ hold'[k].object = hold[k].object,
           \A o \in Object :
              /\ Shown(promotion[o], time)' <=> Shown(promotion[o], time)
              /\ Shown(promotion[o], time) => promotion'[o].at = promotion[o].at
    PROVE  \A c : (c \in Changes /\ c.at <= time)' <=> (c \in Changes /\ c.at <= time)
<1>1. ASSUME NEW c, c \in Changes, c.at <= time PROVE (c \in Changes)'
  <2>1. CASE \E k \in HoldOp : /\ hold[k].state = "visible"
                               /\ c = [at |-> hold[k].at, id |-> k, object |-> hold[k].object]
    BY <1>1, <2>1 DEF Changes, Shown
  <2>2. CASE \E o \in Object : /\ promotion[o].state = "visible"
                               /\ c = [at |-> promotion[o].at, id |-> MaxTroubles + o, object |-> o]
    BY <1>1, <2>2 DEF Changes, Shown
  <2> QED BY <1>1, <2>1, <2>2 DEF Changes
<1>2. ASSUME NEW c, (c \in Changes)', c.at <= time PROVE c \in Changes
  <2>1. CASE \E k \in HoldOp : /\ hold'[k].state = "visible"
                               /\ c = [at |-> hold'[k].at, id |-> k, object |-> hold'[k].object]
    BY <1>2, <2>1 DEF Changes, Shown
  <2>2. CASE \E o \in Object : /\ promotion'[o].state = "visible"
                               /\ c = [at |-> promotion'[o].at, id |-> MaxTroubles + o, object |-> o]
    BY <1>2, <2>2 DEF Changes, Shown
  <2> QED BY <1>2, <2>1, <2>2 DEF Changes
<1> QED BY <1>1, <1>2

\* Storing and copying: the hold of a version stays, a copy takes it over.
LEMMA VersionsStep ==
    ASSUME RecoveryTypeOK, PublicationsOK, UNCHANGED <<now, hold>>,
           object' \in [Object -> Versions], promotion' \in [Object -> Publications],
           \A o \in Object :
              /\ object'[o].hold = object[o].hold
              /\ object'[o].replica \in {object[o].replica, object[o].hold}
              /\ object'[o].replication = "COMPLETED" => object'[o].replica = object[o].hold
              /\ \/ object'[o].stored = object[o].stored
                 \/ object[o].stored = Absent /\ object'[o].stored = now
              /\ \/ promotion'[o] = promotion[o]
                 \/ /\ promotion[o].state = "none" /\ promotion'[o].state = "waiting"
                    /\ object'[o].stored # Absent
    PROVE  PublicationsOK' /\ Kept
<1>1. /\ now \in Int /\ now \in Time /\ now # Absent
      /\ \A o \in Object : /\ object[o].stored \in Time \cup {Absent}
                           /\ object[o].hold \in HoldStatus /\ object[o].hold # Absent
  BY RecoveryConstants DEF RecoveryTypeOK, Versions, Time
<1>2. \A k \in HoldOp, o \in Object : LatestOp(k, o)' <=> LatestOp(k, o)
  BY DEF LatestOp, Applied
<1>3. PublicationsOK'
  <2>1. ASSUME NEW o \in Object
        PROVE  /\ object'[o].stored # Absent => object'[o].stored <= now'
               /\ object'[o].replication = "COMPLETED" => object'[o].replica = object'[o].hold
               /\ promotion'[o].state # "none" => object'[o].stored # Absent
               /\ promotion'[o].state \in {"flying", "visible"}
                     => object'[o].stored <= promotion'[o].at
               /\ promotion'[o].state = "flying" => now' <= promotion'[o].at + Window
    BY <1>1 DEF PublicationsOK
  <2>2. ASSUME NEW k \in HoldOp
        PROVE  /\ hold'[k].state = "flying" => now' <= hold'[k].at + Window
               /\ hold'[k].at <= MaxTime + k
               /\ hold'[k].state # "none" => \A j \in HoldOp : j < k => hold'[j].state # "none"
               /\ \A o \in Object : LatestOp(k, o)' => object'[o].hold = hold'[k].status
    BY <1>2 DEF PublicationsOK
  <2> QED BY <2>1, <2>2 DEF PublicationsOK
<1>4. ASSUME NEW time \in Int, time < now, NEW o \in Object
      PROVE  /\ StoredBy(o, time)' <=> StoredBy(o, time)
             /\ Out(promotion[o], time)' => Out(promotion[o], time)
             /\ Fine(o, time) => Fine(o, time)'
  <2>1. StoredBy(o, time)' <=> StoredBy(o, time)
    BY <1>1, <1>4 DEF StoredBy
  <2>2. Out(promotion[o], time)' => Out(promotion[o], time)
    BY <1>4 DEF Out
  <2>3. ASSUME Fine(o, time) PROVE Fine(o, time)'
    <3>1. object'[o].replica # Absent
      BY <1>1, <2>3 DEF Fine
    <3>2. ASSUME NEW k \in HoldOp, LatestOp(k, o)', Out(hold[k], time)'
          PROVE  object'[o].replica = hold'[k].status
      <4>1. LatestOp(k, o) /\ Out(hold[k], time)
        BY <1>2, <3>2 DEF Out
      <4>2. object[o].replica = hold[k].status /\ object[o].hold = hold[k].status
        BY <2>3, <4>1 DEF Fine, PublicationsOK
      <4> QED BY <4>2
    <3> QED BY <3>1, <3>2 DEF Fine
  <2> QED BY <2>1, <2>2, <2>3
<1>5. ASSUME NEW time
      PROVE  \A c : (c \in Changes /\ c.at <= time)' <=> (c \in Changes /\ c.at <= time)
  BY ChangesKept DEF Shown
<1> QED BY <1>1, <1>3, <1>4, <1>5 DEF Kept

\* A publication is attempted, becomes visible within its window or is lost.
Moves(old, new) ==
    \/ new = old
    \/ old.state = "flying" /\ new.state = "waiting"
    \/ old.state = "waiting" /\ new.state = "flying" /\ new.at >= now
    \/ old.state = "flying" /\ new.state = "visible" /\ new.at = old.at
LEMMA MovesKeep ==
    ASSUME NEW old, NEW new, Moves(old, new), NEW time \in Int, now \in Int, time < now,
           old.at \in Int, new.at \in Int, old.state = "flying" => now <= old.at + Window
    PROVE  /\ Out(new, time) => Out(old, time)
           /\ time + Settle <= now =>
                /\ Shown(new, time) <=> Shown(old, time)
                /\ Shown(old, time) => new = old
BY RecoveryConstants DEF Moves, Out, Shown

LEMMA PromotionsStep ==
    ASSUME RecoveryTypeOK, PublicationsOK, UNCHANGED <<now, object, hold>>,
           promotion' \in [Object -> Publications],
           \A o \in Object : Moves(promotion[o], promotion'[o])
    PROVE  PublicationsOK' /\ Kept
<1>1. now \in Int /\ now' = now
  BY RecoveryConstants DEF RecoveryTypeOK
<1>2. \A o \in Object : /\ promotion[o].at \in Int /\ promotion'[o].at \in Int
                        /\ object[o].stored \in Time \cup {Absent}
  BY RecoveryConstants DEF RecoveryTypeOK, Publications, Versions, Time
<1>3. \A k \in HoldOp, o \in Object : LatestOp(k, o)' <=> LatestOp(k, o)
  BY DEF LatestOp, Applied
<1>4. PublicationsOK'
  <2>1. ASSUME NEW o \in Object
        PROVE  /\ object'[o].stored # Absent => object'[o].stored <= now'
               /\ object'[o].replication = "COMPLETED" => object'[o].replica = object'[o].hold
               /\ promotion'[o].state # "none" => object'[o].stored # Absent
               /\ promotion'[o].state \in {"flying", "visible"}
                     => object'[o].stored <= promotion'[o].at
               /\ promotion'[o].state = "flying" => now' <= promotion'[o].at + Window
    <3>1. Moves(promotion[o], promotion'[o])
      OBVIOUS
    <3> QED BY <1>1, <1>2, <3>1, RecoveryConstants DEF PublicationsOK, Moves, Time
  <2>2. ASSUME NEW k \in HoldOp
        PROVE  /\ hold'[k].state = "flying" => now' <= hold'[k].at + Window
               /\ hold'[k].at <= MaxTime + k
               /\ hold'[k].state # "none" => \A j \in HoldOp : j < k => hold'[j].state # "none"
               /\ \A o \in Object : LatestOp(k, o)' => object'[o].hold = hold'[k].status
    BY <1>3 DEF PublicationsOK
  <2> QED BY <2>1, <2>2 DEF PublicationsOK
<1>5. ASSUME NEW time \in Int, time < now, NEW o \in Object
      PROVE  /\ Out(promotion[o], time)' => Out(promotion[o], time)
             /\ time + Settle <= now =>
                  /\ Shown(promotion[o], time)' <=> Shown(promotion[o], time)
                  /\ Shown(promotion[o], time) => promotion'[o] = promotion[o]
  <2>1. promotion[o].state = "flying" => now <= promotion[o].at + Window
    BY DEF PublicationsOK
  <2>2. /\ Out(promotion'[o], time) => Out(promotion[o], time)
        /\ time + Settle <= now =>
              /\ Shown(promotion'[o], time) <=> Shown(promotion[o], time)
              /\ Shown(promotion[o], time) => promotion'[o] = promotion[o]
    BY <1>1, <1>2, <1>5, <2>1, MovesKeep
  <2> QED BY <2>2 DEF Out, Shown
<1>6. ASSUME NEW time \in Int, time < now, NEW o \in Object
      PROVE  /\ StoredBy(o, time)' <=> StoredBy(o, time)
             /\ Fine(o, time) => Fine(o, time)'
  <2>1. StoredBy(o, time)' <=> StoredBy(o, time)
    BY DEF StoredBy
  <2>2. Fine(o, time) => Fine(o, time)'
    BY <1>3 DEF Fine, Out
  <2> QED BY <2>1, <2>2
<1>7. ASSUME NEW time \in Int, time < now, time + Settle <= now
      PROVE  \A c : (c \in Changes /\ c.at <= time)' <=> (c \in Changes /\ c.at <= time)
  <2>1. \A k \in HoldOp : /\ Shown(hold[k], time)' <=> Shown(hold[k], time)
                          /\ hold'[k].at = hold[k].at /\ hold'[k].object = hold[k].object
    BY DEF Shown
  <2>2. \A o \in Object : /\ Shown(promotion[o], time)' <=> Shown(promotion[o], time)
                          /\ Shown(promotion[o], time) => promotion'[o].at = promotion[o].at
    BY <1>5, <1>7
  <2> QED BY <2>1, <2>2, ChangesKept
<1> QED BY <1>1, <1>4, <1>5, <1>6, <1>7 DEF Kept

\* Holds: a publication moves on, for the same change of the same version.
LEMMA HoldsStep ==
    ASSUME RecoveryTypeOK, PublicationsOK, UNCHANGED <<now, object, promotion>>,
           hold' \in [HoldOp -> HoldChanges],
           \A k \in HoldOp : /\ Moves(hold[k], hold'[k])
                             /\ hold'[k].object = hold[k].object
                             /\ hold'[k].status = hold[k].status
                             /\ hold'[k].at <= MaxTime + k
    PROVE  PublicationsOK' /\ Kept
<1>1. now \in Int /\ now' = now
  BY RecoveryConstants DEF RecoveryTypeOK
<1>2. \A k \in HoldOp : hold[k].at \in Int /\ hold'[k].at \in Int
  BY RecoveryConstants DEF RecoveryTypeOK, HoldChanges
<1>3. \A k \in HoldOp : hold'[k].state # "none" <=> hold[k].state # "none"
  BY DEF Moves
<1>4. Applied' = Applied
  BY <1>3 DEF Applied
<1>5. \A k \in HoldOp, o \in Object : LatestOp(k, o)' <=> LatestOp(k, o)
  <2>1. \A k \in Applied : hold'[k].object = hold[k].object
    BY DEF Applied
  <2> QED BY <1>4, <2>1 DEF LatestOp
<1>6. PublicationsOK'
  <2>1. ASSUME NEW o \in Object
        PROVE  /\ object'[o].stored # Absent => object'[o].stored <= now'
               /\ object'[o].replication = "COMPLETED" => object'[o].replica = object'[o].hold
               /\ promotion'[o].state # "none" => object'[o].stored # Absent
               /\ promotion'[o].state \in {"flying", "visible"}
                     => object'[o].stored <= promotion'[o].at
               /\ promotion'[o].state = "flying" => now' <= promotion'[o].at + Window
    BY DEF PublicationsOK
  <2>2. ASSUME NEW k \in HoldOp
        PROVE  /\ hold'[k].state = "flying" => now' <= hold'[k].at + Window
               /\ hold'[k].at <= MaxTime + k
               /\ hold'[k].state # "none" => \A j \in HoldOp : j < k => hold'[j].state # "none"
               /\ \A o \in Object : LatestOp(k, o)' => object'[o].hold = hold'[k].status
    <3>1. hold'[k].state = "flying" => now' <= hold'[k].at + Window
      <4>1. Moves(hold[k], hold'[k])
        OBVIOUS
      <4> QED BY <1>1, <1>2, <4>1, RecoveryConstants DEF PublicationsOK, Moves
    <3>2. hold'[k].state # "none" => \A j \in HoldOp : j < k => hold'[j].state # "none"
      BY <1>3 DEF PublicationsOK
    <3>3. \A o \in Object : LatestOp(k, o)' => object'[o].hold = hold'[k].status
      BY <1>5 DEF PublicationsOK
    <3> QED BY <3>1, <3>2, <3>3
  <2> QED BY <2>1, <2>2 DEF PublicationsOK
<1>7. ASSUME NEW time \in Int, time < now, NEW k \in HoldOp
      PROVE  /\ Out(hold[k], time)' => Out(hold[k], time)
             /\ time + Settle <= now =>
                  /\ Shown(hold[k], time)' <=> Shown(hold[k], time)
                  /\ Shown(hold[k], time) => hold'[k] = hold[k]
  <2>1. hold[k].state = "flying" => now <= hold[k].at + Window
    BY DEF PublicationsOK
  <2>2. /\ Out(hold'[k], time) => Out(hold[k], time)
        /\ time + Settle <= now =>
              /\ Shown(hold'[k], time) <=> Shown(hold[k], time)
              /\ Shown(hold[k], time) => hold'[k] = hold[k]
    BY <1>1, <1>2, <1>7, <2>1, MovesKeep
  <2> QED BY <2>2 DEF Out, Shown
<1>8. ASSUME NEW time \in Int, time < now, NEW o \in Object
      PROVE  /\ StoredBy(o, time)' <=> StoredBy(o, time)
             /\ Out(promotion[o], time)' => Out(promotion[o], time)
             /\ Fine(o, time) => Fine(o, time)'
  <2>1. StoredBy(o, time)' <=> StoredBy(o, time)
    BY DEF StoredBy
  <2>2. Out(promotion[o], time)' => Out(promotion[o], time)
    BY DEF Out
  <2>3. Fine(o, time) => Fine(o, time)'
    <3>1. \A k \in HoldOp : LatestOp(k, o)' /\ Out(hold[k], time)'
                               => LatestOp(k, o) /\ Out(hold[k], time)
      BY <1>5, <1>7, <1>8
    <3> QED BY <3>1 DEF Fine
  <2> QED BY <2>1, <2>2, <2>3
<1>9. ASSUME NEW time \in Int, time < now, time + Settle <= now
      PROVE  \A c : (c \in Changes /\ c.at <= time)' <=> (c \in Changes /\ c.at <= time)
  <2>1. \A o \in Object : /\ Shown(promotion[o], time)' <=> Shown(promotion[o], time)
                          /\ promotion'[o].at = promotion[o].at
    BY DEF Shown
  <2>2. \A k \in HoldOp : /\ Shown(hold[k], time)' <=> Shown(hold[k], time)
                          /\ Shown(hold[k], time) =>
                                hold'[k].at = hold[k].at /\ hold'[k].object = hold[k].object
    BY <1>7, <1>9
  <2> QED BY <2>1, <2>2, ChangesKept
<1> QED BY <1>1, <1>6, <1>8, <1>9 DEF Kept

\* A new hold change is the latest of its version and not published yet.
LEMMA ApplyHoldStep ==
    ASSUME RecoveryTypeOK, PublicationsOK, NEW k \in HoldOp, NEW o \in Object, ApplyHold(k, o)
    PROVE  /\ object' \in [Object -> Versions] /\ hold' \in [HoldOp -> HoldChanges]
           /\ PublicationsOK' /\ Kept
<1>1. /\ hold[k].state = "none" /\ \A j \in 1 .. k - 1 : hold[j].state # "none"
      /\ UNCHANGED <<now, promotion, current, backfill, batch, run, events, budget>>
      /\ now \in Int
  BY RecoveryConstants DEF ApplyHold, RecoveryTypeOK
<1>2. PICK status \in HoldStatus :
        /\ object' = [object EXCEPT ![o].hold = status,
                 ![o].replication = IF @ = "COMPLETED" THEN "PENDING" ELSE @]
        /\ hold' = [hold EXCEPT ![k].object = o, ![k].status = status, ![k].state = "waiting"]
  BY DEF ApplyHold, HoldStatus
<1>3. PICK v \in Versions :
        /\ object' = [object EXCEPT ![o] = v]
        /\ v.hold = status /\ v.replication # "COMPLETED"
        /\ v.stored = object[o].stored /\ v.replica = object[o].replica
  <2>1. PICK v : /\ v = [object[o] EXCEPT !.hold = status,
                        !.replication = IF @ = "COMPLETED" THEN "PENDING" ELSE @]
                 /\ object' = [object EXCEPT ![o] = v]
    BY <1>2
  <2>2. PICK w \in Versions : w = object[o]
    BY DEF RecoveryTypeOK
  <2>3. v = [w EXCEPT !.hold = status,
                      !.replication = IF @ = "COMPLETED" THEN "PENDING" ELSE @]
    BY <2>1, <2>2
  <2>4. v \in Versions /\ v.hold = status /\ v.replication # "COMPLETED"
        /\ v.stored = w.stored /\ v.replica = w.replica
    BY <2>3 DEF Versions
  <2> QED BY <2>1, <2>2, <2>4
<1>4. PICK h \in HoldChanges :
        /\ hold' = [hold EXCEPT ![k] = h]
        /\ h.object = o /\ h.status = status /\ h.state = "waiting" /\ h.at = hold[k].at
  <2>1. PICK h : /\ h = [hold[k] EXCEPT !.object = o, !.status = status, !.state = "waiting"]
                 /\ hold' = [hold EXCEPT ![k] = h]
    BY <1>2
  <2>2. PICK w \in HoldChanges : w = hold[k]
    BY DEF RecoveryTypeOK
  <2>3. h = [w EXCEPT !.object = o, !.status = status, !.state = "waiting"]
    BY <2>1, <2>2
  <2>4. h \in HoldChanges /\ h.object = o /\ h.status = status /\ h.state = "waiting"
        /\ h.at = w.at
    BY <2>3 DEF HoldChanges, States
  <2> QED BY <2>1, <2>2, <2>4
<1>5. object' \in [Object -> Versions] /\ hold' \in [HoldOp -> HoldChanges]
  BY <1>3, <1>4 DEF RecoveryTypeOK
<1>6. /\ object'[o] = v /\ hold'[k] = h
      /\ \A p \in Object \ {o} : object'[p] = object[p]
      /\ \A j \in HoldOp \ {k} : hold'[j] = hold[j]
  BY <1>3, <1>4 DEF RecoveryTypeOK
<1>7. /\ \A j \in Applied : j < k
      /\ Applied' = Applied \cup {k}
  <2>1. \A j \in HoldOp : j < k => j \in 1 .. k - 1
    BY DEF HoldOp
  <2>2. ASSUME NEW j \in Applied PROVE j < k
    BY <1>1, <2>2, RecoveryConstants DEF Applied, PublicationsOK, HoldOp
  <2>3. Applied' = Applied \cup {k}
    BY <1>4, <1>6 DEF Applied
  <2> QED BY <2>2, <2>3
<1>8. /\ LatestOp(k, o)'
      /\ \A j \in HoldOp : LatestOp(j, o)' => j = k
      /\ \A j \in HoldOp, p \in Object \ {o} : LatestOp(j, p)' => j # k /\ LatestOp(j, p)
  <2>1. \A j \in Applied : j # k /\ j \in HoldOp /\ hold'[j] = hold[j] /\ j <= k /\ ~(k <= j)
    BY <1>6, <1>7 DEF Applied, HoldOp
  <2>2. LatestOp(k, o)'
    BY <1>4, <1>6, <1>7, <2>1 DEF LatestOp, HoldOp
  <2>3. ASSUME NEW j \in HoldOp, LatestOp(j, o)' PROVE j = k
    BY <1>4, <1>6, <1>7, <2>1, <2>3 DEF LatestOp
  <2>4. ASSUME NEW j \in HoldOp, NEW p \in Object \ {o}, LatestOp(j, p)'
        PROVE  j # k /\ LatestOp(j, p)
    BY <1>4, <1>6, <1>7, <2>1, <2>4 DEF LatestOp
  <2> QED BY <2>2, <2>3, <2>4
<1>9. PublicationsOK'
  <2>1. ASSUME NEW p \in Object
        PROVE  /\ object'[p].stored # Absent => object'[p].stored <= now'
               /\ object'[p].replication = "COMPLETED" => object'[p].replica = object'[p].hold
               /\ promotion'[p].state # "none" => object'[p].stored # Absent
               /\ promotion'[p].state \in {"flying", "visible"}
                     => object'[p].stored <= promotion'[p].at
               /\ promotion'[p].state = "flying" => now' <= promotion'[p].at + Window
    BY <1>1, <1>3, <1>6 DEF PublicationsOK
  <2>2. ASSUME NEW j \in HoldOp
        PROVE  /\ hold'[j].state = "flying" => now' <= hold'[j].at + Window
               /\ hold'[j].at <= MaxTime + j
               /\ hold'[j].state # "none" => \A i \in HoldOp : i < j => hold'[i].state # "none"
               /\ \A p \in Object : LatestOp(j, p)' => object'[p].hold = hold'[j].status
    <3>1. hold'[j].state = "flying" => now' <= hold'[j].at + Window
      BY <1>1, <1>4, <1>6 DEF PublicationsOK
    <3>2. hold'[j].at <= MaxTime + j
      BY <1>4, <1>6 DEF PublicationsOK
    <3>3. ASSUME hold'[j].state # "none", NEW i \in HoldOp, i < j PROVE hold'[i].state # "none"
      <4>1. CASE j = k
        BY <1>1, <1>4, <1>6, <3>3, <4>1 DEF HoldOp
      <4>2. CASE j # k
        BY <1>4, <1>6, <3>3, <4>2 DEF PublicationsOK
      <4> QED BY <4>1, <4>2
    <3>4. ASSUME NEW p \in Object, LatestOp(j, p)' PROVE object'[p].hold = hold'[j].status
      <4>1. CASE p = o
        BY <1>3, <1>4, <1>6, <1>8, <3>4, <4>1
      <4>2. CASE p # o
        BY <1>6, <1>8, <3>4, <4>2 DEF PublicationsOK
      <4> QED BY <4>1, <4>2
    <3> QED BY <3>1, <3>2, <3>3, <3>4
  <2> QED BY <2>1, <2>2 DEF PublicationsOK
<1>10. ASSUME NEW time \in Int, time < now, NEW p \in Object
      PROVE  /\ StoredBy(p, time)' <=> StoredBy(p, time)
             /\ Out(promotion[p], time)' => Out(promotion[p], time)
             /\ Fine(p, time) => Fine(p, time)'
  <2>1. StoredBy(p, time)' <=> StoredBy(p, time)
    BY <1>3, <1>6 DEF StoredBy
  <2>2. Out(promotion[p], time)' => Out(promotion[p], time)
    BY <1>1 DEF Out
  <2>3. ASSUME Fine(p, time) PROVE Fine(p, time)'
    <3>1. object'[p].replica = object[p].replica
      BY <1>3, <1>6
    <3>2. ASSUME NEW j \in HoldOp, LatestOp(j, p)', Out(hold[j], time)'
          PROVE  object'[p].replica = hold'[j].status
      <4>1. CASE p = o
        BY <1>4, <1>6, <1>8, <3>2, <4>1 DEF Out
      <4>2. CASE p # o
        BY <1>6, <1>8, <2>3, <3>1, <3>2, <4>2 DEF Fine, Out
      <4> QED BY <4>1, <4>2
    <3> QED BY <2>3, <3>1, <3>2 DEF Fine
  <2> QED BY <2>1, <2>2, <2>3
<1>11. ASSUME NEW time
      PROVE  \A c : (c \in Changes /\ c.at <= time)' <=> (c \in Changes /\ c.at <= time)
  <2>1. \A j \in HoldOp : /\ Shown(hold[j], time)' <=> Shown(hold[j], time)
                          /\ Shown(hold[j], time) => hold'[j] = hold[j]
    BY <1>1, <1>4, <1>6 DEF Shown
  <2>2. \A p \in Object : /\ Shown(promotion[p], time)' <=> Shown(promotion[p], time)
                          /\ promotion'[p].at = promotion[p].at
    BY <1>1 DEF Shown
  <2> QED BY <2>1, <2>2, ChangesKept
<1> QED BY <1>1, <1>5, <1>9, <1>10, <1>11 DEF Kept

\* Steps that leave the versions and their publications alone.
LEMMA StillStep ==
    ASSUME RecoveryTypeOK, PublicationsOK, UNCHANGED <<now, storage>>
    PROVE  PublicationsOK' /\ Kept
<1>1. now \in Int /\ now' = now
  BY RecoveryConstants DEF RecoveryTypeOK
<1>2. PublicationsOK'
  BY DEF PublicationsOK, storage, LatestOp, Applied
<1>3. \A time \in Int, o \in Object : /\ StoredBy(o, time)' <=> StoredBy(o, time)
                                      /\ Out(promotion[o], time)' => Out(promotion[o], time)
                                      /\ Fine(o, time) => Fine(o, time)'
  BY DEF storage, StoredBy, Out, Fine, LatestOp, Applied
<1>4. \A time, c : (c \in Changes /\ c.at <= time)' <=> (c \in Changes /\ c.at <= time)
  BY DEF storage, Changes
<1> QED BY <1>1, <1>2, <1>3, <1>4 DEF Kept

\* Time passes no publication by that is still under way.
LEMMA TickStep ==
    ASSUME RecoveryTypeOK, PublicationsOK, Tick
    PROVE  now' \in Settle .. MaxTime /\ PublicationsOK' /\ Kept
<1>1. /\ now \in Int /\ now' = now + 1 /\ now' \in Settle .. MaxTime
      /\ UNCHANGED storage
      /\ \A o \in Object : promotion[o].state = "flying" => now < promotion[o].at + Window
      /\ \A k \in HoldOp : hold[k].state = "flying" => now < hold[k].at + Window
  BY RecoveryConstants DEF RecoveryTypeOK, Tick
<1>2. /\ \A o \in Object : promotion[o].at \in Int /\ object[o].stored \in Time \cup {Absent}
      /\ \A k \in HoldOp : hold[k].at \in Int
  BY RecoveryConstants DEF RecoveryTypeOK, Publications, HoldChanges, Versions, Time
<1>3. PublicationsOK'
  <2>1. \A k \in HoldOp, o \in Object : LatestOp(k, o)' <=> LatestOp(k, o)
    BY <1>1 DEF LatestOp, Applied, storage
  <2>2. ASSUME NEW o \in Object
        PROVE  /\ object'[o].stored # Absent => object'[o].stored <= now'
               /\ object'[o].replication = "COMPLETED" => object'[o].replica = object'[o].hold
               /\ promotion'[o].state # "none" => object'[o].stored # Absent
               /\ promotion'[o].state \in {"flying", "visible"}
                     => object'[o].stored <= promotion'[o].at
               /\ promotion'[o].state = "flying" => now' <= promotion'[o].at + Window
    BY <1>1, <1>2, RecoveryConstants DEF PublicationsOK, storage, Time
  <2>3. ASSUME NEW k \in HoldOp
        PROVE  /\ hold'[k].state = "flying" => now' <= hold'[k].at + Window
               /\ hold'[k].at <= MaxTime + k
               /\ hold'[k].state # "none" => \A j \in HoldOp : j < k => hold'[j].state # "none"
               /\ \A o \in Object : LatestOp(k, o)' => object'[o].hold = hold'[k].status
    <3>1. hold'[k].state = "flying" => now' <= hold'[k].at + Window
      BY <1>1, <1>2, RecoveryConstants DEF storage
    <3> QED BY <1>1, <2>1, <3>1 DEF PublicationsOK, storage
  <2> QED BY <2>2, <2>3 DEF PublicationsOK
<1>4. \A time \in Int, o \in Object : /\ StoredBy(o, time)' <=> StoredBy(o, time)
                                      /\ Out(promotion[o], time)' => Out(promotion[o], time)
                                      /\ Fine(o, time) => Fine(o, time)'
  BY <1>1 DEF storage, StoredBy, Out, Fine, LatestOp, Applied
<1>5. \A time, c : (c \in Changes /\ c.at <= time)' <=> (c \in Changes /\ c.at <= time)
  BY <1>1 DEF storage, Changes
<1> QED BY <1>1, <1>3, <1>4, <1>5 DEF Kept

-----------------------------------------------------------------------------
(* What the reconciler relies on survives the steps of the others.          *)

LEMMA BackfillIs ==
    ASSUME RecoveryTypeOK, NEW g \in Backfills
    PROVE  /\ now \in Int /\ g.cutoff \in Int
           /\ g.through # Absent => g.through \in Int /\ g.through \in Time
           /\ g.repair # Absent => g.repair \in Int
           /\ g.cursor \in Nat
           /\ g # Absent
BY RecoveryConstants, AbsentAssumption DEF AbsentAssumption, RecoveryTypeOK, Backfills, Time

LEMMA BackfillKept ==
    ASSUME RecoveryTypeOK, Kept, NEW g \in Backfills, BackfillOK(g)
    PROVE  BackfillOK(g)'
<1>1. /\ now \in Int /\ now' \in Int /\ now <= now' /\ g.cutoff \in Int /\ g.cutoff < now
      /\ g.through # Absent => g.through \in Int /\ g.through < now
  BY BackfillIs DEF BackfillOK, Kept
<1>2. ASSUME NEW time \in Int, time < now, AllFine(time) PROVE AllFine(time)'
  BY <1>2 DEF Kept, AllFine
<1>3. /\ (g.cutoff < now)'
      /\ g.repair # Absent => g.cutoff <= g.repair
      /\ g.verified => g.through = g.cutoff
  BY <1>1 DEF BackfillOK
<1>4. g.through # Absent => g.through <= g.cutoff /\ AllFine(g.through)'
  BY <1>1, <1>2 DEF BackfillOK
<1>5. ASSUME g.phase = "SOURCE", NEW o \in Object, StoredBy(o, g.cutoff)', o <= g.cursor
      PROVE  Fine(o, g.cutoff)'
  <2>1. StoredBy(o, g.cutoff)
    BY <1>1, <1>5 DEF Kept
  <2>2. Fine(o, g.cutoff)
    BY <1>5, <2>1 DEF BackfillOK
  <2> QED BY <1>1, <2>2 DEF Kept
<1>6. ASSUME g.phase = "CHANGES"
      PROVE  /\ g.through # Absent /\ g.after = g.through
             /\ g.cutoff + Settle <= now'
             /\ \A c \in ChangesIn(g)' : SortKey(c) <= g.cursor => Fine(c.object, g.cutoff)'
  <2>1. g.through # Absent /\ g.after = g.through /\ g.cutoff + Settle <= now
    BY <1>6 DEF BackfillOK
  <2>2. ASSUME NEW c \in ChangesIn(g)', SortKey(c) <= g.cursor PROVE Fine(c.object, g.cutoff)'
    <3>1. c \in ChangesIn(g)
      BY <1>1, <2>1, <2>2 DEF Kept, ChangesIn
    <3>2. Fine(c.object, g.cutoff) /\ c.object \in Object
      <4>1. c \in Changes
        BY <3>1 DEF ChangesIn
      <4> QED BY <1>6, <2>2, <3>1, <4>1, ChangeIs DEF BackfillOK
    <3> QED BY <1>1, <3>2 DEF Kept
  <2> QED BY <1>1, <2>1, <2>2, RecoveryConstants
<1>7. g.phase = "DESTINATION" => AllFine(g.cutoff)'
  BY <1>1, <1>2 DEF BackfillOK
<1> QED BY <1>3, <1>4, <1>5, <1>6, <1>7 DEF BackfillOK, SortKey

LEMMA RunKept ==
    ASSUME RecoveryTypeOK, Kept, NEW g \in Backfills \cup {Absent}, NEW r \in Runs,
           g # Absent => BackfillOK(g), RunOK(g, r)
    PROVE  RunOK(g, r)'
<1>1. CASE r.pc # "heads"
  BY <1>1 DEF RunOK
<1>2. CASE r.pc = "heads"
  <2>1. g \in Backfills /\ g # Absent
    BY <1>2 DEF RunOK
  <2>2. now \in Int /\ g.cutoff \in Int /\ g.cutoff < now
    BY <2>1, BackfillIs DEF BackfillOK
  <2>3. ASSUME g.phase = "SOURCE" PROVE SourcePageOK(g, r)'
    <3>1. SourcePageOK(g, r)
      BY <1>2, <2>3 DEF RunOK
    <3>2. \A o \in Object : /\ StoredBy(o, g.cutoff)' <=> StoredBy(o, g.cutoff)
                            /\ Fine(o, g.cutoff) => Fine(o, g.cutoff)'
      BY <2>2 DEF Kept
    <3> QED BY <3>1, <3>2 DEF SourcePageOK
  <2>4. ASSUME g.phase = "CHANGES" PROVE ChangePageOK(g, r)'
    <3>1. ChangePageOK(g, r) /\ g.cutoff + Settle <= now
      BY <1>2, <2>1, <2>4 DEF RunOK, BackfillOK
    <3>2. \A c : c \in ChangesIn(g)' <=> c \in ChangesIn(g)
      BY <2>2, <3>1 DEF Kept, ChangesIn
    <3>3. \A o \in Object : Fine(o, g.cutoff) => Fine(o, g.cutoff)'
      BY <2>2 DEF Kept
    <3>4. \A c \in ChangesIn(g) : c.object \in Object
      BY ChangeIs DEF ChangesIn
    <3> QED BY <3>1, <3>2, <3>3, <3>4 DEF ChangePageOK, SortKey
  <2>5. g.phase \in {"SOURCE", "CHANGES"}
    BY <1>2 DEF RunOK
  <2> QED BY <1>2, <2>1, <2>3, <2>4, <2>5 DEF RunOK
<1> QED BY <1>1, <1>2

-----------------------------------------------------------------------------
(* A step of the reconciler: what it leaves in its row and what it goes on  *)
(* with.                                                                    *)

LEMMA ReconcilerStep ==
    ASSUME RecoveryInv, UNCHANGED <<now, storage>>,
           NEW g \in Backfills \cup {Absent}, backfill' = g, g # Absent => BackfillOK(g),
           NEW r \in Runs, run' = r, RunOK(g, r),
           batch' \in [cutoff : Time \cup {Absent}, manifest : SUBSET Object,
                       status : {"New", "Active", "Complete", "Failed"}],
           events' \in Nat, failures' \in 0 .. MaxFailures,
           Mishap \/ UNCHANGED mishaps
    PROVE  RecoveryInv'
<1>1. RecoveryTypeOK /\ PublicationsOK
  BY DEF RecoveryInv
<1>2. PublicationsOK' /\ Kept
  BY <1>1, StillStep
<1>3. RecoveryTypeOK'
  BY <1>1, BudgetIs DEF RecoveryTypeOK, storage
<1>4. g # Absent => BackfillOK(g)'
  BY <1>1, <1>2, BackfillKept
<1>5. RunOK(g, r)'
  BY <1>1, <1>2, RunKept
<1>6. (backfill # Absent => BackfillOK(backfill))'
  BY <1>4 DEF BackfillOK, ChangesIn
<1>7. RunOK(backfill, run)'
  BY <1>5 DEF RunOK, SourcePageOK, ChangePageOK, ChangesIn
<1> QED BY <1>2, <1>3, <1>6, <1>7 DEF RecoveryInv

\* A step of the others leaves row and invocation as they are.
LEMMA OthersStep ==
    ASSUME RecoveryInv, RecoveryTypeOK', PublicationsOK', Kept, UNCHANGED <<backfill, run>>
    PROVE  RecoveryInv'
<1>1. PICK g \in Backfills \cup {Absent} : g = backfill
  BY DEF RecoveryInv, RecoveryTypeOK
<1>2. PICK r \in Runs : r = run
  BY DEF RecoveryInv, RecoveryTypeOK
<1>3. RecoveryTypeOK /\ (g # Absent => BackfillOK(g)) /\ RunOK(g, r)
  BY <1>1, <1>2 DEF RecoveryInv
<1>4. g # Absent => BackfillOK(g)'
  BY <1>3, BackfillKept
<1>5. RunOK(g, r)'
  BY <1>3, RunKept
<1>6. backfill' = g /\ run' = r
  BY <1>1, <1>2
<1>7. (backfill # Absent => BackfillOK(backfill))'
  BY <1>4, <1>6 DEF BackfillOK, ChangesIn
<1>8. RunOK(backfill, run)'
  BY <1>5, <1>6 DEF RunOK, SourcePageOK, ChangePageOK, ChangesIn
<1> QED BY <1>7, <1>8 DEF RecoveryInv

-----------------------------------------------------------------------------
(* Versions, holds and publications.                                        *)

LEMMA StoreStep ==
    ASSUME RecoveryInv, NEW o \in Object, Store(o)
    PROVE  RecoveryInv'
<1>1. /\ RecoveryTypeOK /\ PublicationsOK /\ object[o].stored = Absent
      /\ UNCHANGED <<now, hold, current, backfill, batch, run, events, budget>>
      /\ now \in Time /\ now # Absent
  BY RecoveryConstants DEF RecoveryInv, RecoveryTypeOK, Store, Time
<1>2. PICK v \in Versions : /\ object' = [object EXCEPT ![o] = v]
                            /\ v.stored = now /\ v.hold = object[o].hold
                            /\ v.replica = object[o].replica /\ v.replication = "PENDING"
  <2>1. PICK v : /\ v = [object[o] EXCEPT !.stored = now, !.replication = "PENDING"]
                 /\ object' = [object EXCEPT ![o] = v]
    BY DEF Store
  <2>2. PICK w \in Versions : w = object[o]
    BY <1>1 DEF RecoveryTypeOK
  <2>3. v = [w EXCEPT !.stored = now, !.replication = "PENDING"]
    BY <2>1, <2>2
  <2>4. v \in Versions /\ v.stored = now /\ v.hold = w.hold
        /\ v.replica = w.replica /\ v.replication = "PENDING"
    BY <1>1, <2>3 DEF Versions
  <2> QED BY <2>1, <2>2, <2>4
<1>3. PICK u \in Publications : /\ promotion' = [promotion EXCEPT ![o] = u]
                                /\ u.state = "waiting"
  <2>1. PICK u : /\ u = [promotion[o] EXCEPT !.state = "waiting"]
                 /\ promotion' = [promotion EXCEPT ![o] = u]
    BY DEF Store
  <2>2. PICK w \in Publications : w = promotion[o]
    BY <1>1 DEF RecoveryTypeOK
  <2>3. u = [w EXCEPT !.state = "waiting"]
    BY <2>1, <2>2
  <2>4. u \in Publications /\ u.state = "waiting"
    BY <2>3 DEF Publications, States
  <2> QED BY <2>1, <2>4
<1>4. promotion[o].state = "none"
  BY <1>1 DEF PublicationsOK
<1>5. object' \in [Object -> Versions] /\ promotion' \in [Object -> Publications]
  BY <1>1, <1>2, <1>3 DEF RecoveryTypeOK
<1>6. ASSUME NEW p \in Object
      PROVE  /\ object'[p].hold = object[p].hold
             /\ object'[p].replica \in {object[p].replica, object[p].hold}
             /\ object'[p].replication = "COMPLETED" => object'[p].replica = object[p].hold
             /\ \/ object'[p].stored = object[p].stored
                \/ object[p].stored = Absent /\ object'[p].stored = now
             /\ \/ promotion'[p] = promotion[p]
                \/ /\ promotion[p].state = "none" /\ promotion'[p].state = "waiting"
                   /\ object'[p].stored # Absent
  <2>1. CASE p = o
    BY <1>1, <1>2, <1>3, <1>4, <2>1 DEF RecoveryTypeOK
  <2>2. CASE p # o
    BY <1>1, <1>2, <1>3, <2>2 DEF RecoveryTypeOK, PublicationsOK
  <2> QED BY <2>1, <2>2
<1>7. PublicationsOK' /\ Kept
  BY <1>1, <1>5, <1>6, VersionsStep
<1>8. RecoveryTypeOK'
  BY <1>1, <1>5 DEF RecoveryTypeOK, budget
<1> QED BY <1>1, <1>7, <1>8, OthersStep

\* A copy takes over the hold the version has.
LEMMA CopyIs ==
    ASSUME RecoveryTypeOK, NEW o \in Object
    PROVE  /\ CopyOf(o) \in Versions
           /\ CopyOf(o).hold = object[o].hold /\ CopyOf(o).replica = object[o].hold
           /\ CopyOf(o).stored = object[o].stored
<1>1. PICK w \in Versions : w = object[o]
  BY DEF RecoveryTypeOK
<1>2. PICK v : v = [w EXCEPT !.replication = "COMPLETED", !.replica = w.hold]
  OBVIOUS
<1>3. v \in Versions /\ v.hold = w.hold /\ v.replica = w.hold /\ v.stored = w.stored
  BY <1>2 DEF Versions
<1>4. CopyOf(o) = v
  BY <1>1, <1>2 DEF CopyOf
<1> QED BY <1>1, <1>3, <1>4

\* Steps of S3 on versions: replication done or failed, a batch job at its end.
LEMMA CopiesStep ==
    ASSUME RecoveryInv, UNCHANGED <<now, promotion, hold, current, backfill, run>>,
           object' \in [Object -> Versions],
           \A o \in Object :
              \/ object'[o] = object[o] \/ object'[o] = CopyOf(o)
              \/ /\ object'[o].hold = object[o].hold /\ object'[o].replica = object[o].replica
                 /\ object'[o].stored = object[o].stored /\ object'[o].replication = "FAILED",
           batch' \in [cutoff : Time \cup {Absent}, manifest : SUBSET Object,
                       status : {"New", "Active", "Complete", "Failed"}],
           events' \in Nat, failures' \in 0 .. MaxFailures,
           Mishap \/ UNCHANGED mishaps
    PROVE  RecoveryInv'
<1>1. RecoveryTypeOK /\ PublicationsOK
  BY DEF RecoveryInv
<1>2. promotion' \in [Object -> Publications]
  BY <1>1 DEF RecoveryTypeOK
<1>3. ASSUME NEW p \in Object
      PROVE  /\ object'[p].hold = object[p].hold
             /\ object'[p].replica \in {object[p].replica, object[p].hold}
             /\ object'[p].replication = "COMPLETED" => object'[p].replica = object[p].hold
             /\ \/ object'[p].stored = object[p].stored
                \/ object[p].stored = Absent /\ object'[p].stored = now
             /\ \/ promotion'[p] = promotion[p]
                \/ /\ promotion[p].state = "none" /\ promotion'[p].state = "waiting"
                   /\ object'[p].stored # Absent
  BY <1>1, CopyIs DEF PublicationsOK
<1>4. PublicationsOK' /\ Kept
  BY <1>1, <1>2, <1>3, VersionsStep
<1>5. RecoveryTypeOK'
  BY <1>1, BudgetIs DEF RecoveryTypeOK
<1> QED BY <1>4, <1>5, OthersStep

LEMMA ReplicationStep ==
    ASSUME RecoveryInv, NEW o \in Object, Replicate(o) \/ ReplicationFails(o)
    PROVE  RecoveryInv'
<1>1. RecoveryTypeOK
  BY DEF RecoveryInv
<1>2. CASE Replicate(o)
  <2>1. /\ object' = [object EXCEPT ![o] = CopyOf(o)]
        /\ UNCHANGED <<now, promotion, hold, current, backfill, batch, run, events, budget>>
    BY <1>2 DEF Replicate
  <2>2. object' \in [Object -> Versions]
        /\ \A p \in Object : object'[p] = object[p] \/ object'[p] = CopyOf(p)
    BY <1>1, <2>1, CopyIs DEF RecoveryTypeOK
  <2> QED BY <1>1, <2>1, <2>2, CopiesStep DEF RecoveryTypeOK, budget
<1>3. CASE ReplicationFails(o)
  <2>1. /\ UNCHANGED <<now, promotion, hold, current, backfill, batch, run, mishaps>>
        /\ failures < MaxFailures /\ failures' = failures + 1 /\ events' = events + 1
    BY <1>3 DEF ReplicationFails
  <2>2. PICK v \in Versions : /\ object' = [object EXCEPT ![o] = v]
                              /\ v.stored = object[o].stored /\ v.hold = object[o].hold
                              /\ v.replica = object[o].replica /\ v.replication = "FAILED"
    <3>1. PICK v : /\ v = [object[o] EXCEPT !.replication = "FAILED"]
                   /\ object' = [object EXCEPT ![o] = v]
      BY <1>3 DEF ReplicationFails
    <3>2. PICK w \in Versions : w = object[o]
      BY <1>1 DEF RecoveryTypeOK
    <3>3. v = [w EXCEPT !.replication = "FAILED"]
      BY <3>1, <3>2
    <3>4. v \in Versions /\ v.stored = w.stored /\ v.hold = w.hold
          /\ v.replica = w.replica /\ v.replication = "FAILED"
      BY <3>3 DEF Versions
    <3> QED BY <3>1, <3>2, <3>4
  <2>3. /\ object' \in [Object -> Versions]
        /\ \A p \in Object :
              \/ object'[p] = object[p]
              \/ /\ object'[p].hold = object[p].hold /\ object'[p].replica = object[p].replica
                 /\ object'[p].stored = object[p].stored /\ object'[p].replication = "FAILED"
    BY <1>1, <2>2 DEF RecoveryTypeOK
  <2>4. events' \in Nat /\ failures' \in 0 .. MaxFailures
    BY <1>1, <2>1, RecoveryConstants DEF RecoveryTypeOK
  <2> QED BY <1>1, <2>1, <2>3, <2>4, CopiesStep DEF RecoveryTypeOK
<1> QED BY <1>2, <1>3

LEMMA JobStep ==
    ASSUME RecoveryInv, GenerateManifest \/ FinishJob
    PROVE  RecoveryInv'
<1>1. RecoveryTypeOK
  BY DEF RecoveryInv
<1> DEFINE Jobs == [cutoff : Time \cup {Absent}, manifest : SUBSET Object,
                    status : {"New", "Active", "Complete", "Failed"}]
<1>2. PICK b \in Jobs : b = batch
  BY <1>1 DEF RecoveryTypeOK
<1>3. CASE GenerateManifest
  <2>1. PICK m \in SUBSET Object : batch' = [b EXCEPT !.status = "Active", !.manifest = m]
    BY <1>2, <1>3 DEF GenerateManifest
  <2>2. batch' \in Jobs
    BY <2>1
  <2>3. UNCHANGED <<now, object, promotion, hold, current, backfill, run, events, failures, mishaps>>
    BY <1>3 DEF GenerateManifest, storage, budget
  <2>4. object' \in [Object -> Versions] /\ \A p \in Object : object'[p] = object[p]
    BY <1>1, <2>3 DEF RecoveryTypeOK
  <2> QED BY <1>1, <2>2, <2>3, <2>4, CopiesStep DEF RecoveryTypeOK
<1>4. CASE FinishJob
  <2>1. batch' \in Jobs
    <3>1. PICK s \in {"Complete", "Failed"} : batch' = [b EXCEPT !.status = s, !.manifest = {}]
      BY <1>2, <1>4 DEF FinishJob
    <3> QED BY <3>1
  <2>2. /\ UNCHANGED <<now, promotion, hold, current, backfill, run, events, failures>>
        /\ Mishap \/ UNCHANGED mishaps
    BY <1>4 DEF FinishJob
  <2>3. \/ object' = object
        \/ object' = [o \in Object |-> IF o \in batch.manifest THEN CopyOf(o) ELSE object[o]]
    BY <1>4 DEF FinishJob
  <2>4. /\ object' \in [Object -> Versions]
        /\ \A p \in Object : object'[p] = object[p] \/ object'[p] = CopyOf(p)
    <3>1. CASE object' = object
      BY <1>1, <3>1 DEF RecoveryTypeOK
    <3>2. CASE object' = [o \in Object |-> IF o \in batch.manifest THEN CopyOf(o) ELSE object[o]]
      BY <1>1, <3>2, CopyIs DEF RecoveryTypeOK
    <3> QED BY <2>3, <3>1, <3>2
  <2> QED BY <1>1, <2>1, <2>2, <2>4, CopiesStep DEF RecoveryTypeOK
<1> QED BY <1>3, <1>4

\* The publication of a promotion: attempted, visible or lost.
LEMMA PromotionStep ==
    ASSUME RecoveryInv, NEW o \in Object,
           \/ PublishPromotion(o) \/ PromotionVisible(o)
           \/ /\ AttemptLost /\ UNCHANGED hold /\ promotion[o].state = "flying"
              /\ promotion' = [promotion EXCEPT ![o] = Waiting(@)]
    PROVE  RecoveryInv'
<1>1. /\ RecoveryTypeOK /\ PublicationsOK /\ now \in Time /\ now \in Int
      /\ UNCHANGED <<now, object, hold, current, backfill, batch, run, events, failures>>
      /\ Mishap \/ UNCHANGED mishaps
  BY RecoveryConstants
     DEF RecoveryInv, RecoveryTypeOK, PublishPromotion, PromotionVisible, AttemptLost, budget, Time
<1>2. PICK w \in Publications : w = promotion[o]
  BY <1>1 DEF RecoveryTypeOK
<1>3. PICK p \in Publications : promotion' = [promotion EXCEPT ![o] = p] /\ Moves(w, p)
  <2>1. CASE PublishPromotion(o)
    <3>1. PICK p : /\ p = [state |-> "flying", at |-> now]
                   /\ promotion' = [promotion EXCEPT ![o] = p]
      BY <2>1 DEF PublishPromotion
    <3>2. p \in Publications /\ p.state = "flying" /\ p.at = now
      BY <1>1, <3>1 DEF Publications, States
    <3>3. w.state = "waiting"
      BY <1>2, <2>1 DEF PublishPromotion
    <3>4. p.at >= now
      BY <1>1, <3>2
    <3>5. Moves(w, p)
      BY <3>2, <3>3, <3>4 DEF Moves
    <3> QED BY <3>1, <3>2, <3>5
  <2>2. CASE PromotionVisible(o)
    <3>1. PICK p : /\ p = [w EXCEPT !.state = "visible"]
                   /\ promotion' = [promotion EXCEPT ![o] = p]
      BY <1>2, <2>2 DEF PromotionVisible
    <3>2. p \in Publications /\ p.state = "visible" /\ p.at = w.at
      BY <3>1 DEF Publications, States
    <3>3. w.state = "flying"
      BY <1>2, <2>2 DEF PromotionVisible
    <3> QED BY <3>1, <3>2, <3>3 DEF Moves
  <2>3. CASE /\ promotion[o].state = "flying"
             /\ promotion' = [promotion EXCEPT ![o] = Waiting(@)]
    <3>1. PICK p : /\ p = [w EXCEPT !.state = "waiting", !.at = 0]
                   /\ promotion' = [promotion EXCEPT ![o] = p]
      BY <1>2, <2>3 DEF Waiting
    <3>2. p \in Publications /\ p.state = "waiting"
      <4>1. 0 \in Time
        BY RecoveryConstants DEF Time
      <4> QED BY <3>1, <4>1 DEF Publications, States
    <3> QED BY <1>2, <2>3, <3>1, <3>2 DEF Moves
  <2> QED BY <2>1, <2>2, <2>3
<1>4. promotion' \in [Object -> Publications]
  BY <1>1, <1>3 DEF RecoveryTypeOK
<1>5. \A q \in Object : Moves(promotion[q], promotion'[q])
  <2>1. promotion'[o] = p /\ \A q \in Object \ {o} : promotion'[q] = promotion[q]
    BY <1>1, <1>3 DEF RecoveryTypeOK
  <2> QED BY <1>2, <1>3, <2>1 DEF Moves
<1>6. PublicationsOK' /\ Kept
  BY <1>1, <1>4, <1>5, PromotionsStep
<1>7. RecoveryTypeOK'
  BY <1>1, <1>4, BudgetIs DEF RecoveryTypeOK
<1> QED BY <1>1, <1>6, <1>7, OthersStep

\* The hold change k gives way to another state of its publication.
LEMMA HoldStep ==
    ASSUME RecoveryInv, NEW k \in HoldOp, NEW h \in HoldChanges,
           hold' = [hold EXCEPT ![k] = h], Moves(hold[k], h),
           h.object = hold[k].object, h.status = hold[k].status, h.at <= MaxTime + k,
           UNCHANGED <<now, object, promotion, backfill, batch, run, events, failures>>,
           Mishap \/ UNCHANGED mishaps, current' \in [Object -> 0 .. MaxTroubles]
    PROVE  RecoveryInv'
<1>1. RecoveryTypeOK /\ PublicationsOK
  BY DEF RecoveryInv
<1>2. hold' \in [HoldOp -> HoldChanges]
  BY <1>1 DEF RecoveryTypeOK
<1>3. \A j \in HoldOp : /\ Moves(hold[j], hold'[j])
                        /\ hold'[j].object = hold[j].object
                        /\ hold'[j].status = hold[j].status
                        /\ hold'[j].at <= MaxTime + j
  <2>1. hold'[k] = h /\ \A j \in HoldOp \ {k} : hold'[j] = hold[j]
    BY <1>1 DEF RecoveryTypeOK
  <2> QED BY <1>1, <2>1 DEF Moves, PublicationsOK
<1>4. PublicationsOK' /\ Kept
  BY <1>1, <1>2, <1>3, HoldsStep
<1>5. RecoveryTypeOK'
  BY <1>1, <1>2, BudgetIs DEF RecoveryTypeOK
<1> QED BY <1>4, <1>5, OthersStep

\* The time of a publication follows at most the operations before it.
LEMMA PublishHoldStep ==
    ASSUME RecoveryInv, NEW k \in HoldOp, PublishHold(k)
    PROVE  RecoveryInv'
<1>1. /\ RecoveryTypeOK /\ PublicationsOK /\ now \in 0 .. MaxTime /\ now \in Int
      /\ UNCHANGED <<now, object, promotion, current, backfill, batch, run, events,
                     failures, mishaps>>
      /\ hold[k].state = "waiting"
      /\ k \in Nat /\ k > 0 /\ k <= MaxTroubles
  BY RecoveryConstants
     DEF RecoveryInv, RecoveryTypeOK, PublishHold, budget, HoldOp
<1>2. PICK w \in HoldChanges : w = hold[k]
  BY <1>1 DEF RecoveryTypeOK
<1> DEFINE prior == current[w.object]
           later == IF prior > 0 /\ prior < k /\ now <= hold[prior].at
                    THEN hold[prior].at + 1 ELSE now
<1>3. prior \in 0 .. MaxTroubles
  BY <1>1 DEF RecoveryTypeOK, HoldChanges
<1>4. later \in 0 .. MaxTime + MaxTroubles /\ later >= now /\ later <= MaxTime + k
  <2>1. CASE prior > 0 /\ prior < k /\ now <= hold[prior].at
    <3>1. prior \in HoldOp /\ prior \in Nat
      BY <1>3, <2>1, RecoveryConstants DEF HoldOp
    <3>2. hold[prior].at \in Nat /\ hold[prior].at <= MaxTime + prior
      BY <1>1, <3>1, RecoveryConstants DEF RecoveryTypeOK, HoldChanges, PublicationsOK
    <3>3. later = hold[prior].at + 1
      BY <2>1
    <3> HIDE DEF later, prior
    <3> QED BY <1>1, <2>1, <3>1, <3>2, <3>3, RecoveryConstants
  <2>2. CASE ~(prior > 0 /\ prior < k /\ now <= hold[prior].at)
    BY <1>1, <2>2, RecoveryConstants
  <2> QED BY <2>1, <2>2
<1>5. hold' = [hold EXCEPT ![k].state = "flying", ![k].prior = prior, ![k].at = later]
  BY <1>2 DEF PublishHold
<1>6. PICK p, t : p = prior /\ t = later
  OBVIOUS
<1>7. PICK h : h = [w EXCEPT !.state = "flying", !.prior = p, !.at = t]
  OBVIOUS
<1>8. /\ p \in 0 .. MaxTroubles /\ t \in 0 .. MaxTime + MaxTroubles
      /\ t >= now /\ t <= MaxTime + k
      /\ hold' = [hold EXCEPT ![k].state = "flying", ![k].prior = p, ![k].at = t]
  BY <1>3, <1>4, <1>5, <1>6
<1> HIDE DEF prior, later
<1>9. hold' = [hold EXCEPT ![k] = h]
  BY <1>1, <1>2, <1>7, <1>8 DEF RecoveryTypeOK
<1>10. /\ h \in HoldChanges /\ h.state = "flying" /\ h.at = t
       /\ h.object = w.object /\ h.status = w.status
  BY <1>7, <1>8 DEF HoldChanges, States
<1>11. Moves(hold[k], h)
  BY <1>1, <1>8, <1>10 DEF Moves
<1>12. h.at <= MaxTime + k /\ current' \in [Object -> 0 .. MaxTroubles]
  BY <1>1, <1>8, <1>10 DEF RecoveryTypeOK
<1> QED BY <1>1, <1>2, <1>9, <1>10, <1>11, <1>12, HoldStep

\* A publication that failed or was refused is taken up again.
LEMMA LostHold ==
    ASSUME RecoveryInv, NEW k \in HoldOp, hold[k].state = "flying",
           hold' = [hold EXCEPT ![k] = Waiting([@ EXCEPT !.prior = 0])],
           UNCHANGED <<now, object, promotion, current, backfill, batch, run, events, failures>>,
           Mishap \/ UNCHANGED mishaps
    PROVE  RecoveryInv'
<1>1. RecoveryTypeOK /\ PublicationsOK
  BY DEF RecoveryInv
<1>2. PICK w \in HoldChanges : w = hold[k]
  BY <1>1 DEF RecoveryTypeOK
<1>3. PICK u : u = [w EXCEPT !.prior = 0]
  OBVIOUS
<1>4. PICK h : h = [u EXCEPT !.state = "waiting", !.at = 0]
  OBVIOUS
<1>5. hold' = [hold EXCEPT ![k] = h]
  BY <1>2, <1>3, <1>4 DEF Waiting
<1>6. u \in HoldChanges /\ u.object = w.object /\ u.status = w.status
  BY <1>3, RecoveryConstants DEF HoldChanges
<1>7. /\ h \in HoldChanges /\ h.state = "waiting" /\ h.at = 0
      /\ h.object = u.object /\ h.status = u.status
  <2>1. 0 \in 0 .. MaxTime + MaxTroubles
    BY RecoveryConstants
  <2> QED BY <1>4, <1>6, <2>1 DEF HoldChanges, States
<1>8. Moves(hold[k], h)
  BY <1>7 DEF Moves
<1>9. h.at <= MaxTime + k /\ current' \in [Object -> 0 .. MaxTroubles]
  BY <1>1, <1>7, RecoveryConstants DEF RecoveryTypeOK, HoldOp
<1> QED BY <1>2, <1>5, <1>6, <1>7, <1>8, <1>9, HoldStep

LEMMA HoldVisibleStep ==
    ASSUME RecoveryInv, NEW k \in HoldOp, HoldVisible(k)
    PROVE  RecoveryInv'
<1>1. /\ RecoveryTypeOK /\ PublicationsOK
      /\ UNCHANGED <<now, object, promotion, backfill, batch, run, events, failures, mishaps>>
      /\ hold[k].state = "flying"
  BY DEF RecoveryInv, HoldVisible, budget
<1>2. PICK w \in HoldChanges : w = hold[k]
  BY <1>1 DEF RecoveryTypeOK
<1>3. CASE Advances(k) /\ current[hold[k].object] # hold[k].prior
  BY <1>1, <1>3, LostHold DEF HoldVisible
<1>4. CASE ~(Advances(k) /\ current[hold[k].object] # hold[k].prior)
  <2>1. /\ hold' = [hold EXCEPT ![k].state = "visible", ![k].prior = 0]
        /\ current' = [current EXCEPT ![hold[k].object] = IF Advances(k) THEN k ELSE @]
    BY <1>4 DEF HoldVisible
  <2>2. PICK h : h = [w EXCEPT !.state = "visible", !.prior = 0]
    OBVIOUS
  <2>3. hold' = [hold EXCEPT ![k] = h]
    BY <1>1, <1>2, <2>1, <2>2 DEF RecoveryTypeOK
  <2>4. /\ h \in HoldChanges /\ h.state = "visible" /\ h.at = w.at
        /\ h.object = w.object /\ h.status = w.status
    <3>1. 0 \in 0 .. MaxTroubles
      BY RecoveryConstants
    <3> QED BY <2>2, <3>1 DEF HoldChanges, States
  <2>5. Moves(hold[k], h) /\ h.at <= MaxTime + k
    BY <1>1, <1>2, <2>4 DEF Moves, PublicationsOK
  <2>6. current' \in [Object -> 0 .. MaxTroubles]
    <3>1. current \in [Object -> 0 .. MaxTroubles] /\ k \in 0 .. MaxTroubles
      BY <1>1, RecoveryConstants DEF RecoveryTypeOK, HoldOp
    <3>2. PICK n : n = IF Advances(k) THEN k ELSE current[hold[k].object]
      OBVIOUS
    <3>3. hold[k].object \in Object
      BY <1>2 DEF HoldChanges
    <3>4. n \in 0 .. MaxTroubles
      BY <3>1, <3>2, <3>3
    <3>5. current' = [current EXCEPT ![hold[k].object] = n]
      BY <2>1, <3>1, <3>2, <3>3
    <3> QED BY <3>1, <3>4, <3>5
  <2> QED BY <1>1, <1>2, <2>3, <2>4, <2>5, <2>6, HoldStep
<1> QED BY <1>3, <1>4

\* Whatever happens to versions, holds and publications keeps the invariant.
LEMMA StorageStep ==
    ASSUME RecoveryInv,
           \/ \E o \in Object : \/ Store(o) \/ PublishPromotion(o) \/ PromotionVisible(o)
                                \/ Replicate(o) \/ ReplicationFails(o)
           \/ \E k \in HoldOp : \/ \E o \in Object : ApplyHold(k, o)
                                \/ PublishHold(k) \/ HoldVisible(k)
           \/ AttemptLost \/ Tick \/ GenerateManifest \/ FinishJob
    PROVE  RecoveryInv'
<1>1. ASSUME NEW o \in Object, NEW k \in HoldOp, ApplyHold(k, o) PROVE RecoveryInv'
  <2>1. /\ RecoveryTypeOK /\ PublicationsOK
        /\ UNCHANGED <<now, promotion, current, backfill, batch, run, events, budget>>
    BY <1>1 DEF RecoveryInv, ApplyHold
  <2>2. /\ object' \in [Object -> Versions] /\ hold' \in [HoldOp -> HoldChanges]
        /\ PublicationsOK' /\ Kept
    BY <1>1, <2>1, ApplyHoldStep
  <2>3. RecoveryTypeOK'
    BY <2>1, <2>2 DEF RecoveryTypeOK, budget
  <2> QED BY <2>1, <2>2, <2>3, OthersStep
<1>2. CASE AttemptLost
  <2>1. /\ UNCHANGED <<now, object, current, backfill, batch, run, events, failures>>
        /\ Mishap
    BY <1>2 DEF AttemptLost
  <2>2. CASE \E o \in Object : /\ promotion[o].state = "flying"
                               /\ promotion' = [promotion EXCEPT ![o] = Waiting(@)]
                               /\ UNCHANGED hold
    BY <1>2, <2>2, PromotionStep
  <2>3. CASE \E k \in HoldOp : /\ hold[k].state = "flying"
                               /\ hold' = [hold EXCEPT ![k] = Waiting([@ EXCEPT !.prior = 0])]
                               /\ UNCHANGED promotion
    BY <2>1, <2>3, LostHold
  <2> QED BY <1>2, <2>2, <2>3 DEF AttemptLost
<1>3. CASE Tick
  <2>1. /\ RecoveryTypeOK /\ PublicationsOK
        /\ UNCHANGED <<storage, backfill, batch, run, events, budget>>
    BY <1>3 DEF RecoveryInv, Tick
  <2>2. now' \in Settle .. MaxTime /\ PublicationsOK' /\ Kept
    BY <1>3, <2>1, TickStep
  <2>3. RecoveryTypeOK'
    BY <2>1, <2>2 DEF RecoveryTypeOK, storage, budget
  <2> QED BY <2>1, <2>2, <2>3, OthersStep
<1> QED BY <1>1, <1>2, <1>3, StoreStep, PromotionStep, ReplicationStep, PublishHoldStep,
           HoldVisibleStep, JobStep

-----------------------------------------------------------------------------
(* The reconciler: generations and their jobs.                              *)

\* An invocation that goes on elsewhere has no page under way.
LEMMA RunToIs ==
    ASSUME NEW pc \in {"idle", "job", "bind", "rejob", "rebind", "describe", "page"},
           RunTo(pc), NEW g
    PROVE  run' \in Runs /\ (pc = "idle" \/ g # Absent => RunOK(g, run'))
<1>1. PICK r : r = [NoRun EXCEPT !.pc = pc] /\ run' = r
  BY DEF RunTo
<1>2. r \in Runs /\ r.pc = pc
  BY <1>1 DEF Runs, NoRun
<1> QED BY <1>1, <1>2 DEF RunOK

LEMMA NoRunIs == ASSUME NEW g PROVE NoRun \in Runs /\ RunOK(g, NoRun)
BY DEF NoRun, Runs, RunOK

\* The progress of a job is no matter of what has been verified.
LEMMA SameWork ==
    ASSUME NEW g \in Backfills, NEW f \in Backfills, BackfillOK(g),
           f.cutoff = g.cutoff, f.repair = g.repair, f.through = g.through,
           f.verified = g.verified, f.phase = g.phase, f.cursor = g.cursor, f.after = g.after
    PROVE  BackfillOK(f)
BY DEF BackfillOK, ChangesIn

\* A generation that begins has verified nothing; what the last one did stays.
LEMMA NewGenerationIs ==
    ASSUME RecoveryTypeOK, backfill # Absent, NEW cutoff \in Time,
           NEW phase \in {"SOURCE", "CHANGES"}, NEW after \in Time \cup {Absent}
    PROVE  LET g == NewGeneration(cutoff, phase, after)
           IN  /\ g \in Backfills /\ g.cutoff = cutoff /\ g.phase = phase /\ g.after = after
               /\ g.cursor = 0 /\ ~g.verified /\ g.repair = Absent /\ g.job = Absent
               /\ g.through = backfill.through
<1>1. PICK b \in Backfills : b = backfill
  BY DEF RecoveryTypeOK
<1>2. PICK g : g = [b EXCEPT !.creating = TRUE, !.cutoff = cutoff, !.job = Absent,
                      !.batch = Absent, !.phase = phase, !.verified = FALSE,
                      !.after = after, !.cursor = 0, !.repair = Absent]
  OBVIOUS
<1>3. /\ g \in Backfills /\ g.cutoff = cutoff /\ g.phase = phase /\ g.after = after
      /\ g.cursor = 0 /\ g.verified = FALSE /\ g.repair = Absent /\ g.job = Absent
      /\ g.through = b.through
  BY <1>2 DEF Backfills
<1>4. NewGeneration(cutoff, phase, after) = g
  BY <1>1, <1>2 DEF NewGeneration
<1> QED BY <1>1, <1>3, <1>4

LEMMA RepairIs ==
    ASSUME RecoveryInv, backfill # Absent, backfill.repair # Absent, now > backfill.repair
    PROVE  /\ RepairGeneration \in Backfills /\ RepairGeneration.job = Absent
           /\ BackfillOK(RepairGeneration)
<1>1. PICK b \in Backfills : b = backfill
  BY DEF RecoveryInv, RecoveryTypeOK
<1>2. /\ RecoveryTypeOK /\ BackfillOK(b) /\ b.repair \in Time /\ b.repair # Absent
      /\ b.repair < now /\ now \in Int /\ b.repair \in Int /\ b.cutoff \in Int
      /\ b.through # Absent => b.through \in Int
  BY <1>1, BackfillIs DEF RecoveryInv, Backfills
<1>3. PICK g : g = RepairGeneration
  OBVIOUS
<1>4. /\ g \in Backfills /\ g.cutoff = b.repair /\ g.phase = "SOURCE"
      /\ g.cursor = 0 /\ ~g.verified /\ g.repair = Absent /\ g.job = Absent
      /\ g.through = b.through
  BY <1>1, <1>2, <1>3, NewGenerationIs DEF RepairGeneration
<1>5. g.through # Absent => g.through <= g.cutoff /\ AllFine(g.through)
  BY <1>2, <1>4 DEF BackfillOK
<1>6. \A o \in Object : ~(o <= g.cursor)
  BY <1>4 DEF Object
<1>7. BackfillOK(g)
  BY <1>2, <1>4, <1>5, <1>6 DEF BackfillOK
<1> QED BY <1>3, <1>4, <1>7

LEMMA PeriodicIs ==
    ASSUME RecoveryInv, backfill # Absent, ShouldStartPeriodic
    PROVE  /\ PeriodicGeneration \in Backfills /\ PeriodicGeneration.job = Absent
           /\ BackfillOK(PeriodicGeneration)
<1>1. PICK b \in Backfills : b = backfill
  BY DEF RecoveryInv, RecoveryTypeOK
<1>2. /\ RecoveryTypeOK /\ BackfillOK(b) /\ b.verified
      /\ RecoveryLedgerCutoff(now) > b.through
  BY <1>1 DEF RecoveryInv, ShouldStartPeriodic
<1>3. /\ now \in Int /\ now \in Settle .. MaxTime
      /\ b.through = b.cutoff /\ b.through \in Time /\ b.through # Absent /\ b.through \in Int
      /\ AllFine(b.through)
  <2>1. b.through = b.cutoff /\ b.cutoff \in Time
    BY <1>2 DEF BackfillOK, Backfills
  <2>2. b.through # Absent
    BY <2>1, RecoveryConstants
  <2> QED BY <1>2, <2>1, <2>2, BackfillIs DEF BackfillOK, RecoveryTypeOK
<1>4. PICK c : c = RecoveryLedgerCutoff(now)
  OBVIOUS
<1>5. c \in Time /\ c \in Int /\ c < now /\ c + Settle <= now /\ b.through <= c
  BY <1>2, <1>3, <1>4, RecoveryConstants DEF RecoveryLedgerCutoff, Time
<1>6. PICK g : g = PeriodicGeneration
  OBVIOUS
<1>7. /\ g \in Backfills /\ g.cutoff = c /\ g.phase = "CHANGES" /\ g.after = b.through
      /\ g.cursor = 0 /\ ~g.verified /\ g.repair = Absent /\ g.job = Absent
      /\ g.through = b.through
  BY <1>1, <1>2, <1>3, <1>4, <1>5, <1>6, NewGenerationIs DEF PeriodicGeneration
<1>8. \A d \in ChangesIn(g) : ~(SortKey(d) <= g.cursor)
  <2>1. ASSUME NEW d \in ChangesIn(g) PROVE ~(SortKey(d) <= g.cursor)
    <3>1. d \in Changes
      BY DEF ChangesIn
    <3>2. SortKey(d) \in Nat /\ SortKey(d) > 0
      BY <1>2, <3>1, KeysDiffer
    <3> QED BY <1>7, <3>2
  <2> QED BY <2>1
<1>9. BackfillOK(g)
  BY <1>3, <1>5, <1>7, <1>8 DEF BackfillOK
<1> QED BY <1>6, <1>7, <1>9

LEMMA ReservedIs ==
    ASSUME RecoveryTypeOK
    PROVE  /\ Reserved \in Backfills /\ Reserved.job = Absent /\ BackfillOK(Reserved)
           /\ Reserved.through = Absent /\ Reserved.cutoff \in Time
           /\ Reserved.cutoff < now
<1>1. now \in Int /\ now \in Settle .. MaxTime
  BY RecoveryConstants DEF RecoveryTypeOK
<1>2. PICK c : c = RecoveryLedgerCutoff(now)
  OBVIOUS
<1>3. c \in Time /\ c \in Int /\ c < now
  BY <1>1, <1>2, RecoveryConstants DEF RecoveryLedgerCutoff, Time
<1>4. PICK g : g = Reserved
  OBVIOUS
<1>5. /\ g \in Backfills /\ g.cutoff = c /\ g.phase = "SOURCE" /\ g.cursor = 0
      /\ g.verified = FALSE /\ g.repair = Absent /\ g.job = Absent /\ g.through = Absent
  BY <1>2, <1>3, <1>4 DEF Reserved, Backfills
<1>6. \A o \in Object : ~(o <= g.cursor)
  BY <1>5 DEF Object
<1>7. BackfillOK(g)
  BY <1>3, <1>5, <1>6 DEF BackfillOK
<1> QED BY <1>3, <1>4, <1>5, <1>7

LEMMA StartStep ==
    ASSUME RecoveryInv, Start
    PROVE  RecoveryInv'
<1>1. RecoveryTypeOK /\ (backfill # Absent => backfill \in Backfills /\ BackfillOK(backfill))
  BY DEF RecoveryInv, RecoveryTypeOK
<1> DEFINE next == IF backfill = Absent THEN Reserved
                   ELSE IF ShouldRotateRepair THEN RepairGeneration
                   ELSE IF ShouldStartPeriodic THEN PeriodicGeneration
                   ELSE backfill
<1>2. /\ backfill # Absent /\ ShouldRotateRepair => now > backfill.repair
      /\ backfill' = next
      /\ RunTo(IF next.job = Absent THEN "job" ELSE IF next.verified THEN "idle"
               ELSE "describe")
      /\ UNCHANGED <<now, storage, batch, events, failures, mishaps>>
  BY DEF Start, budget
<1>3. next \in Backfills /\ BackfillOK(next)
  <2>1. CASE backfill = Absent
    BY <1>1, <2>1, ReservedIs
  <2>2. CASE backfill # Absent /\ ShouldRotateRepair
    BY <1>2, <2>2, RepairIs DEF ShouldRotateRepair
  <2>3. CASE backfill # Absent /\ ~ShouldRotateRepair /\ ShouldStartPeriodic
    BY <2>3, PeriodicIs
  <2>4. CASE backfill # Absent /\ ~ShouldRotateRepair /\ ~ShouldStartPeriodic
    BY <1>1, <2>4
  <2> QED BY <2>1, <2>2, <2>3, <2>4
<1>4. PICK g \in Backfills : g = next
  BY <1>3
<1>5. /\ BackfillOK(g) /\ backfill' = g
      /\ RunTo(IF g.job = Absent THEN "job" ELSE IF g.verified THEN "idle" ELSE "describe")
  BY <1>2, <1>3, <1>4
<1> HIDE DEF next
<1>6. g # Absent
  BY AbsentAssumption DEF AbsentAssumption
<1>7. run' \in Runs /\ RunOK(g, run')
  BY <1>5, <1>6, RunToIs
<1>8. PICK r \in Runs : r = run'
  BY <1>7
<1> QED BY <1>1, <1>2, <1>5, <1>7, <1>8, ReconcilerStep DEF RecoveryTypeOK

\* The job of a generation is created, described and bound.
LEMMA RowKept ==
    ASSUME RecoveryInv, UNCHANGED <<now, storage, backfill, events, failures>>,
           Mishap \/ UNCHANGED mishaps,
           batch' \in [cutoff : Time \cup {Absent}, manifest : SUBSET Object,
                       status : {"New", "Active", "Complete", "Failed"}],
           run' \in Runs, RunOK(backfill, run')
    PROVE  RecoveryInv'
<1>1. PICK g \in Backfills \cup {Absent} : g = backfill
  BY DEF RecoveryInv, RecoveryTypeOK
<1>2. PICK r \in Runs : r = run'
  OBVIOUS
<1>3. RecoveryTypeOK /\ (g # Absent => BackfillOK(g)) /\ RunOK(g, r)
  BY <1>1, <1>2 DEF RecoveryInv
<1>4. /\ events' \in Nat /\ failures' \in 0 .. MaxFailures
      /\ backfill' = g /\ run' = r
  BY <1>1, <1>2, <1>3 DEF RecoveryTypeOK
<1> QED BY <1>3, <1>4, ReconcilerStep

LEMMA CreateJobStep ==
    ASSUME RecoveryInv, CreateJob
    PROVE  RecoveryInv'
<1>1. /\ RecoveryTypeOK /\ backfill # Absent /\ backfill \in Backfills
      /\ UNCHANGED <<now, storage, backfill, events, failures, mishaps>>
      /\ RunTo(IF RunAt("job") THEN "bind" ELSE "rebind")
  BY DEF RecoveryInv, RecoveryTypeOK, RunOK, CreateJob, RunAt, budget
<1>2. batch' \in [cutoff : Time \cup {Absent}, manifest : SUBSET Object,
                  status : {"New", "Active", "Complete", "Failed"}]
  <2>1. CASE batch' = batch
    BY <1>1, <2>1 DEF RecoveryTypeOK
  <2>2. CASE batch' = [cutoff |-> backfill.cutoff, manifest |-> {}, status |-> "New"]
    <3>1. backfill.cutoff \in Time
      BY <1>1 DEF Backfills
    <3> QED BY <2>2, <3>1
  <2> QED BY <2>1, <2>2 DEF CreateJob
<1>3. run' \in Runs /\ RunOK(backfill, run')
  BY <1>1, RunToIs
<1> QED BY <1>1, <1>2, <1>3, RowKept

\* The row changes in what is no matter of verification.
LEMMA ProgressStep ==
    ASSUME RecoveryInv, NEW b \in Backfills, b = backfill, backfill # Absent,
           NEW f \in Backfills, backfill' = f,
           f.cutoff = b.cutoff, f.repair = b.repair, f.through = b.through,
           f.verified = b.verified, f.phase = b.phase, f.cursor = b.cursor, f.after = b.after,
           UNCHANGED <<now, storage, batch, events, failures>>,
           Mishap \/ UNCHANGED mishaps,
           run' \in Runs, RunOK(f, run')
    PROVE  RecoveryInv'
<1>1. RecoveryTypeOK /\ BackfillOK(b)
  BY DEF RecoveryInv
<1>2. BackfillOK(f)
  BY <1>1, SameWork
<1>3. PICK r \in Runs : r = run'
  OBVIOUS
<1>4. /\ events' \in Nat /\ failures' \in 0 .. MaxFailures
      /\ batch' \in [cutoff : Time \cup {Absent}, manifest : SUBSET Object,
                     status : {"New", "Active", "Complete", "Failed"}]
      /\ run' = r /\ RunOK(f, r)
  BY <1>1, <1>3 DEF RecoveryTypeOK
<1> QED BY <1>2, <1>4, ReconcilerStep

LEMMA FailedStep ==
    ASSUME RecoveryInv, backfill # Absent, Failed,
           UNCHANGED <<now, storage, batch, events, failures>>, Mishap \/ UNCHANGED mishaps
    PROVE  RecoveryInv'
<1>1. PICK b \in Backfills : b = backfill
  BY DEF RecoveryInv, RecoveryTypeOK
<1>2. PICK f : f = [b EXCEPT !.creating = FALSE]
  OBVIOUS
<1>3. /\ f \in Backfills
      /\ f.cutoff = b.cutoff /\ f.repair = b.repair /\ f.through = b.through
      /\ f.verified = b.verified /\ f.phase = b.phase /\ f.cursor = b.cursor
      /\ f.after = b.after
  BY <1>2 DEF Backfills
<1>4. backfill' = f /\ run' \in Runs /\ RunOK(f, run')
  BY <1>1, <1>2, NoRunIs DEF Failed
<1> QED BY <1>1, <1>3, <1>4, ProgressStep

LEMMA BindStep ==
    ASSUME RecoveryInv, Bind
    PROVE  RecoveryInv'
<1>1. /\ RecoveryTypeOK /\ backfill # Absent
      /\ UNCHANGED <<now, storage, batch, events, failures, mishaps>>
  BY DEF RecoveryInv, RunOK, Bind, RunAt, budget
<1>2. CASE ~backfill.creating
  BY <1>1, <1>2, FailedStep DEF Bind
<1>3. CASE backfill.creating
  <2>1. PICK b \in Backfills : b = backfill
    BY <1>1 DEF RecoveryTypeOK
  <2>2. PICK c \in Time \cup {Absent} : c = batch.cutoff
    BY <1>1 DEF RecoveryTypeOK
  <2>3. PICK f : f = [b EXCEPT !.creating = FALSE, !.job = c]
    OBVIOUS
  <2>4. /\ f \in Backfills
        /\ f.cutoff = b.cutoff /\ f.repair = b.repair /\ f.through = b.through
        /\ f.verified = b.verified /\ f.phase = b.phase /\ f.cursor = b.cursor
        /\ f.after = b.after
    BY <2>3 DEF Backfills
  <2>5. backfill' = f /\ RunTo(IF RunAt("bind") THEN "describe" ELSE "idle")
    BY <1>3, <2>1, <2>2, <2>3 DEF Bind
  <2>6. f # Absent
    BY <2>4, AbsentAssumption DEF AbsentAssumption
  <2>7. run' \in Runs /\ RunOK(f, run')
    BY <2>5, <2>6, RunToIs
  <2> QED BY <1>1, <2>1, <2>4, <2>5, <2>7, ProgressStep
<1> QED BY <1>2, <1>3

LEMMA DescribeStep ==
    ASSUME RecoveryInv, Describe
    PROVE  RecoveryInv'
<1>1. /\ RecoveryTypeOK /\ backfill # Absent
      /\ UNCHANGED <<now, storage, batch, events, failures, mishaps>>
  BY DEF RecoveryInv, RunOK, Describe, RunAt, budget
<1>2. ASSUME NEW pc \in {"idle", "page"}, backfill' = Recorded, RunTo(pc) PROVE RecoveryInv'
  <2>1. PICK b \in Backfills : b = backfill
    BY <1>1 DEF RecoveryTypeOK
  <2>2. PICK s \in {"Active", "Complete", "Failed"} : s = JobStatus
    BY <1>1 DEF RecoveryTypeOK, JobStatus
  <2>3. PICK f : f = [b EXCEPT !.batch = s, !.creating = FALSE]
    OBVIOUS
  <2>4. /\ f \in Backfills
        /\ f.cutoff = b.cutoff /\ f.repair = b.repair /\ f.through = b.through
        /\ f.verified = b.verified /\ f.phase = b.phase /\ f.cursor = b.cursor
        /\ f.after = b.after
    BY <2>3 DEF Backfills
  <2>5. backfill' = f
    BY <1>2, <2>1, <2>2, <2>3 DEF Recorded
  <2>6. f # Absent
    BY <2>4, AbsentAssumption DEF AbsentAssumption
  <2>7. run' \in Runs /\ RunOK(f, run')
    BY <1>2, <2>6, RunToIs
  <2> QED BY <1>1, <2>1, <2>4, <2>5, <2>7, ProgressStep
<1>3. ASSUME backfill.repair # Absent, now > backfill.repair,
             backfill' = RepairGeneration, RunTo("rejob")
      PROVE  RecoveryInv'
  <2>1. PICK g \in Backfills : g = RepairGeneration
    BY <1>1, <1>3, RepairIs
  <2>2. BackfillOK(g)
    BY <1>1, <1>3, <2>1, RepairIs
  <2>3. g # Absent
    BY AbsentAssumption DEF AbsentAssumption
  <2>4. run' \in Runs /\ RunOK(g, run')
    BY <1>3, <2>3, RunToIs
  <2>5. PICK r \in Runs : r = run'
    BY <2>4
  <2> QED BY <1>1, <1>3, <2>1, <2>2, <2>4, <2>5, ReconcilerStep DEF RecoveryTypeOK
<1>4. CASE JobStatus = "Active" /\ backfill' = Recorded /\ RunTo("idle")
  BY <1>2, <1>4
<1>5. CASE /\ JobStatus # "Active" /\ backfill.repair = Absent
           /\ backfill' = Recorded
           /\ RunTo(IF JobStatus = "Complete" THEN "page" ELSE "idle")
  BY <1>2, <1>5
<1> QED BY <1>3, <1>4, <1>5 DEF Describe

-----------------------------------------------------------------------------
(* The reconciler: its pages.                                               *)

\* When every version stored by the cutoff is fine, so is what was published.
LEMMA SourceDone ==
    ASSUME RecoveryInv, NEW time \in Time,
           \A o \in Object : StoredBy(o, time) => Fine(o, time)
    PROVE  AllFine(time)
<1>1. ASSUME NEW o \in Object, Out(promotion[o], time) PROVE Fine(o, time)
  <2>1. /\ RecoveryTypeOK /\ PublicationsOK /\ time \in Int
    BY RecoveryConstants DEF RecoveryInv, Time
  <2>2. promotion[o].at \in Int /\ object[o].stored \in Time \cup {Absent}
    BY <2>1, RecoveryConstants DEF RecoveryTypeOK, Publications, Versions, Time
  <2>3. object[o].stored # Absent /\ object[o].stored <= promotion[o].at
    BY <1>1, <2>1 DEF Out, PublicationsOK
  <2>4. promotion[o].at <= time
    BY <1>1 DEF Out
  <2>5. object[o].stored \in Int
    BY <2>2, <2>3, RecoveryConstants DEF Time
  <2>6. object[o].stored <= time
    BY <2>1, <2>2, <2>3, <2>4, <2>5
  <2> QED BY <2>3, <2>6 DEF StoredBy
<1> QED BY <1>1 DEF AllFine

\* When every change after the last watermark is fine, so is what was published.
LEMMA ChangesDone ==
    ASSUME RecoveryInv, NEW g \in Backfills, BackfillOK(g), g.phase = "CHANGES",
           \A c \in ChangesIn(g) : Fine(c.object, g.cutoff)
    PROVE  AllFine(g.cutoff)
<1>1. /\ RecoveryTypeOK /\ PublicationsOK
      /\ now \in Int /\ g.cutoff \in Int /\ g.cutoff + Settle <= now
      /\ g.through \in Int /\ g.after = g.through /\ AllFine(g.through)
  BY BackfillIs DEF RecoveryInv, BackfillOK
<1>2. ASSUME NEW o \in Object, Out(promotion[o], g.cutoff) PROVE Fine(o, g.cutoff)
  <2>1. promotion[o].at \in Int /\ promotion[o].state = "visible"
    BY <1>1, <1>2, RecoveryConstants
       DEF RecoveryTypeOK, Publications, Time, Out, PublicationsOK
  <2>2. CASE promotion[o].at > g.through
    <3>1. PICK c : c = [at |-> promotion[o].at, id |-> MaxTroubles + o, object |-> o]
      OBVIOUS
    <3>2. c \in Changes
      BY <2>1, <3>1 DEF Changes
    <3>3. c.at = promotion[o].at /\ c.object = o
      BY <3>1
    <3>4. c \in ChangesIn(g)
      BY <1>1, <1>2, <2>2, <3>2, <3>3 DEF ChangesIn, Out
    <3> QED BY <3>3, <3>4
  <2>3. CASE promotion[o].at <= g.through
    <3>1. Fine(o, g.through)
      BY <1>1, <1>2, <2>3 DEF AllFine, Out
    <3>2. ASSUME NEW k \in HoldOp, LatestOp(k, o), Out(hold[k], g.cutoff)
          PROVE  object[o].replica = hold[k].status
      <4>1. hold[k].at \in Int /\ hold[k].state = "visible"
        BY <1>1, <3>2, RecoveryConstants DEF RecoveryTypeOK, HoldChanges, Out, PublicationsOK
      <4>2. CASE hold[k].at > g.through
        <5>1. PICK c : c = [at |-> hold[k].at, id |-> k, object |-> hold[k].object]
          OBVIOUS
        <5>2. c \in Changes
          BY <4>1, <5>1 DEF Changes
        <5>3. c.at = hold[k].at /\ c.object = o
          BY <3>2, <5>1 DEF LatestOp
        <5>4. c \in ChangesIn(g)
          BY <1>1, <3>2, <4>2, <5>2, <5>3 DEF ChangesIn, Out
        <5>5. Fine(o, g.cutoff)
          BY <5>3, <5>4
        <5> QED BY <3>2, <5>5 DEF Fine
      <4>3. CASE hold[k].at <= g.through
        BY <3>1, <3>2, <4>3 DEF Fine, Out
      <4> QED BY <1>1, <4>1, <4>2, <4>3
    <3> QED BY <3>1, <3>2 DEF Fine
  <2> QED BY <1>1, <2>1, <2>2, <2>3
<1> QED BY <1>2 DEF AllFine

LEMMA PageDoneStep ==
    ASSUME RecoveryInv, NEW b \in Backfills, b = backfill, b # Absent,
           b.phase \in {"SOURCE", "CHANGES"},
           NEW target \in Nat, NEW last \in BOOLEAN, PageDone(target, last),
           UNCHANGED <<now, storage, batch, events, failures, mishaps>>,
           last => AllFine(b.cutoff),
           ~last /\ b.phase = "SOURCE" =>
              \A o \in Object : StoredBy(o, b.cutoff) /\ o <= target => Fine(o, b.cutoff),
           ~last /\ b.phase = "CHANGES" =>
              \A c \in ChangesIn(b) : SortKey(c) <= target => Fine(c.object, b.cutoff)
    PROVE  RecoveryInv'
<1>1. RecoveryTypeOK /\ BackfillOK(b)
  BY DEF RecoveryInv
<1>2. PICK f : /\ f = IF last THEN [b EXCEPT !.phase = "DESTINATION", !.cursor = 0]
                      ELSE [b EXCEPT !.cursor = target]
               /\ backfill' = f
  BY DEF PageDone
<1>3. /\ f \in Backfills
      /\ f.cutoff = b.cutoff /\ f.repair = b.repair /\ f.through = b.through
      /\ f.verified = b.verified /\ f.after = b.after
      /\ f.phase = IF last THEN "DESTINATION" ELSE b.phase
      /\ f.cursor = IF last THEN 0 ELSE target
  <2>1. CASE last
    BY <1>2, <2>1 DEF Backfills
  <2>2. CASE ~last
    BY <1>2, <2>2 DEF Backfills
  <2> QED BY <2>1, <2>2
<1>4. BackfillOK(f)
  <2>1. ChangesIn(f) = ChangesIn(b)
    BY <1>3 DEF ChangesIn
  <2>2. CASE last
    BY <1>1, <1>3, <2>2 DEF BackfillOK
  <2>3. CASE ~last
    BY <1>1, <1>3, <2>1, <2>3 DEF BackfillOK
  <2> QED BY <2>2, <2>3
<1>5. /\ run' = NoRun /\ NoRun \in Runs /\ RunOK(f, NoRun)
      /\ events' \in Nat /\ failures' \in 0 .. MaxFailures
      /\ batch' \in [cutoff : Time \cup {Absent}, manifest : SUBSET Object,
                     status : {"New", "Active", "Complete", "Failed"}]
  BY <1>1, NoRunIs DEF PageDone, RecoveryTypeOK
<1> QED BY <1>2, <1>3, <1>4, <1>5, ReconcilerStep

\* What a version is expected to be held as.
LEMMA ExpectationIs ==
    ASSUME RecoveryTypeOK, NEW o \in Object
    PROVE  ExpectationAtCutoff(Projection(o)) \in HoldStatus \cup {Absent}
<1>1. "OFF" \in HoldStatus
  BY DEF HoldStatus
<1>2. CASE current[o] = 0
  BY <1>1, <1>2 DEF ExpectationAtCutoff, Projection
<1>3. CASE current[o] # 0
  <2>1. current[o] \in HoldOp
    BY <1>3, RecoveryConstants DEF RecoveryTypeOK, HoldOp
  <2>2. hold[current[o]].status \in HoldStatus
    BY <2>1 DEF RecoveryTypeOK, HoldChanges
  <2>3. Projection(o) = hold[current[o]]
    BY <1>3 DEF Projection
  <2> QED BY <1>1, <2>2, <2>3 DEF ExpectationAtCutoff
<1> QED BY <1>2, <1>3

\* A page that begins has no answer yet.
LEMMA PageOfIs ==
    ASSUME NEW target \in Nat, NEW last \in BOOLEAN,
           NEW expect \in HoldStatus \cup {Absent}, PageOf(target, last, expect)
    PROVE  /\ run' \in Runs /\ run'.pc = "heads" /\ run'.target = target
           /\ run'.last = last /\ run'.source = Absent /\ run'.source \notin HoldStatus
           /\ backfill' = backfill
<1>1. PICK r : /\ r = [NoRun EXCEPT !.pc = "heads", !.target = target, !.last = last,
                                    !.expect = expect]
               /\ run' = r
  BY DEF PageOf
<1>2. /\ r \in Runs /\ r.pc = "heads" /\ r.target = target /\ r.last = last
      /\ r.source = Absent
  BY <1>1 DEF Runs, NoRun
<1> QED BY <1>1, <1>2, RecoveryConstants DEF PageOf

LEMMA SourcePageStep ==
    ASSUME RecoveryInv, SourcePage
    PROVE  RecoveryInv'
<1>1. /\ RecoveryTypeOK /\ PublicationsOK /\ backfill # Absent
      /\ UNCHANGED <<now, storage, batch, events, failures, mishaps>>
      /\ backfill.phase = "SOURCE"
  BY DEF RecoveryInv, RunOK, SourcePage, RunAt, budget
<1>2. PICK b \in Backfills : b = backfill
  BY <1>1 DEF RecoveryTypeOK
<1>3. /\ BackfillOK(b) /\ b.phase = "SOURCE" /\ b.cursor \in Nat /\ b.cutoff \in Time
      /\ b.cutoff \in Int
  BY <1>1, <1>2, BackfillIs DEF RecoveryInv, Backfills
<1> DEFINE rest == {o \in Stored : o > b.cursor}
<1>4. CASE rest = {}
  <2>1. PageDone(0, TRUE)
    BY <1>2, <1>4 DEF SourcePage
  <2>2. \A o \in Object : StoredBy(o, b.cutoff) => Fine(o, b.cutoff)
    <3>1. ASSUME NEW o \in Object, StoredBy(o, b.cutoff) PROVE Fine(o, b.cutoff)
      <4>1. o \in Stored
        BY <3>1 DEF StoredBy, Stored
      <4>2. o <= b.cursor
        BY <1>3, <1>4, <4>1 DEF Object
      <4> QED BY <1>3, <3>1, <4>2 DEF BackfillOK
    <3> QED BY <3>1
  <2>3. AllFine(b.cutoff)
    BY <1>3, <2>2, SourceDone
  <2> QED BY <1>1, <1>2, <1>3, <2>1, <2>3, PageDoneStep
<1>5. CASE rest # {}
  <2>1. rest \in SUBSET Nat
    BY RecoveryConstants DEF Stored, Object
  <2>2. PICK o \in rest : o = Min(rest) /\ \A p \in rest : o <= p
    BY <1>5, <2>1, MinIs
  <2>3. o \in Object /\ o \in Nat /\ object[o].stored # Absent /\ o > b.cursor
    BY <2>1 DEF Stored
  <2>4. PICK last \in BOOLEAN : last = (rest = {o})
    OBVIOUS
  <2>5. /\ object[o].stored <= b.cutoff
              => PageOf(o, last, ExpectationAtCutoff(Projection(o)))
        /\ ~(object[o].stored <= b.cutoff) => PageDone(o, last)
    BY <1>2, <1>5, <2>2, <2>4 DEF SourcePage
  <2>6. ASSUME NEW p \in Object, StoredBy(p, b.cutoff) PROVE p <= b.cursor \/ p \in rest
    BY <1>3, <2>6 DEF StoredBy, Stored, Object
  <2>7. CASE object[o].stored <= b.cutoff
    <3>1. /\ run' \in Runs /\ run'.pc = "heads" /\ run'.target = o
          /\ run'.last = last /\ run'.source \notin HoldStatus /\ backfill' = backfill
      BY <1>1, <2>3, <2>5, <2>7, ExpectationIs, PageOfIs
    <3>2. PICK r \in Runs : r = run'
      BY <3>1
    <3>3. SourcePageOK(b, r)
      <4>1. r.target \in Object /\ StoredBy(r.target, b.cutoff)
        BY <2>3, <2>7, <3>1, <3>2 DEF StoredBy
      <4>2. ASSUME NEW p \in Object, StoredBy(p, b.cutoff), p < r.target PROVE p <= b.cursor
        BY <2>2, <2>3, <2>6, <3>1, <3>2, <4>2 DEF Object
      <4>3. ASSUME r.last, NEW p \in Object, StoredBy(p, b.cutoff) PROVE p <= r.target
        <5>1. r.target = o /\ rest = {o}
          BY <2>4, <3>1, <3>2, <4>3, Zenon
        <5>2. p <= b.cursor \/ p = o
          BY <2>6, <4>3, <5>1, Zenon
        <5> HIDE DEF rest
        <5> QED BY <1>3, <2>3, <5>1, <5>2 DEF Object
      <4> QED BY <3>1, <3>2, <4>1, <4>2, <4>3 DEF SourcePageOK
    <3>4. RunOK(backfill, run')
      BY <1>1, <1>2, <1>3, <3>1, <3>2, <3>3 DEF RunOK
    <3> QED BY <1>1, <3>1, <3>4, RowKept DEF RecoveryTypeOK
  <2>8. CASE ~(object[o].stored <= b.cutoff)
    <3>1. ~StoredBy(o, b.cutoff)
      BY <2>8 DEF StoredBy
    <3>2. ASSUME NEW p \in Object, StoredBy(p, b.cutoff), p <= o \/ last
          PROVE  Fine(p, b.cutoff)
      <4>1. p <= b.cursor
        <5>1. CASE last
          BY <2>4, <2>6, <3>1, <3>2, <5>1
        <5>2. CASE p <= o
          BY <2>2, <2>3, <2>6, <3>1, <3>2, <5>2 DEF Object
        <5> QED BY <3>2, <5>1, <5>2
      <4> QED BY <1>3, <3>2, <4>1 DEF BackfillOK
    <3>3. last => AllFine(b.cutoff)
      BY <1>3, <3>2, SourceDone
    <3>4. PageDone(o, last)
      BY <2>5, <2>8
    <3>5. ~last /\ b.phase = "SOURCE" =>
              \A p \in Object : StoredBy(p, b.cutoff) /\ p <= o => Fine(p, b.cutoff)
      BY <3>2
    <3>6. ~last /\ b.phase = "CHANGES" =>
              \A c \in ChangesIn(b) : SortKey(c) <= o => Fine(c.object, b.cutoff)
      BY <1>3
    <3>7. b # Absent /\ b.phase \in {"SOURCE", "CHANGES"}
      BY <1>1, <1>2, <1>3
    <3> HIDE DEF rest
    <3> QED BY <1>1, <1>2, <2>3, <3>3, <3>4, <3>5, <3>6, <3>7, PageDoneStep
  <2> QED BY <2>7, <2>8
<1> QED BY <1>4, <1>5

LEMMA ChangePageStep ==
    ASSUME RecoveryInv, ChangePage
    PROVE  RecoveryInv'
<1>1. /\ RecoveryTypeOK /\ PublicationsOK /\ backfill # Absent
      /\ UNCHANGED <<now, storage, batch, events, failures, mishaps>>
      /\ backfill.phase = "CHANGES"
  BY DEF RecoveryInv, RunOK, ChangePage, RunAt, budget
<1>2. PICK b \in Backfills : b = backfill
  BY <1>1 DEF RecoveryTypeOK
<1>3. /\ BackfillOK(b) /\ b.phase = "CHANGES" /\ b.cursor \in Nat /\ b.cutoff \in Time
  BY <1>1, <1>2 DEF RecoveryInv, Backfills
<1> DEFINE rest == {c \in Changes : /\ b.after < c.at /\ c.at <= b.cutoff
                                    /\ SortKey(c) > b.cursor}
<1>4. \A c \in ChangesIn(b) : c \in Changes /\ SortKey(c) \in Nat
                              /\ (SortKey(c) <= b.cursor \/ c \in rest)
  <2>1. ASSUME NEW c \in ChangesIn(b)
        PROVE  c \in Changes /\ SortKey(c) \in Nat /\ (SortKey(c) <= b.cursor \/ c \in rest)
    <3>1. c \in Changes /\ b.after < c.at /\ c.at <= b.cutoff
      BY DEF ChangesIn
    <3>2. SortKey(c) \in Nat
      BY <1>1, <3>1, KeysDiffer
    <3> QED BY <1>3, <3>1, <3>2
  <2> QED BY <2>1
<1>5. CASE rest = {}
  <2>1. PageDone(0, TRUE)
    BY <1>2, <1>5 DEF ChangePage
  <2>2. \A c \in ChangesIn(b) : Fine(c.object, b.cutoff)
    BY <1>3, <1>4, <1>5 DEF BackfillOK
  <2>3. AllFine(b.cutoff)
    BY <1>3, <2>2, ChangesDone
  <2>4. b # Absent /\ b.phase \in {"SOURCE", "CHANGES"}
    BY <1>1, <1>2, <1>3
  <2> HIDE DEF rest
  <2> QED BY <1>1, <1>2, <2>1, <2>3, <2>4, PageDoneStep
<1>6. CASE rest # {}
  <2>1. \A c \in rest : c \in Changes /\ SortKey(c) \in Nat
    BY <1>1, KeysDiffer
  <2>2. \E c \in rest : \A d \in rest : SortKey(c) <= SortKey(d)
    <3>1. PICK keys : keys = {SortKey(c) : c \in rest}
      OBVIOUS
    <3>2. keys \in SUBSET Nat /\ keys # {}
      BY <1>6, <2>1, <3>1
    <3>3. PICK n \in keys : \A m \in keys : n <= m
      BY <3>2, LeastExists
    <3> QED BY <3>1, <3>3
  <2>3. PICK c \in rest : /\ c = CHOOSE x \in rest : \A y \in rest : SortKey(x) <= SortKey(y)
                          /\ \A d \in rest : SortKey(c) <= SortKey(d)
    BY <2>2
  <2>4. PageOf(SortKey(c), FALSE, ChangeExpectation(c))
    BY <1>2, <1>6, <2>3 DEF ChangePage
  <2>5. ChangeExpectation(c) \in HoldStatus \cup {Absent}
    <3>1. c.object \in Object
      BY <1>1, <2>1, ChangeIs
    <3> QED BY <1>1, <3>1, ExpectationIs DEF ChangeExpectation
  <2>6. /\ run' \in Runs /\ run'.pc = "heads" /\ run'.target = SortKey(c)
        /\ run'.last = FALSE /\ run'.source \notin HoldStatus /\ backfill' = backfill
    BY <2>1, <2>4, <2>5, PageOfIs
  <2>7. PICK r \in Runs : r = run'
    BY <2>6
  <2>8. ChangePageOK(b, r)
    <3>1. c \in ChangesIn(b)
      BY DEF ChangesIn
    <3>2. ASSUME NEW d \in ChangesIn(b), SortKey(d) < r.target PROVE SortKey(d) <= b.cursor
      BY <1>4, <2>1, <2>3, <2>6, <2>7, <3>2
    <3> QED BY <2>6, <2>7, <3>1, <3>2 DEF ChangePageOK
  <2>9. RunOK(backfill, run')
    BY <1>1, <1>2, <1>3, <2>6, <2>7, <2>8 DEF RunOK
  <2> HIDE DEF rest
  <2> QED BY <1>1, <2>6, <2>9, RowKept DEF RecoveryTypeOK
<1> QED BY <1>5, <1>6

\* The version a page is about is the one its target names.
LEMMA TargetIs ==
    ASSUME RecoveryInv, RunAt("heads"), NEW b \in Backfills, b = backfill
    PROVE  /\ Target \in Object
           /\ b.phase = "SOURCE" => Target = run.target
           /\ b.phase = "CHANGES" =>
                 \E c \in ChangesIn(b) : /\ SortKey(c) = run.target /\ Target = c.object
                                         /\ c \in Changes
           /\ b.phase \in {"SOURCE", "CHANGES"}
           /\ run.source \in HoldStatus => Fine(Target, b.cutoff)
<1>1. /\ RecoveryTypeOK /\ b.phase \in {"SOURCE", "CHANGES"}
      /\ b.phase = "SOURCE" => SourcePageOK(b, run)
      /\ b.phase = "CHANGES" => ChangePageOK(b, run)
  BY DEF RecoveryInv, RunOK, RunAt
<1>2. CASE b.phase = "SOURCE"
  BY <1>1, <1>2 DEF Target, SourcePageOK
<1>3. CASE b.phase = "CHANGES"
  <2>1. PICK c \in ChangesIn(b) :
           /\ SortKey(c) = run.target
           /\ run.source \in HoldStatus => Fine(c.object, b.cutoff)
    BY <1>1, <1>3 DEF ChangePageOK
  <2>2. c \in Changes
    BY DEF ChangesIn
  <2>3. \A d \in Changes : SortKey(d) = run.target => d = c
    BY <1>1, <2>1, <2>2, KeysDiffer
  <2>4. (CHOOSE d \in Changes : SortKey(d) = run.target) = c
    BY <2>1, <2>2, <2>3
  <2>5. Target = c.object
    BY <1>3, <2>4 DEF Target
  <2>6. c.object \in Object
    BY <1>1, <2>2, ChangeIs
  <2> QED BY <1>3, <2>1, <2>2, <2>5, <2>6
<1> QED BY <1>1, <1>2, <1>3

\* An answer that completes a page's facts is true of the version.
LEMMA HeadStep ==
    ASSUME RecoveryInv, HeadSource \/ HeadReplica
    PROVE  RecoveryInv'
<1>1. /\ RecoveryTypeOK /\ PublicationsOK /\ RunAt("heads") /\ backfill # Absent
      /\ UNCHANGED <<now, storage, backfill, batch, events, failures, mishaps>>
  BY DEF RecoveryInv, RunOK, HeadSource, HeadReplica, RunAt, budget
<1>2. PICK b \in Backfills : b = backfill
  BY <1>1 DEF RecoveryTypeOK
<1>3. PICK q \in Runs : q = run
  BY <1>1 DEF RecoveryTypeOK
<1>4. Target \in Object
  BY <1>1, <1>2, TargetIs
<1>5. PICK w \in Versions : w = object[Target]
  BY <1>1, <1>4 DEF RecoveryTypeOK
<1>6. PICK r \in Runs :
        /\ run' = r /\ r.pc = "heads" /\ r.target = q.target /\ r.last = q.last
        /\ r.source \in HoldStatus => Fine(Target, b.cutoff)
  <2>1. CASE HeadSource
    <3>1. PICK s : /\ s = IF w.replication = "COMPLETED" THEN w.hold ELSE "incomplete"
                   /\ run' = [q EXCEPT !.source = s]
      BY <1>3, <1>5, <2>1 DEF HeadSource
    <3>2. s \in HoldStatus \cup {"incomplete", Absent}
      BY <3>1 DEF Versions
    <3>3. PICK r : r = [q EXCEPT !.source = s]
      OBVIOUS
    <3>4. r \in Runs /\ r.pc = q.pc /\ r.target = q.target /\ r.last = q.last /\ r.source = s
      BY <3>2, <3>3 DEF Runs
    <3>5. ASSUME s \in HoldStatus PROVE Fine(Target, b.cutoff)
      <4>1. w.replication = "COMPLETED"
        BY <3>1, <3>5 DEF HoldStatus
      <4>2. w.replica = w.hold /\ w.hold # Absent
        BY <1>1, <1>4, <1>5, <4>1, RecoveryConstants DEF PublicationsOK, Versions
      <4>3. \A k \in HoldOp : LatestOp(k, Target) => w.hold = hold[k].status
        BY <1>1, <1>4, <1>5 DEF PublicationsOK
      <4> QED BY <1>5, <4>2, <4>3 DEF Fine
    <3> QED BY <1>1, <1>3, <3>1, <3>3, <3>4, <3>5 DEF RunAt
  <2>2. CASE HeadReplica
    <3>1. PICK s : /\ s = IF w.replica = Absent THEN "missing" ELSE w.replica
                   /\ run' = [q EXCEPT !.replica = s]
      BY <1>3, <1>5, <2>2 DEF HeadReplica
    <3>2. s \in HoldStatus \cup {"missing", Absent}
      BY <3>1 DEF Versions
    <3>3. PICK r : r = [q EXCEPT !.replica = s]
      OBVIOUS
    <3>4. r \in Runs /\ r.pc = q.pc /\ r.target = q.target /\ r.last = q.last
          /\ r.source = q.source
      BY <3>2, <3>3 DEF Runs
    <3>5. q.source \in HoldStatus => Fine(Target, b.cutoff)
      BY <1>1, <1>2, <1>3, TargetIs
    <3> QED BY <1>1, <1>3, <3>1, <3>3, <3>4, <3>5 DEF RunAt
  <2> QED BY <2>1, <2>2
<1>7. RunOK(b, r)
  <2>1. /\ b.phase = "SOURCE" => SourcePageOK(b, q)
        /\ b.phase = "CHANGES" => ChangePageOK(b, q)
        /\ b.phase \in {"SOURCE", "CHANGES"}
    BY <1>1, <1>2, <1>3 DEF RecoveryInv, RunOK, RunAt
  <2>2. ASSUME b.phase = "SOURCE" PROVE SourcePageOK(b, r)
    <3>1. Target = q.target
      BY <1>1, <1>2, <1>3, <2>2, TargetIs
    <3> QED BY <1>6, <2>1, <2>2, <3>1 DEF SourcePageOK
  <2>3. ASSUME b.phase = "CHANGES" PROVE ChangePageOK(b, r)
    <3>1. \E c \in ChangesIn(b) : SortKey(c) = q.target /\ Target = c.object
      BY <1>1, <1>2, <1>3, <2>3, TargetIs
    <3> QED BY <1>6, <2>1, <2>3, <3>1 DEF ChangePageOK
  <2> QED BY <1>1, <1>2, <2>1, <2>2, <2>3 DEF RunOK
<1>8. run' \in Runs /\ RunOK(backfill, run')
  BY <1>2, <1>6, <1>7
<1> QED BY <1>1, <1>8, RowKept DEF RecoveryTypeOK

LEMMA SavePageStep ==
    ASSUME RecoveryInv, SavePage
    PROVE  RecoveryInv'
<1>1. /\ RecoveryTypeOK /\ RunAt("heads") /\ backfill # Absent
      /\ UNCHANGED <<now, storage, batch, events, failures, mishaps>>
  BY DEF RecoveryInv, RunOK, SavePage, RunAt, budget
<1>2. CASE ~(ReceiptPublished /\ ReplicaMatches)
  BY <1>1, <1>2, FailedStep DEF SavePage
<1>3. CASE ReceiptPublished /\ ReplicaMatches
  <2>1. PICK b \in Backfills : b = backfill
    BY <1>1 DEF RecoveryTypeOK
  <2>2. PICK target \in Nat, last \in BOOLEAN : target = run.target /\ last = run.last
    BY <1>1 DEF RecoveryTypeOK, Runs
  <2>3. /\ PageDone(target, last) /\ Fine(Target, b.cutoff)
        /\ b.phase \in {"SOURCE", "CHANGES"} /\ BackfillOK(b)
        /\ b.cutoff \in Time /\ b.cursor \in Nat
    BY <1>1, <1>3, <2>1, <2>2, TargetIs
       DEF SavePage, ReplicaMatches, RecoveryInv, Backfills
  <2>4. CASE b.phase = "SOURCE"
    <3>1. SourcePageOK(b, run) /\ Target = target
      BY <1>1, <2>1, <2>2, <2>4, TargetIs DEF RecoveryInv, RunOK, RunAt
    <3>2. ASSUME NEW o \in Object, StoredBy(o, b.cutoff), o <= target PROVE Fine(o, b.cutoff)
      <4>1. CASE o = target
        BY <2>3, <3>1, <4>1
      <4>2. CASE o < target
        <5>1. o <= b.cursor
          BY <2>2, <3>1, <3>2, <4>2 DEF SourcePageOK
        <5> QED BY <2>3, <2>4, <3>2, <5>1 DEF BackfillOK
      <4> QED BY <3>2, <4>1, <4>2 DEF Object
    <3>3. ASSUME last PROVE AllFine(b.cutoff)
      <4>1. \A o \in Object : StoredBy(o, b.cutoff) => o <= target
        BY <2>2, <3>1, <3>3 DEF SourcePageOK
      <4> QED BY <2>3, <3>2, <4>1, SourceDone
    <3> QED BY <1>1, <2>1, <2>3, <2>4, <3>2, <3>3, PageDoneStep
  <2>5. CASE b.phase = "CHANGES"
    <3>1. ChangePageOK(b, run) /\ ~last
      BY <1>1, <2>1, <2>2, <2>5 DEF RecoveryInv, RunOK, RunAt, ChangePageOK
    <3>2. PICK c \in ChangesIn(b) : SortKey(c) = target /\ Target = c.object /\ c \in Changes
      BY <1>1, <2>1, <2>2, <2>5, TargetIs
    <3>3. ASSUME NEW d \in ChangesIn(b), SortKey(d) <= target PROVE Fine(d.object, b.cutoff)
      <4>1. d \in Changes /\ SortKey(d) \in Nat
        BY <1>1, KeysDiffer DEF ChangesIn
      <4>2. CASE SortKey(d) = target
        <5>1. d = c
          BY <1>1, <3>2, <4>1, <4>2, KeysDiffer
        <5> QED BY <2>3, <3>2, <5>1
      <4>3. CASE SortKey(d) < target
        <5>1. SortKey(d) <= b.cursor
          BY <2>2, <3>1, <4>3 DEF ChangePageOK
        <5> QED BY <2>3, <2>5, <5>1 DEF BackfillOK
      <4> QED BY <3>3, <4>1, <4>2, <4>3
    <3> QED BY <1>1, <2>1, <2>3, <2>5, <3>1, <3>3, PageDoneStep
  <2> QED BY <2>3, <2>4, <2>5
<1> QED BY <1>2, <1>3

LEMMA DestinationStep ==
    ASSUME RecoveryInv, DestinationPage
    PROVE  RecoveryInv'
<1>1. /\ RecoveryTypeOK /\ backfill # Absent /\ RunTo("idle")
      /\ UNCHANGED <<now, storage, batch, events, failures, mishaps>>
      /\ backfill.phase = "DESTINATION"
  BY DEF RecoveryInv, RunOK, DestinationPage, RunAt, budget
<1>2. PICK b \in Backfills : b = backfill
  BY <1>1 DEF RecoveryTypeOK
<1>3. /\ BackfillOK(b) /\ b.phase = "DESTINATION" /\ b.cutoff \in Time
      /\ b.cutoff \in Int /\ now \in Int /\ b.cutoff < now /\ AllFine(b.cutoff)
      /\ b.repair # Absent => b.cutoff <= b.repair
  BY <1>1, <1>2, BackfillIs DEF RecoveryInv, Backfills, BackfillOK
<1>4. run' \in Runs /\ \A g : RunOK(g, run')
  BY <1>1, RunToIs
<1>5. PICK r \in Runs : r = run'
  BY <1>4
<1>6. PICK f \in Backfills : backfill' = f /\ BackfillOK(f)
  <2>1. CASE Cardinality(Inventory) > 1
    <3>1. Inventory # {} /\ Inventory \in SUBSET Nat
      BY <2>1, FS_EmptySet DEF Inventory, Object
    <3>2. PICK m \in Nat : m = Min(Inventory)
      BY <3>1, MinIs
    <3>3. PICK f : f = [b EXCEPT !.cursor = m]
      OBVIOUS
    <3>4. backfill' = f
      BY <1>2, <2>1, <3>2, <3>3 DEF DestinationPage
    <3>5. /\ f \in Backfills
          /\ f.cutoff = b.cutoff /\ f.repair = b.repair /\ f.through = b.through
          /\ f.verified = b.verified /\ f.phase = b.phase /\ f.after = b.after
      BY <3>3 DEF Backfills
    <3>6. BackfillOK(f)
      BY <1>3, <3>5 DEF BackfillOK
    <3> QED BY <3>4, <3>5, <3>6
  <2>2. CASE ~(Cardinality(Inventory) > 1)
    <3>1. PICK f : f = [b EXCEPT !.phase = "COMPLETE", !.verified = TRUE, !.cursor = 0,
                                 !.through = b.cutoff, !.after = Absent]
      OBVIOUS
    <3>2. backfill' = f
      BY <1>2, <2>2, <3>1 DEF DestinationPage
    <3>3. /\ f \in Backfills /\ f.cutoff = b.cutoff /\ f.repair = b.repair
          /\ f.through = b.cutoff /\ f.phase = "COMPLETE"
      BY <1>3, <3>1 DEF Backfills
    <3>4. BackfillOK(f)
      BY <1>3, <3>3 DEF BackfillOK
    <3> QED BY <3>2, <3>3, <3>4
  <2> QED BY <2>1, <2>2
<1>7. RunOK(f, r) /\ run' = r
  BY <1>4, <1>5
<1> QED BY <1>1, <1>6, <1>7, ReconcilerStep DEF RecoveryTypeOK

LEMMA FailStep ==
    ASSUME RecoveryInv, Fail
    PROVE  RecoveryInv'
<1>1. /\ RecoveryTypeOK /\ Mishap /\ UNCHANGED <<now, storage, batch, events, failures>>
  BY DEF RecoveryInv, Fail
<1>2. CASE backfill # Absent /\ Failed
  BY <1>1, <1>2, FailedStep
<1>3. CASE run' = NoRun /\ UNCHANGED backfill
  <2>1. run' \in Runs /\ RunOK(backfill, run')
    BY <1>3, NoRunIs
  <2> QED BY <1>1, <1>3, <2>1, RowKept DEF RecoveryTypeOK
<1> QED BY <1>2, <1>3 DEF Fail

LEMMA FailureEventStep ==
    ASSUME RecoveryInv, HandleFailureEvent
    PROVE  RecoveryInv'
<1>1. /\ RecoveryTypeOK /\ RunAt("idle") /\ events > 0 /\ events \in Nat
      /\ UNCHANGED <<now, storage, batch, run, failures>>
      /\ now \in Time /\ now \in Int
  BY RecoveryConstants DEF RecoveryInv, RecoveryTypeOK, HandleFailureEvent, Time
<1>2. PICK b : b = IF backfill = Absent THEN Reserved ELSE backfill
  OBVIOUS
<1>3. b \in Backfills /\ BackfillOK(b)
  <2>1. CASE backfill = Absent
    BY <1>1, <1>2, <2>1, ReservedIs
  <2>2. CASE backfill # Absent
    BY <1>2, <2>2 DEF RecoveryInv, RecoveryTypeOK
  <2> QED BY <2>1, <2>2
<1>4. PICK r \in Runs : r = run
  BY <1>1 DEF RecoveryTypeOK
<1>5. \A g : RunOK(g, r)
  BY <1>1, <1>4 DEF RunOK, RunAt
<1>6. CASE /\ backfill' = [b EXCEPT !.repair = now, !.creating = FALSE]
           /\ events' = events - 1
           /\ UNCHANGED mishaps
  <2>1. PICK t \in Time : t = now
    BY <1>1
  <2>2. PICK f : f = [b EXCEPT !.repair = t, !.creating = FALSE]
    OBVIOUS
  <2>3. /\ f \in Backfills /\ f.repair = t
        /\ f.cutoff = b.cutoff /\ f.through = b.through
        /\ f.verified = b.verified /\ f.phase = b.phase /\ f.cursor = b.cursor
        /\ f.after = b.after
    BY <1>3, <2>2 DEF Backfills
  <2>4. f.cutoff < now /\ f.cutoff <= f.repair
    BY <1>1, <1>3, <2>1, <2>3, BackfillIs DEF BackfillOK
  <2>5. BackfillOK(f)
    BY <1>3, <2>3, <2>4 DEF BackfillOK, ChangesIn
  <2>6. backfill' = f /\ events' \in Nat
    BY <1>1, <1>6, <2>1, <2>2
  <2> QED BY <1>1, <1>4, <1>5, <1>6, <2>3, <2>5, <2>6, ReconcilerStep DEF RecoveryTypeOK
<1>7. CASE backfill' = b /\ Mishap /\ UNCHANGED events
  BY <1>1, <1>3, <1>4, <1>5, <1>7, ReconcilerStep DEF RecoveryTypeOK
<1> QED BY <1>2, <1>6, <1>7 DEF HandleFailureEvent

-----------------------------------------------------------------------------
(* The theorems.                                                            *)

LEMMA RecoveryInitially ==
    ASSUME RecoveryInit
    PROVE  RecoveryInv
<1>1. RecoveryTypeOK
  <2>1. object \in [Object -> Versions]
    BY RecoveryConstants DEF RecoveryInit, Versions, HoldStatus, Time
  <2>2. promotion \in [Object -> Publications]
    <3>1. \A s \in {"visible", "none"} : [NotPublished EXCEPT !.state = s] \in Publications
      <4>1. 0 \in Time
        BY RecoveryConstants DEF Time
      <4> QED BY <4>1 DEF NotPublished, Publications, States
    <3> QED BY <3>1 DEF RecoveryInit
  <2>3. hold \in [HoldOp -> HoldChanges]
    <3>1. [object |-> 1, status |-> "ON", state |-> "none", at |-> 0, prior |-> 0] \in HoldChanges
      BY RecoveryConstants DEF HoldChanges, HoldStatus, States, Object
    <3> QED BY <3>1 DEF RecoveryInit
  <2>4. current \in [Object -> 0 .. MaxTroubles]
    BY RecoveryConstants DEF RecoveryInit
  <2>5. /\ now \in Settle .. MaxTime /\ run \in Runs
        /\ batch \in [cutoff : Time \cup {Absent}, manifest : SUBSET Object,
                      status : {"New", "Active", "Complete", "Failed"}]
        /\ events \in Nat /\ failures \in 0 .. MaxFailures /\ mishaps \in 0 .. MaxTroubles
    <3>1. run \in Runs
      BY NoRunIs DEF RecoveryInit
    <3>2. batch \in [cutoff : Time \cup {Absent}, manifest : SUBSET Object,
                     status : {"New", "Active", "Complete", "Failed"}]
      BY DEF RecoveryInit
    <3>3. /\ now \in Settle .. MaxTime
          /\ events \in Nat /\ failures \in 0 .. MaxFailures /\ mishaps \in 0 .. MaxTroubles
      BY RecoveryConstants DEF RecoveryInit
    <3> QED BY <3>1, <3>2, <3>3
  <2> QED BY <2>1, <2>2, <2>3, <2>4, <2>5 DEF RecoveryTypeOK, RecoveryInit
<1>2. PublicationsOK
  <2>1. \A k \in HoldOp : hold[k].state = "none" /\ hold[k].at = 0
    BY DEF RecoveryInit
  <2>2. \A k \in HoldOp, o \in Object : ~LatestOp(k, o)
    BY <2>1 DEF LatestOp, Applied
  <2>3. ASSUME NEW k \in HoldOp PROVE hold[k].at <= MaxTime + k
    BY <2>1, RecoveryConstants DEF HoldOp
  <2>4. ASSUME NEW o \in Object
        PROVE  /\ promotion[o].at = 0
               /\ promotion[o].state = IF o \in Existing THEN "visible" ELSE "none"
               /\ object[o].stored = IF o \in Existing THEN 0 ELSE Absent
               /\ object[o].replication = "NONE" /\ now = Settle
    BY DEF RecoveryInit, NotPublished
  <2>5. ASSUME NEW o \in Object
        PROVE  /\ object[o].stored # Absent => object[o].stored <= now
               /\ object[o].replication = "COMPLETED" => object[o].replica = object[o].hold
               /\ promotion[o].state # "none" => object[o].stored # Absent
               /\ promotion[o].state \in {"flying", "visible"} => object[o].stored <= promotion[o].at
               /\ promotion[o].state = "flying" => now <= promotion[o].at + Window
    <3>1. 0 # Absent
      BY RecoveryConstants DEF Time
    <3> QED BY <2>4, <3>1, RecoveryConstants
  <2> QED BY <2>1, <2>2, <2>3, <2>5 DEF PublicationsOK
<1>3. backfill = Absent /\ RunOK(backfill, run)
  BY NoRunIs DEF RecoveryInit
<1> QED BY <1>1, <1>2, <1>3 DEF RecoveryInv

\* The invariant of the recovery copies is inductive.
LEMMA RecoveryKept ==
    ASSUME RecoveryInv, [RecoveryNext]_recoveryVars
    PROVE  RecoveryInv'
<1>1. CASE UNCHANGED recoveryVars
  <2>1. /\ UNCHANGED <<now, storage, backfill, run>>
        /\ UNCHANGED <<batch, events, failures, mishaps>>
    BY <1>1 DEF recoveryVars, storage
  <2>2. RecoveryTypeOK /\ PublicationsOK
    BY DEF RecoveryInv
  <2>3. PublicationsOK' /\ Kept
    BY <2>1, <2>2, StillStep
  <2>4. RecoveryTypeOK'
    BY <2>1, <2>2 DEF RecoveryTypeOK, storage
  <2> QED BY <2>1, <2>3, <2>4, OthersStep
<1>2. CASE Step
  BY <1>2, StartStep, CreateJobStep, BindStep, DescribeStep, SourcePageStep, ChangePageStep,
     HeadStep, SavePageStep, DestinationStep DEF Step
<1>3. CASE Fail
  BY <1>3, FailStep
<1>4. CASE HandleFailureEvent
  BY <1>4, FailureEventStep
<1>5. CASE \/ \E o \in Object : \/ Store(o) \/ PublishPromotion(o) \/ PromotionVisible(o)
                                \/ Replicate(o) \/ ReplicationFails(o)
           \/ \E k \in HoldOp : \/ \E o \in Object : ApplyHold(k, o)
                                \/ PublishHold(k) \/ HoldVisible(k)
           \/ AttemptLost \/ Tick \/ GenerateManifest \/ FinishJob
  BY <1>5, StorageStep
<1> QED BY <1>1, <1>2, <1>3, <1>4, <1>5 DEF RecoveryNext

LEMMA RecoveryInvariant == RecoverySpec => []RecoveryInv
<1>1. RecoveryInit => RecoveryInv
  BY RecoveryInitially
<1>2. RecoveryInv /\ [RecoveryNext]_recoveryVars => RecoveryInv'
  BY RecoveryKept
<1> QED BY <1>1, <1>2, PTL DEF RecoverySpec

\* What the watermark says is so: whatever was published up to verifiedThrough
\* has a copy with the hold published by then, for any number of versions, hold
\* changes and failures and any settling time longer than a publication takes.
THEOREM WatermarkCorrect == RecoverySpec => []WatermarkCoversLedger
<1>1. RecoveryInv => WatermarkCoversLedger
  <2> SUFFICES ASSUME RecoveryInv PROVE WatermarkCoversLedger
    OBVIOUS
  <2>1. RecoveryTypeOK
    BY DEF RecoveryInv
  <2>2. ASSUME NEW o \in Object, promotion[o].state = "visible", Covered(promotion[o].at)
        PROVE  /\ object[o].replica # Absent
               /\ \A k \in HoldOp : /\ LatestOp(k, o) /\ hold[k].state = "visible"
                                    /\ Covered(hold[k].at)
                     => object[o].replica = hold[k].status
    <3>1. backfill # Absent /\ backfill.through # Absent /\ Through = backfill.through
      BY <2>2 DEF Covered, Through
    <3>2. AllFine(Through)
      BY <3>1 DEF RecoveryInv, BackfillOK
    <3>3. Fine(o, Through)
      BY <2>2, <3>2 DEF AllFine, Out, Covered
    <3> QED BY <3>3 DEF Fine, Out, Covered
  <2> QED BY <2>1, <2>2 DEF WatermarkCoversLedger
<1> QED BY <1>1, RecoveryInvariant, PTL

\* A generation that is not verified keeps the watermark of the last, and one
\* that is moves it to its own cutoff, which is not earlier.
THEOREM WatermarkForward == RecoverySpec => WatermarkMonotone
<1>1. ASSUME RecoveryInv, [RecoveryNext]_recoveryVars, Through # Absent
      PROVE  Through' # Absent /\ Through' >= Through
  <2>1. /\ RecoveryTypeOK /\ backfill # Absent /\ Through = backfill.through
    BY <1>1 DEF RecoveryInv, Through
  <2>2. PICK b \in Backfills : b = backfill
    BY <2>1 DEF RecoveryTypeOK
  <2>3. /\ b.through \in Int /\ b.through # Absent /\ b # Absent
        /\ b.cutoff \in Int /\ b.cutoff \in Time /\ b.cutoff # Absent /\ b.through <= b.cutoff
    <3>1. b.cutoff \in Time /\ b.through <= b.cutoff
      BY <1>1, <2>1, <2>2 DEF RecoveryInv, BackfillOK, Backfills
    <3> QED BY <1>1, <2>1, <2>2, <3>1, BackfillIs, RecoveryConstants
  <2>4. ASSUME NEW f \in Backfills, backfill' = f, f.through \in {b.through, b.cutoff}
        PROVE  Through' # Absent /\ Through' >= Through
    <3>1. f # Absent
      BY AbsentAssumption DEF AbsentAssumption
    <3>2. Through' = f.through
      BY <2>4, <3>1 DEF Through
    <3> QED BY <2>1, <2>2, <2>3, <2>4, <3>2
  <2>5. ASSUME NEW f, f = [b EXCEPT !.creating = FALSE], backfill' = f
        PROVE  Through' # Absent /\ Through' >= Through
    <3>1. f \in Backfills /\ f.through = b.through
      BY <2>5 DEF Backfills
    <3> QED BY <2>4, <2>5, <3>1
  <2>6. CASE UNCHANGED backfill
    BY <2>2, <2>4, <2>6
  <2>7. CASE backfill' = RepairGeneration /\ backfill.repair # Absent
    <3>1. backfill.repair \in Time
      BY <2>2, <2>7 DEF Backfills
    <3>2. RepairGeneration \in Backfills /\ RepairGeneration.through = b.through
      BY <2>1, <2>2, <3>1, NewGenerationIs DEF RepairGeneration
    <3> QED BY <2>4, <2>7, <3>2
  <2>8. CASE Start
    <3>1. CASE ShouldRotateRepair
      BY <2>1, <2>7, <2>8, <3>1 DEF Start, ShouldRotateRepair
    <3>2. CASE ~ShouldRotateRepair /\ ShouldStartPeriodic
      <4>1. PICK c : c = RecoveryLedgerCutoff(now)
        OBVIOUS
      <4>2. c \in Time
        BY <2>1, <4>1, RecoveryConstants DEF RecoveryTypeOK, RecoveryLedgerCutoff, Time
      <4>3. b.through \in Time \cup {Absent}
        BY DEF Backfills
      <4>4. PeriodicGeneration \in Backfills /\ PeriodicGeneration.through = b.through
        BY <2>1, <2>2, <4>1, <4>2, <4>3, NewGenerationIs DEF PeriodicGeneration
      <4>5. backfill' = PeriodicGeneration
        BY <2>1, <2>8, <3>2 DEF Start
      <4> QED BY <2>4, <4>4, <4>5
    <3>3. CASE ~ShouldRotateRepair /\ ~ShouldStartPeriodic
      BY <2>1, <2>6, <2>8, <3>3 DEF Start
    <3> QED BY <3>1, <3>2, <3>3
  <2>9. CASE Failed
    BY <2>2, <2>5, <2>9 DEF Failed
  <2>10. CASE Bind
    <3>1. CASE ~backfill.creating
      BY <2>9, <2>10, <3>1 DEF Bind
    <3>2. CASE backfill.creating
      <4>1. PICK c \in Time \cup {Absent} : c = batch.cutoff
        BY <2>1 DEF RecoveryTypeOK
      <4>2. PICK f : f = [b EXCEPT !.creating = FALSE, !.job = c]
        OBVIOUS
      <4>3. f \in Backfills /\ f.through = b.through
        BY <4>2 DEF Backfills
      <4>4. backfill' = f
        BY <2>2, <2>10, <3>2, <4>1, <4>2 DEF Bind
      <4> QED BY <2>4, <4>3, <4>4
    <3> QED BY <3>1, <3>2
  <2>11. CASE Describe
    <3>1. CASE backfill' = Recorded
      <4>1. PICK s \in {"Active", "Complete", "Failed"} : s = JobStatus
        BY <2>1 DEF RecoveryTypeOK, JobStatus
      <4>2. PICK f : f = [b EXCEPT !.batch = s, !.creating = FALSE]
        OBVIOUS
      <4>3. f \in Backfills /\ f.through = b.through
        BY <4>2 DEF Backfills
      <4>4. backfill' = f
        BY <2>2, <3>1, <4>1, <4>2 DEF Recorded
      <4> QED BY <2>4, <4>3, <4>4
    <3> QED BY <2>7, <2>11, <3>1 DEF Describe
  <2>12. ASSUME NEW target \in Nat, NEW last \in BOOLEAN, PageDone(target, last)
         PROVE  Through' # Absent /\ Through' >= Through
    <3>1. PICK f : /\ f = IF last THEN [b EXCEPT !.phase = "DESTINATION", !.cursor = 0]
                          ELSE [b EXCEPT !.cursor = target]
                   /\ backfill' = f
      BY <2>2, <2>12 DEF PageDone
    <3>2. f \in Backfills /\ f.through = b.through
      <4>1. CASE last
        BY <3>1, <4>1 DEF Backfills
      <4>2. CASE ~last
        BY <3>1, <4>2 DEF Backfills
      <4> QED BY <4>1, <4>2
    <3> QED BY <2>4, <3>1, <3>2
  <2>13. CASE SourcePage
    <3> DEFINE rest == {o \in Stored : o > backfill.cursor}
    <3>1. CASE rest = {}
      BY <2>12, <2>13, <3>1 DEF SourcePage
    <3>2. CASE rest # {}
      <4>1. rest \in SUBSET Nat
        BY RecoveryConstants DEF Stored, Object
      <4>2. PICK o \in Nat : o = Min(rest)
        BY <3>2, <4>1, MinIs
      <4>3. PICK last \in BOOLEAN : last = (rest = {o})
        OBVIOUS
      <4>4. backfill' = backfill \/ PageDone(o, last)
        BY <2>13, <3>2, <4>2, <4>3 DEF SourcePage, PageOf
      <4> HIDE DEF rest
      <4> QED BY <2>6, <2>12, <4>4
    <3> QED BY <3>1, <3>2
  <2>14. CASE ChangePage
    <3>1. backfill' = backfill \/ PageDone(0, TRUE)
      BY <2>14 DEF ChangePage, PageOf
    <3> QED BY <2>6, <2>12, <3>1
  <2>15. CASE SavePage
    <3>1. run.target \in Nat /\ run.last \in BOOLEAN
      BY <2>1 DEF RecoveryTypeOK, Runs
    <3> QED BY <2>9, <2>12, <2>15, <3>1 DEF SavePage
  <2>16. CASE DestinationPage
    <3>1. CASE Cardinality(Inventory) > 1
      <4>1. Inventory # {} /\ Inventory \in SUBSET Nat
        BY <3>1, FS_EmptySet DEF Inventory, Object
      <4>2. PICK m \in Nat : m = Min(Inventory)
        BY <4>1, MinIs
      <4>3. PICK f : f = [b EXCEPT !.cursor = m]
        OBVIOUS
      <4>4. f \in Backfills /\ f.through = b.through
        BY <4>3 DEF Backfills
      <4>5. backfill' = f
        BY <2>2, <2>16, <3>1, <4>2, <4>3 DEF DestinationPage
      <4> QED BY <2>4, <4>4, <4>5
    <3>2. CASE ~(Cardinality(Inventory) > 1)
      <4>1. PICK f : f = [b EXCEPT !.phase = "COMPLETE", !.verified = TRUE, !.cursor = 0,
                                   !.through = b.cutoff, !.after = Absent]
        OBVIOUS
      <4>2. f \in Backfills /\ f.through = b.cutoff
        BY <2>3, <4>1 DEF Backfills
      <4>3. backfill' = f
        BY <2>2, <2>16, <3>2, <4>1 DEF DestinationPage
      <4> QED BY <2>4, <4>2, <4>3
    <3> QED BY <3>1, <3>2
  <2>17. CASE Fail
    BY <2>6, <2>9, <2>17 DEF Fail
  <2>18. CASE HandleFailureEvent
    <3>1. CASE backfill' = [b EXCEPT !.repair = now, !.creating = FALSE]
      <4>1. PICK t \in Time : t = now
        BY <2>1, RecoveryConstants DEF RecoveryTypeOK, Time
      <4>2. PICK f : f = [b EXCEPT !.repair = t, !.creating = FALSE]
        OBVIOUS
      <4>3. f \in Backfills /\ f.through = b.through
        BY <4>2 DEF Backfills
      <4> QED BY <2>4, <3>1, <4>1, <4>2, <4>3
    <3> QED BY <2>1, <2>2, <2>6, <2>18, <3>1 DEF HandleFailureEvent
  <2>19. CASE UNCHANGED recoveryVars
    BY <2>6, <2>19 DEF recoveryVars
  <2>20. CASE CreateJob \/ HeadSource \/ HeadReplica
    BY <2>6, <2>20 DEF CreateJob, HeadSource, HeadReplica
  <2>21. CASE \/ \E o \in Object : \/ Store(o) \/ PublishPromotion(o) \/ PromotionVisible(o)
                                   \/ Replicate(o) \/ ReplicationFails(o)
              \/ \E k \in HoldOp : \/ \E o \in Object : ApplyHold(k, o)
                                   \/ PublishHold(k) \/ HoldVisible(k)
              \/ AttemptLost \/ Tick \/ GenerateManifest \/ FinishJob
    <3>1. UNCHANGED backfill
      BY <2>21 DEF Store, PublishPromotion, PromotionVisible, Replicate, ReplicationFails,
                   ApplyHold, PublishHold, HoldVisible, AttemptLost, Tick, GenerateManifest,
                   FinishJob
    <3> QED BY <2>6, <3>1
  <2> QED BY <1>1, <2>8, <2>10, <2>11, <2>13, <2>14, <2>15, <2>16, <2>17, <2>18, <2>19, <2>20,
             <2>21 DEF RecoveryNext, Step
<1>2. RecoveryInv /\ [RecoveryNext]_recoveryVars
         => [Through # Absent => Through' # Absent /\ Through' >= Through]_recoveryVars
  BY <1>1
<1> QED BY <1>2, RecoveryInvariant, PTL DEF RecoverySpec, WatermarkMonotone
==============================================================================
