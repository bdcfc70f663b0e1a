------------------------------ MODULE LegalHolds ------------------------------
(***************************************************************************)
(* Legal holds on one exact S3 object version (AWS runtime).               *)
(*                                                                         *)
(* A hold change is a row of legal_hold_operations that an administrator   *)
(* requests and a second one approves through the API; the scheduled       *)
(* worker of the tenant then makes the change in S3, confirms it in        *)
(* Aurora, commits a signed audit event and publishes the change to the    *)
(* recovery ledger in DynamoDB.  Aurora, S3 and DynamoDB share no          *)
(* transaction: every worker step below is one call, its answer may be     *)
(* lost, and the worker may die between any two of them.                   *)
(*                                                                         *)
(* The worker's reserved concurrency is 1 and its rows wait at least 60 s  *)
(* before they are listed, so a PutObjectLegalHold whose caller gave up    *)
(* lands, if at all, before the next sweep lists the row (late).           *)
(***************************************************************************)
EXTENDS Integers, FiniteSets

CONSTANTS
    MaxOps,     \* bound: hold operations requested
    Hold,       \* identifiers of holds
    None,       \* no hold, no status, no operation
    MaxFaults,  \* bound: lost answers, failed calls and worker deaths
    MaxDrift    \* bound: changes of the S3 hold outside the workflow

ASSUME ConstantsAssumption ==
    /\ MaxOps \in Nat \ {0} /\ MaxFaults \in Nat /\ MaxDrift \in Nat
    /\ None \notin Hold /\ None \notin 1 .. MaxOps /\ None \notin {"ON", "OFF"}

\* Operations, numbered in the order of their requests.  That the approver is
\* another administrator than the requester compares two inputs of one call and
\* is left out with the users.
Op == 1 .. MaxOps

VARIABLES
    row,        \* [Op -> the operation's row in Aurora]
    holds,      \* [Hold -> its row: none, active or released]
    apiEvents,  \* API audit events recorded with the request and the approval
    audited,    \* operations whose signed audit event is committed
    s3,         \* the legal-hold status of the object version
    ledger,     \* the recovery ledger: publications and current projection
    clock,      \* applications so far: the database's applied_at
    worker,     \* the scheduled worker's progress
    late,       \* status of a put its caller gave up on, still on its way
    faults, drift

vars == <<row, holds, apiEvents, audited, s3, ledger, clock, worker, late,
          faults, drift>>
database == <<row, holds, apiEvents, audited, clock>>

Status == {"ON", "OFF"}
Opposite(status) == IF status = "ON" THEN "OFF" ELSE "ON"
Pending == {"REQUESTED", "APPROVED", "APPLYING"}

Rows == [state : {"none", "EXPIRED", "APPLIED"} \cup Pending,
         status : Status, hold : Hold \cup {None},
         age : {"fresh", "due", "over"}, appliedAt : Nat, published : BOOLEAN]

NoRow == [state |-> "none", status |-> "ON", hold |-> None, age |-> "fresh",
          appliedAt |-> 0, published |-> FALSE]

Steps == {"idle", "list", "observe", "begin", "put", "reread", "verify",
          "apply", "readback", "failed", "outbox", "audit", "publish", "ack",
          "expired"}

Idle == [pc |-> "idle", op |-> None, queue |-> {}]

TypeOK ==
    /\ row \in [Op -> Rows]
    /\ holds \in [Hold -> {"none", "active", "released"}]
    /\ apiEvents \subseteq {"request", "approval"} \X Op
    /\ audited \subseteq Op
    /\ s3 \in Status
    /\ ledger \in [changes : SUBSET Op, current : Op \cup {None}]
    /\ clock \in Nat
    /\ worker \in [pc : Steps, op : Op \cup {None}, queue : SUBSET Op]
    /\ late \in Status \cup {None}
    /\ faults \in 0 .. MaxFaults
    /\ drift \in 0 .. MaxDrift

Init ==
    /\ row = [o \in Op |-> NoRow]
    /\ holds = [h \in Hold |-> "none"]
    /\ apiEvents = {}
    /\ audited = {}
    /\ s3 = "OFF"
    /\ ledger = [changes |-> {}, current |-> None]
    /\ clock = 0
    /\ worker = Idle
    /\ late = None
    /\ faults = 0
    /\ drift = 0

\* A Data API transaction that would turn old into new and is not answered: it
\* was rolled back, or it committed and the answer is lost.
Unanswered(old, new) == {old, new}

-----------------------------------------------------------------------------
(* The API: one committed transaction per accepted request.                *)

StaleRequests == {o \in Op : row[o].state = "REQUESTED" /\ row[o].age # "fresh"}
ActiveHolds == {h \in Hold : holds[h] = "active"}

\* What a request must name: a new hold where none is active, or the one
\* active hold of the version.
RequestMatchesHolds(status, h) ==
    \/ status = "ON" /\ holds[h] = "none" /\ ActiveHolds = {}
    \/ status = "OFF" /\ ActiveHolds = {h}

\* The request's transaction: stale requests of the version expire in it, no
\* other operation may be pending after that, and the event goes with the row.
RecordRequest(o, status, h, stale) ==
    /\ {p \in Op : row[p].age = "over"} \cap StaleRequests \subseteq stale
    /\ \A p \in Op \ stale : row[p].state \notin Pending
    /\ RequestMatchesHolds(status, h)
    /\ row' = [p \in Op |->
          IF p = o THEN [NoRow EXCEPT !.state = "REQUESTED", !.status = status,
                                      !.hold = h]
          ELSE IF p \in stale THEN [row[p] EXCEPT !.state = "EXPIRED"]
          ELSE row[p]]
    /\ apiEvents' = apiEvents \cup {<<"request", o>>}

\* An administrator requests a change under a fresh operation identifier.
Request(o, status, h) ==
    /\ row[o].state = "none"
    /\ \A p \in 1 .. o - 1 : row[p].state # "none"
    /\ \E stale \in SUBSET StaleRequests : RecordRequest(o, status, h, stale)
    /\ UNCHANGED <<holds, audited, s3, ledger, clock, worker, late, faults, drift>>

\* The approval's transaction, refused once the request's window is over.
RecordApproval(o) ==
    /\ row[o].state = "REQUESTED"
    /\ row[o].age # "over"
    /\ row' = [row EXCEPT ![o].state = "APPROVED"]
    /\ apiEvents' = apiEvents \cup {<<"approval", o>>}

\* A second administrator approves.
Approve(o) ==
    /\ RecordApproval(o)
    /\ UNCHANGED <<holds, audited, s3, ledger, clock, worker, late, faults, drift>>

\* Time: a request reaches its deadline, where the clocks of the API, the worker
\* and the database (five minutes apart at most) may disagree, and leaves it.
Age(o) ==
    /\ row[o].state = "REQUESTED"
    /\ row[o].age # "over"
    /\ row' = [row EXCEPT ![o].age = IF row[o].age = "fresh" THEN "due" ELSE "over"]
    /\ UNCHANGED <<holds, apiEvents, audited, s3, ledger, clock, worker, late,
                   faults, drift>>

-----------------------------------------------------------------------------
(* The worker: expire, then apply the pending change of the version.       *)

At(pc) == worker.pc = pc
Goto(pc) == worker' = [worker EXCEPT !.pc = pc]
Fault == faults < MaxFaults /\ faults' = faults + 1
Current == row[worker.op]

\* The sweep begins by expiring requests that outlived the approval window.
ExpireStale ==
    /\ At("idle")
    /\ \E stale \in SUBSET StaleRequests :
          /\ {p \in Op : row[p].age = "over"} \cap StaleRequests \subseteq stale
          /\ row' = [p \in Op |-> IF p \in stale
                                  THEN [row[p] EXCEPT !.state = "EXPIRED"]
                                  ELSE row[p]]
    /\ Goto("list")
    /\ UNCHANGED <<holds, apiEvents, audited, s3, ledger, clock, late, faults, drift>>

\* Mutant: rows whose application has begun are not listed again.
TakeApprovedOnly(o) ==
    /\ At("list")
    /\ late = None
    /\ row[o].state = "APPROVED"
    /\ worker' = [worker EXCEPT !.op = o, !.pc = "observe"]
    /\ UNCHANGED <<database, s3, ledger, late, faults, drift>>

\* A due row is listed and read again before it is acted upon; REQUESTED rows
\* are only observed.
TakePending(o) ==
    /\ At("list")
    /\ late = None
    /\ row[o].state \in {"APPROVED", "APPLYING"}
    /\ worker' = [worker EXCEPT !.op = o,
                     !.pc = IF row[o].state = "APPROVED" THEN "observe" ELSE "put"]
    /\ UNCHANGED <<database, s3, ledger, late, faults, drift>>

\* No row is due: none is pending, or it is too young or backing off.
NothingDue ==
    /\ At("list")
    /\ Goto("outbox")
    /\ UNCHANGED <<database, s3, ledger, late, faults, drift>>

\* The object must have the status the approved change starts from.
Observe ==
    /\ At("observe")
    /\ Goto(IF s3 = Opposite(Current.status) THEN "begin" ELSE "failed")
    /\ UNCHANGED <<database, s3, ledger, late, faults, drift>>

\* The attempt is made durable before S3 is written; the answer may be lost.
BeginApply ==
    /\ At("begin")
    /\ Current.state = "APPROVED"
    /\ LET begun == [row EXCEPT ![worker.op].state = "APPLYING"] IN
       \/ row' = begun /\ Goto("put") /\ UNCHANGED faults
       \/ row' \in Unanswered(row, begun) /\ Goto("failed") /\ Fault
    /\ UNCHANGED <<holds, apiEvents, audited, s3, ledger, clock, late, drift>>

\* The status is read and, whatever it is, written: first attempt or retry.  A
\* retry over the desired status is not re-read when it fails.
Put ==
    /\ At("put")
    /\ \/ s3' = Current.status /\ Goto("verify") /\ UNCHANGED <<late, faults>>
       \/ /\ Fault
          /\ Goto(IF s3 = Opposite(Current.status) THEN "reread" ELSE "failed")
          /\ \/ s3' = Current.status /\ UNCHANGED late
             \/ UNCHANGED s3 /\ late' \in {late, Current.status}
    /\ UNCHANGED <<database, ledger, drift>>

\* Mutant: a put without an answer is taken for one that landed.
TrustThePut ==
    /\ At("reread")
    /\ Goto("apply")
    /\ UNCHANGED <<database, s3, ledger, late, faults, drift>>

\* A lost answer is resolved by a read, and by a second put when the first one
\* is seen to have landed.
Reread ==
    /\ At("reread")
    /\ \/ /\ s3 = Current.status
          /\ Goto("verify")
          /\ UNCHANGED faults
       \/ /\ s3 # Current.status
          /\ Goto("failed")
          /\ UNCHANGED faults
       \/ /\ Fault
          /\ Goto("failed")
    /\ UNCHANGED <<database, s3, ledger, late, drift>>

Verify ==
    /\ At("verify")
    /\ \/ Goto(IF s3 = Current.status THEN "apply" ELSE "failed") /\ UNCHANGED faults
       \/ Goto("failed") /\ Fault
    /\ UNCHANGED <<database, s3, ledger, late, drift>>

\* confirm_exact_version_legal_hold: the hold row and the operation together.
Confirm(o) ==
    /\ row[o].state = "APPLYING"
    /\ \/ row[o].status = "ON" /\ holds[row[o].hold] = "none" /\ ActiveHolds = {}
       \/ row[o].status = "OFF" /\ ActiveHolds = {row[o].hold}
    /\ holds' = [holds EXCEPT ![row[o].hold] =
                    IF row[o].status = "ON" THEN "active" ELSE "released"]
    /\ clock' = clock + 1
    /\ row' = [row EXCEPT ![o].state = "APPLIED", ![o].appliedAt = clock + 1]

\* The confirmation commits and is answered, commits and is not, or fails.
Apply ==
    /\ At("apply")
    /\ \/ Confirm(worker.op) /\ Goto("outbox") /\ UNCHANGED faults
       \/ Confirm(worker.op) /\ Goto("readback") /\ Fault
       \/ UNCHANGED <<row, holds, clock>> /\ Goto("readback") /\ Fault
    /\ UNCHANGED <<apiEvents, audited, s3, ledger, late, drift>>

\* An unanswered confirmation is read back before it is called a failure.
ReadBack ==
    /\ At("readback")
    /\ \/ Goto(IF Current.state = "APPLIED" THEN "outbox" ELSE "failed")
          /\ UNCHANGED faults
       \/ Goto("failed") /\ Fault
    /\ UNCHANGED <<database, s3, ledger, late, drift>>

\* The retry row of a failure is written only for an operation still to apply.
FailureRecordable(o) == row[o].state \in {"APPROVED", "APPLYING"}

\* The failure is recorded and the sweep goes on; where the database refuses to
\* record it the invocation ends.
RecordFailure ==
    /\ At("failed")
    /\ IF FailureRecordable(worker.op) THEN Goto("outbox")
       ELSE worker' = Idle
    /\ UNCHANGED <<database, s3, ledger, late, faults, drift>>

-----------------------------------------------------------------------------
(* The worker: audit what was applied and publish it for recovery.         *)

\* What the outbox query returns, and what of it the loop takes next: the query
\* orders by application time, which never changes.
Unpublished == {o \in Op : row[o].state = "APPLIED" /\ ~row[o].published}
First(queue) == {o \in queue : \A p \in queue : row[o].appliedAt <= row[p].appliedAt}

ListApplied ==
    /\ At("outbox")
    /\ worker' = [worker EXCEPT !.pc = "audit", !.op = None, !.queue = Unpublished]
    /\ UNCHANGED <<database, s3, ledger, late, faults, drift>>

\* An item that fails is skipped; the loop goes on with the next one.
NextItem(o) == worker' = [worker EXCEPT !.pc = "audit", !.queue = worker.queue \ {o}]

\* Mutant: a failed commit of the event does not stop the publication.
PublishAnyway ==
    /\ At("audit")
    /\ \E o \in First(worker.queue) :
          /\ worker' = [worker EXCEPT !.pc = "publish", !.op = o]
          /\ \/ audited' = audited \cup {o} /\ UNCHANGED faults
             \/ UNCHANGED audited /\ Fault
    /\ UNCHANGED <<row, holds, apiEvents, s3, ledger, clock, late, drift>>

\* The signed event is committed once: a committed one is reused.  The audit
\* head may have moved since it was read (another signer), which is a failure.
CommitAudit ==
    /\ At("audit")
    /\ \E o \in First(worker.queue) :
       \/ audited' = audited \cup {o} /\ UNCHANGED faults
          /\ worker' = [worker EXCEPT !.pc = "publish", !.op = o]
       \/ audited' \in Unanswered(audited, audited \cup {o}) /\ Fault /\ NextItem(o)
    /\ UNCHANGED <<row, holds, apiEvents, s3, ledger, clock, late, drift>>

\* An earlier publication of the operation, equal to it field by field.
AlreadyPublished(o) == o \in ledger.changes

\* Mutant: the projection follows the order of publication.
PublishLast(o) ==
    ledger' = [changes |-> ledger.changes \cup {o},
               current |-> IF AlreadyPublished(o) THEN ledger.current ELSE o]

\* Two records that must be absent, and the projection of the version when this
\* application is newer; an existing publication is returned as it is.
PublishChange(o) ==
    ledger' = [changes |-> ledger.changes \cup {o},
               current |->
                  IF /\ ~AlreadyPublished(o)
                     /\ \/ ledger.current = None
                        \/ row[ledger.current].appliedAt < row[o].appliedAt
                  THEN o ELSE ledger.current]

Publish ==
    /\ At("publish")
    /\ \/ PublishChange(worker.op) /\ Goto("ack") /\ UNCHANGED faults
       \/ (PublishChange(worker.op) \/ UNCHANGED ledger) /\ Fault /\ NextItem(worker.op)
    /\ UNCHANGED <<database, s3, late, drift>>

\* The outbox lets go of the operation only now.
AcknowledgePublication(o) ==
    /\ row[o].state = "APPLIED" /\ o \in audited
    /\ row' = [row EXCEPT ![o].published = TRUE]

Acknowledge ==
    /\ At("ack")
    /\ \/ AcknowledgePublication(worker.op) /\ UNCHANGED faults
       \/ (AcknowledgePublication(worker.op) \/ UNCHANGED row) /\ Fault
    /\ NextItem(worker.op)
    /\ UNCHANGED <<holds, apiEvents, audited, s3, ledger, clock, late, drift>>

OutboxDone ==
    /\ At("audit") /\ worker.queue = {}
    /\ Goto("expired")
    /\ UNCHANGED <<database, s3, ledger, late, faults, drift>>

\* What list_unaudited_expired_legal_holds returns.
UnauditedExpired == {o \in Op : row[o].state = "EXPIRED" /\ o \notin audited}

\* Expired requests are audited too, one by one, each failure skipped; the
\* invocation then ends.
AuditExpired ==
    /\ At("expired")
    /\ \/ audited' = audited \cup UnauditedExpired /\ UNCHANGED faults
       \/ /\ UnauditedExpired # {} /\ Fault
          /\ \E done \in SUBSET UnauditedExpired : audited' = audited \cup done
    /\ worker' = Idle
    /\ UNCHANGED <<row, holds, apiEvents, s3, ledger, clock, late, drift>>

-----------------------------------------------------------------------------
(* The environment.                                                        *)

\* The invocation dies; a put it had sent may still be on its way.
Crash ==
    /\ ~At("idle")
    /\ Fault
    /\ worker' = Idle
    /\ late' \in IF At("put") THEN {late, Current.status} ELSE {late}
    /\ UNCHANGED <<database, s3, ledger, drift>>

LateArrives ==
    /\ late # None
    /\ s3' \in {s3, late}
    /\ late' = None
    /\ UNCHANGED <<database, ledger, worker, faults, drift>>

\* Somebody with S3 permissions changes the hold outside the workflow.
Drift ==
    /\ drift < MaxDrift
    /\ drift' = drift + 1
    /\ s3' = Opposite(s3)
    /\ UNCHANGED <<database, ledger, worker, late, faults>>

Sweep == ExpireStale \/ NothingDue \/ Observe \/ BeginApply \/ Put \/ Reread
            \/ Verify \/ Apply \/ ReadBack \/ RecordFailure
Outboxes == ListApplied \/ CommitAudit \/ Publish \/ Acknowledge \/ OutboxDone
               \/ AuditExpired

Next ==
    \/ \E o \in Op, status \in Status, h \in Hold : Request(o, status, h)
    \/ \E o \in Op : Approve(o) \/ Age(o) \/ TakePending(o)
    \/ Sweep \/ Outboxes
    \/ Crash \/ LateArrives \/ Drift

\* The schedule invokes the worker for ever, an invocation runs to its end or
\* dies, time passes for a request, and a listed row becomes due.
Fairness ==
    /\ WF_vars(Sweep \/ Outboxes)
    /\ WF_vars(LateArrives)
    /\ WF_vars(\E o \in Op : Age(o))
    /\ SF_vars(\E o \in Op : TakePending(o))

Spec == Init /\ [][Next]_vars /\ Fairness

-----------------------------------------------------------------------------
(* Properties.                                                             *)

Applying(status) == \E o \in Op : row[o].state = "APPLYING" /\ row[o].status = status

\* The rows are well formed; a hold that Aurora calls active is on in S3, and an object held in S3 has a
\* row that says so, except while the worker is applying the very change - when
\* nobody touched the object outside the workflow (reconcileExactVersionLegalHold:
\* the attempt is durable before the put, the row is confirmed after it).
HoldsMatchObject ==
    /\ TypeOK
    /\ drift = 0 =>
        /\ ActiveHolds # {} => s3 = "ON" \/ Applying("OFF")
        /\ s3 = "ON" => ActiveHolds # {} \/ Applying("ON")

\* Whatever the recovery ledger carries is an applied operation whose signed
\* audit event is committed, and the outbox lets an operation go only when the
\* ledger has it (commitAuditBeforeRecovery, acknowledge_legal_hold_...).
RecoveryFollowsAudit ==
    /\ ledger.changes \subseteq {o \in audited : row[o].state = "APPLIED"}
    /\ \A o \in Op : row[o].published => o \in ledger.changes

\* The projection that recovery copies are held by is the latest published
\* application, in whatever order the publications were made; once the outbox
\* is empty it is the hold Aurora records.
ProjectionIsLatest ==
    /\ \A o \in ledger.changes : row[o].appliedAt <= row[ledger.current].appliedAt
    /\ Unpublished = {} /\ ledger.current # None =>
          (row[ledger.current].status = "ON" <=> ActiveHolds # {})

\* Every request comes to an end: approved, applied and published to recovery,
\* or expired and audited (unless S3 was changed behind the workflow's back).
Unsettled == {o \in Op : /\ row[o].state # "none"
                         /\ ~row[o].published
                         /\ ~(row[o].state = "EXPIRED" /\ o \in audited)}
OperationsSettle == Unsettled # {} ~> (Unsettled = {} \/ drift > 0)
=============================================================================
