--------------------------- MODULE EvidenceObjects ---------------------------
(* One evidence artifact: its D1 row and its encrypted objects in R2.      *)
(*                                                                         *)
(* Several kinds of work share them without a common lock: storeEvidence   *)
(* (lib/server/evidence.ts) creates or renews the artifact, reviewers      *)
(* decide on its latest occurrence, key rotation copies, switches and      *)
(* deletes its object, the rotation reconciler deletes what an interrupted *)
(* rotation left (lib/server/key-operations.ts), retention purges it       *)
(* (lib/server/retention.ts) and a hold forbids that.  The database and    *)
(* the bucket fail separately, a worker may die between any two awaits,    *)
(* and every time a statement compares was bound before it ran.            *)
(*                                                                         *)
(* An object key is a number, never reused; a key epoch stands for an      *)
(* encryption key id, and the iv of an object for the object itself.       *)
EXTENDS Naturals, FiniteSets

CONSTANTS
    Worker,       \* requests and scheduler invocations that overlap
    Profiles,     \* the sets of kinds of work that may go on side by side
    MaxTime,      \* bound on the clock
    MaxKeys,      \* bound on the object keys
    MaxPurgeKeys, \* the same beside a purge
    MaxEpoch,     \* bound on the encryption keys
    MaxFaults,    \* bound on failed or unacknowledged calls
    MaxCrashes,   \* bound on workers that die
    Validity,     \* validityDays
    LeaseTime     \* ROTATION_LEASE_MS, in ticks of the clock

ASSUME VaultAssumption ==
    /\ MaxKeys \in Nat /\ MaxPurgeKeys \in 0..MaxKeys
    /\ MaxTime \in Nat \ {0} /\ MaxEpoch \in Nat \ {0}
    /\ MaxFaults \in Nat /\ MaxCrashes \in Nat /\ Validity \in Nat /\ LeaseTime \in Nat
    /\ UNION Profiles \subseteq
         {"store", "renew", "review", "rotate", "reconcile", "purge", "hold",
          "package", "retire"}

\* A review or a renewal beside a purge brings back evidence whose object is
\* being deleted, which the code does not prevent: what is stated below is about
\* behaviours without that.
ASSUME ProfilesAssumption ==
    \A P \in Profiles : "purge" \in P => "review" \notin P /\ "renew" \notin P

VARIABLES
    tasks,      \* the kinds of work of this behaviour
    row,        \* the evidence_artifacts row; "live" is every status but these.
                \* Or an export_packages row (module PackageObjects), whose
                \* statuses are "building", "live" for ready, and "failed"
    latest,     \* received_at of the artifact's latest occurrence, 0 if none
    objects,    \* key -> epoch it is encrypted under, for the objects in R2
    hold,       \* expires_at of the retention hold, 0 if there is none
    closed,     \* the artifact's assessment is closed
    active,     \* the active encryption key
    now,
    nextKey,
    local,      \* what each worker is doing
    undone,     \* keys that a failed storeEvidence deleted
    stray,      \* keys a rotation wrote when it no longer held its lease
    faults, crashes

vars == <<tasks, row, latest, objects, hold, closed, active, now, nextKey, local, undone, stray, faults, crashes>>

None == 0
Keys == 1..MaxKeys
\* A key is never used twice (crypto.randomUUID); the bound is not yet reached.
KeyLeft == nextKey <= IF "purge" \in tasks THEN MaxPurgeKeys ELSE MaxKeys
MaybeKey == Keys \union {None}
Free == <<>>
Lease == (Worker \X Keys) \union (Worker \X {None}) \union {Free}

Statuses == {"absent", "live", "expired", "purged", "building", "failed"}
Rows == [status : Statuses, expires : Nat, r2 : MaybeKey,
         epoch : 0..MaxEpoch, pending : MaybeKey, previous : MaybeKey,
         lease : Lease, until : Nat]

Idle == [pc |-> "idle", t |-> 0, received |-> 0, key |-> None, seen |-> None, epoch |-> 0, to |-> 0,
         pending |-> None, previous |-> None, doomed |-> {}]

Steps == {"idle", "lookup", "put", "insert", "undo", "renew", "stale", "review",
          "claim", "read", "copy", "abandon", "release", "bind", "switch", "classify", "lose",
          "drop", "clear", "reclaim", "collect", "reconciled",
          "condemn", "confirm", "shred", "purged", "hold",
          "select", "putPackage", "publish", "fail", "settle", "prove", "discard",
          "claimPurge", "shredPackage", "unlock", "retire"}

\* t: the time bound to the next statement; received: when the occurrence under
\* review was; key: the object this worker writes and "to" the epoch it is
\* encrypted under; seen, epoch, pending, previous: the row as it was read;
\* doomed: the objects still to delete.
Locals == [pc : Steps,
           t : Nat, received : Nat, key : MaybeKey, seen : MaybeKey, epoch : 0..MaxEpoch,
           to : 0..MaxEpoch, pending : MaybeKey, previous : MaybeKey, doomed : SUBSET Keys]

TypeOK ==
    /\ tasks \in Profiles
    /\ row \in Rows /\ latest \in 0..MaxTime
    /\ DOMAIN objects \subseteq Keys /\ \A k \in DOMAIN objects : objects[k] \in 1..MaxEpoch
    /\ hold \in Nat /\ closed \in BOOLEAN
    /\ active \in 1..MaxEpoch /\ now \in 0..MaxTime /\ nextKey \in 1..(MaxKeys + 1)
    /\ local \in [Worker -> Locals]
    /\ undone \subseteq Keys /\ stray \subseteq Keys
    /\ faults \in 0..MaxFaults /\ crashes \in 0..MaxCrashes

Init ==
    /\ tasks \in Profiles
    /\ row = [status |-> "absent", expires |-> 0, r2 |-> None, epoch |-> 0,
              pending |-> None, previous |-> None, lease |-> Free, until |-> 0]
    /\ latest = 0
    /\ objects = <<>>
    /\ hold = 0 /\ closed = FALSE
    /\ active = 1 /\ now = 1 /\ nextKey = 1
    /\ local = [w \in Worker |-> Idle]
    /\ undone = {} /\ stray = {}
    /\ faults = 0 /\ crashes = 0

-----------------------------------------------------------------------------

At(w, place) == local[w].pc = place
Goto(w, place) == local' = [local EXCEPT ![w].pc = place]
Done(w) == local' = [local EXCEPT ![w] = Idle]
Fault == faults < MaxFaults /\ faults' = faults + 1
NoFault == UNCHANGED faults

Live == row.status = "live"
Unleased(t) == row.lease = Free \/ row.until <= t
Without(keys) == [k \in DOMAIN objects \ keys |-> objects[k]]
With(key, epoch) == [k \in DOMAIN objects \union {key} |-> IF k = key THEN epoch ELSE objects[k]]

\* Expiry of the latest occurrence.
Expiry == latest + Validity

Data == <<row, latest, objects>>
Setting == <<hold, closed, active, now, nextKey, undone, stray, crashes>>

-----------------------------------------------------------------------------
(* storeEvidence                                                           *)

\* The assessment is checked first, long before anything is written.
CheckAssessment(w) ==
    /\ "store" \in tasks /\ At(w, "idle") /\ ~closed
    /\ Goto(w, "lookup")
    /\ UNCHANGED <<Data, Setting, faults>>

\* receivedAt, then the search for an artifact to renew or to replace.
LookUp(w) ==
    /\ At(w, "lookup")
    /\ \/ /\ "renew" \in tasks /\ Live /\ row.expires > now
          /\ local' = [local EXCEPT ![w] = [Idle EXCEPT !.pc = "renew", !.t = now]]
          /\ UNCHANGED nextKey
       \/ /\ "renew" \in tasks /\ Live /\ row.expires <= now
          /\ local' = [local EXCEPT ![w] = [Idle EXCEPT !.pc = "stale", !.t = now]]
          /\ UNCHANGED nextKey
       \/ /\ row.status = "absent" /\ KeyLeft
          /\ local' = [local EXCEPT ![w] = [Idle EXCEPT !.pc = "put", !.t = now, !.key = nextKey]]
          /\ nextKey' = nextKey + 1
    /\ UNCHANGED <<Data, hold, closed, active, now, undone, stray, crashes, faults>>

PutEvidence(w) ==
    /\ At(w, "put")
    /\ objects' = With(local[w].key, active)
    /\ \/ local' = [local EXCEPT ![w] = [@ EXCEPT !.pc = "insert", !.to = active]] /\ NoFault
       \/ Done(w) /\ Fault
    /\ UNCHANGED <<row, latest, Setting>>

InsertRow(w) ==
    /\ row' = [row EXCEPT !.status = "live", !.expires = local[w].t + Validity,
                          !.r2 = local[w].key, !.epoch = local[w].to]
    /\ latest' = local[w].t

\* The unique index lets one concurrent upload of the same bytes in; any
\* error, an unacknowledged commit included, undoes the upload.
InsertEvidence(w) ==
    /\ At(w, "insert")
    /\ \/ row.status = "absent" /\ InsertRow(w) /\ Done(w) /\ NoFault
       \/ row.status = "absent" /\ InsertRow(w) /\ Goto(w, "undo") /\ Fault
       \/ UNCHANGED <<row, latest>> /\ Goto(w, "undo") /\ Fault
       \/ row.status # "absent" /\ UNCHANGED <<row, latest>> /\ Goto(w, "undo") /\ NoFault
    /\ UNCHANGED <<objects, hold, closed, active, now, nextKey, undone, stray, crashes>>

\* Mutant: the object of an upload that lost the race is kept.
UndoPutKeeps(w) ==
    /\ At(w, "undo")
    /\ Done(w)
    /\ UNCHANGED <<Data, Setting, faults>>

UndoPut(w) ==
    /\ At(w, "undo")
    /\ \/ objects' = Without({local[w].key}) /\ undone' = undone \union {local[w].key} /\ NoFault
       \/ UNCHANGED <<objects, undone>> /\ Fault
    /\ Done(w)
    /\ UNCHANGED <<row, latest, hold, closed, active, now, nextKey, stray, crashes>>

\* A recurring observation: the occurrence is inserted if the artifact is
\* still usable at receivedAt.  A trigger makes the row follow the latest
\* occurrence, and the batch then sets its expiry whether latest or not.
RenewEvidence(w) ==
    /\ At(w, "renew")
    /\ \/ /\ Live /\ row.expires > local[w].t
          /\ row' = [row EXCEPT !.expires = local[w].t + Validity]
          /\ latest' = IF local[w].t > latest THEN local[w].t ELSE latest
          /\ NoFault
       \/ ~(Live /\ row.expires > local[w].t) /\ UNCHANGED <<row, latest>> /\ NoFault
       \/ UNCHANGED <<row, latest>> /\ Fault
    /\ Done(w)
    /\ UNCHANGED <<objects, hold, closed, active, now, nextKey, undone, stray, crashes>>

\* An expired duplicate is marked so by the batch that inserts its
\* replacement (another artifact, which this module does not follow).
MarkStale(w) ==
    /\ At(w, "stale")
    /\ row' = IF Live /\ row.expires <= local[w].t
              THEN [row EXCEPT !.status = "expired"] ELSE row
    /\ Done(w)
    /\ UNCHANGED <<latest, objects, Setting, faults>>

-----------------------------------------------------------------------------
(* approveEvidence, transitionEvidenceReview                               *)

\* The latest occurrence must not have expired; the row may have.
BeginReview(w) ==
    /\ "review" \in tasks /\ At(w, "idle")
    /\ row.status \notin {"absent", "purged"} /\ Expiry > now
    /\ local' = [local EXCEPT ![w] = [Idle EXCEPT !.pc = "review", !.t = now, !.received = latest]]
    /\ UNCHANGED <<Data, Setting, faults>>

\* The decision updates the occurrence, and a trigger copies its status to
\* the row unless the row was purged.
Review(w) ==
    /\ At(w, "review")
    /\ \/ /\ latest = local[w].received /\ Expiry > local[w].t
          /\ row' = IF row.status = "purged" THEN row ELSE [row EXCEPT !.status = "live"]
       \/ latest # local[w].received /\ UNCHANGED row
    /\ Done(w)
    /\ UNCHANGED <<latest, objects, Setting, faults>>

-----------------------------------------------------------------------------
(* rotateEvidenceObject                                                    *)

Rotatable(t) == Live /\ row.expires > t /\ row.pending = None /\ Unleased(t)

SelectRotation(w) ==
    /\ "rotate" \in tasks /\ At(w, "idle") /\ KeyLeft
    /\ Rotatable(now) /\ row.previous = None /\ row.epoch # active
    /\ local' = [local EXCEPT ![w] = [Idle EXCEPT !.pc = "claim", !.key = nextKey,
                                         !.seen = row.r2, !.epoch = row.epoch]]
    /\ nextKey' = nextKey + 1
    /\ UNCHANGED <<Data, hold, closed, active, now, undone, stray, crashes, faults>>

SameObject(w) == row.r2 = local[w].seen /\ row.epoch = local[w].epoch

ClaimRotation(w) ==
    /\ At(w, "claim")
    /\ \/ /\ Rotatable(now) /\ SameObject(w)
          /\ row' = [row EXCEPT !.lease = <<w, local[w].key>>, !.until = now + LeaseTime,
                                !.pending = local[w].key]
          /\ \/ Goto(w, "read") /\ NoFault
             \/ Done(w) /\ Fault
       \/ ~(Rotatable(now) /\ SameObject(w)) /\ Done(w) /\ UNCHANGED row /\ NoFault
    /\ UNCHANGED <<latest, objects, Setting>>

\* A failed get leaves the claim to the reconciler.
ReadObject(w) ==
    /\ At(w, "read")
    /\ \/ local[w].seen \in DOMAIN objects /\ Goto(w, "copy") /\ NoFault
       \/ local[w].seen \notin DOMAIN objects /\ Goto(w, "release") /\ NoFault
       \/ Done(w) /\ Fault
    /\ UNCHANGED <<Data, Setting>>

Mine(w) == row.lease = <<w, local[w].key>> /\ row.pending = local[w].key

\* Decrypt, encrypt under the active key, put.  Nothing looks at the lease.
CopyObject(w) ==
    /\ At(w, "copy")
    /\ \/ /\ objects' = With(local[w].key, active)
          /\ local' = [local EXCEPT ![w] = [@ EXCEPT !.pc = "bind", !.to = active]]
          /\ NoFault
       \/ objects' \in {objects, With(local[w].key, active)} /\ Goto(w, "abandon") /\ Fault
    /\ stray' = IF Mine(w) /\ row.until > now THEN stray ELSE stray \union {local[w].key}
    /\ UNCHANGED <<row, latest, hold, closed, active, now, nextKey, undone, crashes>>

\* The delete's own failure is swallowed.
AbandonCopy(w) ==
    /\ At(w, "abandon")
    /\ \/ objects' = Without({local[w].key}) /\ NoFault
       \/ UNCHANGED objects /\ Fault
    /\ Goto(w, "release")
    /\ UNCHANGED <<row, latest, Setting>>

ReleaseClaim(w) ==
    /\ At(w, "release")
    /\ \/ /\ row' = IF Mine(w) THEN [row EXCEPT !.lease = Free, !.until = 0, !.pending = None] ELSE row
          /\ NoFault
       \/ UNCHANGED row /\ Fault
    /\ Done(w)
    /\ UNCHANGED <<latest, objects, Setting>>

BindSwitch(w) ==
    /\ At(w, "bind")
    /\ local' = [local EXCEPT ![w] = [@ EXCEPT !.pc = "switch", !.t = now]]
    /\ UNCHANGED <<Data, Setting, faults>>

\* Mutant: the switch is not fenced by the lease and the pending key.
SwitchHitsUnfenced(w) == Live /\ SameObject(w) /\ row.expires > local[w].t

SwitchHits(w) ==
    Live /\ SameObject(w) /\ Mine(w) /\ row.expires > local[w].t /\ row.until > local[w].t

SwitchRow(w) ==
    row' = [row EXCEPT !.r2 = local[w].key, !.epoch = local[w].to, !.previous = local[w].seen,
                       !.pending = None, !.lease = Free, !.until = 0]

SwitchObject(w) ==
    /\ At(w, "switch")
    /\ \/ SwitchHits(w) /\ SwitchRow(w) /\ Goto(w, "drop") /\ NoFault
       \/ SwitchHits(w) /\ SwitchRow(w) /\ Goto(w, "classify") /\ Fault
       \/ UNCHANGED row /\ Goto(w, "classify") /\ Fault
       \/ ~SwitchHits(w) /\ UNCHANGED row /\ Goto(w, "classify") /\ NoFault
    /\ UNCHANGED <<latest, objects, Setting>>

\* classifyObjectRotation: "committed", "proven_loser" or "still_referenced".
Committed(w) == row.r2 = local[w].key /\ row.epoch = local[w].to
ProvenLoser(w) == local[w].key \notin {row.r2, row.pending, row.previous}

\* deleteOnlyProvenRotationLoser; an unavailable read proves nothing.
Classify(w) ==
    /\ At(w, "classify")
    /\ \/ Committed(w) /\ Goto(w, "drop") /\ NoFault
       \/ ~Committed(w) /\ ProvenLoser(w) /\ Goto(w, "lose") /\ NoFault
       \/ ~Committed(w) /\ ~ProvenLoser(w) /\ Done(w) /\ NoFault
       \/ Done(w) /\ Fault
    /\ UNCHANGED <<Data, Setting>>

DeleteLoser(w) ==
    /\ At(w, "lose")
    /\ \/ objects' = Without({local[w].key}) /\ NoFault
       \/ UNCHANGED objects /\ Fault
    /\ Done(w)
    /\ UNCHANGED <<row, latest, Setting>>

DropPrevious(w) ==
    /\ At(w, "drop")
    /\ \/ objects' = Without({local[w].seen}) /\ Goto(w, "clear") /\ NoFault
       \/ objects' \in {objects, Without({local[w].seen})} /\ Done(w) /\ Fault
    /\ UNCHANGED <<row, latest, Setting>>

ClearPrevious(w) ==
    /\ At(w, "clear")
    /\ \/ /\ row' = IF row.r2 = local[w].key /\ row.previous = local[w].seen
                    THEN [row EXCEPT !.previous = None] ELSE row
          /\ NoFault
       \/ UNCHANGED row /\ Fault
    /\ Done(w)
    /\ UNCHANGED <<latest, objects, Setting>>

-----------------------------------------------------------------------------
(* reconcileRotationGarbage                                                *)

SelectGarbage(w) ==
    /\ "reconcile" \in tasks /\ At(w, "idle")
    /\ row.pending # None \/ row.previous # None
    /\ Unleased(now)
    /\ local' = [local EXCEPT ![w] = [Idle EXCEPT !.pc = "reclaim", !.t = now, !.seen = row.r2,
                                         !.pending = row.pending, !.previous = row.previous]]
    /\ UNCHANGED <<Data, Setting, faults>>

SameReferences(w) ==
    row.r2 = local[w].seen /\ row.pending = local[w].pending /\ row.previous = local[w].previous

\* Only the exact state that was read may be cleaned up.
Reclaim(w) ==
    /\ At(w, "reclaim")
    /\ \/ /\ SameReferences(w) /\ Unleased(local[w].t)
          /\ row' = [row EXCEPT !.lease = <<w, None>>, !.until = local[w].t + LeaseTime]
          /\ \/ /\ local' = [local EXCEPT ![w] = [@ EXCEPT !.pc = "collect",
                       !.doomed = {local[w].pending, local[w].previous} \ {None, local[w].seen}]]
                /\ NoFault
             \/ Done(w) /\ Fault
       \/ ~(SameReferences(w) /\ Unleased(local[w].t)) /\ Done(w) /\ UNCHANGED row /\ NoFault
    /\ UNCHANGED <<latest, objects, Setting>>

\* One delete after the other; the first that fails ends the work.
DeleteNext(w, place, then) ==
    /\ At(w, place)
    /\ \/ \E k \in local[w].doomed :
            /\ objects' = Without({k})
            /\ local' = [local EXCEPT ![w] = [@ EXCEPT !.doomed = local[w].doomed \ {k}]]
            /\ NoFault
       \/ local[w].doomed = {} /\ Goto(w, then) /\ UNCHANGED objects /\ NoFault
       \/ local[w].doomed # {} /\ Done(w) /\ UNCHANGED objects /\ Fault
    /\ UNCHANGED <<row, latest, Setting>>

Collect(w) == DeleteNext(w, "collect", "reconciled")

Reconcile(w) ==
    /\ At(w, "reconciled")
    /\ \/ /\ row' = IF SameReferences(w) /\ row.lease = <<w, None>>
                    THEN [row EXCEPT !.pending = None, !.previous = None, !.lease = Free, !.until = 0]
                    ELSE row
          /\ NoFault
       \/ UNCHANGED row /\ Fault
    /\ Done(w)
    /\ UNCHANGED <<latest, objects, Setting>>

-----------------------------------------------------------------------------
(* purgeExpiredEvidence                                                    *)

Releasable(t) == hold <= t /\ Unleased(t) /\ closed

SelectExpired(w) ==
    /\ "purge" \in tasks /\ At(w, "idle")
    /\ row.status \in {"live", "expired"} /\ row.expires <= now /\ Releasable(now)
    /\ local' = [local EXCEPT ![w] = [Idle EXCEPT !.pc = "condemn", !.t = now,
                                         !.doomed = {row.r2, row.pending, row.previous} \ {None}]]
    /\ UNCHANGED <<Data, Setting, faults>>

\* Mutant: the hold that was checked by the selection is not checked again.
CondemnSelected(w) ==
    /\ At(w, "condemn")
    /\ row' = IF Live THEN [row EXCEPT !.status = "expired"] ELSE row
    /\ Goto(w, "confirm") /\ NoFault
    /\ UNCHANGED <<latest, objects, Setting>>

\* The claim checks the hold, the lease and the assessment again, at the
\* time of the selection.
Condemn(w) ==
    /\ At(w, "condemn")
    /\ \/ /\ Live /\ Releasable(local[w].t)
          /\ row' = [row EXCEPT !.status = "expired"]
          /\ \/ Goto(w, "shred") /\ NoFault
             \/ Done(w) /\ Fault
       \/ ~(Live /\ Releasable(local[w].t)) /\ Goto(w, "confirm") /\ UNCHANGED row /\ NoFault
       \/ UNCHANGED row /\ Done(w) /\ Fault
    /\ UNCHANGED <<latest, objects, Setting>>

\* A row that was "expired" already is purged all the same.
Confirm(w) ==
    /\ At(w, "confirm")
    /\ IF row.status = "expired" THEN Goto(w, "shred") ELSE Done(w)
    /\ UNCHANGED <<Data, Setting, faults>>

Shred(w) == DeleteNext(w, "shred", "purged")

MarkPurged(w) ==
    /\ At(w, "purged")
    /\ \/ /\ row' = IF row.status # "purged"
                    THEN [row EXCEPT !.status = "purged", !.r2 = None, !.pending = None,
                                     !.previous = None, !.lease = Free, !.until = 0]
                    ELSE row
          /\ NoFault
       \/ UNCHANGED row /\ Fault
    /\ Done(w)
    /\ UNCHANGED <<latest, objects, Setting>>

-----------------------------------------------------------------------------
(* Retention holds, and the world.                                         *)

BeginHold(w) ==
    /\ "hold" \in tasks /\ At(w, "idle")
    /\ local' = [local EXCEPT ![w] = [Idle EXCEPT !.pc = "hold", !.t = now]]
    /\ UNCHANGED <<Data, Setting, faults>>

SetHold(w) ==
    /\ At(w, "hold")
    /\ IF Live /\ row.expires > local[w].t
       THEN hold' \in {local[w].t + 1, MaxTime + 1}
       ELSE UNCHANGED hold
    /\ Done(w)
    /\ UNCHANGED <<Data, closed, active, now, nextKey, undone, stray, crashes, faults>>

ReleaseHold ==
    /\ hold > now
    /\ hold' = now
    /\ UNCHANGED <<Data, closed, active, now, nextKey, local, undone, stray, crashes, faults>>

Tick ==
    /\ now < MaxTime
    /\ now' = now + 1
    /\ UNCHANGED <<Data, hold, closed, active, nextKey, local, undone, stray, crashes, faults>>

\* Only uploads and purges ask for it: followed where both go on.
CloseAssessment ==
    /\ ~closed /\ "purge" \in tasks
    /\ closed' = TRUE
    /\ UNCHANGED <<Data, hold, active, now, nextKey, local, undone, stray, crashes, faults>>

NewKey ==
    /\ active < MaxEpoch
    /\ active' = active + 1
    /\ UNCHANGED <<Data, hold, closed, now, nextKey, local, undone, stray, crashes, faults>>

Crash(w) ==
    /\ ~At(w, "idle") /\ crashes < MaxCrashes
    /\ crashes' = crashes + 1
    /\ Done(w)
    /\ UNCHANGED <<Data, hold, closed, active, now, nextKey, undone, stray, faults>>

Store(w) ==
    \/ CheckAssessment(w) \/ LookUp(w) \/ PutEvidence(w) \/ InsertEvidence(w)
    \/ UndoPut(w) \/ RenewEvidence(w) \/ MarkStale(w)
Reviewing(w) == BeginReview(w) \/ Review(w)
Rotate(w) ==
    \/ SelectRotation(w) \/ ClaimRotation(w) \/ ReadObject(w) \/ CopyObject(w) \/ AbandonCopy(w)
    \/ ReleaseClaim(w) \/ BindSwitch(w) \/ SwitchObject(w) \/ Classify(w)
    \/ DeleteLoser(w) \/ DropPrevious(w) \/ ClearPrevious(w)
CleanUp(w) == SelectGarbage(w) \/ Reclaim(w) \/ Collect(w) \/ Reconcile(w)
Purge(w) == SelectExpired(w) \/ Condemn(w) \/ Confirm(w) \/ Shred(w) \/ MarkPurged(w)
Hold(w) == BeginHold(w) \/ SetHold(w)

Step(w) == Store(w) \/ Reviewing(w) \/ Rotate(w) \/ CleanUp(w) \/ Purge(w) \/ Hold(w)
World == ReleaseHold \/ Tick \/ CloseAssessment \/ NewKey \/ \E w \in Worker : Crash(w)
Next == (World \/ \E w \in Worker : Step(w)) /\ UNCHANGED tasks
Spec == Init /\ [][Next]_vars

-----------------------------------------------------------------------------
(* Properties.                                                             *)

Referenced == {row.r2, row.pending, row.previous}

\* What readEvidenceBytes serves: expired evidence only while it is held or its
\* assessment is open.
EvidenceReadable ==
    row.status \in {"live", "expired"} /\ (row.expires > now \/ hold > now \/ ~closed)

\* What readAssessorPackage serves.
PackageReadable == Live /\ row.expires > now

Readable == IF "package" \in tasks THEN PackageReadable ELSE EvidenceReadable

\* The rows are well formed, and what is served can be read: the row names an
\* object encrypted under the key the row says, however rotations, reconcilers,
\* purges and the publication of a package interleave.  (The exception is an
\* upload its own storeEvidence undid.)
CurrentObjectKept ==
    /\ TypeOK
    /\ Readable => \/ row.r2 \in DOMAIN objects /\ objects[row.r2] = row.epoch
                   \/ row.r2 \in undone

\* Once all workers are done, every object is one the row still names, or was
\* written by a rotation that outlived its lease: no other interleaving of
\* intact calls leaves ciphertext that nothing will ever delete.
NoOrphan ==
    (\A w \in Worker : At(w, "idle")) /\ faults = 0 /\ crashes = 0 =>
        DOMAIN objects \subseteq Referenced \union stray

\* A purge never deletes the object of held evidence.
HeldKept == [][
    row.r2 \in DOMAIN objects /\ row.r2 \notin DOMAIN objects' /\ (\E w \in Worker : Shred(w)) =>
        hold <= now]_vars
=============================================================================
