-------------------------- MODULE EvidencePromotion --------------------------
(* The hosted edition's promotion of one uploaded object from the          *)
(* quarantine bucket to locked evidence (infra/aws/cdk/runtime/            *)
(* promote-evidence), with the two workers that change the same upload     *)
(* intent: the reconciler of rejected scans and the shared maintenance     *)
(* sweep.                                                                  *)
(*                                                                         *)
(* A promotion is spread over DynamoDB (the intent, one row and one        *)
(* attempt per fence, the published receipt), S3 (the quarantined          *)
(* versions, the locked object) and Aurora (the row that accepts a         *)
(* promotion, behind a row lock).  No transaction spans two of them.  A    *)
(* worker is a Lambda invocation for one queue message; it may die between *)
(* any two calls, and the message comes back until maxReceiveCount.        *)
(*                                                                         *)
(* Clocks appear only as leases that have lapsed or not: a lease lives as  *)
(* long as an invocation may, and a message comes back a minute later than *)
(* that (lib/tenant-stack.ts).                                             *)
EXTENDS Naturals, FiniteSets

CONSTANTS
    Message,          \* queue messages about the intent's object
    Version,          \* versions of the quarantined object
    Threat,           \* versions that did not pass the malware scan
    None,
    MaxDeliveries,    \* maxReceiveCount of the queue of clean scans
    MaxFence,         \* bound on the promotion fence
    MaxFaults         \* bound on dead invocations, leases that lapse under a
                      \* live one, maintenance flags and messages that are a
                      \* week late, together

ASSUME PromotionAssumption ==
    /\ Threat \subseteq Version
    /\ {MaxDeliveries, MaxFence} \subseteq Nat \ {0} /\ MaxFaults \in Nat

VARIABLES
    about,      \* the version each message's scan event names
    intent,     \* the upload intent in DynamoDB
    rows,       \* its EvidencePromotionReceipt rows, by version
    attempts,   \* its EvidencePromotionCopyAttempt items, by fence
    published,  \* the authoritative recovery receipts, by version
    actions,    \* maintenance actions that are outstanding
    sources,    \* versions present in the quarantine bucket
    kept,       \* the object in the evidence bucket
    aurora,     \* the intent and its receipt in Aurora
    tx,         \* the message whose transaction holds Aurora's row lock
    sent,       \* deliveries of each message
    done,       \* messages that left the queue
    late,       \* the intent's reconciliation deadline has passed
    local,      \* the invocation that handles each message
    rejecter,   \* the reconciler of rejected scans
    faults

control == <<rows, attempts, published, actions>>
queue == <<about, sent, done>>
world == <<late, rejecter, faults>>
vars == <<intent, control, sources, kept, aurora, tx, queue, local, world>>

Fences == 1..MaxFence
Flags == 0..MaxFaults
Active == {"issued", "quarantined", "validated"}
Statuses == Active \union {"promoted", "rejected", "expired"}

\* What Aurora signs: the version, the fence whose worker wrote the locked
\* object, and the fence that was reconciled.
Facts == [source : Version, copy : Fences, fence : Fences]
Scans == [source : Version, clean : BOOLEAN]
Copies == [source : Version, fence : Fences]

ASSUME NoneAssumption == None \notin Version \union Message \union Facts \union Scans \union Copies

\* lease: "aging" once the holder's message was delivered again after the
\* lease was written.  flag: the maintenance action the intent names, 0 for
\* none.  recorded: the rejection was confirmed by Aurora.
Intents == [status : Statuses, source : Version \union {None}, fence : 0..MaxFence,
            holder : Message \union {None}, lease : {"none", "live", "aging", "expired"},
            flag : Flags, scan : Scans \union {None}, facts : Facts \union {None},
            rejection : Version \union {None}, recorded : BOOLEAN]
Issued == [status |-> "issued", source |-> None, fence |-> 0, holder |-> None, lease |-> "none",
           flag |-> 0, scan |-> None, facts |-> None, rejection |-> None, recorded |-> FALSE]

AuroraRows == [status : {"issued", "promoted", "rejected"}, fence : 0..MaxFence, live : BOOLEAN,
               facts : Facts \union {None}, rejection : Version \union {None}]

\* What an invocation keeps of the intent it read, until it takes the lease;
\* the scan until it has one.
Seen(i) == [status |-> i.status, source |-> i.source, fence |-> i.fence, flag |-> i.flag, scan |-> i.scan]
Views == [status : Statuses, source : Version \union {None}, fence : 0..MaxFence, flag : Flags,
          scan : Scans \union {None}]

\* live: the lease this invocation passes to Aurora has not expired; dest: the
\* fence in the metadata of the locked object; facts: what is reconciled.
Idle == [pc |-> "idle", seen |-> Seen(Issued), fence |-> 0, live |-> FALSE, dest |-> 0, facts |-> None]
Locals == [pc : {"idle", "read", "verify", "scan", "lookup", "recover", "claim", "validate", "fence",
                 "find", "permit", "put", "record", "resolve", "renew", "refence", "execute",
                 "commit", "renewAgain", "complete", "delete"},
           seen : Views, fence : 0..MaxFence, live : BOOLEAN, dest : 0..MaxFence,
           facts : Facts \union {None}]

Resting == [pc |-> "idle", version |-> None, status |-> "issued", flag |-> 0]
Rejecters == [pc : {"idle", "mark", "commit", "confirm"}, version : Version \union {None},
              status : Statuses, flag : Flags]

TypeOK ==
    /\ about \in [Message -> Version]
    /\ intent \in Intents
    /\ rows \in [Version -> {"none", "copying", "complete"}]
    /\ attempts \in [Fences -> {"none", "permitted", "copied", "adopted", "reconciled"}]
    /\ published \in [Version -> Facts \union {None}]
    /\ actions \subseteq Flags \ {0}
    /\ sources \subseteq Version /\ kept \in Copies \union {None}
    /\ aurora \in AuroraRows /\ tx \in Message \union {None}
    /\ sent \in [Message -> 0..MaxDeliveries]
    /\ done \in [Message -> {"open", "acked", "dead"}]
    /\ late \in BOOLEAN
    /\ local \in [Message -> Locals] /\ rejecter \in Rejecters
    /\ faults \in Flags

Init ==
    /\ about \in [Message -> Version \ Threat]
    /\ intent = Issued
    /\ rows = [v \in Version |-> "none"]
    /\ attempts = [f \in Fences |-> "none"]
    /\ published = [v \in Version |-> None]
    /\ actions = {}
    /\ sources = Version /\ kept = None
    /\ aurora = [status |-> "issued", fence |-> 0, live |-> FALSE, facts |-> None, rejection |-> None]
    /\ tx = None
    /\ sent = [m \in Message |-> 0] /\ done = [m \in Message |-> "open"]
    /\ late = FALSE
    /\ local = [m \in Message |-> Idle] /\ rejecter = Resting
    /\ faults = 0

-----------------------------------------------------------------------------
(* Deliveries.                                                             *)

At(m, place) == local[m].pc = place
Goto(m, place) == local' = [local EXCEPT ![m].pc = place]
Scanned(m) == local' = [local EXCEPT ![m].pc = "lookup", ![m].seen.scan = None]

\* The handler returned, so the message is deleted.
Ack(m) ==
    /\ local' = [local EXCEPT ![m] = Idle]
    /\ done' = [done EXCEPT ![m] = "acked"]
    /\ UNCHANGED <<about, sent>>

\* The handler threw: the message comes back, or goes to the dead-letter
\* queue.  A transaction that was open is rolled back.
Fail(m) ==
    /\ local' = [local EXCEPT ![m] = Idle]
    /\ done' = IF sent[m] = MaxDeliveries THEN [done EXCEPT ![m] = "dead"] ELSE done
    /\ tx' = IF tx = m THEN None ELSE tx
    /\ UNCHANGED <<about, sent>>

\* Two deliveries of a message are further apart than an invocation lasts, so
\* the second after its lease was written finds that lease lapsed.
WaitedNot(m) == TRUE
Waited(m) == ~(intent.holder = m /\ intent.lease = "aging")

Receive(m) ==
    /\ At(m, "idle") /\ done[m] = "open" /\ sent[m] < MaxDeliveries
    /\ Waited(m)
    /\ sent' = [sent EXCEPT ![m] = @ + 1]
    /\ intent' = IF intent.holder = m /\ intent.lease = "live"
                 THEN [intent EXCEPT !.lease = "aging"] ELSE intent
    /\ Goto(m, "read")
    /\ UNCHANGED <<control, sources, kept, aurora, tx, about, done, world>>

Parses == ~late /\ intent.status \in Active \union {"promoted"}
Readable(m) == Parses /\ (intent.status = "promoted" => intent.source = about[m])

ReadIntent(m) ==
    /\ At(m, "read") /\ Readable(m)
    /\ local' = [local EXCEPT ![m].pc = IF intent.status = "promoted" THEN "verify" ELSE "scan",
                              ![m].seen = Seen(intent)]
    /\ UNCHANGED <<intent, control, sources, kept, aurora, tx, queue, world>>

\* A message about an intent that is promoted already changes nothing; the
\* quarantined version is not looked at.
Verified(m) ==
    LET f == aurora.facts IN
    /\ f # None /\ f = intent.facts /\ f.source = about[m]
    /\ rows[about[m]] = "complete" /\ published[about[m]] = f
    /\ kept = [source |-> f.source, fence |-> f.copy]

Verify(m) ==
    /\ At(m, "verify") /\ Verified(m) /\ Ack(m)
    /\ UNCHANGED <<intent, control, sources, kept, aurora, tx, world>>

-----------------------------------------------------------------------------
(* The scan of the exact version, and what Aurora already accepted.        *)

Present(m) == about[m] \in sources
CleanScan(m) == [source |-> about[m], clean |-> TRUE]

\* Scanned here: the answer is persisted before it is acted upon.
Scan(m) ==
    /\ At(m, "scan") /\ Present(m)
    /\ local[m].seen.scan = None /\ intent.scan = None /\ intent.status \in Active
    /\ \E clean \in BOOLEAN :
        /\ intent' = [intent EXCEPT !.scan = [source |-> about[m], clean |-> clean]]
        /\ IF clean THEN Scanned(m) /\ UNCHANGED <<tx, queue>> ELSE Fail(m)
    /\ UNCHANGED <<control, sources, kept, aurora, world>>

\* Scanned before, or by another invocation since the intent was read.
ReusableAny(m) == local[m].seen.scan # None \/ intent.scan # None
Reusable(m) ==
    \/ local[m].seen.scan = CleanScan(m)
    \/ local[m].seen.scan = None /\ intent.scan = CleanScan(m) /\ Parses

Reuse(m) ==
    /\ At(m, "scan") /\ Present(m) /\ Reusable(m) /\ Scanned(m)
    /\ UNCHANGED <<intent, control, sources, kept, aurora, tx, queue, world>>

Unscannable(m) ==
    \/ ~Present(m)
    \/ /\ ~Reusable(m)
       /\ ~(local[m].seen.scan = None /\ intent.scan = None /\ intent.status \in Active)

\* A receipt that Aurora committed is completed; it names this version, and
\* the intent that was read is one that may still be completed.
Acceptable(m) ==
    LET f == aurora.facts IN
    f # None => /\ f.source = about[m] /\ local[m].seen.status = "validated"
                /\ kept = [source |-> f.source, fence |-> f.copy]

LookUp(m) ==
    /\ At(m, "lookup") /\ Acceptable(m)
    /\ local' = [local EXCEPT ![m].pc = IF aurora.facts = None THEN "claim" ELSE "recover",
                              ![m].facts = aurora.facts]
    /\ UNCHANGED <<intent, control, sources, kept, aurora, tx, queue, world>>

-----------------------------------------------------------------------------
(* The lease: a fence in DynamoDB, published to Aurora.                    *)

\* The intent's lease is this invocation's; fences are never reused, so the
\* fence stands for the attempt identity derived from it.
Holds(m) == intent.holder = m /\ intent.fence = local[m].fence
LeaseFlagged(m, fence, status) ==
    intent' = [intent EXCEPT !.status = status, !.source = about[m], !.fence = fence,
                             !.holder = m, !.lease = "live"]
Lease(m, fence, status) ==
    intent' = [intent EXCEPT !.status = status, !.source = about[m], !.fence = fence,
                             !.holder = m, !.lease = "live", !.flag = 0]
Leased(m, fence, place) ==
    local' = [local EXCEPT ![m] = [Idle EXCEPT !.pc = place, !.fence = fence, !.live = TRUE]]

Claimable(m) == intent.status = "issued" /\ intent.fence = 0 /\ rows[about[m]] = "none"

Claim(m) ==
    /\ At(m, "claim") /\ local[m].seen.status = "issued" /\ Claimable(m)
    /\ Lease(m, 1, "quarantined") /\ Leased(m, 1, "validate")
    /\ rows' = [rows EXCEPT ![about[m]] = "copying"]
    /\ UNCHANGED <<attempts, published, actions, sources, kept, aurora, tx, queue, world>>

\* Whoever moves the intent on resolves the maintenance action it names.
ActionResolved == actions \ {intent.flag}

\* The lease that was read has expired, and a maintenance action that was
\* read is resolved with it.
Takeable(m) ==
    LET seen == local[m].seen IN
    /\ seen.source = about[m] /\ intent.source = about[m]
    /\ intent.status = seen.status /\ intent.fence = seen.fence /\ intent.flag = seen.flag
    /\ intent.lease = "expired" /\ rows[about[m]] = "copying"

TakeOver(m) ==
    /\ At(m, "claim") /\ local[m].seen.status # "issued" /\ Takeable(m)
    /\ intent.fence < MaxFence
    /\ Lease(m, intent.fence + 1, intent.status)
    /\ Leased(m, intent.fence + 1, IF intent.status = "quarantined" THEN "validate" ELSE "fence")
    /\ actions' = ActionResolved
    /\ UNCHANGED <<rows, attempts, published, sources, kept, aurora, tx, queue, world>>

\* The expiry is compared with the time of the claim itself.
Validate(m) ==
    /\ At(m, "validate") /\ intent.status = "quarantined" /\ Holds(m)
    /\ intent' = [intent EXCEPT !.status = "validated"]
    /\ Goto(m, "fence")
    /\ UNCHANGED <<control, sources, kept, aurora, tx, queue, world>>

\* claim_promotion_fence: only a lapsed fence is superseded, and only by a
\* newer one.
FenceUnordered(m) == aurora.status = "issued"
FenceOpen(m) ==
    /\ aurora.status = "issued" /\ local[m].live
    /\ \/ aurora.fence = local[m].fence
       \/ aurora.fence < local[m].fence /\ (aurora.fence = 0 \/ ~aurora.live)

ClaimFence(m) ==
    /\ At(m, "fence") \/ At(m, "refence")
    /\ tx = None /\ FenceOpen(m)
    /\ aurora' = [aurora EXCEPT !.fence = local[m].fence, !.live = TRUE]
    /\ Goto(m, IF At(m, "fence") THEN "find" ELSE "execute")
    /\ UNCHANGED <<intent, control, sources, kept, tx, queue, world>>

ActiveLease(m) ==
    /\ intent.status = "validated" /\ intent.source = about[m]
    /\ Holds(m) /\ intent.lease # "expired"

Renew(m) ==
    /\ At(m, "renew") \/ At(m, "renewAgain")
    /\ ActiveLease(m)
    /\ intent' = [intent EXCEPT !.lease = "live"]
    /\ local' = [local EXCEPT ![m].pc = IF At(m, "renew") THEN "refence" ELSE "complete",
                              ![m].live = TRUE]
    /\ UNCHANGED <<control, sources, kept, aurora, tx, queue, world>>

-----------------------------------------------------------------------------
(* The locked copy.                                                        *)

Tracked(f) == attempts[f] \in {"permitted", "copied", "reconciled"}
Copied(f) == attempts' = IF attempts[f] = "permitted" THEN [attempts EXCEPT ![f] = "copied"] ELSE attempts

\* The object is there: the attempt that wrote it is completed for its worker.
Adoptable(m) == kept # None /\ kept.source = about[m] /\ Tracked(kept.fence)

UseCopyUntracked(m) ==
    /\ UNCHANGED attempts
    /\ local' = [local EXCEPT ![m].pc = "resolve", ![m].dest = kept.fence]
UseCopy(m) ==
    /\ Copied(kept.fence)
    /\ local' = [local EXCEPT ![m].pc = "resolve", ![m].dest = kept.fence]

Find(m) ==
    /\ At(m, "find")
    /\ \/ kept = None /\ Goto(m, "permit") /\ UNCHANGED attempts
       \/ Adoptable(m) /\ UseCopy(m)
    /\ UNCHANGED <<intent, rows, published, actions, sources, kept, aurora, tx, queue, world>>

PermitCopy(m) == attempts' = [attempts EXCEPT ![local[m].fence] = "permitted"]

\* The attempt is durable before the object can be.
Permit(m) ==
    /\ At(m, "permit")
    /\ ActiveLease(m) /\ rows[about[m]] = "copying" /\ attempts[local[m].fence] = "none"
    /\ intent' = [intent EXCEPT !.lease = "live"]
    /\ PermitCopy(m)
    /\ Goto(m, "put")
    /\ UNCHANGED <<rows, published, actions, sources, kept, aurora, tx, queue, world>>

\* PutObject with If-None-Match: *.
Vacant == kept = None
Put(m) ==
    /\ At(m, "put") /\ Present(m) /\ Vacant
    /\ kept' = [source |-> about[m], fence |-> local[m].fence]
    /\ Goto(m, "record")
    /\ UNCHANGED <<intent, control, sources, aurora, tx, queue, world>>

Adopt(m) ==
    /\ At(m, "put") /\ Present(m) /\ Adoptable(m) /\ UseCopy(m)
    /\ UNCHANGED <<intent, rows, published, actions, sources, kept, aurora, tx, queue, world>>

Record(m) ==
    /\ At(m, "record") /\ Tracked(local[m].fence)
    /\ Copied(local[m].fence)
    /\ local' = [local EXCEPT ![m].pc = "resolve", ![m].dest = local[m].fence]
    /\ UNCHANGED <<intent, rows, published, actions, sources, kept, aurora, tx, queue, world>>

\* Attempts whose object was never written are marked one by one.
Orphans(m) == {f \in Fences : attempts[f] = "permitted" /\ f # local[m].dest}

Resolve(m) ==
    /\ At(m, "resolve")
    /\ \/ \E f \in Orphans(m) : attempts' = [attempts EXCEPT ![f] = "adopted"] /\ UNCHANGED local
       \/ Orphans(m) = {} /\ Goto(m, "renew") /\ UNCHANGED attempts
    /\ UNCHANGED <<intent, rows, published, actions, sources, kept, aurora, tx, queue, world>>

-----------------------------------------------------------------------------
(* Acceptance in Aurora and completion in DynamoDB.                        *)

\* reconcile_promoted_evidence, in a transaction that claims the fence again.
Execute(m) ==
    /\ At(m, "execute") /\ tx = None /\ FenceOpen(m) /\ aurora.facts = None
    /\ tx' = m
    /\ local' = [local EXCEPT ![m].pc = "commit",
            ![m].facts = [source |-> about[m], copy |-> local[m].dest, fence |-> local[m].fence]]
    /\ UNCHANGED <<intent, control, sources, kept, aurora, queue, world>>

CommitLast(m) ==
    /\ At(m, "commit") /\ tx = m
    /\ aurora' = [aurora EXCEPT !.status = "promoted", !.facts = local[m].facts]
    /\ tx' = None
    /\ Goto(m, "delete")
    /\ UNCHANGED <<intent, control, sources, kept, queue, world>>
Commit(m) ==
    /\ At(m, "commit") /\ tx = m
    /\ aurora' = [aurora EXCEPT !.status = "promoted", !.facts = local[m].facts]
    /\ tx' = None
    /\ Goto(m, "renewAgain")
    /\ UNCHANGED <<intent, control, sources, kept, queue, world>>

\* One transaction over the intent, its row, the recovery receipt and the
\* attempt whose object is kept.
Completable(m) ==
    LET f == local[m].facts IN
    /\ intent.status = "validated" /\ intent.source = about[m]
    /\ intent.flag = local[m].seen.flag
    /\ rows[about[m]] = "copying" /\ published[about[m]] = None /\ attempts[f.copy] = "copied"

Publish(m) ==
    LET f == local[m].facts IN
    /\ intent' = [intent EXCEPT !.status = "promoted", !.lease = "none", !.flag = 0, !.facts = f]
    /\ rows' = [rows EXCEPT ![about[m]] = "complete"]
    /\ attempts' = [attempts EXCEPT ![f.copy] = "reconciled"]
    /\ published' = [published EXCEPT ![about[m]] = f]
    /\ Goto(m, "delete")
    /\ UNCHANGED <<sources, kept, aurora, tx, queue, world>>

Complete(m) ==
    /\ At(m, "complete") /\ Completable(m) /\ Holds(m) /\ intent.lease # "expired"
    /\ Publish(m) /\ UNCHANGED actions

\* A receipt that Aurora committed needs no lease to be completed.
Recover(m) ==
    /\ At(m, "recover") /\ Completable(m)
    /\ Publish(m) /\ actions' = ActionResolved

Delete(m) ==
    /\ At(m, "delete")
    /\ sources' = sources \ {about[m]}
    /\ Ack(m)
    /\ UNCHANGED <<intent, control, kept, aurora, tx, world>>

-----------------------------------------------------------------------------
(* Invocations that end early.                                             *)

\* A condition of the next call does not hold, and the handler throws.
Refused(m) ==
    \/ At(m, "read") /\ ~Readable(m)
    \/ At(m, "verify") /\ ~Verified(m)
    \/ At(m, "scan") /\ Unscannable(m)
    \/ At(m, "lookup") /\ ~Acceptable(m)
    \/ At(m, "claim") /\ local[m].seen.status = "issued" /\ ~Claimable(m)
    \/ At(m, "claim") /\ local[m].seen.status # "issued" /\ ~Takeable(m)
    \/ At(m, "validate") /\ ~(intent.status = "quarantined" /\ Holds(m))
    \/ (At(m, "fence") \/ At(m, "refence")) /\ tx = None /\ ~FenceOpen(m)
    \/ At(m, "find") /\ kept # None /\ ~Adoptable(m)
    \/ At(m, "permit") /\ ~ActiveLease(m)
    \/ At(m, "put") /\ (~Present(m) \/ (kept # None /\ ~Adoptable(m)))
    \/ At(m, "record") /\ ~Tracked(local[m].fence)
    \/ (At(m, "renew") \/ At(m, "renewAgain")) /\ ~ActiveLease(m)
    \/ At(m, "execute") /\ tx = None /\ ~(FenceOpen(m) /\ aurora.facts = None)
    \/ At(m, "complete") /\ ~(Completable(m) /\ Holds(m) /\ intent.lease # "expired")
    \/ At(m, "recover") /\ ~Completable(m)

Refuse(m) ==
    /\ Refused(m) /\ Fail(m)
    /\ UNCHANGED <<intent, control, sources, kept, aurora, world>>

Fault == faults < MaxFaults /\ faults' = faults + 1

Die(m) ==
    /\ ~At(m, "idle") /\ Fail(m) /\ Fault
    /\ UNCHANGED <<intent, control, sources, kept, aurora, late, rejecter>>

\* The holder is an invocation that is still running.
Held == intent.holder # None /\ intent.fence > 0 /\ local[intent.holder].fence = intent.fence

\* An invocation ends before the lease it wrote does, but for clocks that
\* disagree.
Lapse ==
    /\ intent.lease \in {"live", "aging"}
    /\ IF Held THEN Fault ELSE UNCHANGED faults
    /\ intent' = [intent EXCEPT !.lease = "expired"]
    /\ aurora' = [aurora EXCEPT !.live = FALSE]
    /\ local' = [m \in Message |-> [local[m] EXCEPT !.live = FALSE]]
    /\ UNCHANGED <<control, sources, kept, tx, queue, late, rejecter>>

-----------------------------------------------------------------------------
(* The maintenance sweep.                                                  *)

\* expiresAt and seven days; a message that is still open then was late itself.
Deadline ==
    /\ ~late /\ late' = TRUE
    /\ IF \E m \in Message : done[m] = "open" THEN Fault ELSE UNCHANGED faults
    /\ UNCHANGED <<intent, control, sources, kept, aurora, tx, queue, local, rejecter>>

Expire ==
    /\ late /\ intent.status = "issued"
    /\ intent' = [intent EXCEPT !.status = "expired"]
    /\ UNCHANGED <<control, sources, kept, aurora, tx, queue, local, world>>

\* A lease that lapsed a quarter of an hour ago, when its holder is long dead.
Orphaned ==
    /\ intent.status \in {"quarantined", "validated"} /\ intent.lease = "expired"
    /\ intent.flag = 0 /\ ~Held

Flag ==
    /\ Orphaned /\ Fault
    /\ intent' = [intent EXCEPT !.flag = faults']
    /\ actions' = actions \union {faults'}
    /\ UNCHANGED <<rows, attempts, published, sources, kept, aurora, tx, queue, local, late, rejecter>>

-----------------------------------------------------------------------------
(* The reconciler of rejected scans.                                       *)

RejecterAt(place) == rejecter.pc = place
Rest == rejecter' = Resting

RejectRead(v) ==
    /\ RejecterAt("idle") /\ v \in sources
    /\ \/ intent.status \in Active /\ rejecter' =
            [pc |-> "mark", version |-> v, status |-> intent.status, flag |-> intent.flag]
       \/ intent.status = "rejected" /\ intent.rejection = v /\ ~intent.recorded /\ rejecter' =
            [pc |-> "commit", version |-> v, status |-> "rejected", flag |-> 0]
    /\ UNCHANGED <<intent, control, sources, kept, aurora, tx, queue, local, late, faults>>

\* The intent is as it was read; neither its lease nor the version it claimed
\* is compared.
Unchanged == intent.status = rejecter.status /\ intent.flag = rejecter.flag

RejectMark ==
    /\ RejecterAt("mark") /\ Unchanged
    /\ intent' = [intent EXCEPT !.status = "rejected", !.lease = "none", !.flag = 0,
                                !.rejection = rejecter.version]
    /\ actions' = ActionResolved
    /\ rejecter' = [rejecter EXCEPT !.pc = "commit"]
    /\ UNCHANGED <<rows, attempts, published, sources, kept, aurora, tx, queue, local, late, faults>>

Rejectable == aurora.status = "issued" \/ aurora.rejection = rejecter.version

RejectCommit ==
    /\ RejecterAt("commit") /\ tx = None /\ Rejectable
    /\ aurora' = [aurora EXCEPT !.status = "rejected", !.rejection = rejecter.version]
    /\ rejecter' = [rejecter EXCEPT !.pc = "confirm"]
    /\ UNCHANGED <<intent, control, sources, kept, tx, queue, local, late, faults>>

RejectConfirm ==
    /\ RejecterAt("confirm")
    /\ intent' = [intent EXCEPT !.recorded = TRUE]
    /\ Rest
    /\ UNCHANGED <<control, sources, kept, aurora, tx, queue, local, late, faults>>

\* A condition fails, or it dies; its message is delivered again.
RejectRefused ==
    \/ RejecterAt("mark") /\ ~Unchanged
    \/ RejecterAt("commit") /\ tx = None /\ ~Rejectable

RejectFail ==
    /\ ~RejecterAt("idle") /\ Rest
    /\ IF RejectRefused THEN UNCHANGED faults ELSE Fault
    /\ UNCHANGED <<intent, control, sources, kept, aurora, tx, queue, local, late>>

-----------------------------------------------------------------------------

Prepare(m) ==
    \/ ReadIntent(m) \/ Verify(m) \/ Scan(m) \/ Reuse(m) \/ LookUp(m)
    \/ Claim(m) \/ TakeOver(m) \/ Validate(m) \/ ClaimFence(m) \/ Renew(m)

Promote(m) ==
    \/ Find(m) \/ Permit(m) \/ Put(m) \/ Adopt(m) \/ Record(m) \/ Resolve(m)
    \/ Execute(m) \/ Commit(m) \/ Complete(m) \/ Recover(m) \/ Delete(m)

Work(m) == Prepare(m) \/ Promote(m) \/ Refuse(m)

Next ==
    \/ \E m \in Message : Receive(m) \/ Work(m) \/ Die(m)
    \/ Lapse \/ Deadline \/ Expire \/ Flag
    \/ \E v \in Threat : RejectRead(v)
    \/ RejectMark \/ RejectCommit \/ RejectConfirm \/ RejectFail

\* The event source mapping delivers what is visible, Lambda runs what it
\* started, and a lease lapses unless it is renewed.
Fairness ==
    /\ \A m \in Message : WF_vars(Receive(m)) /\ WF_vars(Work(m))
    /\ WF_vars(Lapse /\ ~Held)

Spec == Init /\ [][Next]_vars /\ Fairness

-----------------------------------------------------------------------------
(* What the promotion guarantees.                                          *)

\* A promoted intent, its recovery receipt and Aurora's signed row say the
\* same, the object they name is the one in the evidence bucket, and the
\* version it was copied from passed both scans.  A message leaves the queue
\* only then (promote-evidence/index.mjs, handler).
PublishedIsAccepted ==
    /\ intent.status = "promoted" =>
        /\ aurora.facts # None /\ intent.facts = aurora.facts
        /\ published[intent.source] = aurora.facts /\ aurora.facts.source = intent.source
        /\ kept = [source |-> intent.source, fence |-> aurora.facts.copy]
        /\ intent.scan = [source |-> intent.source, clean |-> TRUE]
    /\ \A m \in Message : done[m] = "acked" => intent.status = "promoted" /\ intent.source = about[m]

\* Once Aurora accepted a promotion, DynamoDB is in a state from which the
\* recovery can complete it, unless a rejection was recorded there.
AcceptedCanComplete ==
    aurora.facts # None /\ intent.status \notin {"rejected", "promoted"} =>
        LET f == aurora.facts IN
        /\ intent.status = "validated" /\ intent.source = f.source
        /\ kept = [source |-> f.source, fence |-> f.copy]
        /\ rows[f.source] = "copying" /\ published[f.source] = None
        /\ attempts[f.copy] = "copied"

\* The maintenance action the intent names is the one that is outstanding:
\* whoever leaves the state it was raised for resolves it.
FlagsMatchLedger == actions = {intent.flag} \ {0}

\* One dead invocation, one lapse or one flag is survived: not every message
\* of a clean version ends in the dead-letter queue after it, although the
\* lease may outlive the next delivery.
Settled ==
    \/ intent.status \in {"promoted", "rejected", "expired"} \/ late
    \/ intent.scan # None /\ ~intent.scan.clean

OneFaultIsSurvived ==
    (\A m \in Message : done[m] = "dead") => Settled \/ faults >= 2

\* A worker whose fence Aurora has seen superseded changes neither store.
SupersededIsPowerless ==
    [][\A m \in Message :
        local[m].fence \in 1..(aurora.fence - 1) /\ local'[m] # local[m] /\ local'[m].pc # "idle"
            => UNCHANGED <<aurora, rows, published>> /\ intent'.status = intent.status]_vars

\* The bytes are in custody throughout: the promotion implements
\* EvidenceCustody, with the object and Aurora's row as the copy and the
\* acceptance.
SourceOf(receipt) == IF receipt = None THEN None ELSE receipt.source
Custody == INSTANCE EvidenceCustody WITH
    held <- sources, copy <- SourceOf(kept), accepted <- SourceOf(aurora.facts),
    published <- {v \in Version : published[v] # None}
IsEvidenceCustody == Custody!Spec

=============================================================================
