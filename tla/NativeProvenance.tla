--------------------------- MODULE NativeProvenance ---------------------------
(* The server-side chain of a capture device.                               *)
(*                                                                          *)
(* A Mac numbers its captures and signs each over the hash of the one       *)
(* before.  The upload route (app/api/native/evidence/route.ts) reserves    *)
(* the next link of the device's chain (reserveCaptureDeviceChain), stores  *)
(* the artifact (storeEvidence) and then appends the link                   *)
(* (finalizeCaptureDeviceChain): three transactions with awaits between     *)
(* them, under a lease that may run out.  The scheduler's reconciler        *)
(* (lib/server/native-provenance-reconciliation.ts) finishes or releases    *)
(* what was left behind and returns artifacts that no link will reach.      *)
(* Reviewers, the device's owner and administrators change the rows both    *)
(* of them have read.                                                       *)
(*                                                                          *)
(* Time is the order of things: lease and queue entry carry the number of   *)
(* their creation, and the clock of each kind is the highest number that    *)
(* has run out.  A page of the reconciler holds one row.                    *)
EXTENDS Naturals, FiniteSets

CONSTANTS
    Device,
    Capture,      \* the signed captures Macs may upload
    Facts,        \* capture -> [device, sequence, previous, key], as signed
    DeviceGenesis,      \* the hash a chain starts from
    NoKey,        \* no signing key is pinned yet
    Worker,       \* slots 1, 2, ... for upload requests that overlap
    Scenarios,    \* what may happen in one behaviour, see scenario
    MaxUploads,   \* bound on the upload requests
    MaxAssessment \* bound on the assessments that follow one another

Artifact == Capture \X (1..MaxAssessment)
ChangeKinds == {"revoke", "member", "assessment", "review"}

ASSUME FactsAssumption ==
    /\ MaxUploads \in Nat /\ MaxAssessment \in Nat \ {0} /\ Worker \subseteq Nat \ {0}
    /\ Scenarios \subseteq [captures : SUBSET Capture, workers : SUBSET Worker, uploads : 0..MaxUploads,
                            changes : Nat, kinds : SUBSET ChangeKinds, faults : Nat, left : SUBSET Artifact]
    /\ \A s \in Scenarios : s.left = {} \/ \E c \in Capture, n \in 1..MaxAssessment :
         /\ s.left = {c} \X (1..n) /\ n <= s.uploads
         /\ Facts[c].sequence = 1 /\ Facts[c].previous = DeviceGenesis
    /\ IsFiniteSet(Capture) /\ DeviceGenesis \notin Capture
    /\ \A c \in Capture :
         /\ Facts[c].device \in Device /\ Facts[c].sequence \in Nat \ {0}
         /\ Facts[c].previous \in Capture \union {DeviceGenesis} /\ Facts[c].key # NoKey

VARIABLES
    scenario,     \* the captures and requests of this behaviour, how many
                  \* changes of which kinds and how many failures it may meet,
                  \* and the artifacts dead requests have left behind
    device,       \* the capture_devices rows
    links,        \* the native_evidence_manifests
    artifact,     \* the evidence_artifacts, by capture and assessment
    queue,        \* artifact -> number of its reconciliation entry, 0 if none
    assessment,   \* the active assessment
    member,       \* the owner's membership; suspended also stands for a
                  \* role that may not collect evidence
    granted, lapsed,   \* leases granted so far, and those that have expired
    due,          \* the queue entries up to this number are due
    upload,       \* what each upload request is doing
    cursor,       \* native_provenance_reconciliation_state
    pass,         \* what the reconciler is doing
    uploads, changes, failures

state == <<device, links, artifact, queue>>
rules == <<assessment, member>>
clocks == <<granted, lapsed, due>>
bounds == <<scenario, uploads, changes, failures>>
deviceVars == <<scenario, device, links, artifact, queue, assessment, member, granted, lapsed, due,
          upload, cursor, pass, uploads, changes, failures>>

Keys == {Facts[c].key : c \in Capture}
Lease == 1..MaxUploads
None == [lease |-> 0, capture |-> DeviceGenesis]
Away == [pc |-> "idle", capture |-> DeviceGenesis, assessment |-> 0, lease |-> 0]
Asleep == [pc |-> "idle", lease |-> 0, entry |-> 0, item |-> <<>>, seen |-> "absent"]

Unstored == [status |-> "absent", review |-> "absent", reopened |-> FALSE]
Fresh == [status |-> "needs_review", review |-> "needs_review", reopened |-> FALSE]

Activity == {"needs_review", "approved"}
Statuses == Activity \union {"absent", "returned"}

DeviceTypeOK ==
    /\ device \in [Device -> [status : {"active", "revoked"}, key : Keys \union {NoKey},
                              sequence : Nat, head : Capture \union {DeviceGenesis},
                              pending : [lease : Lease, capture : Capture] \union {None}]]
    /\ links \subseteq [device : Device, sequence : Nat, capture : Capture,
                        artifact : Artifact, key : Keys]
    /\ artifact \in [Artifact -> [status : Statuses, review : Statuses, reopened : BOOLEAN]]
    /\ queue \in [Artifact -> 0..Cardinality(Artifact)]
    /\ assessment \in 1..MaxAssessment /\ member \in {"active", "suspended", "revoked"}
    /\ granted \in 0..MaxUploads /\ lapsed \in 0..granted /\ due \in Nat
    /\ upload \in [Worker -> [pc : {"idle", "claim", "lookup", "insert", "finalize", "link", "recheck"},
                              capture : Capture \union {DeviceGenesis}, assessment : 0..MaxAssessment,
                              lease : 0..MaxUploads]]
    /\ cursor \in [pending : 0..MaxUploads, orphan : 0..Cardinality(Artifact)]
    /\ pass.pc \in {"idle", "examine", "finalize", "release", "dismiss", "orphans", "drain",
                    "quarantine", "advance"}
    /\ scenario \in Scenarios /\ uploads \in 0..MaxUploads
    /\ changes \in 0..scenario.changes /\ failures \in 0..scenario.faults

\* Where requests have left artifacts, each stored the same capture for the
\* assessment of its day under the one reservation, and died.
DeviceInit ==
    /\ scenario \in Scenarios
    /\ LET left == scenario.left
           abandoned(d) == \E a \in left : Facts[a[1]].device = d
           lost == CHOOSE c \in Capture : \E a \in left : a[1] = c IN
       /\ device = [d \in Device |->
            [status |-> "active", key |-> IF abandoned(d) THEN Facts[lost].key ELSE NoKey,
             sequence |-> 0, head |-> DeviceGenesis,
             pending |-> IF abandoned(d) THEN [lease |-> 1, capture |-> lost] ELSE None]]
       /\ artifact = [a \in Artifact |-> IF a \in left THEN Fresh ELSE Unstored]
       /\ queue = [a \in Artifact |-> IF a \in left THEN a[2] ELSE 0]
       /\ uploads = Cardinality(left)
       /\ assessment = IF left = {} THEN 1 ELSE Cardinality(left)
       /\ granted = IF left = {} THEN 0 ELSE 1
    /\ links = {} /\ member = "active" /\ lapsed = 0 /\ due = 0
    /\ upload = [w \in Worker |-> Away]
    /\ cursor = [pending |-> 0, orphan |-> 0] /\ pass = Asleep
    /\ changes = 0 /\ failures = 0

------------------------------------------------------------------------------
(* What the statements compare.                                             *)

Stored == {a \in Artifact : artifact[a].status # "absent"}
Linked(a) == \E l \in links : l.artifact = a
Pending == {device[d].pending.lease : d \in Device} \ {0}
Queued == {queue[a] : a \in Artifact} \ {0}
Reserved(d) == device[d].pending.lease # 0
Expired(n) == n \in 1..lapsed

\* A capture is the next link of its device's chain.
Continues(c) ==
    LET row == device[Facts[c].device] IN
    Facts[c].sequence = row.sequence + 1 /\ Facts[c].previous = row.head

\* exactExisting: this capture's link to this artifact is in the chain.
ExactExisting(c, a) ==
    \E l \in links : /\ l.device = Facts[c].device /\ l.capture = c /\ l.artifact = a
                     /\ l.sequence = Facts[c].sequence
                     /\ device[l.device].sequence >= l.sequence
                     /\ device[l.device].key = l.key

\* The unique indexes on (device, local evidence) and (device, sequence).
Insertable(c) ==
    \A l \in links : l.device = Facts[c].device =>
        l.capture # c /\ l.sequence # Facts[c].sequence

\* The UPDATE of capture_devices in finalizeCaptureDeviceChain: the row
\* still holds this lease for this capture, whether or not it has expired.
HoldsLease(c, n) ==
    LET row == device[Facts[c].device] IN
    /\ row.status = "active" /\ row.key = Facts[c].key
    /\ Continues(c) /\ row.pending = [lease |-> n, capture |-> c]

\* Mutant: the queue entry is left to the reconciler.
AppendLinkOnly(c, a) ==
    LET d == Facts[c].device IN
    /\ links' = links \union {[device |-> d, sequence |-> Facts[c].sequence, capture |-> c,
                               artifact |-> a, key |-> Facts[c].key]}
    /\ device' = [device EXCEPT ![d].sequence = Facts[c].sequence, ![d].head = c,
                                ![d].pending = None]
    /\ UNCHANGED <<artifact, queue>>

\* The batch both finalizers run: the link, the new head, the queue entry.
AppendLink(c, a) ==
    LET d == Facts[c].device IN
    /\ links' = links \union {[device |-> d, sequence |-> Facts[c].sequence, capture |-> c,
                               artifact |-> a, key |-> Facts[c].key]}
    /\ device' = [device EXCEPT ![d].sequence = Facts[c].sequence, ![d].head = c,
                                ![d].pending = None]
    /\ queue' = [queue EXCEPT ![a] = 0]
    /\ UNCHANGED artifact

------------------------------------------------------------------------------
(* The upload route.                                                        *)

\* Slots are interchangeable: a request takes the lowest free one, if any.
FreeSlot ==
    LET free == {w \in Worker : upload[w].pc = "idle"} IN
    IF free = {} THEN 0 ELSE CHOOSE w \in free : \A v \in free : w <= v

Goto(w, pc) == upload' = [upload EXCEPT ![w].pc = pc]
Leave(w) == upload' = [upload EXCEPT ![w] = Away]
Target(w) == <<upload[w].capture, upload[w].assessment>>

\* The checks of the route, then reserveCaptureDeviceChain up to the row it
\* reads.  A live lease for this very capture is taken over as it is; a live
\* lease for another, a foreign key or a gap in the chain ends the request.
Upload(w, c) ==
    LET row == device[Facts[c].device]
        live == Reserved(Facts[c].device) /\ ~Expired(row.pending.lease)
        matches == live /\ row.pending.capture = c IN
    /\ w \in scenario.workers /\ c \in scenario.captures
    /\ w = FreeSlot /\ uploads < scenario.uploads
    /\ row.status = "active" /\ member = "active"
    /\ row.key \in {NoKey, Facts[c].key}
    /\ matches \/ (~live /\ Continues(c))
    /\ uploads' = uploads + 1
    /\ upload' = [upload EXCEPT ![w] =
         [pc |-> IF matches THEN "lookup" ELSE "claim", capture |-> c,
          assessment |-> assessment, lease |-> row.pending.lease]]
    /\ UNCHANGED <<state, rules, clocks, cursor, pass, scenario, changes, failures>>

\* Mutant: the reservation trusts the head of the chain it read earlier.
ClaimableOnRead(w, c) ==
    LET row == device[Facts[c].device] IN
    /\ row.status = "active" /\ row.key \in {NoKey, Facts[c].key}
    /\ \A d \in Device \ {Facts[c].device} : device[d].key # Facts[c].key
    /\ row.pending.lease \in {0, upload[w].lease}

\* The audited UPDATE that reserves the link.  Its time is the one of the
\* read, so only the lease that had expired then may be replaced.
Claimable(w, c) ==
    LET row == device[Facts[c].device] IN
    /\ row.status = "active" /\ row.key \in {NoKey, Facts[c].key}
    /\ \A d \in Device \ {Facts[c].device} : device[d].key # Facts[c].key
    /\ Continues(c)
    /\ row.pending.lease \in {0, upload[w].lease}

ClaimLink(w) ==
    LET c == upload[w].capture IN
    /\ upload[w].pc = "claim"
    /\ IF Claimable(w, c)
       THEN /\ granted' = granted + 1
            /\ device' = [device EXCEPT ![Facts[c].device].key = Facts[c].key,
                            ![Facts[c].device].pending = [lease |-> granted + 1, capture |-> c]]
            /\ upload' = [upload EXCEPT ![w].pc = "lookup", ![w].lease = granted + 1]
       ELSE Leave(w) /\ UNCHANGED <<device, granted>>
    /\ UNCHANGED <<links, artifact, queue, rules, lapsed, due, cursor, pass, bounds>>

\* storeEvidence: the assessment must still be open; an artifact stored by
\* an earlier attempt is an exact replay and is left as it is.
LookUp(w) ==
    /\ upload[w].pc = "lookup"
    /\ IF upload[w].assessment # assessment THEN Leave(w)
       ELSE Goto(w, IF Target(w) \in Stored THEN "finalize" ELSE "insert")
    /\ UNCHANGED <<state, rules, clocks, cursor, pass, bounds>>

\* The batch of storeEvidence: artifact, queue entry and first occurrence.
\* The unique index on what was captured refuses a second one.
InsertArtifact(w) ==
    LET a == Target(w) IN
    /\ upload[w].pc = "insert"
    /\ IF a \in Stored THEN Leave(w) /\ UNCHANGED <<artifact, queue>>
       ELSE /\ artifact' = [artifact EXCEPT ![a] = Fresh]
            /\ queue' = [queue EXCEPT ![a] = Cardinality(Stored) + 1]
            /\ Goto(w, "finalize")
    /\ UNCHANGED <<device, links, rules, clocks, cursor, pass, bounds>>

\* finalizeCaptureDeviceChain looks for the link it is about to append, and
\* removes its queue entry again (drainFinalizedQueueReplay) if it is there;
\* the second time, after its batch failed, it is the last thing it does.
FindLink(w) ==
    /\ upload[w].pc \in {"finalize", "recheck"}
    /\ IF ExactExisting(upload[w].capture, Target(w))
       THEN Leave(w) /\ queue' = [queue EXCEPT ![Target(w)] = 0]
       ELSE (IF upload[w].pc = "recheck" THEN Leave(w) ELSE Goto(w, "link")) /\ UNCHANGED queue
    /\ UNCHANGED <<device, links, artifact, rules, clocks, cursor, pass, bounds>>

\* Its batch: both rows change or nothing does, and an answer may be lost.
LinkCapture(w) ==
    LET c == upload[w].capture
        commits == Insertable(c) /\ HoldsLease(c, upload[w].lease) IN
    /\ upload[w].pc = "link"
    /\ \/ commits /\ AppendLink(c, Target(w)) /\ Leave(w) /\ UNCHANGED failures
       \/ commits /\ failures < scenario.faults /\ failures' = failures + 1
          /\ AppendLink(c, Target(w)) /\ Goto(w, "recheck")
       \/ ~commits /\ Goto(w, "recheck") /\ UNCHANGED <<state, failures>>
    /\ UNCHANGED <<rules, clocks, cursor, pass, scenario, uploads, changes>>

\* A request dies between two awaits, or its client gives up.
Die(w) ==
    /\ upload[w].pc # "idle" /\ failures < scenario.faults
    /\ failures' = failures + 1 /\ Leave(w)
    /\ UNCHANGED <<state, rules, clocks, cursor, pass, scenario, uploads, changes>>

------------------------------------------------------------------------------
(* Everybody else.                                                          *)

Change(kind) ==
    kind \in scenario.kinds /\ changes < scenario.changes /\ changes' = changes + 1

\* revokeCaptureDevice also drops the reservation,
Revoke(d) ==
    /\ Change("revoke") /\ device[d].status = "active"
    /\ device' = [device EXCEPT ![d].status = "revoked", ![d].pending = None]
    /\ UNCHANGED <<links, artifact, queue, rules, clocks, upload, cursor, pass, scenario, uploads, failures>>

\* The owner is suspended or loses the role that may collect, gets it back,
\* or is revoked for good; that revokes the devices and drops no reservation.
ChangeMembership ==
    /\ Change("member") /\ member # "revoked"
    /\ \/ /\ member' = IF member = "active" THEN "suspended" ELSE "active"
          /\ UNCHANGED device
       \/ /\ member' = "revoked"
          /\ device' = [d \in Device |-> [device[d] EXCEPT !.status = "revoked"]]
    /\ UNCHANGED <<links, artifact, queue, assessment, clocks, upload, cursor, pass, scenario, uploads, failures>>

\* The active assessment is closed and the next one opened.
ChangeAssessment ==
    /\ Change("assessment") /\ assessment < MaxAssessment /\ assessment' = assessment + 1
    /\ UNCHANGED <<state, member, clocks, upload, cursor, pass, scenario, uploads, failures>>

\* A decision on the artifact's occurrence, copied to the artifact by the
\* trigger evidence_occurrences_latest_review.
Decide(a, from, to) ==
    /\ Change("review") /\ artifact[a].review = from
    /\ artifact' = [artifact EXCEPT ![a].status = to, ![a].review = to,
                                    ![a].reopened = @ \/ from = "returned"]
    /\ UNCHANGED <<device, links, queue, rules, clocks, upload, cursor, pass, scenario, uploads, failures>>

\* approveEvidence asks for the link again in its UPDATE; returning and
\* reopening (transitionEvidenceReview) do not.
Approve(a) == Linked(a) /\ Decide(a, "needs_review", "approved")
Return(a) == Decide(a, "needs_review", "returned")
Reopen(a) == Decide(a, "returned", "needs_review")

\* The next reservation expires, and the next queue entry falls due.
LeaseLapses ==
    /\ \E n \in (lapsed + 1)..granted :
         /\ n \in Pending /\ \A m \in (lapsed + 1)..(n - 1) : m \notin Pending
         /\ lapsed' = n
    /\ UNCHANGED <<state, rules, granted, due, upload, cursor, pass, bounds>>

EntryFallsDue ==
    /\ \E n \in Queued :
         /\ n > due /\ \A m \in Queued : m <= due \/ n <= m
         /\ due' = n
    /\ UNCHANGED <<state, rules, granted, lapsed, upload, cursor, pass, bounds>>

------------------------------------------------------------------------------
(* reconcileNativeProvenanceOrphans.                                        *)

\* Mutant: every pass starts from the first row.
FirstOf(position, rows) == CHOOSE n \in rows : \A m \in rows : n <= m

\* The row after the cursor, or the first one when none is left after it.
NextAfter(position, rows) ==
    LET later == {n \in rows : n > position}
        eligible == IF later = {} THEN rows ELSE later IN
    CHOOSE n \in eligible : \A m \in eligible : n <= m

DueLeases == Pending \intersect (1..lapsed)
DueEntries == Queued \intersect (1..due)
Holder(n) == CHOOSE d \in Device : device[d].pending.lease = n
Entry(n) == CHOOSE a \in Artifact : queue[a] = n

\* loadExactCandidates: stored, active, unlinked artifacts of the capture.
Candidates(c) ==
    {a \in Artifact : a[1] = c /\ artifact[a].status \in Activity /\ ~Linked(a)}

\* The cursors and a page of expired reservations are read, with the
\* membership of the owner (pendingAuthorityProblem).
StartPass ==
    /\ pass.pc = "idle" /\ (DueLeases # {} \/ DueEntries # {} \/ cursor # [pending |-> 0, orphan |-> 0])
    /\ pass' = IF DueLeases = {} THEN [Asleep EXCEPT !.pc = "orphans"]
               ELSE LET n == NextAfter(cursor.pending, DueLeases)
                        status == device[Holder(n)].status IN
                    [Asleep EXCEPT !.lease = n, !.seen = status, !.pc =
                       IF status = "active" /\ member = "active" THEN "examine" ELSE "dismiss"]
    /\ UNCHANGED <<state, rules, clocks, upload, cursor, bounds>>

\* The number of candidates decides.  Two are an error that the pass counts
\* and leaves; a reservation that is gone meanwhile is left as well.
Examine ==
    LET found == {a \in Artifact : \E d \in Device :
                     device[d].pending.lease = pass.lease /\ a \in Candidates(device[d].pending.capture)}
    IN
    /\ pass.pc = "examine"
    /\ \/ found = {} /\ pass' = [pass EXCEPT !.pc = "release"]
       \/ Cardinality(found) > 1 /\ pass' = [pass EXCEPT !.pc = "orphans", !.seen = "absent"]
       \/ Cardinality(found) = 1 /\ \E a \in found :
            pass' = [pass EXCEPT !.pc = "finalize", !.item = a, !.seen = artifact[a].status]
    /\ UNCHANGED <<state, rules, clocks, upload, cursor, bounds>>

\* finalizeExactCandidate: lease, membership and the artifact are compared
\* again by the statement that moves the head.
StillExact ==
    LET c == pass.item[1] IN
    /\ Insertable(c) /\ HoldsLease(c, pass.lease) /\ member = "active"
    /\ artifact[pass.item].status = pass.seen

FinalizeCandidate ==
    /\ pass.pc = "finalize"
    /\ IF StillExact THEN AppendLink(pass.item[1], pass.item) ELSE UNCHANGED state
    /\ pass' = [Asleep EXCEPT !.pc = "orphans", !.lease = pass.lease]
    /\ UNCHANGED <<rules, clocks, upload, cursor, bounds>>

\* releaseExpiredReservation, with the authority of its reason; the device
\* has the status the page showed.
StillReleasable(n) ==
    LET d == Holder(n) IN
    /\ n \in Pending /\ device[d].status = pass.seen
    /\ \/ pass.pc = "release" /\ member = "active"
          /\ Candidates(device[d].pending.capture) = {}
       \/ pass.pc = "dismiss" /\ ~(device[d].status = "active" /\ member = "active")

ReleaseReservation ==
    /\ pass.pc \in {"release", "dismiss"}
    /\ device' = IF StillReleasable(pass.lease)
                 THEN [device EXCEPT ![Holder(pass.lease)].pending = None] ELSE device
    /\ pass' = [pass EXCEPT !.pc = "orphans", !.seen = "absent"]
    /\ UNCHANGED <<links, artifact, queue, rules, clocks, upload, cursor, bounds>>

\* A page of due queue entries is read, with what is known of the artifact.
\* A device with any reservation keeps its artifacts for a later pass.
LoadOrphan ==
    /\ pass.pc = "orphans"
    /\ IF DueEntries = {} THEN pass' = [pass EXCEPT !.pc = "advance"]
       ELSE LET n == NextAfter(cursor.orphan, DueEntries)
                a == Entry(n) IN
            pass' = [pass EXCEPT !.entry = n, !.item = a,
                       !.seen = IF Linked(a) THEN "linked" ELSE artifact[a].status, !.pc =
                       IF Linked(a) \/ artifact[a].status = "returned" THEN "drain"
                       ELSE IF Reserved(Facts[a[1]].device) THEN "advance" ELSE "quarantine"]
    /\ UNCHANGED <<state, rules, clocks, upload, cursor, bounds>>

\* drainReconciliationQueueEntry for an artifact that has its link, or is
\* terminal already.
DrainEntry ==
    /\ pass.pc = "drain"
    /\ queue' = IF Linked(pass.item) \/ artifact[pass.item].status = pass.seen
                THEN [queue EXCEPT ![pass.item] = 0] ELSE queue
    /\ pass' = [pass EXCEPT !.pc = "advance"]
    /\ UNCHANGED <<device, links, artifact, rules, clocks, upload, cursor, bounds>>

\* Mutant: what the page showed of the reservation is not asked again.
StillUnlinked ==
    LET a == pass.item IN
    /\ artifact[a].status = pass.seen /\ queue[a] = pass.entry
    /\ ~Linked(a)

\* quarantineOrphanArtifact asks again whether a link or a reservation came.
StillOrphan ==
    LET a == pass.item IN
    /\ artifact[a].status = pass.seen /\ queue[a] = pass.entry
    /\ ~Linked(a) /\ ~Reserved(Facts[a[1]].device)

QuarantineOrphan ==
    /\ pass.pc = "quarantine"
    /\ IF StillOrphan
       THEN /\ artifact' = [artifact EXCEPT ![pass.item].status = "returned"]
            /\ queue' = [queue EXCEPT ![pass.item] = 0]
       ELSE UNCHANGED <<artifact, queue>>
    /\ pass' = [pass EXCEPT !.pc = "advance"]
    /\ UNCHANGED <<device, links, rules, clocks, upload, cursor, bounds>>

\* advanceReconciliationCursors; an empty page resets its cursor.
AdvanceCursors ==
    /\ pass.pc = "advance"
    /\ cursor' = [pending |-> pass.lease, orphan |-> pass.entry]
    /\ pass' = Asleep
    /\ UNCHANGED <<state, rules, clocks, upload, bounds>>

\* The scheduler's invocation dies.
PassDies ==
    /\ pass.pc # "idle" /\ failures < scenario.faults
    /\ failures' = failures + 1 /\ pass' = Asleep
    /\ UNCHANGED <<state, rules, clocks, upload, cursor, scenario, uploads, changes>>

Reconcile ==
    \/ StartPass \/ Examine \/ FinalizeCandidate \/ ReleaseReservation
    \/ LoadOrphan \/ DrainEntry \/ QuarantineOrphan \/ AdvanceCursors

Proceed(w) ==
    \/ ClaimLink(w) \/ LookUp(w) \/ InsertArtifact(w) \/ FindLink(w) \/ LinkCapture(w)

DeviceNext ==
    \/ \E w \in Worker : Proceed(w) \/ Die(w) \/ \E c \in Capture : Upload(w, c)
    \/ \E d \in Device : Revoke(d)
    \/ ChangeMembership \/ ChangeAssessment
    \/ \E a \in Artifact : Approve(a) \/ Return(a) \/ Reopen(a)
    \/ LeaseLapses \/ EntryFallsDue
    \/ Reconcile \/ PassDies

DeviceSpec == DeviceInit /\ [][DeviceNext]_deviceVars

\* The scheduler runs its pass again and again, and leases run out.  Nothing
\* is asked of the requests: their clients may be gone.
FairSpec == DeviceSpec /\ WF_deviceVars(LeaseLapses) /\ WF_deviceVars(Reconcile)

------------------------------------------------------------------------------
(* Properties.                                                              *)

LinksOf(d) == {l \in links : l.device = d}

\* The links of a device number 1, 2, 3, ... up to the sequence of its row,
\* each signed over the capture of the one before and under the one pinned
\* key, the last of them is the head, each leads to an artifact of its own
\* capture, and a pending reservation is for the capture that comes next.
\* Two Macs, or one that was restored, may both believe to be next; leases
\* run out while their holders go on; the reconciler finishes for them.
OneDeviceChain ==
    /\ DeviceTypeOK
    /\ \A d \in Device :
         LET row == device[d] IN
         /\ Cardinality(LinksOf(d)) = row.sequence
         /\ \A n \in 1..row.sequence : \E l \in LinksOf(d) :
              /\ l.sequence = n /\ l.artifact[1] = l.capture /\ l.artifact \in Stored
              /\ Facts[l.capture].device = d /\ l.key = row.key /\ Facts[l.capture].key = row.key
              /\ Facts[l.capture].previous = DeviceGenesis <=> n = 1
              /\ n > 1 => \E k \in LinksOf(d) :
                    k.sequence = n - 1 /\ k.capture = Facts[l.capture].previous
              /\ n = row.sequence => row.head = l.capture
         /\ Reserved(d) =>
              /\ Facts[row.pending.capture].device = d
              /\ Continues(row.pending.capture) /\ row.key = Facts[row.pending.capture].key

\* No artifact falls between upload and reconciler: one that waits for its
\* link, and was not put back by a reviewer, has a queue entry, one that has
\* its link has none, and none is approved without its link.  Reopening is
\* the exception: the entry is gone by then and none is made again.
OrphansAreTracked ==
    \A a \in Stored :
        /\ Linked(a) => queue[a] = 0
        /\ ~Linked(a) /\ artifact[a].status \in Activity => queue[a] # 0 \/ artifact[a].reopened
        /\ artifact[a].status = "approved" => Linked(a)

\* Nothing decided on what was read earlier takes effect too late: the chain
\* of a revoked device stays as it is, although requests and the reconciler
\* still hold its lease (a reservation may at most be dropped), and the
\* reconciler never returns an artifact whose link was made, or whose upload
\* got a reservation, since it looked.
NothingTakesEffectLate ==
    [][/\ \A d \in Device : device[d].status = "revoked" =>
             /\ device'[d] \in {device[d], [device[d] EXCEPT !.pending = None]}
             /\ \A l \in links' \ links : l.device # d
       /\ links \subseteq links'
       /\ \A a \in Artifact :
             artifact'[a].status = "returned" /\ artifact[a].status # "returned"
               /\ artifact'[a].review = artifact[a].review
             => ~Linked(a) /\ ~Reserved(Facts[a[1]].device)]_deviceVars

\* The reconciler cannot decide between two artifacts of the reserved capture.
Ambiguous(d) == Reserved(d) /\ Cardinality(Candidates(device[d].pending.capture)) > 1

\* Work left to the reconciler for a device: an expired reservation, or a
\* due queue entry.
Abandoned(d) ==
    \/ Reserved(d) /\ Expired(device[d].pending.lease)
    \/ \E a \in Artifact : Facts[a[1]].device = d /\ queue[a] \in 1..due

\* Abandoned work settles, as far as requests leave any time for it: expired
\* reservations are used, released or replaced and due entries are removed,
\* whatever other rows stand in front of them.  The pass gives up on an
\* ambiguous reservation, and leaves it and the entries of its device.
AbandonedWorkSettles == []<>(\A d \in Device : Ambiguous(d) \/ ~Abandoned(d))
==============================================================================
