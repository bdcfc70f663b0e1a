# ScopeProof verification

TLA+ models of ScopeProof Evidence Capture, the TLC runs that check them on small instances,
and the theorems about them that TLAPS proves for every instance. The models are written
from the source of this repository; `PROJECT.json` maps every definition to the lines it
stands for.

    tlc -workers 2 -config AuditLedger.cfg MCAuditLedger     # one run
    tlapm ChainProofs.tla                                    # one proof module

## 1. The system

ScopeProof collects compliance evidence, keeps it encrypted, and must later be able to prove
to an assessor what was captured, by whom, and that nothing was altered. Three programs do
that: a TypeScript service on Cloudflare (D1 database, R2 bucket, `lib/server`, `app/api`),
a multi-tenant runtime on AWS (`lib/aws-runtime`, `infra/aws`) and a macOS capture tool
(`macos/ScopeproofCapture`).

### 1.1 Cloudflare service

There is no process that owns anything: every request and every firing of the fifteen-minute
scheduler is its own invocation, and all of them share D1 and R2. A D1 statement or batch is
atomic; a handler is a sequence of such calls, and between two of them any other handler may
run. D1 and R2 fail independently, a response may be lost after its call took effect, and an
invocation can die at any `await`. The code's answers are leases with ids, conditional
UPDATEs, unique indexes, append-only tables guarded by triggers, and reconcilers that clean
up later.

| Component | State it keeps | Operations | What makes it hard | What makes it correct |
| --- | --- | --- | --- | --- |
| Audited batches (`audit.ts`, `drizzle/0000`, `0019`) | `audit_events`, a hash chain | `executeAuditedBatch`, `appendAuditEvent` | the chain head is read outside the transaction that extends it; a batch may commit and its response be lost | chain without gap or fork; no change of a row without its event and no event without its change; callers are told the truth |
| Audit checkpoints (`checkpoints.ts`, `checkpoint-delivery-retry.ts`, `drizzle/0025`, `0027`) | `audit_checkpoints`, retry rows, an attempt log, envelopes and receipts in R2 | `createAuditCheckpoint`: sign, store, insert, claim, post to an independent witness, store the receipt, commit, or record the failure | 20 awaits; leases that lapse under a live owner; objects written before the rows that name them | objects that rows name stay; one POST per durable claim; log and row agree; the head's checkpoint settles |
| Evidence store (`evidence.ts`, `drizzle/0017`) | `evidence_artifacts`, occurrences, objects in R2 | `storeEvidence` (upload, renewal, stale duplicate, undo), reviews | an upload whose INSERT's answer was lost; renewal against purge | a live row names an object; nothing is orphaned; expired stays expired |
| Key rotation (`key-operations.ts`, `key-rotation-reconciliation.ts`) | rotation columns of the artifact, package and connection rows | copy, switch, classify, drop, reconcile | rotators that outlive their lease; reconcilers beside them | the row's object exists and is under the key it names |
| Retention (`retention.ts`, retention route) | status, holds | condemn, confirm, shred, mark; set and release a hold | a hold that arrives between the claim and the delete | only expired evidence is condemned; held evidence is not deleted |
| Collection jobs (`jobs.ts`) | `collection_jobs` | queue, claim, recheck, collect, finish, fail | the attempt number is read before the claim; leases lapse during long collections | status changes only with its event, ended jobs stay ended, a job ends |
| Jira handoff (`jira.ts`) | `jira_connections`, OAuth states, upload operations and receipts | authorize, refresh, test, disconnect, upload | refresh tokens are good for one exchange; Jira may have taken an attachment it never acknowledged | nothing is attached twice; the stored token is the one that works |
| Chain verification (`audit.ts`, `checkpoints.ts`) | a cached verdict | walk the log's tail page by page, verify the latest checkpoint | reads spread over several awaits while the log grows | a verdict that was served is true of the log it was asked about |
| Devices and native provenance (`devices.ts`, `native-provenance-reconciliation.ts`, the native evidence route) | the device's chain head and pending reservation, the reconciler's queue | reserve, store, finalize, revoke, reconcile | reservations whose upload is still running when they are abandoned | one chain per device, every link with its evidence; what no link will reach is returned or in the queue |
| Assessor packages (`packages.ts`, `package-publication-reconciliation.ts`) | the package's row, its archive in R2 | request, build, publish, rotate, purge | a publication whose commit is unknown | a ready package has its object, an unpublished candidate is removed |
| SBOM jobs (`sbom.ts`) | `sbom` jobs | inventory of a repository | the same job discipline as collection | as for collection jobs |
| Assessments, findings, reviews | status rows | close, reopen, decide | checks made before the audited batch | nothing is added to a closed assessment |
| Auth, rate limits, redaction, parsing, monitoring, UI | little or none | | | tested as functions |

The components meet in three places: `executeAuditedBatch` is the way every one of them
writes; the scheduler runs `processDueWork`, whose stages are jobs, retention, rotation,
reconcilers and checkpoints; and evidence rows are shared by the store, reviews, rotation,
retention, packages and Jira.

### 1.2 AWS runtime

One stack per tenant. Aurora, DynamoDB and two S3 buckets share no transaction; Lambdas are
started at least once by queues, schedules and the API, may be suspended past their lease
and die at any call.

| Component | State it keeps | Operations | What makes it hard | What makes it correct |
| --- | --- | --- | --- | --- |
| Upload intents (`lib/aws-runtime/evidence/upload-intent-*.ts`, `aws.ts`) | the intent in DynamoDB and its projection in Aurora, the daily quota | recover, reserve, project, sign one PUT; repair projections | a request repeated while its first copy runs, over a rotation of the secret that names intents | one capability per key; a capability has its reservation in both stores; refusals are deserved |
| Promotion (`promote-evidence`, 2215 lines) | lease and fence of the intent, attempt ledger, the locked object, Aurora's row | lease, scan, permit, copy once, accept, publish, delete | workers past their lease, a commit between two stores | custody: kept before accepted, accepted once, deleted from quarantine last |
| Rejected scans and the maintenance sweep | the same intent | reject, flag, expire, recover | they change the intent under the promoter | the flagged action is the outstanding one |
| Exact-version legal holds (`exact-version-legal-hold.ts`, `reconcile-legal-holds`, tenant migrations) | operations, holds, audit and recovery outboxes; the hold in S3; the recovery ledger | request, approve, expire; the worker's sweep: apply, confirm, audit, publish | the answer of a hold is lost; four commits per operation | the object's hold is what the last confirmed operation says; nothing published that was not audited |
| API audit outbox (`audit-outbox-drain.ts`, `sign-api-audit-outbox`) | outbox rows and their work rows, the chain | record, lease, sign, append, fail, dead-letter | leases lapse under a slow signer; a second writer appends to the chain | one chain; a row is complete exactly when its event is in it; answered operations are signed |
| Recovery copies (`reconcile-recovery`) | the generation, its job and watermark, the change ledger | create a job, await it, verify source and destination or the ledger's changes, finish | changes become visible behind the time they carry; deaths between a job and its record | what the watermark covers is verified |
| Tenant provisioning (`provision-tenant`) | the registry, the tenant's stack | reserve, deploy, migrate, verify, activate | a lease of a workflow of hours | one activation per tenant |

### 1.3 macOS tool

A capture writes an image, a manifest and a lifecycle file, advances a chain head in the
Keychain and clears a journal; after a crash `CaptureCommitRecovery` decides from what it
finds. Lifecycle versions, local holds, deletion, upload retries, credential renewal and
updates follow. The hard parts are crashes between two of these writes and stores that
cannot be written together.

`PROJECT.json` lists every component with its sources and says what is modelled, and under
`hazards` what in this code a test would hardly reach, line by line.

## 2. The models

All modules follow one pattern. Shared state (rows, objects) is one variable each; every
invocation has a program counter and a record of locals, named after the next external call
it makes. One action is one external call with everything the code does until the next one.
A call may fail before or after its effect, where the code distinguishes nothing (`Fault`,
`Mishap`, counted so that the state space is finite); a lease is an id and either a time or
a flag "lapsed" that the world raises at any moment. What a statement compares was bound
when its inputs were read, so times and versions are held in the locals. Hashes, signatures
and ciphertexts are values that name what they were made from.

| Module | Models | State and actions |
| --- | --- | --- |
| `Ledger` | the promise of the audit log (abstract) | a journal of calls and who last wrote each row; `Record` does both at once |
| `AuditLedger` | `executeAuditedBatch`, `appendAuditEvent`, the chain trigger, the guard | clients read the head, then commit, contend, abort on the guard or fail; refines `Ledger` |
| `AuditVerification` | `verifyAuditChain`, `verifyLatestAuditCheckpoint` over `AuditLedger` | checkpoints of heads and their deliveries, verifiers that read head, checkpoint, delivery and pages of the tail one await at a time, and the cached verdict with its key |
| `CheckpointDelivery` | `createAuditCheckpoint` and all it calls | `row`, `retry`, `attempts` are the three tables, `checkpointObjs` and `receiptObjs` the bucket, `posts` and `witnessed` the witness; 22 actions per worker in the order of the awaits |
| `EvidenceObjects` | one artifact under store, renewal, review, rotation, reconciliation, retention and holds | `row` is the artifact row, `objects` the bucket (key -> key epoch), `local` the workers; the variable `tasks` says which kinds of work a behaviour has |
| `PackageObjects` | one assessor package over the same row and bucket | build, publish, prove a lost publication, settle or discard; rotation and clean-up are the evidence steps; purge under a lease |
| `JobLifecycle` | the promise of a collection job (abstract) | status and its events |
| `CollectionJobs` | `queueCollection`, `processJob`, selection | the job row with lease and attempt, the log, collector enabled and actor permitted; refines `JobLifecycle` |
| `JiraUpload` | all of `jira.ts`, `rotateJiraToken` | the connection row, Atlassian's codes and live refresh tokens, operations, receipts, attachments on the issue |
| `NativeProvenance` | the upload route's reserve, store and finalize, device and membership revocation, the reconciler | `device` rows with head and pending link, links, artifacts with their reviews, the queue of unlinked artifacts, the leases that ran out; a worker per upload, one reconciler pass at a time |
| `UploadIntents` | the issuer with its DynamoDB and Aurora adapters, the projection repairer | intents in DynamoDB and Aurora, secrets, the quota, signatures and their age; a request is a worker that stops before each call |
| `LegalHolds` | the API's request and approval, the scheduled worker, its database functions and outboxes, the publications | `row`, `holds`, `audited` in Aurora, `s3` the object's hold, `ledger` the recovery ledger, `late` a put whose caller gave up |
| `ApiAuditOutbox` | recording, the signer's batch, the appends and failures | `work` rows, `events` and `head` of the chain, signers that overlap, the legal-hold worker's appends |
| `RecoveryCopies` | the reconciler's state row (`backfill`), its jobs and verification phases beside S3's replication | versions, copies and their statuses, the ledger with attempted and visible times, the generation, cursor and watermark |
| `EvidenceCustody` | the promise of a promotion (abstract) | the versions in quarantine, the one that is locked evidence, the one that was accepted, those that were published |
| `EvidencePromotion` | `promoteRecord` with all it calls; the parts of the shared jobs and of the rejection reconciler that change an upload intent | `intent`, `rows`, `attempts`, `published`, `actions` are DynamoDB, `sources` and `kept` the two buckets, `aurora` and `tx` the database row and its lock; a worker per message, the rejecter, the sweep; refines `EvidenceCustody` |
| `ChainProofs` | theorems about `AuditLedger`, `AuditVerification` and `NativeProvenance` | |
| `JobAndIntentProofs` | theorems about `CollectionJobs` and `UploadIntents` | |
| `HoldAndRecoveryProofs` | theorems about `LegalHolds` and `RecoveryCopies` | |
| the other `...Proofs` | theorems about the module of that name | |
| `MC...` | constants for TLC, symmetry sets; `MCAuditLedger` instantiates `AuditVerification`, `MCEvidenceObjects` instantiates `PackageObjects` | |

The composition follows the code: `AuditVerification` and `PackageObjects` extend the module
whose rows they share and their specifications include its steps; the legal-hold worker
appears in `ApiAuditOutbox` as the second writer of the chain, and in `RecoveryCopies` with
the promoter as the writers of the change ledger.

Some abstractions should be known. `AuditLedger` shows that an audited batch is atomic with
its event and that its caller either learns the outcome or an error, so the other modules
use an audited batch as one step that may also fail either way. `EvidenceObjects` numbers
object keys and never reuses them, which stands for `crypto.randomUUID`. `EvidencePromotion`
has no clock: a worker is identified with its message, because a message is hidden from the
queue (6 minutes) for longer than an invocation may run (5 minutes); a lease is as long as
an invocation, so it may still live when its holder's message is delivered again ("aging")
but not the time after (`Waited`), and a lease that lapses under a running holder is counted
as a fault (clocks that disagree). The fence stands for the attempt identity that the code
derives from it.

*Verification.* Nothing is tampered with in the model: a verdict may be wrong only because
of what it reads when. The cache may expire at any time, a checkpoint may be made for a head
that was read arbitrarily long ago, and its delivery commits only while it is the latest
checkpoint of the head, which is the condition of the statement. A verification between
whose reads a checkpoint is created, or of one that is not delivered yet, answers
`checkpoint_invalid`; the property says that such a false alarm is over with its cause: the
cache's key names head, checkpoint and delivered attempt, so no call that begins afterwards
is served it.

*Packages.* `changed` says that the assessment or its evidence is no longer what the build
read, and the fence of the publication then refuses; `late` is a publication that is still
under way after its answer was lost and lands or is refused later. The row status `live`
stands for a ready package. A crash leaves a row `building` for good and its candidate
orphaned: nothing in the code looks for either, and `NoOrphan` speaks of runs without
faults. The purge's claim does not compare the keys it selected, and a build whose
publication was committed and rotated already reports an error although the package is
ready.

*Native provenance.* Leases and queue entries carry the ordinal of their creation, and a
clock per kind is the highest ordinal that has run out; a queue entry may fall due before
its lease runs out, which the code's durations exclude and which only adds behaviours. The
upload route up to the reservation's read is one step. Branches for rows the program cannot
write (an artifact that is missing, a chain whose authority differs, a pinned key that is
malformed) and the expiry of evidence after ninety days are left out.

*Holds.* `GetObjectLegalHold` answers OFF for a version that never had a hold. The worker's
concurrency is 1 and its rows wait 60 s, so a put whose caller gave up lands, if at all,
before the row is listed again. *Outbox.* Concurrency may be configured from 1 to 10 and the
lease from 30 s, so signers overlap and leases lapse under live holders; idempotency keys
are numbered as their rows are recorded. *Recovery.* Time ticks; a ledger change carries the
time its publication was attempted and becomes visible up to `Window` later. *Upload
intents.* A capability is granted when its URL is signed; a device's signature is accepted
for `Window`.

## 3. What is checked

Every bound is a CONSTANT of the configuration. "Faults" are lost or failed responses,
"mishaps" additionally deaths of invocations and leases that expire under a live owner;
where a fault is not counted (a lease lapsing in `CheckpointDelivery`, an attachment request
without an answer, a token endpoint that says "later") it may happen any number of times. In
`JiraUpload` a mishap is also a lease that `markReauthorizationRequired` clears under a live
request, and a deleted connection that comes back under its old id.

| Run | Instance | Question |
| --- | --- | --- |
| `ledger` | 2 clients, 2 rows, at most 3 calls, 2 tries, 1 lost response; 2 verifiers with 2 verifications between them, pages of one event | Is the chain intact, are guarded batches all or nothing, are callers told the truth, are verdicts true although the log grows under them, and is all that a refinement of the serial ledger? |
| `checkpoints` | 2 invocations, 1 checkpoint, 2 attempts, 2 faults or crashes, fair | Do envelopes and receipts stay while rows name them, is each claim posted at most once, does the attempt log account for each claim, does the head's checkpoint end delivered or flagged? |
| `evidence` | 2 workers, 3 keys (2 beside a purge), 2 epochs, 1 fault, 1 crash; each behaviour is of one profile: rotation (store, renew, review, rotate, reconcile), retention (store, rotate, purge, hold) or packages (build, rotate, reconcile, purge) | Does what can be read keep its object, is nothing left over, is held evidence kept? |
| `collection_jobs` | 2 invocations, 2 attempts, 2 artifacts, 2 mishaps, fair | Do status and log follow the life cycle, is at most one artifact stored after the lease is lost, does a job end? |
| `jira_upload` | 2 requests, 2 tokens, 2 keys, 1 mishap | Is nothing attached twice over a connection, is a retry safe, does the stored token stay usable? |
| `promotion` | 2 messages, 2 clean versions and a rejected one, 3 deliveries, 2 fences, 2 faults | Do DynamoDB, Aurora and the bucket agree on what was promoted; can an accepted promotion be completed; is every flag in the ledger; are fenced-off workers harmless; is a clean message only lost after two faults; are the bytes in custody (`EvidenceCustody`)? |
| `legal_holds` | 3 operations, 2 holds, 2 faults, 1 change of the hold outside the workflow, fair | Is the object's hold what the last confirmed operation says, is nothing published that was not audited, is the current projection the latest operation, does every approved operation come to an end? |
| `api_audit` | 3 rows, one of them unparseable, 2 overlapping signers, 1 event of the legal-hold worker, 4 attempts, 1 fault, fair | Is the chain one, is a row complete exactly when its event is in it, is every answered operation signed or in the operator's hands although a poisoned row stands first? |
| `upload_intents` | 1 key, 2 manifests, 2 overlapping requests, a rotation of the secret, 1 fault, intents of the previous release | Is each capability backed by both stores, is there at most one per key, is each refusal justified? |
| `recovery` | 2 versions (one older than replication), 2 troubles (hold changes, failed calls, deaths, failed jobs and a failed replication), instants up to 4 | Is everything the watermark covers verified, and does the watermark only rise? |
| `recovery_stranded` (violated) | the same with one trouble, fair | Is a version whose replication failed copied in the end? |
| `native_provenance` | 9 scenarios of 2 or 3 uploads: rival captures for one link, a retry beside revocation, review, suspension or a new assessment, a growing chain, failures, a reservation that every pass fails on; fair | Has each device one chain, is what is not linked in the reconciler's reach, does nothing take effect after it was revoked or superseded, is abandoned work settled? |

Why these bounds. Every hazard in the list is a race of two actors over one row, with at
most one lost response or death between them; two actors and one or two mishaps reach each
of them. In the promotion two messages and two clean versions give a race of two workers for
one version as well as for two, three deliveries are the queue's own `maxReceiveCount`, and
two fences a takeover. The checkpoint properties speak of one checkpoint, so one is enough;
what a moving head does to it is the ledger's and the verification's matter. Two attempts
make "the last attempt" and "not the last" differ; two epochs and three keys allow a
rotation during the rotation of another, two tokens a refresh after an authorization. Three
hold operations are a hold, its release and a hold on top. Four attempts stand for the eight
after which a row is a dead letter: room for contention and a fault before a row is given
up. The time steps of `recovery` let a publication become visible on either side of a cutoff
and a second generation follow the first. Each property has a mutant (`PROJECT.json`): a
definition of the module that carries a plausible bug, with which TLC finds the property
violated under the same configuration, so the instances are large enough for the property to
matter. `jira_upload` was also run once with three tokens and one key (12.8 million states)
and `promotion` with three fences, which a routine run cannot afford.

The profiles of `evidence` are not one because they must not be: with reviews beside a purge
`CurrentObjectKept` is false, since a decision copies its status over `expired` and brings
an artifact back whose object is being deleted (section 5). Renewal and retention are apart
for the same reason. Within a profile every order of the listed work is explored.

The type invariant of a module is a conjunct of one of its checked invariants
(`OneAttachmentSet`, `HoldsMatchObject`, `OneChain`, `CapabilityIsBacked`,
`CurrentObjectKept`, `WatermarkCoversLedger`, `OneDeviceChain`, `VerdictsAreTrue`), or is a
theorem.

`CHECK_DEADLOCK FALSE` is said where the system may rest: all calls spent, keys used up, a
user who does not come back.

Fairness. Safety needs none. The temporal properties assume weak fairness of what the code
schedules:

* `HeadCheckpointSettles`, `JobSettles`: each invocation's steps (the scheduler fires every
  fifteen minutes, and an invocation that does not die reaches its next await or its
  timeout) and the passing of time (a lease lapses, a backoff elapses).
* `AnsweredAreSigned`: the signer's schedule, the end of back-off and leases, and the
  settling of an append whose caller is gone.
* `OperationsSettle`: the worker's sweep and its outboxes, the arrival or loss of a late
  put, the aging of rows; strong fairness only for taking *some* pending row, as a sweep
  that is busy with other rows comes back to the list again and again. That *each* row is
  taken follows from the order of the list and is not assumed.
* `AbandonedWorkSettles`: leases run out and the scheduler starts the reconciler's pass.
* `FailedCopyIsRepaired` (violated even so): invocations, time, S3's manifest and jobs,
  publications becoming visible; strong fairness for the handling of a failure notification.

Nothing makes users act, events arrive or settings change, and deaths and lost responses
stay bounded, as an attempt cannot outlast a system that always fails.

## 4. What is proved

| Theorem | Says |
| --- | --- |
| `CheckpointDeliveryProofs!TypeCorrect`, `LedgerCorrect` | `TypeOK` and `LedgerAccountsForClaims`, for any number of invocations, events, attempts and faults |
| `CheckpointDeliveryProofs!ObjectsCorrect`, `PostsCorrect` | `ReferencedObjectsKept`: no row loses its envelope or receipt; `OnePostPerClaim`: the witness is asked at most once per claim |
| `ChainProofs!TypeCorrect`, `ChainCorrect`, `GuardedCorrect`, `CallersCorrect` | the safety invariants of the ledger |
| `ChainProofs!SerialLedger` | `AuditLedger` implements `Ledger`: every step is a step of the serial ledger or a stutter |
| `ChainProofs!LedgerUndisturbed` | the ledger with its checkpoints and verifiers implements `AuditLedger`, whatever is cached |
| `ChainProofs!ChainUnderVerification` | `ChainIntact` of the chains that verifications walk |
| `ChainProofs!VerdictsCorrect` | `VerdictsAreTrue`: a verdict, read or cached, is true of the log it was asked about, for any number of verifiers |
| `JobAndIntentProofs!TypeCorrect`, `OneTooLate` | `TypeOK`, and `OneArtifactTooLate`: a run that lost its lease stores at most one more artifact |
| `JobAndIntentProofs!FollowsLifecycle` | `IsJobLifecycle`: the job row and its log follow `JobLifecycle`, for any number of invocations |
| `ChainProofs!DeviceChainCorrect`, `OrphansCorrect` | `OneDeviceChain`: a device's links form one chain that ends at its head; `OrphansAreTracked`: active evidence without its link is queued, unless a reviewer reopened it |
| `ChainProofs!TimelyCorrect` | `NothingTakesEffectLate`, an action property: neither a request nor the reconciler changes a revoked device's chain or returns evidence that got its link meanwhile |
| `JobAndIntentProofs!BackedCorrect`, `OneCapabilityCorrect` | `CapabilityIsBacked` and `OneCapabilityPerKey`: a signed URL is for an intent both stores know alike, and a key has one, for any number of secrets, requests and mishaps |
| `JobAndIntentProofs!RefusalsCorrect` | `RefusalsJustified`, while the secret has been rotated at most once |
| `EvidencePromotionProofs!TypeCorrect`, `FlagsCorrect` | `TypeOK`, and `FlagsMatchLedger`: the maintenance action an intent names is the outstanding one |
| `EvidencePromotionProofs!PublishedCorrect`, `CompletionPossible` | `PublishedIsAccepted`: what is published is the object Aurora accepted; `AcceptedCanComplete`: what it accepted can be completed |
| `EvidencePromotionProofs!SupersededCorrect` | `SupersededIsPowerless`: a worker whose fence was superseded changes nothing of the promotion |
| `EvidencePromotionProofs!SurvivalCorrect` | `OneFaultIsSurvived`: one fault does not lose an undecided clean version its last message, where messages are delivered at least three times |
| `EvidencePromotionProofs!PromotionKeepsCustody` | `IsEvidenceCustody`: the promotion implements `EvidenceCustody`, for any number of messages, versions, fences and faults |
| `ApiAuditOutboxProofs!ChainCorrect`, `CompletionCorrect` | `OneChain` and `CompletedIffChained`: one chain, and a row is complete exactly when its event is in it, for any number of signers, attempts and faults |
| `HoldAndRecoveryProofs!HoldsCorrect`, `RecoveryCorrect`, `ProjectionCorrect` | `HoldsMatchObject`, `RecoveryFollowsAudit` and `ProjectionIsLatest`, for any number of operations, holds and changes outside the workflow |
| `HoldAndRecoveryProofs!WatermarkCorrect` | `WatermarkCoversLedger`: what the ledger holds by the watermark has a copy with the latest hold, for any number of versions, hold changes, failures and settling times |
| `HoldAndRecoveryProofs!WatermarkForward` | `WatermarkMonotone`, an action property: the watermark is never lowered or lost |
| `EvidenceObjectsProofs!CurrentCorrect`, `HeldCorrect` | `CurrentObjectKept`: what is served of evidence or a package can be read; `HeldKept`: no purge deletes the object of held evidence; whatever fails or dies |
| `EvidenceObjectsProofs!OrphanCorrect` | `NoOrphan`: intact calls leave no object that nothing will delete, for any number of workers, keys and epochs |
| `JiraUploadProofs!RetryCorrect`, `AttachmentsCorrect`, `TokenCorrect` | `RetryIsSafe`, `OneAttachmentSet` and `StoredTokenLive`, for any number of requests, codes, tokens and mishaps |

The assumptions are the named ASSUMEs of the modules: bounds are natural numbers, the
null value is none of the values it stands in for (`NoneAssumption`, `AbsentAssumption`),
a publication takes less time than the ledger is given to settle (`RecoveryAssumption`: the
publishers' timeout is below `LEDGER_SETTLE_SECONDS`), the legal-hold worker's
events are finitely many and their keys its own, audit clients are finitely many, some
token can be issued, and no profile has a review or a renewal beside a purge
(`ProfilesAssumption`). Captures are finitely many, and what a scenario of
`NativeProvenance` starts with is what the program can leave: one first capture of a
device, stored for the first few assessments (`FactsAssumption`). Of the number of workers
nothing else is assumed.

*Checkpoints.* `LedgerAccountsForClaims` alone is not inductive: the action that logs a
failure writes for the claim in its worker's locals, so the invariant must say that those
locals hold a real claim of the right owner (`LocalsInv`, `RetryInv`). A step is split into
what it does to the worker's control state and what it does to log and row (`LogEffect`);
most steps do nothing to the latter. The other two properties need what workers between two
awaits may still touch. `EnvelopeInv`: who deletes an envelope has seen another's row win.
`ReceiptInv`: who commits has a receipt in the bucket, and who drops one cannot have
committed it. `PostInv`: a claim not yet taken was not posted, and of two workers that may
still post no two hold one claim.

*Ledger.* That callers know needs three facts about call numbers: a call in progress has a
number (`Numbered`), it is not in the log yet (`Fresh`), and a client whose outcome is
pending is inside a call (`Waiting`). The refinement maps the log to its journal; only the
committing actions extend it, and they change the rows in the same step.

*Native provenance.* The chain of a device (`ChainOK`) says that its links carry the numbers
up to its head, each once, and that a reservation continues the head. It survives because
whoever appends a link holds the device's current lease, and every lease was granted to one
upload (`LeasesCounted`): two requests never finalize under one. What a request or a pass
of the reconciler remembers is related to the stores place by place (`RequestsOK`,
`PassOK`): the artifact a request is about to link is stored, the one the pass is about to
return was unlinked when it looked. With that every step keeps what
`NothingTakesEffectLate` says of it, since each statement compares again what its decision
rests on.

*Upload intents.* The two DynamoDB rows of an intent and its Aurora row agree (`RowOK`,
`IntentOK`, `OwnerOK`), and what a request read still holds of them as far as it relies on
it (`Sound`). All stores only move `Forward`: manifest, expiry and owner of a row never
change once they are there. A signature follows the projection, so `Backed` holds when it
is made and for good. For the refusals, `OverlapOK` says which copies of a request can miss
each other's reservation: one that looked under the older secret before the rotation
(`Parted`); any other finds the row because the previous secret is looked under first. The
hypothesis `Secrets <= 2` is needed: with a second rotation the first secret is no longer
looked under, so a repeated request reserves anew without any overlap and Aurora refuses it
(section 5).

*Jobs.* The invariant relates the attempt and the lease that a running invocation remembers
to those of the row, so that `Finish` and `Fail` can only leave `running`.

*Promotion.* Types alone are not inductive: what a worker signs is put together from its
locals. The invariant `Inv` says of every worker what its locals promise of the stores
(`Sound`): past the lease it has a fence, past the copy the locked object is of its version,
once it has facts in hand they are what Aurora accepted, before it deletes the receipt is
published. That survives the steps of other workers because the copy, the acceptance and the
receipts are written once (`StoresGrow`, which needs that whoever holds the row lock found
no receipt, `Locked`). The refinement then maps the write of the object, the commit, the
completion and the deletion to the four steps of `EvidenceCustody` and all else to a
stutter. `FlagsCorrect` adds that a worker with a lease remembers no flag, so that a
completion cannot drop an action it did not resolve. That stores agree (`StoresAgree`) has
three parts: the intent with its rows and receipts, the locked object with its attempt and
what Aurora accepted, and what each worker's place says of them (`Standing`); of an accepted
promotion they give `AcceptedCanComplete` but for the rejection named in section 5.
`SupersededCorrect` needs `FenceInv`: Aurora's fence is one DynamoDB gave out, and whoever
holds the row lock is not older than it. `SurvivalCorrect` speaks of whole behaviours, so its
invariant `SurvivalInv` says of an intent that is not settled where its budget of deliveries
stands after at most one fault. Before the claim every message about the scanned version is
open, has used at most one delivery more than there were faults, and nothing refuses it
(`Contested`). Until Aurora accepts, the holder of the lease is at work, or its message still
has the delivery that finds the lease lapsed, and at the third it has seen the intent as it
is and will be let through (`Waits`). After that the holder completes what Aurora
accepted, or a message comes back that will (`Finishing`, `Recovers`). The proof goes through
the places where an invocation may be refused and shows that none applies there
(`LiveUnrefused`, `ReadyUnrefused`, `RecovererUnrefused`), and that a second mishap would be a
second fault. Its hypotheses are that some message exists and `MaxDeliveries >= 3`, the
`maxReceiveCount` of the queue of clean scans. It is needed: with `MaxDeliveries = 2` TLC finds
the property violated, as both deliveries may fall into the life of a dead worker's lease.

*Verification.* No step of a verifier or a checkpoint changes a variable of `AuditLedger`,
and a batch's step is one of `AuditLedger`'s, so the specification with verification implies
the one without and inherits its theorems. `VerdictsAreTrue` is about calls that have seen
nothing unsettled: at each of its reads such a call knows the newest checkpoint and that it
is delivered (`CallInv`), deliveries are not taken back and the log only grows; and a cached
verdict is true of every call whose reads have its key (`CacheInv`), the false alarms too.

*Outbox.* A row is completed by the append of its event and by nothing else, and the append
compares the head it extends. The proof counts: the head's number is the number of events
and of their ids, so a fresh event always finds its place (`Chain`); who is past its claim
has a row with attempts left (`InHand`).

*Legal holds.* The three properties hold together. One operation at most is in progress and
it asks for a change of what is active (`OnePending`); each place of the worker says what it
knows of the operation at hand (`PlaceOK`); without changes from outside the object has the
recorded status but while an operation is applied, and a put still on its way belongs to
that operation (`ObjectFollows`); the latest application decides what is active
(`LatestDecides`), and the projection is the latest publication (`ProjectionOK`).

*Recovery copies.* The watermark is true because of what each phase has checked, and what it
checked must stay true while the world goes on. Something is `Fine` at a time when it has a
copy that carries the hold of its latest operation, if that was on its way to the ledger by
then; for a
time that has passed this is never undone, no version is stored and no change attempted
behind it, and once the settling time has gone by the ledger up to it is complete (`Kept`,
shown of each step of S3, the publishers and the clock in `StoreStep` and `StorageStep`).
The last needs that a publication under way was attempted within `Window` and that `Window <
Settle`. So the facts about the reconciler need an argument only where it moves itself.
`BackfillOK`: a cutoff has passed; the versions the source scan has behind it are fine; so
are the changes the ledger scan has behind it, whose keys tell any two apart (`KeysDiffer`);
in the last phase everything is. `RunOK`: what a page remembers of the source and of its copy
is still so when the row is written. The watermark then rises only to a cutoff at which
everything was fine, and cutoffs do not go back.

*Jira.* Three invariants that do not need each other's steps. `UploadInv` follows an
attachment: a claimed operation is its request's until it is taken for lost and then
nobody's, nothing is attached before the request is sent, and no two requests work for one
operation; `RetryIsSafe` and `OneAttachmentSet` are conjuncts of it. `FreshInv` says that a
code or token nobody stored is known to one request only. `RaceInv`, for behaviours without
mishaps, says who may write the stored token: the owner of the lease refreshes the stored
version, a copy of the row is as old as its version, and only the owner uses the stored
token up, so that a stored token is dead only until its owner stores the next.

*Evidence and packages.* The theorems are about `PackageSpec`, which has both kinds of
artifact, and about every profile that `ProfilesAssumption` allows, larger ones than TLC
explores included. Without that assumption `CurrentObjectKept` is false (section 5).
`SafeInv` is inductive. It knows of every key who may have heard of it (`Named`) and whether
it was, is or may become the row's object (`Current`): the key of a running upload, rotation
or build is nobody's but its own until the row names it. And it says of every worker, by its
place, what it may rely on (`Sound`): what it is about to name in the row is stored, under
the epoch it says; what it is about to delete is not the row's object and cannot become it,
because a rotation that has lost its lease cannot switch, a reconciler works only on keys
nobody holds a lease for, a purge only on a row that has expired and is not held. The steps
of the other workers do not disturb this. Rather than treating each pair of steps, each
action is shown to have an `Effect` (it learns keys only from the row, lets the row name
only what it named and the worker's own key, keeps the statuses that are for good, touches
only its own objects and those the others can spare), and `OthersKept` shows once that no
such effect disturbs anybody. `HeldKept` follows as a row that is being shredded was
condemned while not held, and only live evidence can be held afterwards. For `NoOrphan`,
`OrphanInv` says under the same invariant that, while nothing has failed, each object is
named by the row, or stray, or covered by a worker that will name or delete it, and that
whoever drops references from the row has deleted their objects before (`Tidy`); again one
lemma (`CleanIsTidy`) treats the other workers for all actions.

Not provable here and left to TLC: liveness under fairness (`HeadCheckpointSettles`,
`JobSettles`, `AnsweredAreSigned`, `OperationsSettle`, `AbandonedWorkSettles`). Every invariant
and every action property of a passing run is stated by a theorem.

## 5. Where code and documents disagree

Shown by a run:

* `recovery_stranded`: a batch job is bound to the state row only while its status is
  `CREATING` (`reconcile-recovery/index.mjs:274`), but a failed-replication notification
  that finds no job sets `REPAIR_REQUESTED` and an error before the binding sets `FAILED`.
  Nothing sets `CREATING` again without a job, so each later invocation ends in
  `BATCH_JOB_STATE_CONFLICT` and the failed version is never copied, although
  `backfill-contract.mjs:295-300` and `docs/AWS_RECOVERY_AND_MACOS_RELEASE.md:20` promise
  the repair. The failed replication is the only trouble the counterexample needs.

Met while modelling. Unless said otherwise the models contain these behaviours; the
properties exempt exactly them, by name, where they would be violated.

*Evidence and retention.*
* When the answer to the INSERT of an upload is lost, `evidence.ts:265` deletes the object
  the committed row names (elsewhere the code holds that an unavailable read "is not proof
  that the new object is unreferenced", `key-operations.ts:49`;
  `docs/SECURITY_AUDIT_2026-08-28.md:136` wants row and ciphertext consistent across
  failures).
* The fallback of `retention.ts:22` purges a row that another writer marked expired without
  looking at the hold again (`CHANGELOG.md:83`).
* A stale duplicate, renewal or review can leave an expired artifact usable again
  (`drizzle/0017`, `evidence.ts:465`); the condemning UPDATE of `retention.ts:17` does not
  compare `expires_at` again; renewals applied out of order shorten an expiry
  (`evidence.ts:216`); `evidence.ts:116` checks that the assessment is open before the batch
  that adds to it.
* A rotator that outlives its lease may write its copy after the reconciler deleted the
  pending key, an object no row names (`key-operations.ts:320`; `stray` in the model).
* A package whose build dies stays `building`, its candidate object with it.

*Audit.* Only the head's checkpoint is looked at, so a claim whose checkpoint was overtaken
by a new event stays claimed, although `checkpoints.ts:297-298` says a later invocation
recovers it. A verification that reads a checkpoint on both sides of its creation or
delivery reports an intact log as invalid, until it is asked again.

*Jobs and Jira.* A stale attempt number lets a job be retried more often than
`max_attempts`; a run may store one artifact after losing its lease (`OneArtifactTooLate` is
exactly that). A user who disconnects from Jira and connects again has a new connection id,
so an upload of unknown outcome can be sent again, which is why `OneAttachmentSet` speaks of
one connection; two authorizations of a user without a connection that complete together
leave tokens encrypted for an id that was not kept (`jira.ts:217-231`). A rejected access
token clears the lease of whoever refreshes at that moment (`jira.ts:239-240`), and a
connection test that succeeded meanwhile sets the connection active again: it may then be
active with a refresh token that is spent, until the next refresh finds out. The refresh of
a connection that was deleted and authorized again under its old id may be stored over the
new token, as both begin with version 1. `StoredTokenLive` exempts both.

*Native provenance.* A client whose success answer is lost repeats its upload and is told
409 "Capture-chain continuity failed" for good, because `reserveCaptureDeviceChain`
(`devices.ts:116-120`) does not look for a link that is already final, although
`docs/OPERATOR_GUIDE.md:91` tells the operator to retry the exact pair. The same capture
stored for two assessments leaves a reservation every pass of the reconciler fails on until
the client repeats it. A reviewer may return and reopen native evidence that has no link: it
is then active, unlinked and in no queue. A link made by a late retry leaves its artifact
`returned` while the occurrence `needs_review`. The route's own finalize does not ask for
the owner's membership, as the reconciler's does. A permanent revocation of a member
(`users/route.ts:74`) revokes devices without dropping their reservations.

*Promotion.* `reconcile-rejected-evidence/index.mjs:103` compares the status and revision of
the intent, not the version or lease it holds. When the scan event of a rejected version
arrives between Aurora's commit and `completePromotion`, DynamoDB says rejected and Aurora
promoted, and neither can be completed, although `009_runtime_hardening.sql:236` calls the
rejection receipt "the recovery authority after a partial commit"; `AcceptedCanComplete`
exempts exactly this. A worker that finds the intent promoted acknowledges its message
without deleting the quarantined version that a worker before it may have died before
deleting (`promote-evidence/index.mjs:207`). An intent is not parsed any more seven days
after it expires, so a promotion that Aurora accepted and DynamoDB did not complete by then
cannot be completed (`late` in the model). `assertActivePromotionLease`
(`promotion-fence.mjs:43`) is not called by the handler.

*Upload intents.* `repair-upload-projections` calls a database function that refuses device
proofs older than five minutes even for an intent it knows, and one refused or malformed row
makes the whole repair run throw without moving its cursor, so rows behind it starve
(`docs/AWS_SECURITY_REVIEW.md:348` names a "durable PostgreSQL projection/repair"). No row
is marked ready by the API, so the repairer visits sound rows too. Two copies of one request
that meet a rotation of the secret can make two reservations, of which one can be projected;
a torn read of a legacy reservation answers 409 (`RefusalsJustified` exempts both). When
the secret is rotated twice before a client repeats its request, the reservation under the
first secret is not found any more (`upload-intent-issuer.ts:439-458` knows one previous
secret), another is counted against the quota and its projection is refused; the runs and
`RefusalsCorrect` therefore speak of one rotation.

*Outbox.* `SELECT ... INTO STRICT queued, work` with two row variables
(`001_tenant_schema.sql:3160`) is not accepted by PL/pgSQL. An upload intent that was issued
and whose audit event could not be recorded stays unaudited unless the client asks again
(`lambda-api.ts:440-475`).

*Provisioning* (not modelled, read for the plan). `verifyDatabase`
(`provision-tenant/index.mjs:949-1026`) reads control tables with the runtime login, from
which `002_runtime_role.sql:34` revokes every table and of which
`verifyRuntimeControlIsolation` demands that it has none: as written an activation cannot
succeed. An acquisition whose answer is lost ends in `ProvisioningFailed` without
`MarkTenantFailed` (`tenant-stack.ts`), although its cause says "The registry is marked
FAILED and may be retried".

*Key rotation attempts* (not modelled). When the answer of a recorded failure is lost, a
peer's record on top of it makes it count twice, which is harmless; `rotationStillRequired`
is read before `resolveRotationFailure` reads the attempt, so a failure recorded in between
may be marked resolved and is retried at once.

## 6. Not modelled

Cryptography, parsing, redaction, formatting and the collectors' reading of external
services are functions of their input and are abstracted to what the callers distinguish.
Authorization is a choice: any caller who may act does, at any time. Presentation,
infrastructure definitions, scripts and vendored code keep no state of the program. A
migration or an external service is modelled by what the calling code relies on.

Left out of modelled components: the per-minute limiter of upload requests; the operator's
`requeue_dead_lettered_api_audit_event`; KMS receipts and digests, which the code compares
within one call; identities of requester and approver; delete markers and metrics of the
recovery reconciler; what a package contains; enrolment of devices and the rotation of their
tokens; audit rows from before the attempt tables; `key_rotation_attempts`; the pages of the
maintenance sweep; the two-person release of a hold on Cloudflare.

Not modelled at all, and why: tenant provisioning, because the activation it works towards
is never reached as the code stands (section 5); SBOM jobs, which repeat the discipline of
collection jobs; assessments, findings and review tables, whose only races are the stale
reads named in section 5; access control, which only decides who may call; the macOS tool,
which is planned.

## 7. Plan

Done: the audit log with checkpoints and verification, evidence and packages, jobs, Jira,
native provenance, promotion, upload intents, legal holds, API audit outbox, recovery
copies. Left, in this order:

1. macOS capture commit: journal, files, Keychain head, recovery at every crash point.
   Abstract specification: a chain that grows by one capture or not at all; composed with
   `NativeProvenance`, which takes what it signed.
2. The bookkeeping of failed key rotations, the pages of the maintenance sweep, the
   two-person release of holds on Cloudflare, tenant provisioning.
