---------------------------- MODULE RecoveryCopies ----------------------------
(***************************************************************************)
(* The cross-region copy of one tenant's evidence and its verification     *)
(* (AWS runtime).                                                          *)
(*                                                                         *)
(* S3 replicates object versions and their legal holds by itself; what it  *)
(* failed to copy, or held before replication was on, is copied by an S3   *)
(* Batch job.  The reconciler (EvidenceRecoveryReconciler) drives one      *)
(* generation at a time: it creates the job of a cutoff, waits for it, and *)
(* verifies every source version, or every change of the recovery ledger   *)
(* since the last verified time, against the copy, a page per invocation.  *)
(* A finished generation moves the watermark verifiedThrough to its        *)
(* cutoff.  Promoter and legal-hold worker write the ledger meanwhile: a   *)
(* change carries the time its publication was attempted and becomes       *)
(* visible later.                                                          *)
(*                                                                         *)
(* The reconciler's reserved concurrency is 1: the schedule and the        *)
(* notifications of S3 take turns, and nobody else writes the state row.   *)
(* Nothing deletes a version: both bucket policies deny it.                *)
(***************************************************************************)
EXTENDS Integers, FiniteSets, FiniteSetsExt

CONSTANTS
    Objects,      \* bound: object versions, numbered in the order of their keys
    Existing,     \* versions stored and published before replication was on
    MaxTroubles,  \* bound: hold operations applied, calls that fail, deaths of the
                  \* function, failed jobs and failed replications, together
    Settle,       \* LEDGER_SETTLE_SECONDS
    Window,       \* how long a publication may be under way: the publishers' timeout
    Interval,     \* VERIFICATION_INTERVAL_SECONDS
    MaxTime,      \* bound: the clock
    MaxFailures,  \* bound: replications that fail, among them
    Absent        \* an absent attribute

ASSUME RecoveryAssumption ==
    /\ Objects \in Nat \ {0} /\ Existing \subseteq 1 .. Objects
    /\ {MaxTroubles, Settle, Window, Interval, MaxTime, MaxFailures} \subseteq Nat
    /\ Window < Settle /\ Settle < Interval /\ Settle < MaxTime

Object == 1 .. Objects
HoldOp == 1 .. MaxTroubles
Time == 0 .. MaxTime
HoldStatus == {"ON", "OFF"}

VARIABLES
    now,
    object,     \* [Object -> the source version, its replication and its copy]
    promotion,  \* [Object -> the publication of its promotion]
    hold,       \* [HoldOp -> a hold change applied in S3 and its publication]
    current,    \* [Object -> the operation its projection shows, 0 for none]
    backfill,   \* the reconciler's state in DynamoDB, or Absent
    batch,      \* the latest S3 Batch job
    run,        \* the invocation of the reconciler under way
    events,     \* failed-replication notifications not yet handled
    failures, mishaps

recoveryVars == <<now, object, promotion, hold, current, backfill, batch, run,
                  events, failures, mishaps>>
storage == <<object, promotion, hold, current>>
budget == <<failures, mishaps>>

\* A version: when it was stored, its hold, its replication and the hold of its copy.
Versions == [stored : Time \cup {Absent}, hold : HoldStatus,
             replication : {"NONE", "PENDING", "FAILED", "COMPLETED"},
             replica : HoldStatus \cup {Absent}]

\* A publication: not attempted, under way since "at", or visible with it.
States == {"none", "waiting", "flying", "visible"}
Publications == [state : States, at : Time]
HoldChanges == [object : Object, status : HoldStatus, state : States,
                at : 0 .. MaxTime + MaxTroubles, prior : 0 .. MaxTroubles]
NotPublished == [state |-> "none", at |-> 0]
Waiting(publication) == [publication EXCEPT !.state = "waiting", !.at = 0]

\* An invocation: where it is, the page under way and what was answered for it.
Runs == [pc : {"idle", "job", "bind", "rejob", "rebind", "describe", "page", "heads"},
         target : Nat, last : BOOLEAN, expect : HoldStatus \cup {Absent},
         source : HoldStatus \cup {"incomplete", Absent},
         replica : HoldStatus \cup {"missing", Absent}]
NoRun == [pc |-> "idle", target |-> 0, last |-> FALSE, expect |-> Absent,
          source |-> Absent, replica |-> Absent]

Backfills == [creating : BOOLEAN, cutoff : Time, job : Time \cup {Absent},
              batch : {"Active", "Complete", "Failed", Absent},
              phase : {"SOURCE", "CHANGES", "DESTINATION", "COMPLETE"},
              verified : BOOLEAN, after : Time \cup {Absent}, cursor : Nat,
              through : Time \cup {Absent}, repair : Time \cup {Absent}]

ASSUME AbsentAssumption ==
    Absent \notin Time /\ Absent \notin HoldStatus /\ Absent \notin Backfills

RecoveryTypeOK ==
    /\ now \in Settle .. MaxTime
    /\ object \in [Object -> Versions]
    /\ promotion \in [Object -> Publications]
    /\ hold \in [HoldOp -> HoldChanges]
    /\ current \in [Object -> 0 .. MaxTroubles]
    /\ backfill \in Backfills \cup {Absent}
    /\ batch \in [cutoff : Time \cup {Absent}, manifest : SUBSET Object,
                  status : {"New", "Active", "Complete", "Failed"}]
    /\ run \in Runs
    /\ events \in Nat /\ failures \in 0 .. MaxFailures /\ mishaps \in 0 .. MaxTroubles

RecoveryInit ==
    /\ now = Settle
    /\ object = [o \in Object |->
          [stored |-> IF o \in Existing THEN 0 ELSE Absent, hold |-> "OFF",
           replication |-> "NONE", replica |-> Absent]]
    /\ promotion = [o \in Object |->
          [NotPublished EXCEPT !.state = IF o \in Existing THEN "visible" ELSE "none"]]
    /\ hold = [k \in HoldOp |-> [object |-> 1, status |-> "ON", state |-> "none",
                                 at |-> 0, prior |-> 0]]
    /\ current = [o \in Object |-> 0]
    /\ backfill = Absent
    /\ batch = [cutoff |-> Absent, manifest |-> {}, status |-> "New"]
    /\ run = NoRun
    /\ events = 0
    /\ failures = 0
    /\ mishaps = 0

\* What is left of the budget of hold operations, faults and failures.
Applied == {k \in HoldOp : hold[k].state # "none"}
Trouble == Cardinality(Applied) + mishaps + failures < MaxTroubles
Mishap == Trouble /\ mishaps' = mishaps + 1

-----------------------------------------------------------------------------
(* Objects, holds and the publications of the recovery ledger.             *)

\* The promoter writes the version; live replication starts on it.
Store(o) ==
    /\ object[o].stored = Absent
    /\ object' = [object EXCEPT ![o].stored = now, ![o].replication = "PENDING"]
    /\ promotion' = [promotion EXCEPT ![o].state = "waiting"]
    /\ UNCHANGED <<now, hold, current, backfill, batch, run, events, budget>>

\* The completing transaction of a promotion carries the time it was built at.
PublishPromotion(o) ==
    /\ promotion[o].state = "waiting"
    /\ promotion' = [promotion EXCEPT ![o] = [state |-> "flying", at |-> now]]
    /\ UNCHANGED <<now, object, hold, current, backfill, batch, run, events, budget>>

PromotionVisible(o) ==
    /\ promotion[o].state = "flying"
    /\ promotion' = [promotion EXCEPT ![o].state = "visible"]
    /\ UNCHANGED <<now, object, hold, current, backfill, batch, run, events, budget>>

\* The hold worker changes the hold of a version in S3, which replicates it.
ApplyHold(k, o) ==
    /\ Trouble
    /\ hold[k].state = "none"
    /\ \A j \in 1 .. k - 1 : hold[j].state # "none"
    /\ promotion[o].state = "visible"
    /\ LET status == IF object[o].hold = "ON" THEN "OFF" ELSE "ON" IN
       /\ object' = [object EXCEPT ![o].hold = status,
             ![o].replication = IF @ = "COMPLETED" THEN "PENDING" ELSE @]
       /\ hold' = [hold EXCEPT ![k].object = o, ![k].status = status,
                               ![k].state = "waiting"]
    /\ UNCHANGED <<now, promotion, current, backfill, batch, run, events, budget>>

\* A publication of a newer application moves the projection, at a later time
\* than the one it replaces.
Advances(k) == hold[k].prior < k

PublishHold(k) ==
    /\ hold[k].state = "waiting"
    /\ LET prior == current[hold[k].object]
           later == IF prior > 0 /\ prior < k /\ now <= hold[prior].at
                    THEN hold[prior].at + 1 ELSE now IN
       hold' = [hold EXCEPT ![k].state = "flying", ![k].prior = prior, ![k].at = later]
    /\ UNCHANGED <<now, object, promotion, current, backfill, batch, run, events, budget>>

\* The transaction commits, or is refused because the projection moved.
HoldVisible(k) ==
    /\ hold[k].state = "flying"
    /\ LET o == hold[k].object IN
       IF Advances(k) /\ current[o] # hold[k].prior
       THEN /\ hold' = [hold EXCEPT ![k] = Waiting([@ EXCEPT !.prior = 0])]
            /\ UNCHANGED current
       ELSE /\ hold' = [hold EXCEPT ![k].state = "visible", ![k].prior = 0]
            /\ current' = [current EXCEPT ![o] = IF Advances(k) THEN k ELSE @]
    /\ UNCHANGED <<now, object, promotion, backfill, batch, run, events, budget>>

\* An attempt fails or its worker dies; a later one takes a fresh time.
AttemptLost ==
    /\ \/ \E o \in Object : /\ promotion[o].state = "flying"
                            /\ promotion' = [promotion EXCEPT ![o] = Waiting(@)]
                            /\ UNCHANGED hold
       \/ \E k \in HoldOp : /\ hold[k].state = "flying"
                        /\ hold' = [hold EXCEPT ![k] = Waiting([@ EXCEPT !.prior = 0])]
                        /\ UNCHANGED promotion
    /\ Mishap
    /\ UNCHANGED <<now, object, current, backfill, batch, run, events, failures>>

\* Time passes.  A publication is over, one way or the other, by the timeout of
\* its function; notifications arrive before the horizon of the model.
Tick ==
    /\ now < MaxTime
    /\ \A o \in Object : promotion[o].state = "flying" => now < promotion[o].at + Window
    /\ \A k \in HoldOp : hold[k].state = "flying" => now < hold[k].at + Window
    /\ now = MaxTime - 1 => events = 0
    /\ now' = now + 1
    /\ UNCHANGED <<storage, backfill, batch, run, events, budget>>

-----------------------------------------------------------------------------
(* S3: live replication and Batch Replication.                             *)

CopyOf(o) == [object[o] EXCEPT !.replication = "COMPLETED", !.replica = object[o].hold]

Replicate(o) ==
    /\ object[o].replication = "PENDING"
    /\ object' = [object EXCEPT ![o] = CopyOf(o)]
    /\ UNCHANGED <<now, promotion, hold, current, backfill, batch, run, events, budget>>

\* A failed replication is notified to the reconciler.
ReplicationFails(o) ==
    /\ object[o].replication = "PENDING"
    /\ now < MaxTime
    /\ Trouble /\ failures < MaxFailures /\ failures' = failures + 1
    /\ object' = [object EXCEPT ![o].replication = "FAILED"]
    /\ events' = events + 1
    /\ UNCHANGED <<now, promotion, hold, current, backfill, batch, run, mishaps>>

\* The manifest is generated some time after the job was created: the versions
\* stored before the cutoff that were never replicated or failed to be.
GenerateManifest ==
    /\ batch.cutoff # Absent /\ batch.status = "New"
    /\ batch' = [batch EXCEPT !.status = "Active", !.manifest =
          {o \in Object : /\ object[o].stored # Absent
                          /\ object[o].stored <= batch.cutoff
                          /\ object[o].replication \in {"NONE", "FAILED"}}]
    /\ UNCHANGED <<now, storage, backfill, run, events, budget>>

FinishJob ==
    /\ batch.status = "Active"
    /\ \/ /\ object' = [o \in Object |-> IF o \in batch.manifest THEN CopyOf(o) ELSE object[o]]
          /\ batch' = [batch EXCEPT !.status = "Complete", !.manifest = {}]
          /\ UNCHANGED mishaps
       \/ /\ batch' = [batch EXCEPT !.status = "Failed", !.manifest = {}]
          /\ Mishap
          /\ UNCHANGED object
    /\ UNCHANGED <<now, promotion, hold, current, backfill, run, events, failures>>

-----------------------------------------------------------------------------
(* The reconciler: its state row and its generations.                      *)

RunAt(pc) == run.pc = pc
RunTo(pc) == run' = [NoRun EXCEPT !.pc = pc]

\* Mutant: the ledger is read up to the present.
UnsettledCutoff(time) == time

\* recoveryLedgerCutoff: far enough behind that nothing older can still appear.
RecoveryLedgerCutoff(time) == time - Settle

Reserved == [creating |-> TRUE, cutoff |-> RecoveryLedgerCutoff(now), job |-> Absent,
             batch |-> Absent, phase |-> "SOURCE", verified |-> FALSE,
             after |-> Absent, cursor |-> 0, through |-> Absent, repair |-> Absent]

\* A repair waits for the job under way to end, not for its verification.
ShouldRotateRepair ==
    /\ backfill.repair # Absent /\ backfill.job # Absent
    /\ backfill.verified \/ backfill.batch \in {"Complete", "Failed"}

\* A verified generation is followed by a periodic one after the interval, when
\* the settled part of the ledger has grown since.
ShouldStartPeriodic ==
    /\ backfill.verified /\ backfill.job # Absent /\ backfill.repair = Absent
    /\ now - backfill.through >= Interval
    /\ RecoveryLedgerCutoff(now) > backfill.through

\* Mutant: a new generation begins without a watermark.
GenerationForgets(cutoff, phase, after) ==
    [backfill EXCEPT !.creating = TRUE, !.cutoff = cutoff, !.job = Absent,
        !.batch = Absent, !.phase = phase, !.verified = FALSE, !.after = after,
        !.cursor = 0, !.repair = Absent, !.through = Absent]

\* The row starts over at a new cutoff; the watermark stays until it is reached.
NewGeneration(cutoff, phase, after) ==
    [backfill EXCEPT !.creating = TRUE, !.cutoff = cutoff, !.job = Absent,
        !.batch = Absent, !.phase = phase, !.verified = FALSE, !.after = after,
        !.cursor = 0, !.repair = Absent]

\* A repair looks at every source version up to the time it was asked for; the
\* round trips since then take longer than the clock's resolution.
RepairGeneration == NewGeneration(backfill.repair, "SOURCE", Absent)

PeriodicGeneration ==
    NewGeneration(RecoveryLedgerCutoff(now), "CHANGES", backfill.through)

\* The schedule invokes the function: the row is reserved, or its generation
\* rotated when a repair or the periodic verification is due; what follows
\* depends on whether a job is bound.
Start ==
    /\ RunAt("idle")
    /\ LET next ==
             IF backfill = Absent THEN Reserved
             ELSE IF ShouldRotateRepair THEN RepairGeneration
             ELSE IF ShouldStartPeriodic THEN PeriodicGeneration
             ELSE backfill IN
       /\ backfill # Absent /\ ShouldRotateRepair => now > backfill.repair
       /\ backfill' = next
       /\ RunTo(IF next.job = Absent THEN "job"
               ELSE IF next.verified THEN "idle"
               ELSE "describe")
    /\ UNCHANGED <<now, storage, batch, events, budget>>

\* The job's token is derived from the cutoff: asking again answers the same job.
CreateJob ==
    /\ RunAt("job") \/ RunAt("rejob")
    /\ batch' = IF batch.cutoff = backfill.cutoff THEN batch
                ELSE [cutoff |-> backfill.cutoff, manifest |-> {}, status |-> "New"]
    /\ RunTo(IF RunAt("job") THEN "bind" ELSE "rebind")
    /\ UNCHANGED <<now, storage, backfill, events, budget>>

\* The error path of the handler: any thrown error marks the row as failed.
Failed == backfill' = [backfill EXCEPT !.creating = FALSE] /\ run' = NoRun

\* The job is bound to a row still being created and to no other.
Bind ==
    /\ RunAt("bind") \/ RunAt("rebind")
    /\ IF backfill.creating
       THEN /\ backfill' = [backfill EXCEPT !.creating = FALSE, !.job = batch.cutoff]
            /\ RunTo(IF RunAt("bind") THEN "describe" ELSE "idle")
       ELSE Failed
    /\ UNCHANGED <<now, storage, batch, events, budget>>

\* Statuses on the way and at the end: Preparing, Ready, Paused and the like are
\* "Active"; Cancelled and Suspended, and Complete with failed tasks, are "Failed".
JobStatus == IF batch.status = "New" THEN "Active" ELSE batch.status

Recorded == [backfill EXCEPT !.batch = JobStatus, !.creating = FALSE]

\* The job's progress is recorded; a requested repair takes over once the job
\* has ended, and a failed job is an error.
Describe ==
    /\ RunAt("describe")
    /\ \/ JobStatus = "Active" /\ backfill' = Recorded /\ RunTo("idle")
       \/ /\ JobStatus # "Active" /\ backfill.repair # Absent
          /\ now > backfill.repair
          /\ backfill' = RepairGeneration /\ RunTo("rejob")
       \/ /\ JobStatus # "Active" /\ backfill.repair = Absent
          /\ backfill' = Recorded
          /\ RunTo(IF JobStatus = "Complete" THEN "page" ELSE "idle")
    /\ UNCHANGED <<now, storage, batch, events, budget>>

-----------------------------------------------------------------------------
(* The reconciler: verification, one item per page.                        *)

\* The change records of the ledger and the order of their keys.
Changes ==
    {[at |-> hold[k].at, id |-> k, object |-> hold[k].object] :
        k \in {j \in HoldOp : hold[j].state = "visible"}}
    \cup {[at |-> promotion[o].at, id |-> MaxTroubles + o, object |-> o] :
             o \in {p \in Object : promotion[p].state = "visible"}}
SortKey(change) == change.at * (MaxTroubles + Objects + 1) + change.id

\* The version's projection, or Absent.
Projection(o) == IF current[o] = 0 THEN Absent ELSE hold[current[o]]

\* The hold a version must have at the cutoff, Absent when a later change defers it.
ExpectationAtCutoff(projection) ==
    IF projection = Absent THEN "OFF"
    ELSE IF projection.at > backfill.cutoff THEN Absent
    ELSE projection.status

\* A promotion's hold status is not compared with the projection.
ChangeExpectation(change) ==
    IF change.id \in HoldOp THEN ExpectationAtCutoff(Projection(change.object))
    ELSE Absent

PageOf(target, last, expect) ==
    /\ run' = [NoRun EXCEPT !.pc = "heads", !.target = target, !.last = last,
                            !.expect = expect]
    /\ UNCHANGED backfill

\* A page is done: the cursor moves, or the last page ends the phase.
PageDone(target, last) ==
    /\ backfill' = IF last THEN [backfill EXCEPT !.phase = "DESTINATION", !.cursor = 0]
                   ELSE [backfill EXCEPT !.cursor = target]
    /\ run' = NoRun

Stored == {o \in Object : object[o].stored # Absent}

\* A page of the source listing, in the order of keys; versions stored after the
\* cutoff are passed over.
SourcePage ==
    /\ RunAt("page") /\ backfill.phase = "SOURCE"
    /\ LET rest == {o \in Stored : o > backfill.cursor} IN
       IF rest = {} THEN PageDone(0, TRUE)
       ELSE LET o == Min(rest) last == rest = {o} IN
            IF object[o].stored <= backfill.cutoff
            THEN PageOf(o, last, ExpectationAtCutoff(Projection(o)))
            ELSE PageDone(o, last)
    /\ UNCHANGED <<now, storage, batch, events, budget>>

\* A page of the ledger: changes after the last watermark, up to the cutoff.
ChangePage ==
    /\ RunAt("page") /\ backfill.phase = "CHANGES"
    /\ LET rest == {c \in Changes : /\ backfill.after < c.at /\ c.at <= backfill.cutoff
                                    /\ SortKey(c) > backfill.cursor} IN
       IF rest = {} THEN PageDone(0, TRUE)
       ELSE LET c == CHOOSE x \in rest : \A y \in rest : SortKey(x) <= SortKey(y) IN
            PageOf(SortKey(c), FALSE, ChangeExpectation(c))
    /\ UNCHANGED <<now, storage, batch, events, budget>>

\* The version the page under way is about.
Target ==
    IF backfill.phase = "SOURCE" THEN run.target
    ELSE (CHOOSE c \in Changes : SortKey(c) = run.target).object

\* The two HEAD requests, in whatever order they are answered.
HeadSource ==
    /\ RunAt("heads") /\ run.source = Absent
    /\ run' = [run EXCEPT !.source =
          IF object[Target].replication = "COMPLETED" THEN object[Target].hold
          ELSE "incomplete"]
    /\ UNCHANGED <<now, storage, backfill, batch, events, budget>>

HeadReplica ==
    /\ RunAt("heads") /\ run.replica = Absent
    /\ run' = [run EXCEPT !.replica =
          IF object[Target].replica = Absent THEN "missing" ELSE object[Target].replica]
    /\ UNCHANGED <<now, storage, backfill, batch, events, budget>>

\* The signed promotion receipt is in the ledger.
ReceiptPublished == promotion[Target].state = "visible"

\* The copy is complete and equal to the source, and both have the hold expected.
ReplicaMatches ==
    /\ run.source \in HoldStatus /\ run.source = run.replica
    /\ run.expect \in {Absent, run.source}

\* After both answers: the page moves the cursor or is an error.
SavePage ==
    /\ RunAt("heads") /\ run.source # Absent /\ run.replica # Absent
    /\ IF ReceiptPublished /\ ReplicaMatches THEN PageDone(run.target, run.last)
       ELSE Failed
    /\ UNCHANGED <<now, storage, batch, events, budget>>

\* What the destination listing still has to show.
Inventory == {o \in Object : object[o].replica # Absent /\ o > backfill.cursor}

\* The destination inventory: every copy has its source version.  The end of the
\* listing ends the generation and moves the watermark to its cutoff.
DestinationPage ==
    /\ RunAt("page") /\ backfill.phase = "DESTINATION"
    /\ backfill' =
          IF Cardinality(Inventory) > 1 THEN [backfill EXCEPT !.cursor = Min(Inventory)]
          ELSE [backfill EXCEPT !.phase = "COMPLETE", !.verified = TRUE, !.cursor = 0,
                                !.through = backfill.cutoff, !.after = Absent]
    /\ RunTo("idle")
    /\ UNCHANGED <<now, storage, batch, events, budget>>

-----------------------------------------------------------------------------
(* The reconciler: failures and the notifications of S3.                   *)

\* A call fails: the error is recorded, unless the function died instead or the
\* recording failed as well.
Fail ==
    /\ run.pc # "idle"
    /\ Mishap
    /\ \/ backfill # Absent /\ Failed
       \/ run' = NoRun /\ UNCHANGED backfill
    /\ UNCHANGED <<now, storage, batch, events, failures>>

\* A failed replication is taken down as a repair request, on a row reserved
\* first; a failure in between leaves the reservation and the notification.
HandleFailureEvent ==
    /\ RunAt("idle")
    /\ events > 0
    /\ LET reserved == IF backfill = Absent THEN Reserved ELSE backfill IN
       \/ /\ backfill' = [reserved EXCEPT !.repair = now, !.creating = FALSE]
          /\ events' = events - 1
          /\ UNCHANGED mishaps
       \/ /\ backfill' = reserved
          /\ Mishap
          /\ UNCHANGED events
    /\ UNCHANGED <<now, storage, batch, run, failures>>

Step == Start \/ CreateJob \/ Bind \/ Describe \/ SourcePage \/ ChangePage
           \/ HeadSource \/ HeadReplica \/ SavePage \/ DestinationPage

RecoveryNext ==
    \/ \E o \in Object : \/ Store(o) \/ PublishPromotion(o) \/ PromotionVisible(o)
                         \/ Replicate(o) \/ ReplicationFails(o)
    \/ \E k \in HoldOp : \/ \E o \in Object : ApplyHold(k, o)
                     \/ PublishHold(k) \/ HoldVisible(k)
    \/ AttemptLost \/ Tick \/ GenerateManifest \/ FinishJob
    \/ Step \/ Fail \/ HandleFailureEvent

\* The schedule invokes the reconciler for ever, S3 works its jobs off and its
\* notifications are retried until the function is free to take them.
RecoveryFairness ==
    /\ WF_recoveryVars(Step) /\ WF_recoveryVars(Tick)
    /\ WF_recoveryVars(GenerateManifest) /\ WF_recoveryVars(FinishJob)
    /\ WF_recoveryVars(\E o \in Object : PromotionVisible(o))
    /\ WF_recoveryVars(\E k \in HoldOp : HoldVisible(k))
    /\ SF_recoveryVars(HandleFailureEvent)

RecoverySpec == RecoveryInit /\ [][RecoveryNext]_recoveryVars /\ RecoveryFairness

-----------------------------------------------------------------------------
(* Properties.                                                             *)

Through == IF backfill = Absent THEN Absent ELSE backfill.through
Covered(time) == Through # Absent /\ time <= Through
LatestOp(k, o) ==
    /\ k \in Applied /\ hold[k].object = o
    /\ \A j \in Applied : hold[j].object = o => j <= k

\* What the watermark says is so: a version published up to verifiedThrough has
\* a copy, and when its latest hold change was published up to there too, the
\* copy carries that hold - whatever was published late, out of order or while
\* the pages were read (recoveryLedgerCutoff, legalHoldExpectationAtCutoff).
WatermarkCoversLedger ==
    /\ RecoveryTypeOK
    /\ \A o \in Object : promotion[o].state = "visible" /\ Covered(promotion[o].at) =>
          /\ object[o].replica # Absent
          /\ \A k \in HoldOp : /\ LatestOp(k, o) /\ hold[k].state = "visible"
                               /\ Covered(hold[k].at)
                => object[o].replica = hold[k].status

\* The watermark never goes back, whichever kind of generation moves it.
WatermarkMonotone ==
    [][Through # Absent => Through' # Absent /\ Through' >= Through]_recoveryVars

\* What failed to replicate is made good by a repair generation, unless the job
\* of that generation failed itself, which the operators are told of.  The code
\* does not keep this: a row marked as failed before a job is bound to it can
\* never bind one (ensureJob asks for a status that nothing sets again).
NotCopied == {o \in Object : object[o].replication = "FAILED"}
JobFailed ==
    /\ batch.status = "Failed" /\ events = 0
    /\ backfill # Absent /\ backfill.repair = Absent
FailedCopyIsRepaired == NotCopied # {} ~> (NotCopied = {} \/ JobFailed)
=============================================================================
