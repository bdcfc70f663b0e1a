--------------------------- MODULE CollectionJobs ---------------------------
(* One collection job, its collector and the invocations that process it    *)
(* (lib/server/jobs.ts).                                                    *)
(*                                                                          *)
(* Any number of scheduler invocations select the job when it is due, read  *)
(* it, check its requester and its collector, claim it under a lease, call  *)
(* the provider, store the artifacts and record the outcome.  Every write   *)
(* is one audited batch, atomic with its event (module AuditLedger).  An    *)
(* invocation may be overtaken between any two awaits, outlive its lease or *)
(* die; a batch may fail, or commit and lose its response.                  *)
(*                                                                          *)
(* A lease is the number of the claim that took it.  Times are compared     *)
(* only through "ripe": the lease has expired, or the retry is due.         *)
EXTENDS Naturals, Sequences

CONSTANTS
    Worker,        \* scheduler invocations that overlap
    MaxAttempts,   \* max_attempts
    Artifacts,     \* bound on the artifacts of one collection
    MaxMishaps     \* bound on failed or unacknowledged calls, invocations that
                   \* die, leases that expire under a live run, and changes of
                   \* the collector and the requester, together

ASSUME JobsAssumption ==
    MaxAttempts \in Nat \ {0} /\ Artifacts \in Nat /\ MaxMishaps \in Nat

VARIABLES
    job,        \* the collection_jobs row; claims counts the leases it had
    log,        \* its audit events
    enabled,    \* collectors.enabled
    permitted,  \* the requester is active and may collect evidence
    local,      \* what each invocation is doing
    mishaps

vars == <<job, log, enabled, permitted, local, mishaps>>

Lifecycle == INSTANCE JobLifecycle WITH status <- job.status
IsJobLifecycle == Lifecycle!Spec

None == 0
Jobs == [status : Lifecycle!Statuses, scheduled : BOOLEAN, attempt : Nat, claims : Nat,
         lease : Nat, ripe : BOOLEAN]

Idle == [pc |-> "idle", attempt |-> 0, open |-> FALSE, lease |-> None, bound |-> <<>>,
         left |-> 0, over |-> 0, as |-> "failed"]

\* attempt, open: the row and the collector as they were read; lease: this
\* run's claim; bound: the ripe lease or retry at the time that was bound to
\* the claim; left: artifacts still to store; over: those it stored after its
\* lease was gone; as: the outcome it is about to record.
Locals == [pc : {"idle", "read", "collector", "authorize", "revoke", "disable", "claim", "recheck",
                 "check", "collect", "own", "store", "finish", "fail"},
           attempt : Nat, open : BOOLEAN, lease : Nat,
           bound : {<<>>} \union (Lifecycle!Statuses \X Nat),
           left : 0..Artifacts, over : Nat,
           as : {"completed", "partial", "retry_scheduled", "failed"}]

TypeOK ==
    /\ job \in Jobs /\ log \in Seq(Lifecycle!Events)
    /\ enabled \in BOOLEAN /\ permitted \in BOOLEAN
    /\ local \in [Worker -> Locals]
    /\ mishaps \in 0..MaxMishaps

Init ==
    /\ job = [status |-> "absent", scheduled |-> FALSE, attempt |-> 0, claims |-> 0,
              lease |-> None, ripe |-> FALSE]
    /\ log = <<>>
    /\ enabled = TRUE /\ permitted = TRUE
    /\ local = [w \in Worker |-> Idle]
    /\ mishaps = 0

-----------------------------------------------------------------------------

At(w, place) == local[w].pc = place
Goto(w, place) == local' = [local EXCEPT ![w].pc = place]
Done(w) == local' = [local EXCEPT ![w] = Idle]
Mishap == mishaps < MaxMishaps /\ mishaps' = mishaps + 1
Fine == UNCHANGED mishaps

Settings == <<enabled, permitted>>
Active == job.status \in {"queued", "running", "retrying"}
\* Mutant: a run that died is never taken over.
DueUnclaimed == job.status = "queued" \/ (job.status = "retrying" /\ job.ripe)

Due == job.status = "queued" \/ (job.status \in {"running", "retrying"} /\ job.ripe)

Record(e) == log' = Append(log, e)

\* The row when the job ends or waits for its next attempt.
Released(status) == [job EXCEPT !.status = status, !.lease = None, !.ripe = FALSE]

-----------------------------------------------------------------------------
(* queueCollection, and the schedule that calls it                          *)

Queue(w) ==
    /\ At(w, "idle") /\ job.status = "absent" /\ enabled
    /\ \E scheduled \in BOOLEAN :
        /\ job' = [job EXCEPT !.status = "queued", !.scheduled = scheduled]
        /\ \/ scheduled /\ Goto(w, "read") /\ Fine
           \/ ~scheduled /\ UNCHANGED local /\ Fine
           \/ UNCHANGED local /\ Mishap
    /\ Record("queued")
    /\ UNCHANGED Settings

Select(w) ==
    /\ At(w, "idle") /\ Due
    /\ Goto(w, "read")
    /\ UNCHANGED <<job, log, Settings, mishaps>>

-----------------------------------------------------------------------------
(* processJob                                                               *)

ReadJob(w) ==
    /\ At(w, "read")
    /\ local' = [local EXCEPT ![w] = [Idle EXCEPT !.pc = "collector", !.attempt = job.attempt]]
    /\ UNCHANGED <<job, log, Settings, mishaps>>

ReadCollector(w) ==
    /\ At(w, "collector")
    /\ local' = [local EXCEPT ![w] = [local[w] EXCEPT !.pc = "authorize", !.open = enabled]]
    /\ UNCHANGED <<job, log, Settings, mishaps>>

\* authorizedJobActor; then startedAt is bound for the claim.
Authorize(w) ==
    /\ At(w, "authorize")
    /\ local' = [local EXCEPT ![w] =
           IF ~(job.scheduled \/ permitted) THEN [Idle EXCEPT !.pc = "revoke"]
           ELSE IF ~local[w].open THEN [Idle EXCEPT !.pc = "disable"]
           ELSE [Idle EXCEPT !.pc = "claim", !.attempt = local[w].attempt,
                             !.bound = IF job.ripe THEN <<job.status, job.claims>> ELSE <<>>]]
    /\ UNCHANGED <<job, log, Settings, mishaps>>

\* The job is failed whoever runs it; an ended job is left alone, and so is
\* the log.
FailUnclaimed(w, place, e) ==
    /\ At(w, place)
    /\ \/ /\ IF Active THEN job' = Released("failed") /\ Record(e) ELSE UNCHANGED <<job, log>>
          /\ Fine
       \/ Active /\ job' = Released("failed") /\ Record(e) /\ Mishap
       \/ UNCHANGED <<job, log>> /\ Mishap
    /\ Done(w)
    /\ UNCHANGED Settings

Revoke(w) == FailUnclaimed(w, "revoke", "authorization_revoked")
Disable(w) == FailUnclaimed(w, "disable", "disabled")

\* Mutant: the claim does not look at the row's status.
ClaimableAlways(w) == enabled

\* The claim's WHERE clause, with the times bound before.
Claimable(w) ==
    /\ enabled
    /\ \/ job.status = "queued"
       \/ job.status \in {"running", "retrying"} /\ local[w].bound = <<job.status, job.claims>>

Claim(w) ==
    /\ At(w, "claim")
    /\ \/ /\ Claimable(w)
          /\ job' = [job EXCEPT !.status = "running", !.attempt = local[w].attempt + 1, !.ripe = FALSE,
                                !.claims = job.claims + 1, !.lease = job.claims + 1]
          /\ Record("started")
          /\ \/ /\ local' = [local EXCEPT ![w] = [Idle EXCEPT
                       !.pc = "check", !.attempt = local[w].attempt + 1, !.lease = job.claims + 1]]
                /\ Fine
             \/ Done(w) /\ Mishap
       \/ ~Claimable(w) /\ local' = [local EXCEPT ![w] = [Idle EXCEPT !.pc = "recheck"]] /\ UNCHANGED <<job, log>> /\ Fine
       \/ Done(w) /\ UNCHANGED <<job, log>> /\ Mishap
    /\ UNCHANGED Settings

\* After a lost claim: a collector that was disabled fails the job.
Recheck(w) ==
    /\ At(w, "recheck")
    /\ IF enabled THEN Done(w) ELSE Goto(w, "disable")
    /\ UNCHANGED <<job, log, Settings, mishaps>>

\* A CollectorError, or any other error, which counts as one that may be retried.
Retryable(w) == local[w].attempt < MaxAttempts
FailAs(w, retryable) ==
    local' = [local EXCEPT ![w] = [Idle EXCEPT
        !.pc = "fail", !.attempt = local[w].attempt, !.lease = local[w].lease,
        !.as = IF retryable /\ Retryable(w) THEN "retry_scheduled" ELSE "failed"]]

CheckEnabled(w) ==
    /\ At(w, "check")
    /\ IF enabled THEN Goto(w, "collect") ELSE FailAs(w, FALSE)
    /\ UNCHANGED <<job, log, Settings, mishaps>>

\* runCollector: the provider's answer is complete, partial or an error.
Collect(w) ==
    /\ At(w, "collect")
    /\ \/ \E n \in 0..Artifacts, coverage \in {"completed", "partial"} :
            local' = [local EXCEPT ![w].pc = "own", ![w].left = n, ![w].as = coverage]
       \/ \E retryable \in BOOLEAN : FailAs(w, retryable)
    /\ UNCHANGED <<job, log, Settings, mishaps>>

Owns(w) == job.status = "running" /\ job.lease = local[w].lease /\ ~job.ripe

\* Mutant: an artifact is stored without another look at the lease.
OwnLeaseAnyway(w) ==
    /\ At(w, "own")
    /\ IF local[w].left = 0 THEN Goto(w, "finish") ELSE Goto(w, "store")
    /\ UNCHANGED <<job, log, Settings, mishaps>>

OwnLease(w) ==
    /\ At(w, "own")
    /\ IF local[w].left = 0 THEN Goto(w, "finish")
       ELSE IF Owns(w) THEN Goto(w, "store") ELSE FailAs(w, TRUE)
    /\ UNCHANGED <<job, log, Settings, mishaps>>

\* storeEvidence; an error of it ends the collection.
Store(w) ==
    /\ At(w, "store")
    /\ \/ /\ local' = [local EXCEPT ![w] = [local[w] EXCEPT !.pc = "own", !.left = local[w].left - 1,
                              !.over = IF Owns(w) THEN local[w].over ELSE local[w].over + 1]]
          /\ Fine
       \/ FailAs(w, TRUE) /\ Mishap
    /\ UNCHANGED <<job, log, Settings>>

Mine(w) == job.status = "running" /\ job.lease = local[w].lease

\* The returned status is the same whether the row was the run's or not.  A
\* batch that throws, even one that committed, is handled as a failed run.
Finish(w) ==
    /\ At(w, "finish")
    /\ \/ Mine(w) /\ job' = Released(local[w].as) /\ Record(local[w].as) /\ Done(w) /\ Fine
       \/ Mine(w) /\ job' = Released(local[w].as) /\ Record(local[w].as) /\ FailAs(w, TRUE) /\ Mishap
       \/ ~Mine(w) /\ UNCHANGED <<job, log>> /\ Done(w) /\ Fine
       \/ UNCHANGED <<job, log>> /\ FailAs(w, TRUE) /\ Mishap
    /\ UNCHANGED Settings

Failure(w) == IF local[w].as = "failed" THEN "failed" ELSE "retrying"

\* The second update of the failure batch matches any released row with this
\* attempt and status, whose ever it was: enough for another event.
Echoes(w) ==
    ~Mine(w) /\ job.lease = None /\ job.status = Failure(w) /\ job.attempt = local[w].attempt

Fail(w) ==
    /\ At(w, "fail")
    /\ \/ /\ Mine(w) /\ job' = Released(Failure(w)) /\ Record(local[w].as)
          /\ Fine \/ Mishap
       \/ /\ Echoes(w) /\ UNCHANGED job /\ Record(local[w].as)
          /\ Fine \/ Mishap
       \/ ~Mine(w) /\ ~Echoes(w) /\ UNCHANGED <<job, log>> /\ Fine
       \/ UNCHANGED <<job, log>> /\ Mishap
    /\ Done(w)
    /\ UNCHANGED Settings

-----------------------------------------------------------------------------
(* The world.                                                              *)

Held == \E w \in Worker : ~At(w, "idle") /\ local[w].lease = job.lease

\* Time passes: the lease expires, or the retry falls due.
Ripen ==
    /\ job.status \in {"running", "retrying"} /\ ~job.ripe
    /\ job' = [job EXCEPT !.ripe = TRUE]
    /\ IF job.status = "running" /\ Held THEN Mishap ELSE Fine
    /\ UNCHANGED <<log, Settings, local>>

Reconfigure ==
    /\ Mishap
    /\ \/ enabled' = ~enabled /\ UNCHANGED permitted
       \/ permitted' = ~permitted /\ UNCHANGED enabled
    /\ UNCHANGED <<job, log, local>>

Crash(w) ==
    /\ ~At(w, "idle") /\ Mishap
    /\ Done(w)
    /\ UNCHANGED <<job, log, Settings>>

Step(w) ==
    \/ Select(w) \/ ReadJob(w) \/ ReadCollector(w) \/ Authorize(w) \/ Revoke(w) \/ Disable(w)
    \/ Claim(w) \/ Recheck(w) \/ CheckEnabled(w) \/ Collect(w) \/ OwnLease(w) \/ Store(w)
    \/ Finish(w) \/ Fail(w)

Next ==
    \/ \E w \in Worker : Queue(w) \/ Step(w) \/ Crash(w)
    \/ Ripen \/ Reconfigure

Spec == Init /\ [][Next]_vars

\* The scheduler comes every fifteen minutes and its invocations either go on
\* or die; time passes.  Nobody has to queue a job or to change anything.
FairSpec == Spec /\ WF_vars(Ripen) /\ \A w \in Worker : WF_vars(Step(w))

-----------------------------------------------------------------------------
(* Properties.                                                             *)

\* A run that lost its lease stores at most one more artifact: the lease is
\* checked before each one, but not in the transaction that stores it.
OneArtifactTooLate == \A w \in Worker : local[w].over <= 1

\* A queued job ends, whatever dies on the way.
JobSettles == job.status = "queued" ~> job.status \in Lifecycle!Ended
=============================================================================
