------------------------- MODULE JobAndIntentProofs -------------------------
(* Theorems about CollectionJobs, for any number of invocations, attempts,   *)
(* artifacts and mishaps, and about UploadIntents, for any number of keys,   *)
(* manifests, overlapping requests, rotations and mishaps.                   *)
EXTENDS CollectionJobs, UploadIntents, FiniteSetTheorems, TLAPS

-----------------------------------------------------------------------------
(* Type correctness.                                                        *)

LEMMA IdleType == Idle \in Locals
BY JobsAssumption DEF Idle, Locals, None

\* What FailAs does to the invocations.
LEMMA FailAsType ==
    ASSUME TypeOK, NEW w \in Worker, NEW retryable \in BOOLEAN, FailAs(w, retryable)
    PROVE  local' \in [Worker -> Locals]
<1>1. local[w] \in Locals
  BY DEF TypeOK
<1>2. [Idle EXCEPT !.pc = "fail", !.attempt = local[w].attempt, !.lease = local[w].lease,
         !.as = IF retryable /\ Retryable(w) THEN "retry_scheduled" ELSE "failed"] \in Locals
  BY <1>1, IdleType DEF Locals
<1> QED BY <1>2 DEF FailAs, TypeOK

LEMMA GotoType ==
    ASSUME TypeOK, NEW w \in Worker,
           NEW place \in {"idle", "read", "collector", "authorize", "revoke", "disable", "claim",
                          "recheck", "check", "collect", "own", "store", "finish", "fail"},
           Goto(w, place)
    PROVE  local' \in [Worker -> Locals]
<1>1. local[w] \in Locals
  BY DEF TypeOK
<1>2. [local[w] EXCEPT !.pc = place] \in Locals
  BY <1>1 DEF Locals
<1> QED BY <1>2 DEF Goto, TypeOK

LEMMA DoneType ==
    ASSUME TypeOK, NEW w \in Worker, Done(w)
    PROVE  local' \in [Worker -> Locals]
BY IdleType DEF Done, TypeOK

LEMMA ReleasedType ==
    ASSUME TypeOK, NEW status \in Lifecycle!Statuses
    PROVE  Released(status) \in Jobs /\ Released(status).status = status
BY DEF TypeOK, Released, Jobs, None

LEMMA RecordType ==
    ASSUME TypeOK, NEW e \in Lifecycle!Events, Record(e)
    PROVE  log' \in Seq(Lifecycle!Events)
BY DEF TypeOK, Record

LEMMA MishapType ==
    ASSUME TypeOK, Mishap \/ Fine
    PROVE  mishaps' \in 0..MaxMishaps
BY JobsAssumption DEF TypeOK, Mishap, Fine

LEMMA QueueType == ASSUME TypeOK, NEW w \in Worker, Queue(w) PROVE TypeOK'
<1>1. PICK scheduled \in BOOLEAN :
        /\ job' = [job EXCEPT !.status = "queued", !.scheduled = scheduled]
        /\ \/ scheduled /\ Goto(w, "read") /\ Fine
           \/ ~scheduled /\ UNCHANGED local /\ Fine
           \/ UNCHANGED local /\ Mishap
  BY DEF Queue
<1>2. job' \in Jobs
  BY <1>1 DEF TypeOK, Jobs, Lifecycle!Statuses
<1>3. local' \in [Worker -> Locals]
  BY <1>1, GotoType DEF TypeOK
<1>4. log' \in Seq(Lifecycle!Events)
  BY RecordType DEF Queue, Lifecycle!Events
<1>5. mishaps' \in 0..MaxMishaps
  BY <1>1, MishapType
<1> QED BY <1>2, <1>3, <1>4, <1>5 DEF TypeOK, Queue, Settings

\* The steps that only move the invocation on.
LEMMA LocalType ==
    ASSUME TypeOK, NEW w \in Worker,
           \/ Select(w) \/ ReadJob(w) \/ ReadCollector(w) \/ Authorize(w) \/ Recheck(w)
           \/ CheckEnabled(w) \/ Collect(w) \/ OwnLease(w)
    PROVE  TypeOK'
<1>1. local[w] \in Locals
  BY DEF TypeOK
<1>2. CASE Select(w)
  BY <1>2, GotoType DEF Select, TypeOK, Settings
<1>3. CASE ReadJob(w)
  <2>1. [Idle EXCEPT !.pc = "collector", !.attempt = job.attempt] \in Locals
    BY IdleType DEF Locals, TypeOK, Jobs
  <2> QED BY <1>3, <2>1 DEF ReadJob, TypeOK, Settings
<1>4. CASE ReadCollector(w)
  <2>1. [local[w] EXCEPT !.pc = "authorize", !.open = enabled] \in Locals
    BY <1>1 DEF Locals, TypeOK
  <2> QED BY <1>4, <2>1 DEF ReadCollector, TypeOK, Settings
<1>5. CASE Authorize(w)
  <2> DEFINE bound == IF job.ripe THEN <<job.status, job.claims>> ELSE <<>>
  <2>1. bound \in {<<>>} \union (Lifecycle!Statuses \X Nat)
    BY DEF TypeOK, Jobs
  <2>2. /\ [Idle EXCEPT !.pc = "revoke"] \in Locals
        /\ [Idle EXCEPT !.pc = "disable"] \in Locals
    BY IdleType DEF Locals
  <2>3. [Idle EXCEPT !.pc = "claim", !.attempt = local[w].attempt, !.bound = bound] \in Locals
    <3>1. local[w].attempt \in Nat
      BY <1>1 DEF Locals
    <3> HIDE DEF bound
    <3> QED BY <2>1, <3>1, IdleType DEF Locals
  <2> QED BY <1>5, <2>2, <2>3 DEF Authorize, TypeOK, Settings
<1>6. CASE Recheck(w)
  BY <1>6, GotoType, DoneType DEF Recheck, TypeOK, Settings
<1>7. CASE CheckEnabled(w)
  BY <1>7, GotoType, FailAsType DEF CheckEnabled, TypeOK, Settings
<1>8. CASE Collect(w)
  <2>1. CASE \E retryable \in BOOLEAN : FailAs(w, retryable)
    BY <2>1, <1>8, FailAsType DEF Collect, TypeOK, Settings
  <2>2. ASSUME NEW n \in 0..Artifacts, NEW coverage \in {"completed", "partial"},
               local' = [local EXCEPT ![w].pc = "own", ![w].left = n, ![w].as = coverage]
        PROVE  local' \in [Worker -> Locals]
    <3>1. [local[w] EXCEPT !.pc = "own", !.left = n, !.as = coverage] \in Locals
      BY <1>1 DEF Locals
    <3> QED BY <2>2, <3>1 DEF TypeOK
  <2> QED BY <1>8, <2>1, <2>2 DEF Collect, TypeOK, Settings
<1>9. CASE OwnLease(w)
  BY <1>9, GotoType, FailAsType DEF OwnLease, TypeOK, Settings
<1> QED BY <1>2, <1>3, <1>4, <1>5, <1>6, <1>7, <1>8, <1>9

LEMMA UnclaimedType ==
    ASSUME TypeOK, NEW w \in Worker, Revoke(w) \/ Disable(w)
    PROVE  TypeOK'
<1>1. Released("failed") \in Jobs
  BY ReleasedType DEF Lifecycle!Statuses
<1>2. ASSUME NEW place, NEW e \in Lifecycle!Events, FailUnclaimed(w, place, e)
      PROVE  TypeOK'
  <2>1. local' \in [Worker -> Locals] /\ mishaps' \in 0..MaxMishaps
    BY <1>2, DoneType, MishapType DEF FailUnclaimed
  <2>2. job' \in Jobs /\ log' \in Seq(Lifecycle!Events)
    BY <1>1, <1>2, RecordType DEF FailUnclaimed, TypeOK
  <2> QED BY <1>2, <2>1, <2>2 DEF FailUnclaimed, TypeOK, Settings
<1> QED BY <1>2 DEF Revoke, Disable, Lifecycle!Events

LEMMA ClaimType == ASSUME TypeOK, NEW w \in Worker, Claim(w) PROVE TypeOK'
<1>1. local[w] \in Locals /\ job \in Jobs
  BY DEF TypeOK
<1>a. local[w].attempt + 1 \in Nat /\ job.claims + 1 \in Nat /\ "running" \in Lifecycle!Statuses
  BY <1>1 DEF Locals, Jobs, Lifecycle!Statuses
<1>2. [job EXCEPT !.status = "running", !.attempt = local[w].attempt + 1, !.ripe = FALSE,
                  !.claims = job.claims + 1, !.lease = job.claims + 1] \in Jobs
  BY <1>1, <1>a DEF Jobs
<1>3. /\ [Idle EXCEPT !.pc = "check", !.attempt = local[w].attempt + 1, !.lease = job.claims + 1] \in Locals
      /\ [Idle EXCEPT !.pc = "recheck"] \in Locals
  BY <1>a, IdleType DEF Locals
<1>4. local' \in [Worker -> Locals]
  BY <1>3, DoneType DEF Claim, TypeOK
<1>5. job' \in Jobs /\ log' \in Seq(Lifecycle!Events)
  BY <1>2, RecordType DEF Claim, TypeOK, Lifecycle!Events
<1>6. mishaps' \in 0..MaxMishaps
  BY MishapType DEF Claim
<1> QED BY <1>4, <1>5, <1>6 DEF Claim, TypeOK, Settings

\* What an invocation is about to record, and that one which stores an
\* artifact has one left.
Shape(l) ==
    /\ l.pc \in {"own", "store", "finish"} => l.as \in {"completed", "partial"}
    /\ l.pc = "fail" => l.as \in {"retry_scheduled", "failed"}
    /\ l.pc = "store" => l.left > 0
Shaped == \A w \in Worker : Shape(local[w])

LEMMA StoreType == ASSUME TypeOK, Shaped, NEW w \in Worker, Store(w) PROVE TypeOK'
<1>1. local[w] \in Locals /\ local[w].left > 0
  BY DEF TypeOK, Shaped, Shape, Store, At
<1>a. /\ local[w].left - 1 \in 0..Artifacts
      /\ local[w].over \in Nat
  BY <1>1, JobsAssumption DEF Locals
<1>b. (IF Owns(w) THEN local[w].over ELSE local[w].over + 1) \in Nat
  BY <1>a
<1>2. [local[w] EXCEPT !.pc = "own", !.left = local[w].left - 1,
         !.over = IF Owns(w) THEN local[w].over ELSE local[w].over + 1] \in Locals
  BY <1>1, <1>a, <1>b DEF Locals
<1>3. local' \in [Worker -> Locals]
  BY <1>2, FailAsType DEF Store, TypeOK
<1>4. mishaps' \in 0..MaxMishaps
  BY MishapType DEF Store
<1> QED BY <1>3, <1>4 DEF Store, TypeOK, Settings

LEMMA FinishType == ASSUME TypeOK, Shaped, NEW w \in Worker, Finish(w) PROVE TypeOK'
<1>1. local[w].as \in {"completed", "partial"}
  BY DEF Shaped, Shape, Finish, At
<1>2. Released(local[w].as) \in Jobs /\ local[w].as \in Lifecycle!Events
  BY <1>1, ReleasedType DEF Lifecycle!Statuses, Lifecycle!Events
<1>3. job' \in Jobs /\ log' \in Seq(Lifecycle!Events)
  BY <1>2, RecordType DEF Finish, TypeOK
<1>4. local' \in [Worker -> Locals] /\ mishaps' \in 0..MaxMishaps
  BY DoneType, FailAsType, MishapType DEF Finish
<1> QED BY <1>3, <1>4 DEF Finish, TypeOK, Settings

LEMMA FailType == ASSUME TypeOK, Shaped, NEW w \in Worker, Fail(w) PROVE TypeOK'
<1>1. local[w].as \in {"retry_scheduled", "failed"}
  BY DEF Shaped, Shape, Fail, At
<1>2. Released(Failure(w)) \in Jobs /\ local[w].as \in Lifecycle!Events
  BY <1>1, ReleasedType DEF Failure, Lifecycle!Statuses, Lifecycle!Events
<1>3. job' \in Jobs /\ log' \in Seq(Lifecycle!Events)
  BY <1>2, RecordType DEF Fail, TypeOK
<1>4. local' \in [Worker -> Locals] /\ mishaps' \in 0..MaxMishaps
  BY DoneType, MishapType DEF Fail
<1> QED BY <1>3, <1>4 DEF Fail, TypeOK, Settings

LEMMA WorldType ==
    ASSUME TypeOK, Ripen \/ Reconfigure \/ \E w \in Worker : Crash(w)
    PROVE  TypeOK'
<1>1. CASE Ripen
  <2>1. job' \in Jobs
    BY <1>1 DEF Ripen, TypeOK, Jobs
  <2>2. mishaps' \in 0..MaxMishaps
    BY <1>1, MishapType DEF Ripen
  <2> QED BY <1>1, <2>1, <2>2 DEF Ripen, TypeOK, Settings
<1>2. CASE Reconfigure
  <2>1. mishaps' \in 0..MaxMishaps
    BY <1>2, MishapType DEF Reconfigure
  <2>2. enabled' \in BOOLEAN /\ permitted' \in BOOLEAN
    BY <1>2 DEF Reconfigure, TypeOK
  <2> QED BY <1>2, <2>1, <2>2 DEF Reconfigure, TypeOK
<1>3. ASSUME NEW w \in Worker, Crash(w) PROVE TypeOK'
  <2>1. local' \in [Worker -> Locals] /\ mishaps' \in 0..MaxMishaps
    BY <1>3, DoneType, MishapType DEF Crash
  <2> QED BY <1>3, <2>1 DEF Crash, TypeOK, Settings
<1> QED BY <1>1, <1>2, <1>3

\* One invocation moves: the shape of the others stays.
LEMMA OthersShaped ==
    ASSUME TypeOK, Shaped, NEW w \in Worker, NEW l, Shape(l), local' = [local EXCEPT ![w] = l]
    PROVE  Shaped'
BY DEF TypeOK, Shaped, Shape

LEMMA FailAsShape ==
    ASSUME TypeOK, Shaped, NEW w \in Worker, NEW retryable \in BOOLEAN, FailAs(w, retryable)
    PROVE  Shaped'
<1> DEFINE l == [Idle EXCEPT !.pc = "fail", !.attempt = local[w].attempt, !.lease = local[w].lease,
                   !.as = IF retryable /\ Retryable(w) THEN "retry_scheduled" ELSE "failed"]
<1>1. Shape(l)
  BY DEF Shape, Idle
<1> HIDE DEF l
<1> QED BY <1>1, OthersShaped DEF FailAs, l

LEMMA GotoShape ==
    ASSUME TypeOK, Shaped, NEW w \in Worker,
           NEW place \in {"idle", "read", "collector", "authorize", "revoke", "disable", "claim",
                          "recheck", "check", "collect"},
           Goto(w, place)
    PROVE  Shaped'
<1>1. Shape([local[w] EXCEPT !.pc = place])
  BY DEF Shape, TypeOK, Locals
<1> QED BY <1>1, OthersShaped DEF Goto

LEMMA DoneShape == ASSUME TypeOK, Shaped, NEW w \in Worker, Done(w) PROVE Shaped'
<1>1. Shape(Idle)
  BY DEF Shape, Idle
<1> QED BY <1>1, OthersShaped DEF Done

LEMMA ShapeStep ==
    ASSUME TypeOK, Shaped, NEW w \in Worker, Queue(w) \/ Step(w) \/ Crash(w)
    PROVE  Shaped'
<1>0. local[w] \in Locals /\ Shape(local[w])
  BY DEF TypeOK, Shaped
<1>a. UNCHANGED local => Shaped'
  BY DEF Shaped, Shape
<1>1. CASE Queue(w)
  BY <1>1, <1>a, GotoShape DEF Queue
<1>2. CASE Select(w)
  BY <1>2, GotoShape DEF Select
<1>3. CASE ReadJob(w)
  <2>1. Shape([Idle EXCEPT !.pc = "collector", !.attempt = job.attempt])
    BY DEF Shape, Idle
  <2> QED BY <1>3, <2>1, OthersShaped DEF ReadJob
<1>4. CASE ReadCollector(w)
  <2>1. Shape([local[w] EXCEPT !.pc = "authorize", !.open = enabled])
    BY <1>0 DEF Shape, Locals
  <2> QED BY <1>4, <2>1, OthersShaped DEF ReadCollector
<1>5. CASE Authorize(w)
  <2> DEFINE bound == IF job.ripe THEN <<job.status, job.claims>> ELSE <<>>
  <2>1. /\ Shape([Idle EXCEPT !.pc = "revoke"])
        /\ Shape([Idle EXCEPT !.pc = "disable"])
        /\ Shape([Idle EXCEPT !.pc = "claim", !.attempt = local[w].attempt, !.bound = bound])
    BY DEF Shape, Idle
  <2> QED BY <1>5, <2>1, OthersShaped DEF Authorize
<1>6. CASE Revoke(w) \/ Disable(w) \/ Fail(w) \/ Crash(w)
  BY <1>6, DoneShape DEF Revoke, Disable, FailUnclaimed, Fail, Crash
<1>7. CASE Claim(w)
  <2>1. /\ Shape([Idle EXCEPT !.pc = "check", !.attempt = local[w].attempt + 1, !.lease = job.claims + 1])
        /\ Shape([Idle EXCEPT !.pc = "recheck"])
    BY DEF Shape, Idle
  <2> QED BY <1>7, <2>1, OthersShaped, DoneShape DEF Claim
<1>8. CASE Recheck(w)
  BY <1>8, GotoShape, DoneShape DEF Recheck
<1>9. CASE CheckEnabled(w)
  BY <1>9, GotoShape, FailAsShape DEF CheckEnabled
<1>10. CASE Collect(w)
  <2>1. CASE \E retryable \in BOOLEAN : FailAs(w, retryable)
    BY <2>1, FailAsShape
  <2>2. ASSUME NEW n \in 0..Artifacts, NEW coverage \in {"completed", "partial"},
               local' = [local EXCEPT ![w].pc = "own", ![w].left = n, ![w].as = coverage]
        PROVE  Shaped'
    <3>1. Shape([local[w] EXCEPT !.pc = "own", !.left = n, !.as = coverage])
      BY <1>0 DEF Shape, Locals
    <3>2. local' = [local EXCEPT ![w] = [local[w] EXCEPT !.pc = "own", !.left = n, !.as = coverage]]
      BY <2>2 DEF TypeOK
    <3> QED BY <3>1, <3>2, OthersShaped
  <2> QED BY <1>10, <2>1, <2>2 DEF Collect
<1>11. CASE OwnLease(w)
  <2>1. ASSUME Goto(w, "finish") \/ (local[w].left # 0 /\ Goto(w, "store"))
        PROVE  Shaped'
    <3>1. /\ Shape([local[w] EXCEPT !.pc = "finish"])
          /\ local[w].left # 0 => Shape([local[w] EXCEPT !.pc = "store"])
      BY <1>0, <1>11, JobsAssumption DEF Shape, Locals, OwnLease, At
    <3> QED BY <2>1, <3>1, OthersShaped DEF Goto
  <2> QED BY <1>11, <2>1, FailAsShape DEF OwnLease
<1>12. CASE Store(w)
  <2> DEFINE l == [local[w] EXCEPT !.pc = "own", !.left = local[w].left - 1,
                     !.over = IF Owns(w) THEN local[w].over ELSE local[w].over + 1]
  <2>1. Shape(l)
    BY <1>0, <1>12 DEF Shape, Locals, Store, At
  <2> HIDE DEF l
  <2> QED BY <1>12, <2>1, OthersShaped, FailAsShape DEF Store, l
<1>13. CASE Finish(w)
  BY <1>13, DoneShape, FailAsShape DEF Finish
<1> QED BY <1>1, <1>2, <1>3, <1>4, <1>5, <1>6, <1>7, <1>8, <1>9, <1>10, <1>11, <1>12, <1>13 DEF Step

LEMMA TypeStep ==
    ASSUME TypeOK, Shaped, [Next]_vars
    PROVE  TypeOK' /\ Shaped'
<1>1. CASE UNCHANGED vars
  BY <1>1 DEF vars, TypeOK, Shaped, Shape
<1>2. ASSUME NEW w \in Worker, Queue(w) \/ Step(w) \/ Crash(w)
      PROVE  TypeOK' /\ Shaped'
  <2>1. TypeOK'
    BY <1>2, QueueType, LocalType, UnclaimedType, ClaimType, StoreType, FinishType, FailType, WorldType
       DEF Step
  <2> QED BY <1>2, <2>1, ShapeStep
<1>3. CASE Ripen \/ Reconfigure
  BY <1>3, WorldType DEF Ripen, Reconfigure, Shaped, Shape
<1> QED BY <1>1, <1>2, <1>3 DEF Next

LEMMA TypeInit == Init => TypeOK /\ Shaped
<1>1. SUFFICES ASSUME Init PROVE TypeOK /\ Shaped
  OBVIOUS
<1>2. Idle \in Locals /\ Shape(Idle)
  BY IdleType DEF Idle, Shape
<1>3. job \in Jobs /\ log \in Seq(Lifecycle!Events)
  BY <1>1 DEF Init, Jobs, None, Lifecycle!Statuses
<1> QED BY <1>1, <1>2, <1>3, JobsAssumption DEF Init, TypeOK, Shaped

\* Every variable of the job model keeps its type.
THEOREM TypeCorrect == Spec => []TypeOK
<1>1. Init => TypeOK /\ Shaped
  BY TypeInit
<1>2. (TypeOK /\ Shaped) /\ [Next]_vars => (TypeOK /\ Shaped)'
  BY TypeStep
<1> QED BY <1>1, <1>2, PTL DEF Spec

-----------------------------------------------------------------------------
(* A run that lost its lease.                                              *)

\* A lost lease is never regained: claims are numbered, and a lease that has
\* expired or was released is taken again only under a new number.
Punctual(l, row) ==
    /\ l.lease <= row.claims
    /\ l.over <= 1
    /\ l.over = 1 => ~(row.status = "running" /\ row.lease = l.lease /\ ~row.ripe)
    /\ l.pc = "store" => l.over = 0
AllPunctual == \A w \in Worker : Punctual(local[w], job)

\* What a step can do to the row.
JobMove ==
    \/ UNCHANGED job
    \/ job'.claims = job.claims /\ (job'.status # "running" \/ job'.ripe)
    \/ job'.claims = job.claims + 1 /\ job'.lease = job.claims + 1

LEMMA StillPunctual ==
    ASSUME TypeOK, JobMove, NEW l \in Locals, Punctual(l, job)
    PROVE  Punctual(l, job')
BY DEF TypeOK, JobMove, Punctual, Locals, Jobs

LEMMA JobMoves == ASSUME TypeOK, Shaped, [Next]_vars PROVE JobMove
<1>1. ASSUME NEW status \in Lifecycle!Statuses, status # "running", job' = Released(status)
      PROVE  JobMove
  BY <1>1 DEF Released, JobMove, TypeOK, Jobs
<1>2. CASE UNCHANGED job
  BY <1>2 DEF JobMove
<1>3. ASSUME NEW w \in Worker, Queue(w) PROVE JobMove
  BY <1>3 DEF Queue, JobMove, TypeOK, Jobs
<1>4. ASSUME NEW w \in Worker, Claim(w) PROVE JobMove
  BY <1>4 DEF Claim, JobMove, TypeOK, Jobs
<1>5. ASSUME NEW w \in Worker, Revoke(w) \/ Disable(w) PROVE JobMove
  BY <1>1, <1>2, <1>5 DEF Revoke, Disable, FailUnclaimed, Lifecycle!Statuses
<1>6. ASSUME NEW w \in Worker, Finish(w) PROVE JobMove
  <2>1. local[w].as \in Lifecycle!Statuses /\ local[w].as # "running"
    BY <1>6 DEF Shaped, Shape, Finish, At, Lifecycle!Statuses
  <2> QED BY <1>1, <1>2, <1>6, <2>1 DEF Finish
<1>7. ASSUME NEW w \in Worker, Fail(w) PROVE JobMove
  BY <1>1, <1>2, <1>7 DEF Fail, Failure, Lifecycle!Statuses
<1>8. CASE Ripen
  BY <1>8 DEF Ripen, JobMove, TypeOK, Jobs
<1> QED BY <1>2, <1>3, <1>4, <1>5, <1>6, <1>7, <1>8 DEF Next, Step, vars, Select, ReadJob, ReadCollector,
           Authorize, Recheck, CheckEnabled, Collect, OwnLease, Store, Crash, Reconfigure

\* One invocation moves.
LEMMA OthersPunctual ==
    ASSUME TypeOK, JobMove, AllPunctual, NEW w \in Worker, NEW l, local' = [local EXCEPT ![w] = l],
           Punctual(l, job')
    PROVE  AllPunctual'
<1>1. Punctual(local'[w], job')
  BY DEF TypeOK
<1>2. ASSUME NEW v \in Worker, v # w PROVE Punctual(local'[v], job')
  <2>1. local[v] \in Locals /\ Punctual(local[v], job) /\ local'[v] = local[v]
    BY <1>2 DEF AllPunctual, TypeOK
  <2> QED BY <2>1, StillPunctual
<1> QED BY <1>1, <1>2 DEF AllPunctual

LEMMA NobodyMoved == ASSUME TypeOK, JobMove, AllPunctual, UNCHANGED local PROVE AllPunctual'
<1>1. ASSUME NEW v \in Worker PROVE Punctual(local'[v], job')
  <2>1. local[v] \in Locals /\ Punctual(local[v], job) /\ local'[v] = local[v]
    BY DEF AllPunctual, TypeOK
  <2> QED BY <2>1, StillPunctual
<1> QED BY <1>1 DEF AllPunctual

\* A fresh start, or a failure: nothing was stored late.
LEMMA FreshPunctual ==
    ASSUME TypeOK, JobMove, NEW l, l.lease \in Nat, l.lease <= job.claims, l.over = 0
    PROVE  Punctual(l, job')
BY DEF TypeOK, JobMove, Punctual, Jobs

LEMMA IdlePunctual ==
    ASSUME TypeOK, JobMove, AllPunctual, NEW w \in Worker, Done(w)
    PROVE  AllPunctual'
<1>1. Punctual(Idle, job')
  BY FreshPunctual DEF Idle, None, TypeOK, Jobs
<1> QED BY <1>1, OthersPunctual DEF Done

LEMMA FailAsPunctual ==
    ASSUME TypeOK, JobMove, AllPunctual, NEW w \in Worker, NEW retryable \in BOOLEAN,
           FailAs(w, retryable)
    PROVE  AllPunctual'
<1> DEFINE l == [Idle EXCEPT !.pc = "fail", !.attempt = local[w].attempt, !.lease = local[w].lease,
                   !.as = IF retryable /\ Retryable(w) THEN "retry_scheduled" ELSE "failed"]
<1>1. local[w].lease \in Nat /\ local[w].lease <= job.claims
  BY DEF AllPunctual, Punctual, TypeOK, Locals
<1>2. l.lease = local[w].lease /\ l.over = 0
  BY DEF Idle
<1> HIDE DEF l
<1>3. Punctual(l, job')
  BY <1>1, <1>2, FreshPunctual
<1> QED BY <1>3, OthersPunctual DEF FailAs, l

\* The row stays, and so do the invocation's lease and late artifacts.
LEMMA SamePunctual ==
    ASSUME TypeOK, AllPunctual, UNCHANGED job, NEW w \in Worker, NEW l, local' = [local EXCEPT ![w] = l],
           l.lease = local[w].lease, l.over = local[w].over, l.pc # "store" \/ l.over = 0
    PROVE  AllPunctual'
<1>1. Punctual(l, job')
  BY DEF AllPunctual, Punctual
<1> QED BY <1>1, OthersPunctual DEF JobMove

LEMMA GotoPunctual ==
    ASSUME TypeOK, AllPunctual, UNCHANGED job, NEW w \in Worker, NEW place, Goto(w, place),
           place # "store" \/ local[w].over = 0
    PROVE  AllPunctual'
<1> DEFINE l == [local[w] EXCEPT !.pc = place]
<1>1. l.lease = local[w].lease /\ l.over = local[w].over /\ (l.pc # "store" \/ l.over = 0)
  BY DEF TypeOK, Locals
<1> HIDE DEF l
<1> QED BY <1>1, SamePunctual DEF Goto, l

LEMMA PunctualStep ==
    ASSUME TypeOK, JobMove, AllPunctual, NEW w \in Worker, Queue(w) \/ Step(w) \/ Crash(w)
    PROVE  AllPunctual'
<1>0. local[w] \in Locals /\ Punctual(local[w], job) /\ job \in Jobs
  BY DEF TypeOK, AllPunctual
<1>1. CASE Queue(w)
  <2> DEFINE l == [local[w] EXCEPT !.pc = "read"]
  <2>1. Punctual(local[w], job')
    BY <1>0, StillPunctual
  <2>2. Punctual(l, job')
    BY <1>0, <2>1 DEF Punctual, Locals
  <2> HIDE DEF l
  <2> QED BY <1>1, <2>2, OthersPunctual, NobodyMoved DEF Queue, Goto, l
<1>2. CASE Select(w) \/ Recheck(w)
  BY <1>2, GotoPunctual, IdlePunctual DEF Select, Recheck
<1>3. CASE ReadJob(w)
  <2> DEFINE l == [Idle EXCEPT !.pc = "collector", !.attempt = job.attempt]
  <2>1. l.lease \in Nat /\ l.lease <= job.claims /\ l.over = 0
    BY <1>0 DEF Idle, None, Jobs
  <2> HIDE DEF l
  <2> QED BY <1>3, <2>1, FreshPunctual, OthersPunctual DEF ReadJob, l
<1>4. CASE ReadCollector(w)
  <2> DEFINE l == [local[w] EXCEPT !.pc = "authorize", !.open = enabled]
  <2>1. l.lease = local[w].lease /\ l.over = local[w].over /\ l.pc # "store"
    BY <1>0 DEF Locals
  <2> HIDE DEF l
  <2> QED BY <1>4, <2>1, SamePunctual DEF ReadCollector, l
<1>5. CASE Authorize(w)
  <2> DEFINE bound == IF job.ripe THEN <<job.status, job.claims>> ELSE <<>>
             l(pc) == [Idle EXCEPT !.pc = pc]
             c == [Idle EXCEPT !.pc = "claim", !.attempt = local[w].attempt, !.bound = bound]
  <2>1. /\ \A pc : l(pc).lease \in Nat /\ l(pc).lease <= job.claims /\ l(pc).over = 0
        /\ c.lease \in Nat /\ c.lease <= job.claims /\ c.over = 0
    BY <1>0 DEF Idle, None, Jobs
  <2>2. local' \in {[local EXCEPT ![w] = l("revoke")], [local EXCEPT ![w] = l("disable")],
                    [local EXCEPT ![w] = c]}
    BY <1>5 DEF Authorize
  <2> HIDE DEF l, c
  <2> QED BY <2>1, <2>2, FreshPunctual, OthersPunctual
<1>6. CASE Revoke(w) \/ Disable(w) \/ Fail(w) \/ Crash(w)
  BY <1>6, IdlePunctual DEF Revoke, Disable, FailUnclaimed, Fail, Crash
<1>7. CASE Claim(w)
  <2> DEFINE l == [Idle EXCEPT !.pc = "check", !.attempt = local[w].attempt + 1, !.lease = job.claims + 1]
             r == [Idle EXCEPT !.pc = "recheck"]
  <2>1. CASE local' = [local EXCEPT ![w] = l] /\ job'.claims = job.claims + 1
    <3>1. l.lease = job.claims + 1 /\ l.over = 0
      BY DEF Idle
    <3> HIDE DEF l
    <3>2. Punctual(l, job')
      BY <1>0, <2>1, <3>1 DEF Punctual, Jobs
    <3> QED BY <2>1, <3>2, OthersPunctual
  <2>2. CASE local' = [local EXCEPT ![w] = r]
    <3>1. r.lease \in Nat /\ r.lease <= job.claims /\ r.over = 0
      BY <1>0 DEF Idle, None, Jobs
    <3> HIDE DEF r
    <3> QED BY <2>2, <3>1, FreshPunctual, OthersPunctual
  <2>3. CASE Done(w)
    BY <2>3, IdlePunctual
  <2> QED BY <1>0, <1>7, <2>1, <2>2, <2>3 DEF Claim, Jobs
<1>8. CASE CheckEnabled(w)
  BY <1>8, GotoPunctual, FailAsPunctual DEF CheckEnabled
<1>9. CASE Collect(w)
  <2>1. CASE \E retryable \in BOOLEAN : FailAs(w, retryable)
    BY <2>1, FailAsPunctual
  <2>2. ASSUME NEW n \in 0..Artifacts, NEW coverage \in {"completed", "partial"},
               local' = [local EXCEPT ![w].pc = "own", ![w].left = n, ![w].as = coverage]
        PROVE  AllPunctual'
    <3> DEFINE l == [local[w] EXCEPT !.pc = "own", !.left = n, !.as = coverage]
    <3>1. local' = [local EXCEPT ![w] = l]
      BY <2>2 DEF TypeOK
    <3>2. l.lease = local[w].lease /\ l.over = local[w].over /\ l.pc # "store"
      BY <1>0 DEF Locals
    <3> HIDE DEF l
    <3> QED BY <1>9, <3>1, <3>2, SamePunctual DEF Collect
  <2> QED BY <1>9, <2>1, <2>2 DEF Collect
<1>10. CASE OwnLease(w)
  <2>1. Owns(w) => local[w].over = 0
    BY <1>0 DEF Owns, Punctual, Locals
  <2> QED BY <1>10, <2>1, GotoPunctual, FailAsPunctual DEF OwnLease
<1>11. CASE Store(w)
  <2> DEFINE over == IF Owns(w) THEN local[w].over ELSE local[w].over + 1
             l == [local[w] EXCEPT !.pc = "own", !.left = local[w].left - 1, !.over = over]
  <2>1. local[w].over = 0 /\ job' = job
    BY <1>0, <1>11 DEF Store, At, Punctual, Settings
  <2>2. over \in {0, 1} /\ (over = 1 => ~Owns(w))
    BY <2>1
  <2>3. l.lease = local[w].lease /\ l.over = over /\ l.pc = "own"
    BY <1>0 DEF Locals
  <2> HIDE DEF l, over
  <2>4. Punctual(l, job')
    BY <1>0, <2>1, <2>2, <2>3 DEF Punctual, Owns
  <2> QED BY <1>11, <2>4, OthersPunctual, FailAsPunctual DEF Store, l, over
<1>12. CASE Finish(w)
  BY <1>12, IdlePunctual, FailAsPunctual DEF Finish
<1> QED BY <1>1, <1>2, <1>3, <1>4, <1>5, <1>6, <1>7, <1>8, <1>9, <1>10, <1>11, <1>12 DEF Step

LEMMA PunctualNext ==
    ASSUME TypeOK, Shaped, AllPunctual, [Next]_vars
    PROVE  AllPunctual'
<1>1. JobMove
  BY JobMoves
<1>2. CASE UNCHANGED local
  BY <1>1, <1>2, NobodyMoved
<1>3. ASSUME NEW w \in Worker, Queue(w) \/ Step(w) \/ Crash(w) PROVE AllPunctual'
  BY <1>1, <1>3, PunctualStep
<1> QED BY <1>2, <1>3 DEF Next, vars, Ripen, Reconfigure

\* A run that lost its lease stores at most one more artifact.
THEOREM OneTooLate == Spec => []OneArtifactTooLate
<1> DEFINE Inv == TypeOK /\ Shaped /\ AllPunctual
<1>1. Init => Inv
  <2>1. ASSUME Init, NEW w \in Worker PROVE Punctual(local[w], job)
    <3>1. local[w] = Idle /\ job.claims = 0
      BY <2>1 DEF Init
    <3> QED BY <3>1 DEF Punctual, Idle, None
  <2> QED BY <2>1, TypeInit DEF AllPunctual
<1>2. Inv /\ [Next]_vars => Inv'
  BY TypeStep, PunctualNext
<1>3. Inv => OneArtifactTooLate
  BY DEF AllPunctual, Punctual, OneArtifactTooLate
<1> HIDE DEF Inv
<1> QED BY <1>1, <1>2, <1>3, PTL DEF Spec

-----------------------------------------------------------------------------
(* Refinement.                                                             *)

LEMMA FailedChange ==
    ASSUME TypeOK, NEW e \in {"disabled", "authorization_revoked"}, Active, job' = Released("failed"), Record(e)
    PROVE  Lifecycle!Change(e)
BY ReleasedType DEF Active, Record, Lifecycle!Change, Lifecycle!From, Lifecycle!To, Lifecycle!Statuses

\* Every step changes status and log by one transition, one echo or not at all.
LEMMA LifecycleStep ==
    ASSUME TypeOK, Shaped, [Next]_vars
    PROVE  [Lifecycle!Next]_<<job.status, log>>
<1>0. UNCHANGED <<job, log>> => UNCHANGED <<job.status, log>>
  OBVIOUS
<1>1. ASSUME NEW w \in Worker, Queue(w) PROVE Lifecycle!Next
  <2>1. Lifecycle!Change("queued")
    BY <1>1 DEF Queue, Record, TypeOK, Jobs, Lifecycle!Change, Lifecycle!From, Lifecycle!To
  <2> QED BY <2>1 DEF Lifecycle!Next, Lifecycle!Events
<1>2. ASSUME NEW w \in Worker, Claim(w), ~UNCHANGED <<job, log>> PROVE Lifecycle!Next
  <2>1. job.status \in {"queued", "running", "retrying"}
    BY <1>2 DEF Claim, Claimable
  <2>2. job'.status = "running" /\ Record("started")
    BY <1>2 DEF Claim, TypeOK, Jobs
  <2>3. Lifecycle!Change("started")
    BY <2>1, <2>2 DEF Record, Lifecycle!Change, Lifecycle!From, Lifecycle!To
  <2> QED BY <2>3 DEF Lifecycle!Next, Lifecycle!Events
<1>3. ASSUME NEW w \in Worker, Revoke(w) \/ Disable(w), ~UNCHANGED <<job, log>> PROVE Lifecycle!Next
  <2>1. \E e \in {"disabled", "authorization_revoked"} :
            Active /\ job' = Released("failed") /\ Record(e)
    BY <1>3 DEF Revoke, Disable, FailUnclaimed
  <2> QED BY <2>1, FailedChange DEF Lifecycle!Next, Lifecycle!Events
<1>4. ASSUME NEW w \in Worker, Finish(w), ~UNCHANGED <<job, log>> PROVE Lifecycle!Next
  <2>1. local[w].as \in {"completed", "partial"}
    BY <1>4 DEF Shaped, Shape, Finish, At
  <2>2. job.status = "running" /\ job' = Released(local[w].as) /\ Record(local[w].as)
    BY <1>4 DEF Finish, Mine
  <2>3. job'.status = local[w].as
    BY <2>1, <2>2, ReleasedType DEF Lifecycle!Statuses
  <2>4. Lifecycle!Change(local[w].as)
    BY <2>1, <2>2, <2>3 DEF Record, Lifecycle!Change, Lifecycle!From, Lifecycle!To
  <2> QED BY <2>1, <2>4 DEF Lifecycle!Next, Lifecycle!Events
<1>5. ASSUME NEW w \in Worker, Fail(w), ~UNCHANGED <<job, log>> PROVE Lifecycle!Next
  <2>1. local[w].as \in {"retry_scheduled", "failed"}
    BY <1>5 DEF Shaped, Shape, Fail, At
  <2>2. Failure(w) = Lifecycle!To(local[w].as) /\ Failure(w) \in Lifecycle!Statuses
    BY <2>1 DEF Failure, Lifecycle!To, Lifecycle!Statuses
  <2>3. CASE Mine(w) /\ job' = Released(Failure(w)) /\ Record(local[w].as)
    <3>1. job'.status = Failure(w)
      BY <2>2, <2>3, ReleasedType
    <3>2. Lifecycle!Change(local[w].as)
      BY <2>1, <2>2, <2>3, <3>1 DEF Mine, Record, Lifecycle!Change, Lifecycle!From
    <3> QED BY <2>1, <3>2 DEF Lifecycle!Next, Lifecycle!Events
  <2>4. CASE Echoes(w) /\ UNCHANGED job /\ Record(local[w].as)
    <3>1. Lifecycle!Echo(local[w].as)
      BY <2>1, <2>2, <2>4 DEF Echoes, Record, Lifecycle!Echo
    <3> QED BY <2>1, <3>1 DEF Lifecycle!Next, Lifecycle!Events
  <2> QED BY <1>5, <2>3, <2>4 DEF Fail
<1>6. CASE Ripen
  BY <1>6 DEF Ripen, TypeOK, Jobs
<1> QED BY <1>0, <1>1, <1>2, <1>3, <1>4, <1>5, <1>6 DEF Next, Step, vars, Select, ReadJob, ReadCollector,
           Authorize, Recheck, CheckEnabled, Collect, OwnLease, Store, Crash, Reconfigure

\* Status and audit log only move together, along the job's life cycle, and
\* an ended job stays ended.
THEOREM FollowsLifecycle == Spec => IsJobLifecycle
<1>1. Init => Lifecycle!Init
  BY DEF Init, Lifecycle!Init
<1>2. (TypeOK /\ Shaped) /\ [Next]_vars => [Lifecycle!Next]_<<job.status, log>>
  BY LifecycleStep
<1>3. Init => TypeOK /\ Shaped
  BY TypeInit
<1>4. (TypeOK /\ Shaped) /\ [Next]_vars => (TypeOK /\ Shaped)'
  BY TypeStep
<1> QED BY <1>1, <1>2, <1>3, <1>4, PTL DEF Spec, IsJobLifecycle, Lifecycle!Spec

-----------------------------------------------------------------------------
(* UploadIntents                                                             *)

-----------------------------------------------------------------------------
(* The inductive invariant.                                                 *)

\* The two DynamoDB rows of an intent are written together; only the previous
\* release left one without its index, and no secret of the future was used.
RowOK(i) ==
    /\ requestOf[i] <=> rows[i] # Nil /\ rows[i].indexed
    /\ rows[i] # Nil => /\ rows[i].indexed \/ i \in Legacy
                        /\ rows[i].expires >= Validity /\ SecretOf(i) <= secret

\* What Aurora knows of an intent is what DynamoDB knows, and it owns its key.
IntentOK(i) ==
    intents[i] # Nil =>
        /\ rows[i] # Nil /\ intents[i].manifest = rows[i].manifest
        /\ intents[i].expires = rows[i].expires /\ evidence[KeyOf(i)] = i

OwnerOK(k) == evidence[k] # Nil => KeyOf(evidence[k]) = k /\ intents[evidence[k]] # Nil
SequenceOK == sequence \in Key => evidence[sequence] # Nil

\* What a request has read still holds as far as it relies on it.
Sound(q) ==
    /\ q.current <= secret
    /\ q.step # "idle" => q.answer = Nil
    /\ q.step # "idle" \/ q.answer # Nil => signed[<<q.key, q.manifest>>] # Never
    /\ q.step \in {"idle", "previous"} => q.again = "no"
    /\ q.step \notin {"idle", "previous"} => KeyOf(q.id) = q.key
    /\ q.step = "reserve" => SecretOf(q.id) = q.current
    /\ q.again = "upgraded" => rows[q.id] # Nil
    /\ q.again = "cancelled" =>
         rows[q.id] # Nil \/ (reserved >= DailyLimit /\ SecretOf(q.id) = q.current)
    /\ q.step \in {"check", "upgrade", "project", "complete"} =>
         /\ q.row # Nil /\ rows[q.id] # Nil
         /\ q.row.manifest = rows[q.id].manifest /\ q.row.expires = rows[q.id].expires
         /\ q.row.indexed => rows[q.id].indexed
         /\ ~q.row.indexed => q.id \in Legacy
         /\ q.row.status # "issued" => rows[q.id].status # "issued"
    /\ q.step \in {"project", "complete"} => q.row.indexed /\ q.row.manifest = q.manifest
    /\ q.step = "complete" => intents[q.id] # Nil

\* What CapabilityIsBacked says of one capability.
Backed(c) ==
    /\ rows[c.id] # Nil /\ intents[c.id] # Nil
    /\ rows[c.id].manifest = c.manifest /\ intents[c.id].manifest = c.manifest
    /\ rows[c.id].expires = c.until /\ intents[c.id].expires = c.until
    /\ rows[c.id].indexed
    /\ evidence[KeyOf(c.id)] = c.id

\* Every place of the day's quota went to a row or to the later upload.
HeldRows == {i \in Intent : rows[i] # Nil}
CountOK == reserved <= Cardinality(HeldRows) + Others

StoresOK ==
    /\ \A i \in Intent : RowOK(i)
    /\ \A i \in Intent : IntentOK(i)
    /\ \A k \in Key : OwnerOK(k)
    /\ SequenceOK /\ CountOK
RequestsOK == \A r \in Request, q \in Requests : q = request[r] => Sound(q)
CapabilitiesOK == \A c \in granted : Backed(c)

IInv == IntentTypeOK /\ StoresOK /\ RequestsOK /\ CapabilitiesOK

\* What no step takes back.
Forward ==
    /\ \A i \in Intent : rows[i] # Nil =>
         /\ rows'[i] # Nil /\ rows'[i].manifest = rows[i].manifest
         /\ rows'[i].expires = rows[i].expires
         /\ rows[i].indexed => rows'[i].indexed
         /\ rows[i].status # "issued" => rows'[i].status # "issued"
    /\ \A i \in Intent : intents[i] # Nil =>
         /\ intents'[i] # Nil /\ intents'[i].manifest = intents[i].manifest
         /\ intents'[i].expires = intents[i].expires
         /\ intents[i].status = "promoted" => intents'[i].status = "promoted"
    /\ \A k \in Key : evidence[k] # Nil => evidence'[k] = evidence[k]
    /\ \A s \in Key \X Manifest : signed[s] # Never => signed'[s] = signed[s]
    /\ secret <= secret' /\ now <= now' /\ reserved <= reserved' /\ sequence <= sequence'
    /\ overlaps \subseteq overlaps'

-----------------------------------------------------------------------------
(* Types and sets.                                                          *)

LEMMA ConstantFacts ==
    /\ Keys \in Nat \ {0} /\ Secrets \in Nat \ {0} /\ MaxTime \in Nat /\ MaxFaults \in Nat
    /\ Window \in Nat /\ Validity \in Nat \ {0} /\ DailyLimit \in Nat
    /\ Never \in Nat /\ Manifest # {}
    /\ \A i \in Intent : /\ KeyOf(i) \in Key /\ SecretOf(i) \in 1..Secrets
                         /\ i = <<SecretOf(i), KeyOf(i)>>
    /\ \A s \in 1..Secrets, k \in Key : /\ <<s, k>> \in Intent
                                        /\ KeyOf(<<s, k>>) = k /\ SecretOf(<<s, k>>) = s
BY ConstantsAssumption DEF Intent, KeyOf, SecretOf, Never

LEMMA IntentFinite ==
    /\ IsFiniteSet(Intent)
    /\ \A S \in SUBSET Intent : IsFiniteSet(S) /\ Cardinality(S) \in Nat
<1>1. IsFiniteSet(1..Secrets) /\ IsFiniteSet(Key)
  BY ConstantFacts, FS_Interval DEF Key
<1>2. IsFiniteSet(Intent)
  BY <1>1, FS_Product DEF Intent
<1> QED BY <1>2, FS_Subset, FS_CardinalityType

LEMMA EndedFacts ==
    /\ Ended \in Requests
    /\ Ended.step = "idle" /\ Ended.again = "no" /\ Ended.answer = Nil
    /\ Ended.current = 1 /\ Ended.manifest \in Manifest
<1>1. (CHOOSE m \in Manifest : TRUE) \in Manifest
  BY ConstantFacts
<1>2. 1 \in Key /\ 1 \in 1..Secrets /\ 0 \in Time /\ <<1, 1>> \in Intent
  BY ConstantFacts DEF Key, Time
<1> QED BY <1>1, <1>2 DEF Ended, Requests

\* A request that is refused keeps its key, its manifest and the reason.
LEMMA RefusedFacts ==
    ASSUME NEW q \in Requests, NEW why \in Refusals
    PROVE  LET e == [Ended EXCEPT !.key = q.key, !.manifest = q.manifest, !.answer = why] IN
           /\ e \in Requests /\ e.step = "idle" /\ e.again = "no" /\ e.current = 1
           /\ e.key = q.key /\ e.manifest = q.manifest /\ e.answer = why
BY EndedFacts DEF Requests

-----------------------------------------------------------------------------
(* What holds goes on to hold.                                              *)

LEMMA SoundKept ==
    ASSUME IntentTypeOK, IntentTypeOK', Forward, NEW q \in Requests, Sound(q)
    PROVE  Sound(q)'
<1>1. /\ secret \in Nat /\ secret' \in Nat /\ reserved \in Nat /\ reserved' \in Nat
      /\ DailyLimit \in Nat /\ q.current \in Nat /\ q.id \in Intent
      /\ <<q.key, q.manifest>> \in Key \X Manifest
  BY ConstantFacts DEF IntentTypeOK, Requests
<1> QED BY <1>1 DEF Sound, Forward

LEMMA BackedKept ==
    ASSUME IntentTypeOK, Forward, NEW c \in granted, Backed(c)
    PROVE  Backed(c)'
<1>1. c.id \in Intent /\ KeyOf(c.id) \in Key
  BY ConstantFacts DEF IntentTypeOK
<1>2. c.id # Nil
  BY <1>1, NilAssumption
<1> QED BY <1>1, <1>2 DEF Backed, Forward

LEMMA CapabilitiesKept ==
    ASSUME IntentTypeOK, Forward, CapabilitiesOK, UNCHANGED granted
    PROVE  CapabilitiesOK'
BY BackedKept DEF CapabilitiesOK

LEMMA RequestsKept ==
    ASSUME IntentTypeOK, IntentTypeOK', Forward, RequestsOK, UNCHANGED request
    PROVE  RequestsOK'
BY SoundKept DEF RequestsOK

\* One request moves and the others stay.
LEMMA RequestMoves ==
    ASSUME IntentTypeOK, IntentTypeOK', Forward, RequestsOK, NEW r \in Request, NEW e \in Requests,
           request' = [request EXCEPT ![r] = e], Sound(e)'
    PROVE  RequestsOK'
<1>1. \A o \in Request : request'[o] = IF o = r THEN e ELSE request[o]
  BY DEF IntentTypeOK
<1> QED BY <1>1, SoundKept DEF RequestsOK

LEMMA StoresKept ==
    ASSUME IntentTypeOK, StoresOK, UNCHANGED <<dynamo, aurora>>, secret' \in Nat, secret <= secret'
    PROVE  StoresOK'
<1>1. /\ rows' = rows /\ requestOf' = requestOf /\ reserved' = reserved
      /\ intents' = intents /\ evidence' = evidence /\ sequence' = sequence
  BY DEF dynamo, aurora
<1>2. \A i \in Intent : RowOK(i)'
  <2>1. secret \in Nat /\ \A i \in Intent : SecretOf(i) \in Nat
    BY ConstantFacts DEF IntentTypeOK
  <2> QED BY <1>1, <2>1 DEF StoresOK, RowOK
<1>3. (\A i \in Intent : IntentOK(i)') /\ \A k \in Key : OwnerOK(k)'
  BY <1>1 DEF StoresOK, IntentOK, OwnerOK
<1>4. SequenceOK' /\ CountOK'
  BY <1>1 DEF StoresOK, SequenceOK, CountOK, HeldRows, Others
<1> QED BY <1>2, <1>3, <1>4 DEF StoresOK

-----------------------------------------------------------------------------
(* The steps of a request that only read.                                   *)

LEMMA ForwardStill ==
    ASSUME IntentTypeOK, UNCHANGED <<now, secret, signed, dynamo, aurora, overlaps>>
    PROVE  Forward
<1>1. now \in Nat /\ secret \in Nat /\ reserved \in Nat /\ sequence \in Nat
  BY ConstantFacts DEF IntentTypeOK, Time
<1> QED BY <1>1 DEF Forward, dynamo, aurora

LEMMA RequestOf ==
    ASSUME IntentTypeOK, RequestsOK, NEW r \in Request
    PROVE  \E q \in Requests : q = request[r] /\ Sound(q)
BY DEF IntentTypeOK, RequestsOK

LEMMA RequestTyped ==
    ASSUME IntentTypeOK, NEW r, NEW e \in Requests, request' = [request EXCEPT ![r] = e]
    PROVE  request' \in [Request -> Requests]
BY DEF IntentTypeOK

\* A request that moves while the stores stand still.
LEMMA QuietStep ==
    ASSUME IInv, NEW r \in Request, NEW e \in Requests, request' = [request EXCEPT ![r] = e],
           UNCHANGED <<now, secret, signed, dynamo, aurora, overlaps, granted>>,
           faults' \in 0 .. MaxFaults, Sound(e)
    PROVE  IInv' /\ Forward
<1>1. IntentTypeOK'
  BY RequestTyped DEF IInv, IntentTypeOK, dynamo, aurora
<1>2. Forward
  BY ForwardStill DEF IInv
<1>3. Sound(e)'
  BY <1>1, <1>2, SoundKept DEF IInv
<1>4. secret \in Nat
  BY ConstantFacts DEF IInv, IntentTypeOK
<1>5. StoresOK'
  BY <1>4, StoresKept DEF IInv
<1> QED BY <1>1, <1>2, <1>3, <1>5, RequestMoves, CapabilitiesKept DEF IInv

LEMMA EndedSound == ASSUME IntentTypeOK PROVE Sound(Ended)
<1>1. 1 <= secret
  BY ConstantFacts DEF IntentTypeOK
<1> QED BY <1>1, EndedFacts DEF Sound

LEMMA RefusedSound ==
    ASSUME IntentTypeOK, NEW q \in Requests, Sound(q), q.step # "idle", NEW why \in Refusals
    PROVE  Sound([Ended EXCEPT !.key = q.key, !.manifest = q.manifest, !.answer = why])
<1>1. 1 <= secret
  BY ConstantFacts DEF IntentTypeOK
<1> QED BY <1>1, RefusedFacts DEF Sound

LEMMA DieStep ==
    ASSUME IInv, NEW r \in Request, Die(r)
    PROVE  IInv' /\ Forward
<1>1. /\ UNCHANGED <<now, secret, signed, dynamo, aurora, history>>
      /\ request' = [request EXCEPT ![r] = Ended] /\ faults' \in 0 .. MaxFaults
  BY ConstantFacts DEF Die, End, IInv, IntentTypeOK
<1> QED BY <1>1, EndedFacts, EndedSound, QuietStep DEF IInv, history

LEMMA LoadStep ==
    ASSUME IInv, NEW r \in Request, LoadPrevious(r)
    PROVE  IInv' /\ Forward
<1>1. PICK q \in Requests : q = request[r] /\ Sound(q)
  BY RequestOf DEF IInv
<1>2. PICK i : i = <<First(q), q.key>>
  OBVIOUS
<1>3. PICK t \in Time : t = now
  BY DEF IInv, IntentTypeOK
<1>4. PICK e : e = [q EXCEPT !.step = "find", !.id = i, !.at = t]
  OBVIOUS
<1>5. /\ UNCHANGED <<now, secret, signed, dynamo, aurora, history, faults>>
      /\ request' = [request EXCEPT ![r] = e] /\ q.step = "previous"
  BY <1>1, <1>2, <1>3, <1>4 DEF LoadPrevious, Doing
<1>6. i \in Intent /\ KeyOf(i) = q.key
  <2>1. q.key \in Key /\ q.current \in 1..Secrets /\ q.current <= secret /\ secret \in 1..Secrets
    BY <1>1 DEF Requests, Sound, IInv, IntentTypeOK
  <2>2. First(q) \in 1..Secrets
    BY <2>1, ConstantFacts DEF First
  <2> QED BY <1>2, <2>1, <2>2, ConstantFacts
<1>7. e \in Requests
  BY <1>4, <1>6 DEF Requests
<1>8. /\ e.step = "find" /\ e.id = i /\ e.key = q.key /\ e.manifest = q.manifest
      /\ e.current = q.current /\ e.answer = q.answer /\ e.again = q.again
  BY <1>4 DEF Requests
<1>9. Sound(e)
  BY <1>1, <1>5, <1>6, <1>8 DEF Sound
<1> QED BY <1>5, <1>7, <1>9, QuietStep DEF IInv, IntentTypeOK, history

LEMMA ReadStep ==
    ASSUME IInv, NEW r \in Request, ReadLifecycle(r)
    PROVE  IInv' /\ Forward
<1>1. PICK q \in Requests : q = request[r] /\ Sound(q)
  BY RequestOf DEF IInv
<1>2. /\ UNCHANGED <<now, secret, signed, dynamo, aurora, history, faults>> /\ q.step = "find"
      /\ faults' \in 0 .. MaxFaults
  BY <1>1 DEF ReadLifecycle, Doing, IInv, IntentTypeOK
<1>3. q.id \in Intent /\ q.key \in Key /\ q.current \in 1..Secrets /\ KeyOf(q.id) = q.key
  BY <1>1, <1>2 DEF Requests, Sound
<1>4. CASE rows[q.id] # Nil
  <2>1. PICK row : row = rows[q.id]
    OBVIOUS
  <2>2. PICK e : e = [q EXCEPT !.step = "check", !.row = row]
    OBVIOUS
  <2>3. row \in Rows /\ row # Nil
    BY <1>3, <1>4, <2>1 DEF IInv, IntentTypeOK
  <2>4. request' = [request EXCEPT ![r] = e]
    BY <1>1, <1>4, <2>1, <2>2 DEF ReadLifecycle
  <2>5. e \in Requests
    BY <2>2, <2>3 DEF Requests
  <2>6. /\ e.step = "check" /\ e.id = q.id /\ e.key = q.key /\ e.manifest = q.manifest
        /\ e.current = q.current /\ e.answer = q.answer /\ e.again = q.again /\ e.row = row
    BY <2>2 DEF Requests
  <2>7. RowOK(q.id)
    BY <1>3 DEF IInv, StoresOK
  <2>8. Sound(e)
    BY <1>1, <1>2, <1>4, <2>1, <2>3, <2>6, <2>7 DEF Sound, RowOK
  <2> QED BY <1>2, <2>4, <2>5, <2>8, QuietStep DEF history
<1>5. CASE rows[q.id] = Nil /\ SecretOf(q.id) # q.current
  <2>1. PICK i \in Intent : i = <<q.current, q.key>> /\ KeyOf(i) = q.key /\ SecretOf(i) = q.current
    BY <1>3, ConstantFacts
  <2>2. PICK e : e = [q EXCEPT !.id = i]
    OBVIOUS
  <2>3. request' = [request EXCEPT ![r] = e]
    <3>1. Absent(r)
      BY <1>1, <1>5 DEF ReadLifecycle
    <3>2. SecretOf(request[r].id) # request[r].current
      BY <1>1, <1>5
    <3>3. request' = [request EXCEPT ![r].id = <<request[r].current, request[r].key>>]
      BY <3>1, <3>2, Zenon DEF Absent
    <3>4. request' = [request EXCEPT ![r].id = i]
      BY <1>1, <2>1, <3>3
    <3> QED BY <1>1, <2>2, <3>4
  <2>4. e \in Requests
    BY <2>2 DEF Requests
  <2>5. /\ e.step = "find" /\ e.id = i /\ e.key = q.key /\ e.manifest = q.manifest
        /\ e.current = q.current /\ e.answer = q.answer /\ e.again = q.again
    BY <1>2, <2>2 DEF Requests
  <2>6. Sound(e)
    BY <1>1, <1>2, <1>3, <1>5, <2>1, <2>5 DEF Sound
  <2> QED BY <1>2, <2>3, <2>4, <2>6, QuietStep DEF history
<1>6. CASE rows[q.id] = Nil /\ SecretOf(q.id) = q.current /\ q.again = "no"
  <2>1. PICK e : e = [q EXCEPT !.step = "reserve"]
    OBVIOUS
  <2>2. request' = [request EXCEPT ![r] = e]
    BY <1>1, <1>6, <2>1 DEF ReadLifecycle, Absent, Goes
  <2>3. e \in Requests
    BY <2>1 DEF Requests
  <2>4. /\ e.step = "reserve" /\ e.id = q.id /\ e.key = q.key /\ e.manifest = q.manifest
        /\ e.current = q.current /\ e.answer = q.answer /\ e.again = q.again
    BY <2>1 DEF Requests
  <2>5. Sound(e)
    BY <1>1, <1>2, <1>6, <2>4 DEF Sound
  <2> QED BY <1>2, <2>2, <2>3, <2>5, QuietStep DEF history
<1>7. CASE rows[q.id] = Nil /\ SecretOf(q.id) = q.current /\ q.again # "no"
  <2>1. Refuse(r, "limited")
    BY <1>1, <1>7 DEF ReadLifecycle, Absent
  <2>2. "limited" \in Refusals
    BY DEF Refusals
  <2> QED BY <1>1, <1>2, <2>1, <2>2, RefusedFacts, RefusedSound, QuietStep DEF Refuse, history, IInv
<1> QED BY <1>4, <1>5, <1>6, <1>7

LEMMA CheckStep ==
    ASSUME IInv, NEW r \in Request, CheckReservations(r)
    PROVE  IInv' /\ Forward
<1>1. PICK q \in Requests : q = request[r] /\ Sound(q)
  BY RequestOf DEF IInv
<1>2. /\ UNCHANGED <<now, secret, signed, dynamo, aurora, history, faults>> /\ q.step = "check"
      /\ faults' \in 0 .. MaxFaults
  BY <1>1 DEF CheckReservations, Doing, IInv, IntentTypeOK
<1>3. CASE Refuse(r, "conflict")
  <2>1. "conflict" \in Refusals
    BY DEF Refusals
  <2> QED BY <1>1, <1>2, <1>3, <2>1, RefusedFacts, RefusedSound, QuietStep DEF Refuse, history, IInv
<1>4. ASSUME NEW to \in {"project", "upgrade"}, Goes(r, to),
             to = "project" => q.row.indexed /\ q.row.manifest = q.manifest
      PROVE  IInv' /\ Forward
  <2>1. PICK e : e = [q EXCEPT !.step = to]
    OBVIOUS
  <2>2. request' = [request EXCEPT ![r] = e]
    BY <1>1, <1>4, <2>1 DEF Goes
  <2>3. e \in Requests
    BY <2>1 DEF Requests
  <2>4. /\ e.step = to /\ e.id = q.id /\ e.key = q.key /\ e.manifest = q.manifest
        /\ e.current = q.current /\ e.answer = q.answer /\ e.again = q.again /\ e.row = q.row
    BY <2>1 DEF Requests
  <2>5. Sound(e)
    BY <1>1, <1>2, <1>4, <2>4 DEF Sound
  <2> QED BY <1>2, <2>2, <2>3, <2>5, QuietStep DEF history
<1>5. \/ Refuse(r, "conflict")
      \/ Goes(r, "project") /\ q.row.indexed /\ q.row.manifest = q.manifest
      \/ Goes(r, "upgrade")
  BY <1>1 DEF CheckReservations, Exact
<1> QED BY <1>3, <1>4, <1>5

LEMMA CompleteStep ==
    ASSUME IInv, NEW r \in Request, Complete(r)
    PROVE  IInv' /\ Forward
<1>1. PICK q \in Requests : q = request[r] /\ Sound(q)
  BY RequestOf DEF IInv
<1>2. /\ UNCHANGED <<now, secret, signed, dynamo, aurora, overlaps, faults>> /\ q.step = "complete"
      /\ faults' \in 0 .. MaxFaults
  BY <1>1 DEF Complete, Doing, IInv, IntentTypeOK
<1>3. CASE Refuse(r, "expired") /\ UNCHANGED granted
  <2>1. "expired" \in Refusals
    BY DEF Refusals
  <2> QED BY <1>1, <1>2, <1>3, <2>1, RefusedFacts, RefusedSound, QuietStep DEF Refuse, IInv
<1>4. CASE End(r) /\ granted' = granted \cup {Capability(q)}
  <2>1. request' = [request EXCEPT ![r] = Ended]
    BY <1>4 DEF End
  <2>2. /\ q.id \in Intent /\ q.manifest \in Manifest /\ KeyOf(q.id) \in Key
        /\ q.row \in Rows /\ rows[q.id] \in Rows
    BY <1>1, <1>2, ConstantFacts DEF Requests, Sound, IInv, IntentTypeOK
  <2>3. q.row.expires \in 1 .. MaxTime + Validity
    BY <2>2 DEF Rows
  <2>4. Capability(q) \in [id : Intent, manifest : Manifest, until : 1 .. MaxTime + Validity]
    BY <2>2, <2>3 DEF Capability
  <2>5. IntentTypeOK'
    BY <1>2, <1>4, <2>1, <2>4, EndedFacts, RequestTyped DEF IInv, IntentTypeOK, dynamo, aurora
  <2>6. Forward
    BY <1>2, ForwardStill DEF IInv
  <2>7. Sound(Ended)'
    BY <2>5, <2>6, EndedFacts, EndedSound, SoundKept DEF IInv
  <2>8. RequestsOK'
    BY <2>1, <2>5, <2>6, <2>7, EndedFacts, RequestMoves DEF IInv
  <2>9. StoresOK'
    <3>1. secret \in Nat
      BY ConstantFacts DEF IInv, IntentTypeOK
    <3> QED BY <1>2, <3>1, StoresKept DEF IInv
  <2>10. IntentOK(q.id)
    BY <2>2 DEF IInv, StoresOK
  <2>11. Backed(Capability(q))
    BY <1>1, <1>2, <2>2, <2>10 DEF Sound, Backed, IntentOK, Capability
  <2>12. \A c \in granted : Backed(c)'
    BY <2>6, BackedKept DEF IInv, CapabilitiesOK
  <2>13. Backed(Capability(q))'
    <3>1. PICK c : c = Capability(q) /\ Backed(c)
      BY <2>11
    <3>2. Backed(c)'
      BY <1>2, <3>1 DEF Backed, dynamo, aurora
    <3> QED BY <3>1, <3>2 DEF Capability
  <2> QED BY <1>4, <2>5, <2>6, <2>8, <2>9, <2>12, <2>13 DEF IInv, CapabilitiesOK
<1> QED BY <1>1, <1>3, <1>4 DEF Complete, Presign

LEMMA AskStep ==
    ASSUME IInv, NEW r \in Request, Ask(r)
    PROVE  IInv' /\ Forward
<1>1. PICK q \in Requests : q = request[r] /\ Sound(q)
  BY RequestOf DEF IInv
<1>2. PICK k \in Key, m \in Manifest :
         /\ signed' = [signed EXCEPT ![<<k, m>>] = IF @ = Never THEN now ELSE @]
         /\ request' = [request EXCEPT ![r] =
              [@ EXCEPT !.step = "previous", !.key = k, !.manifest = m, !.current = secret,
                        !.answer = Nil]]
  BY DEF Ask
<1>3. UNCHANGED <<now, secret, dynamo, aurora, history, faults>> /\ q.step = "idle"
  BY <1>1 DEF Ask, Doing
<1>4. PICK s \in 1..Secrets : s = secret
  BY DEF IInv, IntentTypeOK
<1>5. PICK e : e = [q EXCEPT !.step = "previous", !.key = k, !.manifest = m, !.current = s,
                             !.answer = Nil]
  OBVIOUS
<1>6. request' = [request EXCEPT ![r] = e]
  BY <1>1, <1>2, <1>4, <1>5
<1>7. e \in Requests
  BY <1>5 DEF Requests
<1>8. /\ e.step = "previous" /\ e.key = k /\ e.manifest = m /\ e.current = s
      /\ e.answer = Nil /\ e.again = q.again
  BY <1>5 DEF Requests
<1>9. /\ signed' \in [Key \X Manifest -> 0 .. Never] /\ signed'[<<k, m>>] # Never
      /\ \A x \in Key \X Manifest : signed[x] # Never => signed'[x] = signed[x]
  <2>1. now \in 0 .. Never /\ now # Never /\ <<k, m>> \in Key \X Manifest
    BY ConstantFacts DEF IInv, IntentTypeOK, Time, Never
  <2>2. PICK x \in Key \X Manifest : x = <<k, m>>
    BY <2>1
  <2>3. signed' = [signed EXCEPT ![x] = IF @ = Never THEN now ELSE @]
    BY <1>2, <2>2
  <2>4. signed \in [Key \X Manifest -> 0 .. Never]
    BY DEF IInv, IntentTypeOK
  <2> QED BY <2>1, <2>2, <2>3, <2>4
<1>10. IntentTypeOK'
  BY <1>3, <1>6, <1>7, <1>9, RequestTyped DEF IInv, IntentTypeOK, dynamo, aurora, history
<1>11. secret \in Nat /\ now \in Nat /\ reserved \in Nat /\ sequence \in Nat
  BY ConstantFacts DEF IInv, IntentTypeOK, Time
<1>12. Forward
  BY <1>3, <1>9, <1>11 DEF Forward, dynamo, aurora, history
<1>13. Sound(e)'
  <2>1. e.current <= secret'
    BY <1>3, <1>4, <1>8, <1>11
  <2>2. e.again = "no"
    BY <1>1, <1>3, <1>8 DEF Sound
  <2> QED BY <1>8, <1>9, <2>1, <2>2 DEF Sound
<1>14. RequestsOK'
  BY <1>6, <1>7, <1>10, <1>12, <1>13, RequestMoves DEF IInv
<1>15. StoresOK' /\ CapabilitiesOK'
  BY <1>3, <1>11, <1>12, StoresKept, CapabilitiesKept DEF IInv, history
<1> QED BY <1>10, <1>12, <1>14, <1>15 DEF IInv

-----------------------------------------------------------------------------
(* The steps that write to DynamoDB.                                        *)

LEMMA HeldGrows ==
    ASSUME \A i \in Intent : rows[i] # Nil => rows'[i] # Nil
    PROVE  /\ Cardinality(HeldRows) \in Nat /\ Cardinality(HeldRows') \in Nat
           /\ Cardinality(HeldRows) <= Cardinality(HeldRows')
<1>1. HeldRows \subseteq HeldRows' /\ HeldRows' \subseteq Intent
  BY DEF HeldRows
<1>2. HeldRows \subseteq Intent
  BY DEF HeldRows
<1> QED BY <1>1, <1>2, IntentFinite, FS_Subset

LEMMA UpgradeStep ==
    ASSUME IInv, NEW r \in Request, UpgradeLegacy(r)
    PROVE  IInv' /\ Forward
<1>1. PICK q \in Requests : q = request[r] /\ Sound(q)
  BY RequestOf DEF IInv
<1>2. PICK i \in Intent : i = q.id
  BY DEF Requests
<1>3. PICK e : e = [q EXCEPT !.step = "find", !.again = "upgraded"]
  OBVIOUS
<1>4. /\ UNCHANGED <<now, secret, signed, reserved, aurora, history, faults>> /\ q.step = "upgrade"
      /\ request' = [request EXCEPT ![r] = e]
  BY <1>1, <1>3 DEF UpgradeLegacy, Doing
<1>5. e \in Requests
  BY <1>3 DEF Requests
<1>6. /\ e.step = "find" /\ e.id = i /\ e.key = q.key /\ e.manifest = q.manifest
      /\ e.current = q.current /\ e.answer = q.answer /\ e.again = "upgraded"
  BY <1>2, <1>3 DEF Requests
<1>7. rows[i] # Nil /\ rows[i] \in Rows /\ KeyOf(i) = q.key
  BY <1>1, <1>2, <1>4 DEF Sound, IInv, IntentTypeOK
<1>8. \/ /\ rows' = [rows EXCEPT ![i].indexed = TRUE]
         /\ requestOf' = [requestOf EXCEPT ![i] = TRUE]
      \/ rows' = rows /\ requestOf' = requestOf
  BY <1>1, <1>2 DEF UpgradeLegacy
<1>9. /\ rows' \in [Intent -> Rows \cup {Nil}] /\ requestOf' \in [Intent -> BOOLEAN]
      /\ \A j \in Intent : rows[j] # Nil <=> rows'[j] # Nil
      /\ \A j \in Intent : rows[j] # Nil =>
           /\ rows'[j].manifest = rows[j].manifest /\ rows'[j].expires = rows[j].expires
           /\ rows'[j].status = rows[j].status /\ (rows[j].indexed => rows'[j].indexed)
      /\ \A j \in Intent : (rows'[j] = rows[j] /\ requestOf'[j] = requestOf[j])
                           \/ (rows'[j] # Nil /\ rows'[j].indexed /\ requestOf'[j])
  <2>1. rows \in [Intent -> Rows \cup {Nil}] /\ requestOf \in [Intent -> BOOLEAN]
    BY DEF IInv, IntentTypeOK
  <2>2. CASE rows' = rows /\ requestOf' = requestOf
    BY <2>1, <2>2
  <2>3. CASE /\ rows' = [rows EXCEPT ![i].indexed = TRUE]
             /\ requestOf' = [requestOf EXCEPT ![i] = TRUE]
    <3>1. PICK up : up = [rows[i] EXCEPT !.indexed = TRUE]
      OBVIOUS
    <3>2. /\ up \in Rows /\ up.manifest = rows[i].manifest /\ up.expires = rows[i].expires
          /\ up.status = rows[i].status /\ up.indexed
      BY <1>7, <3>1 DEF Rows
    <3>3. up # Nil
      BY <3>2, NilAssumption
    <3>4. rows' = [rows EXCEPT ![i] = up]
      BY <2>3, <3>1
    <3> QED BY <1>7, <2>1, <2>3, <3>2, <3>3, <3>4
  <2> QED BY <1>8, <2>2, <2>3
<1>10. IntentTypeOK'
  BY <1>4, <1>5, <1>9, RequestTyped DEF IInv, IntentTypeOK, aurora, history
<1>11. secret \in Nat /\ now \in Nat /\ reserved \in Nat /\ sequence \in Nat
  BY ConstantFacts DEF IInv, IntentTypeOK, Time
<1>12. Forward
  BY <1>4, <1>9, <1>11 DEF Forward, aurora, history
<1>13. Sound(e)'
  BY <1>1, <1>2, <1>4, <1>6, <1>7, <1>9 DEF Sound
<1>14. StoresOK'
  <2>1. \A j \in Intent : RowOK(j)'
    BY <1>4, <1>9 DEF IInv, StoresOK, RowOK
  <2>2. (\A j \in Intent : IntentOK(j)') /\ (\A k \in Key : OwnerOK(k)') /\ SequenceOK'
    BY <1>4, <1>9 DEF IInv, StoresOK, IntentOK, OwnerOK, SequenceOK, aurora
  <2>3. CountOK'
    <3>1. HeldRows' = HeldRows
      BY <1>9 DEF HeldRows
    <3> QED BY <1>4, <3>1 DEF IInv, StoresOK, CountOK, Others, aurora
  <2> QED BY <2>1, <2>2, <2>3 DEF StoresOK
<1> QED BY <1>4, <1>5, <1>10, <1>12, <1>13, <1>14, RequestMoves, CapabilitiesKept DEF IInv, history

LEMMA ReserveStep ==
    ASSUME IInv, NEW r \in Request, Reserve(r)
    PROVE  IInv' /\ Forward
<1>1. PICK q \in Requests : q = request[r] /\ Sound(q)
  BY RequestOf DEF IInv
<1>2. PICK i \in Intent : i = q.id
  BY DEF Requests
<1>3. /\ UNCHANGED <<now, secret, signed, aurora, granted, faults>> /\ q.step = "reserve"
      /\ overlaps' \subseteq Key /\ overlaps \subseteq overlaps'
  BY <1>1 DEF Reserve, Doing, IInv, IntentTypeOK, Requests
<1>4. secret \in Nat /\ now \in Nat /\ reserved \in Nat /\ sequence \in Nat /\ DailyLimit \in Nat
  BY ConstantFacts DEF IInv, IntentTypeOK, Time
<1>5. KeyOf(i) = q.key /\ SecretOf(i) = q.current /\ q.current <= secret
  BY <1>1, <1>2, <1>3 DEF Sound
<1>6. CASE Reservable(i)
  <2>1. PICK row : row = Candidate(q)
    OBVIOUS
  <2>2. /\ row \in Rows /\ row.manifest = q.manifest /\ row.expires >= Validity
        /\ row.indexed /\ row.status = "issued" /\ row # Nil
    <3>1. q.at \in Nat /\ q.at <= MaxTime /\ Validity \in Nat /\ Validity > 0 /\ MaxTime \in Nat
      BY ConstantFacts DEF Requests, Time
    <3>2. q.at + Validity \in 1 .. MaxTime + Validity
      BY <3>1
    <3>3. row \in Rows
      BY <2>1, <3>2 DEF Candidate, Rows, Requests
    <3>4. row # Nil
      BY <3>3, NilAssumption
    <3>5. row.manifest = q.manifest /\ row.expires = q.at + Validity /\ row.indexed
          /\ row.status = "issued"
      BY <2>1 DEF Candidate
    <3>6. row.expires >= Validity
      BY <3>1, <3>5
    <3> QED BY <3>3, <3>4, <3>5, <3>6
  <2>3. PICK e : e = [q EXCEPT !.step = "project", !.row = row]
    OBVIOUS
  <2>4. /\ rows' = [rows EXCEPT ![i] = row] /\ requestOf' = [requestOf EXCEPT ![i] = TRUE]
        /\ reserved' = reserved + 1 /\ request' = [request EXCEPT ![r] = e]
        /\ rows[i] = Nil /\ reserved < DailyLimit
    BY <1>1, <1>2, <1>6, <2>1, <2>3 DEF Reserve, Reservable
  <2>5. e \in Requests
    BY <2>2, <2>3 DEF Requests
  <2>6. /\ e.step = "project" /\ e.id = i /\ e.key = q.key /\ e.manifest = q.manifest /\ e.row = row
        /\ e.current = q.current /\ e.answer = q.answer /\ e.again = q.again
    BY <1>2, <2>3 DEF Requests
  <2>7. /\ rows' \in [Intent -> Rows \cup {Nil}] /\ requestOf' \in [Intent -> BOOLEAN]
        /\ rows'[i] = row /\ requestOf'[i] = TRUE
        /\ \A j \in Intent : j # i => rows'[j] = rows[j] /\ requestOf'[j] = requestOf[j]
    BY <2>2, <2>4 DEF IInv, IntentTypeOK
  <2>8. IntentTypeOK'
    <3>1. reserved' \in 0 .. DailyLimit
      BY <1>4, <2>4
    <3> QED BY <1>3, <2>4, <2>5, <2>7, <3>1, RequestTyped DEF IInv, IntentTypeOK, aurora
  <2>9. Forward
    BY <1>3, <1>4, <2>4, <2>7 DEF Forward, aurora
  <2>10. Sound(e)'
    BY <1>1, <1>3, <1>5, <2>2, <2>6, <2>7 DEF Sound
  <2>11. StoresOK'
    <3>1. \A j \in Intent : RowOK(j)'
      BY <1>3, <1>5, <2>2, <2>7 DEF IInv, StoresOK, RowOK
    <3>2. (\A j \in Intent : IntentOK(j)') /\ (\A k \in Key : OwnerOK(k)') /\ SequenceOK'
      BY <1>3, <2>4, <2>7 DEF IInv, StoresOK, IntentOK, OwnerOK, SequenceOK, aurora
    <3>3. CountOK'
      <4>1. HeldRows' = HeldRows \cup {i} /\ i \notin HeldRows /\ HeldRows \subseteq Intent
        BY <2>2, <2>4, <2>7 DEF HeldRows
      <4>2. IsFiniteSet(HeldRows) /\ Cardinality(HeldRows) \in Nat
        BY <4>1, IntentFinite
      <4>3. Cardinality(HeldRows') = Cardinality(HeldRows) + 1
        BY <4>1, <4>2, FS_AddElement
      <4>4. Others' = Others /\ Others \in Nat
        BY <1>3 DEF Others, aurora
      <4> QED BY <1>4, <2>4, <4>2, <4>3, <4>4 DEF IInv, StoresOK, CountOK
    <3> QED BY <3>1, <3>2, <3>3 DEF StoresOK
  <2> QED BY <1>3, <2>4, <2>5, <2>8, <2>9, <2>10, <2>11, RequestMoves, CapabilitiesKept DEF IInv
<1>7. CASE ~Reservable(i)
  <2>1. PICK e : e = [q EXCEPT !.step = "find", !.again = "cancelled"]
    OBVIOUS
  <2>2. request' = [request EXCEPT ![r] = e] /\ UNCHANGED dynamo
    BY <1>1, <1>2, <1>7, <2>1 DEF Reserve
  <2>3. e \in Requests
    BY <2>1 DEF Requests
  <2>4. /\ e.step = "find" /\ e.id = i /\ e.key = q.key /\ e.manifest = q.manifest
        /\ e.current = q.current /\ e.answer = q.answer /\ e.again = "cancelled"
    BY <1>2, <2>1 DEF Requests
  <2>5. IntentTypeOK'
    BY <1>3, <2>2, <2>3, RequestTyped DEF IInv, IntentTypeOK, dynamo, aurora
  <2>6. Forward
    BY <1>3, <1>4, <2>2 DEF Forward, dynamo, aurora
  <2>7. Sound(e)
    BY <1>1, <1>3, <1>4, <1>5, <1>7, <2>4 DEF Sound, Reservable
  <2>8. Sound(e)'
    BY <2>3, <2>5, <2>6, <2>7, SoundKept DEF IInv
  <2>9. StoresOK'
    BY <1>3, <1>4, <2>2, StoresKept DEF IInv
  <2> QED BY <1>3, <2>2, <2>3, <2>5, <2>6, <2>8, <2>9, RequestMoves, CapabilitiesKept DEF IInv
<1> QED BY <1>6, <1>7

LEMMA TakeStep ==
    ASSUME IInv, NEW i \in Intent, Take(i)
    PROVE  IInv' /\ Forward
<1>1. /\ rows' = [rows EXCEPT ![i].status = "taken"] /\ rows[i] # Nil
      /\ UNCHANGED <<now, secret, signed, requestOf, reserved, aurora, request, history, faults>>
  BY DEF Take
<1>2. PICK up : up = [rows[i] EXCEPT !.status = "taken"]
  OBVIOUS
<1>3. rows[i] \in Rows /\ rows \in [Intent -> Rows \cup {Nil}]
  BY <1>1 DEF IInv, IntentTypeOK
<1>4. /\ up \in Rows /\ up.manifest = rows[i].manifest /\ up.expires = rows[i].expires
      /\ up.status = "taken" /\ up.indexed = rows[i].indexed
  BY <1>2, <1>3 DEF Rows
<1>5. up # Nil
  BY <1>4, NilAssumption
<1>6. rows' = [rows EXCEPT ![i] = up]
  BY <1>1, <1>2
<1>7. rows'[i] = up /\ \A j \in Intent : j # i => rows'[j] = rows[j]
  BY <1>3, <1>6
<1>8. IntentTypeOK'
  BY <1>1, <1>3, <1>4, <1>6 DEF IInv, IntentTypeOK, aurora, history
<1>9. secret \in Nat /\ now \in Nat /\ reserved \in Nat /\ sequence \in Nat
  BY ConstantFacts DEF IInv, IntentTypeOK, Time
<1>10. Forward
  BY <1>1, <1>4, <1>5, <1>7, <1>9 DEF Forward, aurora, history
<1>11. StoresOK'
  <2>1. \A j \in Intent : RowOK(j)'
    BY <1>1, <1>4, <1>5, <1>7 DEF IInv, StoresOK, RowOK
  <2>2. (\A j \in Intent : IntentOK(j)') /\ (\A k \in Key : OwnerOK(k)') /\ SequenceOK'
    BY <1>1, <1>4, <1>5, <1>7 DEF IInv, StoresOK, IntentOK, OwnerOK, SequenceOK, aurora
  <2>3. CountOK'
    <3>1. HeldRows' = HeldRows
      BY <1>1, <1>5, <1>7 DEF HeldRows
    <3> QED BY <1>1, <3>1 DEF IInv, StoresOK, CountOK, Others, aurora
  <2> QED BY <2>1, <2>2, <2>3 DEF StoresOK
<1> QED BY <1>1, <1>8, <1>10, <1>11, RequestsKept, CapabilitiesKept DEF IInv, history

-----------------------------------------------------------------------------
(* The steps that write to Aurora.                                          *)

\* The procedure inserts the intent, or finds it as it is.
LEMMA ProjectKeeps ==
    ASSUME IInv, NEW i \in Intent, NEW row \in Rows, Accepts(i, row), ProjectRow(i, row),
           rows[i] # Nil, row.manifest = rows[i].manifest, row.expires = rows[i].expires,
           UNCHANGED <<now, secret, signed, dynamo, overlaps>>
    PROVE  /\ intents' \in [Intent -> AuroraRows \cup {Nil}]
           /\ evidence' \in [Key -> Intent \cup {Nil}] /\ sequence' \in 0 .. Keys + 1
           /\ Forward /\ StoresOK' /\ intents'[i] # Nil
<1>1. /\ secret \in Nat /\ now \in Nat /\ reserved \in Nat /\ sequence \in Nat
      /\ Keys \in Nat /\ Key = 1 .. Keys
  BY ConstantFacts DEF IInv, IntentTypeOK, Time, Key
<1>2. CASE intents[i] # Nil
  <2>1. UNCHANGED aurora
    BY <1>2 DEF ProjectRow
  <2>2. Forward
    BY <2>1, ForwardStill DEF IInv
  <2>3. StoresOK'
    BY <1>1, <2>1, StoresKept DEF IInv
  <2> QED BY <1>2, <2>1, <2>2, <2>3 DEF IInv, IntentTypeOK, aurora
<1>3. CASE intents[i] = Nil
  <2>1. PICK k \in Key : k = KeyOf(i)
    BY ConstantFacts
  <2>2. PICK new : new = [manifest |-> row.manifest, expires |-> row.expires, status |-> "issued"]
    OBVIOUS
  <2>3. /\ new \in AuroraRows /\ new # Nil /\ i # Nil
        /\ new.manifest = row.manifest /\ new.expires = row.expires
    BY <2>2, NilAssumption DEF Rows, AuroraRows
  <2>4. /\ intents' = [intents EXCEPT ![i] = new]
        /\ evidence' = [evidence EXCEPT ![k] = i] /\ sequence' = k
        /\ sequence < k /\ evidence[k] = Nil
    BY <1>3, <2>1, <2>2 DEF ProjectRow, Accepts, New
  <2>5. /\ intents' \in [Intent -> AuroraRows \cup {Nil}] /\ intents'[i] = new
        /\ \A j \in Intent : j # i => intents'[j] = intents[j]
    BY <2>3, <2>4 DEF IInv, IntentTypeOK
  <2>6. /\ evidence' \in [Key -> Intent \cup {Nil}] /\ evidence'[k] = i
        /\ \A x \in Key : x # k => evidence'[x] = evidence[x]
    BY <2>4 DEF IInv, IntentTypeOK
  <2>7. sequence' \in 0 .. Keys + 1 /\ sequence <= sequence' /\ k <= Keys
    BY <1>1, <2>4
  <2>8. Forward
    BY <1>1, <1>3, <2>4, <2>5, <2>6, <2>7 DEF Forward, dynamo
  <2>9. StoresOK'
    <3>1. \A j \in Intent : RowOK(j)'
      BY DEF IInv, StoresOK, RowOK, dynamo
    <3>2. \A j \in Intent : IntentOK(j)'
      <4>1. ASSUME NEW j \in Intent, j # i PROVE IntentOK(j)'
        <5>1. KeyOf(j) \in Key /\ IntentOK(j) /\ j # Nil
          BY ConstantFacts, NilAssumption DEF IInv, StoresOK
        <5> QED BY <2>4, <2>5, <2>6, <4>1, <5>1 DEF IntentOK, dynamo
      <4>2. IntentOK(i)'
        BY <2>1, <2>3, <2>5, <2>6 DEF IntentOK, dynamo
      <4> QED BY <4>1, <4>2
    <3>3. \A x \in Key : OwnerOK(x)'
      <4>1. ASSUME NEW x \in Key, x # k PROVE OwnerOK(x)'
        <5>1. OwnerOK(x) /\ evidence[x] \in Intent \cup {Nil}
          BY DEF IInv, StoresOK, IntentTypeOK
        <5> QED BY <2>3, <2>5, <2>6, <4>1, <5>1 DEF OwnerOK
      <4>2. OwnerOK(k)'
        BY <2>1, <2>3, <2>5, <2>6 DEF OwnerOK
      <4> QED BY <4>1, <4>2
    <3>4. SequenceOK'
      BY <2>3, <2>4, <2>6 DEF SequenceOK
    <3>5. CountOK'
      <4>1. HeldRows' = HeldRows /\ Others' = Others
        BY <1>1, <2>4, <2>7 DEF HeldRows, Others, dynamo
      <4> QED BY <4>1 DEF IInv, StoresOK, CountOK, dynamo
    <3> QED BY <3>1, <3>2, <3>3, <3>4, <3>5 DEF StoresOK
  <2> QED BY <2>3, <2>5, <2>6, <2>7, <2>8, <2>9
<1> QED BY <1>2, <1>3

LEMMA ProjectStep ==
    ASSUME IInv, NEW r \in Request, Project(r)
    PROVE  IInv' /\ Forward
<1>1. PICK q \in Requests : q = request[r] /\ Sound(q)
  BY RequestOf DEF IInv
<1>2. /\ UNCHANGED <<now, secret, signed, dynamo, history, faults>> /\ q.step = "project"
      /\ faults' \in 0 .. MaxFaults
  BY <1>1 DEF Project, Doing, IInv, IntentTypeOK
<1>3. CASE UNCHANGED aurora /\ Refuse(r, "rejected")
  <2>1. "rejected" \in Refusals
    BY DEF Refusals
  <2> QED BY <1>1, <1>2, <1>3, <2>1, RefusedFacts, RefusedSound, QuietStep DEF Refuse, history, IInv
<1>4. CASE Accepts(q.id, q.row) /\ ProjectRow(q.id, q.row) /\ Goes(r, "complete")
  <2>1. PICK e : e = [q EXCEPT !.step = "complete"]
    OBVIOUS
  <2>2. request' = [request EXCEPT ![r] = e]
    BY <1>1, <1>4, <2>1 DEF Goes
  <2>3. e \in Requests
    BY <2>1 DEF Requests
  <2>4. /\ e.step = "complete" /\ e.id = q.id /\ e.key = q.key /\ e.manifest = q.manifest
        /\ e.current = q.current /\ e.answer = q.answer /\ e.again = q.again /\ e.row = q.row
    BY <2>1 DEF Requests
  <2>5. /\ q.id \in Intent /\ q.row \in Rows /\ rows[q.id] # Nil
        /\ q.row.manifest = rows[q.id].manifest /\ q.row.expires = rows[q.id].expires
    BY <1>1, <1>2 DEF Sound, Requests
  <2>6. /\ intents' \in [Intent -> AuroraRows \cup {Nil}]
        /\ evidence' \in [Key -> Intent \cup {Nil}] /\ sequence' \in 0 .. Keys + 1
        /\ Forward /\ StoresOK' /\ intents'[q.id] # Nil
    BY <1>2, <1>4, <2>5, ProjectKeeps DEF history
  <2>7. IntentTypeOK'
    BY <1>2, <2>2, <2>3, <2>6, RequestTyped DEF IInv, IntentTypeOK, dynamo, history
  <2>8. Sound(q)'
    BY <1>1, <2>6, <2>7, SoundKept DEF IInv
  <2>9. Sound(e)'
    BY <1>2, <2>4, <2>6, <2>8 DEF Sound
  <2> QED BY <1>2, <2>2, <2>3, <2>6, <2>7, <2>9, RequestMoves, CapabilitiesKept DEF IInv, history
<1> QED BY <1>1, <1>3, <1>4 DEF Project

LEMMA RepairStep ==
    ASSUME IInv, NEW i \in Intent, RepairRow(i)
    PROVE  IInv' /\ Forward
<1>1. /\ rows[i] # Nil /\ Accepts(i, rows[i]) /\ ProjectRow(i, rows[i])
      /\ UNCHANGED <<now, secret, signed, dynamo, request, history, faults>>
  BY DEF RepairRow
<1>2. rows[i] \in Rows
  BY <1>1 DEF IInv, IntentTypeOK
<1>3. /\ intents' \in [Intent -> AuroraRows \cup {Nil}]
      /\ evidence' \in [Key -> Intent \cup {Nil}] /\ sequence' \in 0 .. Keys + 1
      /\ Forward /\ StoresOK'
  BY <1>1, <1>2, ProjectKeeps DEF history
<1>4. IntentTypeOK'
  BY <1>1, <1>3 DEF IInv, IntentTypeOK, dynamo, history
<1> QED BY <1>1, <1>3, <1>4, RequestsKept, CapabilitiesKept DEF IInv, history

LEMMA AcceptStep ==
    ASSUME IInv, NEW i \in Intent, Accept(i)
    PROVE  IInv' /\ Forward
<1>1. /\ intents' = [intents EXCEPT ![i].status = "promoted"] /\ intents[i] # Nil
      /\ UNCHANGED <<now, secret, signed, dynamo, evidence, sequence, request, history, faults>>
  BY DEF Accept
<1>2. PICK up : up = [intents[i] EXCEPT !.status = "promoted"]
  OBVIOUS
<1>3. intents[i] \in AuroraRows /\ intents \in [Intent -> AuroraRows \cup {Nil}]
  BY <1>1 DEF IInv, IntentTypeOK
<1>4. /\ up \in AuroraRows /\ up.manifest = intents[i].manifest /\ up.expires = intents[i].expires
      /\ up.status = "promoted"
  BY <1>2, <1>3 DEF AuroraRows
<1>5. up # Nil
  BY <1>4, NilAssumption
<1>6. intents' = [intents EXCEPT ![i] = up]
  BY <1>1, <1>2
<1>7. /\ intents' \in [Intent -> AuroraRows \cup {Nil}] /\ intents'[i] = up
      /\ \A j \in Intent : j # i => intents'[j] = intents[j]
  BY <1>3, <1>4, <1>6
<1>8. IntentTypeOK'
  BY <1>1, <1>7 DEF IInv, IntentTypeOK, dynamo, history
<1>9. secret \in Nat /\ now \in Nat /\ reserved \in Nat /\ sequence \in Nat
  BY ConstantFacts DEF IInv, IntentTypeOK, Time
<1>10. Forward
  BY <1>1, <1>4, <1>5, <1>7, <1>9 DEF Forward, dynamo, history
<1>11. StoresOK'
  <2>1. \A j \in Intent : RowOK(j)'
    BY <1>1 DEF IInv, StoresOK, RowOK, dynamo
  <2>2. (\A j \in Intent : IntentOK(j)') /\ SequenceOK'
    BY <1>1, <1>4, <1>7 DEF IInv, StoresOK, IntentOK, SequenceOK, dynamo
  <2>3. \A k \in Key : OwnerOK(k)'
    <3>1. \A k \in Key : evidence[k] \in Intent \cup {Nil}
      BY DEF IInv, IntentTypeOK
    <3> QED BY <1>1, <1>5, <1>7, <3>1 DEF IInv, StoresOK, OwnerOK
  <2>4. CountOK'
    BY <1>1 DEF IInv, StoresOK, CountOK, Others, HeldRows, dynamo
  <2> QED BY <2>1, <2>2, <2>3, <2>4 DEF StoresOK
<1> QED BY <1>1, <1>8, <1>10, <1>11, RequestsKept, CapabilitiesKept DEF IInv, history

LEMMA EnvironmentStep ==
    ASSUME IInv, Tick \/ Rotate \/ OtherUpload
    PROVE  IInv' /\ Forward
<1>1. /\ secret \in Nat /\ now \in Nat /\ reserved \in Nat /\ sequence \in Nat
      /\ MaxTime \in Nat /\ Secrets \in Nat /\ DailyLimit \in Nat /\ Keys \in Nat
  BY ConstantFacts DEF IInv, IntentTypeOK, Time
<1>2. CASE Tick \/ Rotate
  <2>1. /\ now' \in Time /\ secret' \in 1..Secrets /\ now <= now' /\ secret <= secret' /\ secret' \in Nat
        /\ UNCHANGED <<signed, dynamo, aurora, request, history, faults>>
    BY <1>1, <1>2 DEF Tick, Rotate, Time, IInv, IntentTypeOK
  <2>2. IntentTypeOK'
    BY <2>1 DEF IInv, IntentTypeOK, dynamo, aurora, history
  <2>3. Forward
    BY <1>1, <2>1 DEF Forward, dynamo, aurora, history
  <2>4. StoresOK'
    BY <2>1, StoresKept DEF IInv
  <2> QED BY <2>1, <2>2, <2>3, <2>4, RequestsKept, CapabilitiesKept DEF IInv, history
<1>3. CASE OtherUpload
  <2>1. /\ reserved' = reserved + 1 /\ sequence' = Keys + 1 /\ reserved < DailyLimit /\ sequence <= Keys
        /\ UNCHANGED <<now, secret, signed, rows, requestOf, intents, evidence, request, history, faults>>
    BY <1>3 DEF OtherUpload
  <2>2. reserved' \in 0 .. DailyLimit /\ sequence' \in 0 .. Keys + 1
    BY <1>1, <2>1
  <2>3. IntentTypeOK'
    BY <2>1, <2>2 DEF IInv, IntentTypeOK, history
  <2>4. Forward
    BY <1>1, <2>1 DEF Forward, history
  <2>5. StoresOK'
    <3>1. (\A j \in Intent : RowOK(j)') /\ (\A j \in Intent : IntentOK(j)') /\ (\A k \in Key : OwnerOK(k)')
      BY <2>1 DEF IInv, StoresOK, RowOK, IntentOK, OwnerOK
    <3>2. SequenceOK'
      BY <1>1, <2>1 DEF SequenceOK, Key
    <3>3. CountOK'
      <4>1. HeldRows' = HeldRows /\ Others' = 1 /\ Others = 0
        BY <1>1, <2>1 DEF HeldRows, Others
      <4>2. Cardinality(HeldRows) \in Nat
        BY IntentFinite DEF HeldRows
      <4> QED BY <1>1, <2>1, <4>1, <4>2 DEF IInv, StoresOK, CountOK
    <3> QED BY <3>1, <3>2, <3>3 DEF StoresOK
  <2> QED BY <2>1, <2>3, <2>4, <2>5, RequestsKept, CapabilitiesKept DEF IInv, history
<1> QED BY <1>2, <1>3

-----------------------------------------------------------------------------
(* The invariant, and what follows for the capabilities.                    *)

LEMMA InitIInv == ASSUME IntentInit PROVE IInv
<1>1. Ended.manifest \in Manifest
  BY EndedFacts
<1>2. PICK old \in SUBSET Legacy :
    /\ now = 0 /\ secret = 1
    /\ signed = [s \in Key \X Manifest |->
                   IF s[2] = Ended.manifest /\ (\E i \in old : KeyOf(i) = s[1]) THEN 0 ELSE Never]
    /\ rows = [i \in Intent |->
                 IF i \in old
                 THEN [manifest |-> Ended.manifest, expires |-> Validity, indexed |-> FALSE,
                       status |-> "issued"]
                 ELSE Nil]
    /\ requestOf = [i \in Intent |-> FALSE]
    /\ reserved = 0
    /\ intents = [i \in Intent |-> Nil]
    /\ evidence = [k \in Key |-> Nil]
    /\ sequence = 0
    /\ request = [r \in Request |-> Ended]
    /\ overlaps = {} /\ granted = {} /\ faults = 0
  BY Zenon DEF IntentInit
<1>3. PICK row : row = [manifest |-> Ended.manifest, expires |-> Validity, indexed |-> FALSE, status |-> "issued"]
  OBVIOUS
<1>4. row \in Rows /\ row # Nil /\ row.expires = Validity
  <2>1. Validity \in 1 .. MaxTime + Validity
    BY ConstantFacts
  <2>2. row \in Rows /\ row.expires = Validity
    BY <1>1, <1>3, <2>1 DEF Rows
  <2> QED BY <2>2, NilAssumption
<1>5. rows = [i \in Intent |-> IF i \in old THEN row ELSE Nil]
  BY <1>2, <1>3
<1>6. IntentTypeOK
  <2>1. signed \in [Key \X Manifest -> 0 .. Never]
    BY <1>2, ConstantFacts
  <2>2. 0 \in Time /\ 1 \in 1..Secrets /\ 0 \in 0 .. DailyLimit /\ 0 \in 0 .. Keys + 1
        /\ 0 \in 0 .. MaxFaults
    BY ConstantFacts DEF Time
  <2> QED BY <1>2, <1>4, <1>5, <2>1, <2>2, EndedFacts DEF IntentTypeOK
<1>7. StoresOK
  <2>1. ASSUME NEW i \in Intent PROVE RowOK(i)
    <3>1. i \in old => i \in Legacy /\ SecretOf(i) = 1
      BY ConstantsAssumption
    <3> QED BY <1>2, <1>3, <1>4, <1>5, <3>1, ConstantFacts DEF RowOK
  <2>2. (\A i \in Intent : IntentOK(i)) /\ (\A k \in Key : OwnerOK(k)) /\ SequenceOK
    BY <1>2, ConstantFacts DEF IntentOK, OwnerOK, SequenceOK, Key
  <2>3. CountOK
    <3>1. Cardinality(HeldRows) \in Nat
      BY IntentFinite DEF HeldRows
    <3> QED BY <1>2, <3>1, ConstantFacts DEF CountOK, Others
  <2> QED BY <2>1, <2>2, <2>3 DEF StoresOK
<1>8. RequestsOK
  BY <1>2, <1>6, EndedSound DEF RequestsOK
<1>9. CapabilitiesOK
  BY <1>2 DEF CapabilitiesOK
<1> QED BY <1>6, <1>7, <1>8, <1>9 DEF IInv

LEMMA NextIInv == ASSUME IInv, [IntentNext]_intentVars PROVE IInv' /\ Forward
<1>1. CASE UNCHANGED intentVars
  <2>1. /\ UNCHANGED <<now, secret, signed, dynamo, aurora, request, history, faults>>
        /\ secret \in Nat
    BY <1>1, ConstantFacts DEF intentVars, IInv, IntentTypeOK
  <2>2. IntentTypeOK'
    BY <2>1 DEF IInv, IntentTypeOK, dynamo, aurora, history
  <2>3. Forward
    BY <2>1, ForwardStill DEF IInv, history
  <2>4. StoresOK'
    BY <2>1, StoresKept DEF IInv
  <2> QED BY <2>1, <2>2, <2>3, <2>4, RequestsKept, CapabilitiesKept DEF IInv, history
<1>2. ASSUME NEW r \in Request, Ask(r) \/ Issuing(r) \/ Die(r) PROVE IInv' /\ Forward
  BY <1>2, AskStep, LoadStep, ReadStep, CheckStep, UpgradeStep, ReserveStep, ProjectStep,
     CompleteStep, DieStep DEF Issuing
<1>3. ASSUME NEW i \in Intent, RepairRow(i) \/ Take(i) \/ Accept(i) PROVE IInv' /\ Forward
  BY <1>3, RepairStep, TakeStep, AcceptStep
<1>4. CASE Tick \/ Rotate \/ OtherUpload
  BY <1>4, EnvironmentStep
<1> QED BY <1>1, <1>2, <1>3, <1>4 DEF IntentNext

LEMMA Always == IntentSpec => []IInv
<1>1. IInv /\ [IntentNext]_intentVars => IInv'
  BY NextIInv
<1> QED BY <1>1, InitIInv, PTL DEF IntentSpec

\* A URL is only signed for an intent that DynamoDB and Aurora know alike, and
\* neither store ever takes it back: the projection precedes the signature
\* and compares what it finds (UploadIntentIssuer.#complete, create_upload_intent).
THEOREM BackedCorrect == IntentSpec => []CapabilityIsBacked
<1>1. IInv => CapabilityIsBacked
  BY DEF IInv, CapabilitiesOK, Backed, CapabilityIsBacked
<1> QED BY <1>1, Always, PTL

\* A key has one capability, whatever copies of its request ran and whatever
\* secrets they derived its identifier from: evidence belongs to one intent.
THEOREM OneCapabilityCorrect == IntentSpec => []OneCapabilityPerKey
<1>1. ASSUME IInv PROVE OneCapabilityPerKey
  <2> SUFFICES ASSUME NEW c \in granted, NEW d \in granted, KeyOf(c.id) = KeyOf(d.id)
               PROVE  c = d
    BY DEF OneCapabilityPerKey
  <2>1. Backed(c) /\ Backed(d)
    BY <1>1 DEF IInv, CapabilitiesOK
  <2>2. c.id = d.id /\ c.manifest = d.manifest /\ c.until = d.until
    BY <2>1 DEF Backed
  <2>3. /\ c \in [id : Intent, manifest : Manifest, until : 1 .. MaxTime + Validity]
        /\ d \in [id : Intent, manifest : Manifest, until : 1 .. MaxTime + Validity]
    BY <1>1 DEF IInv, IntentTypeOK
  <2> QED BY <2>2, <2>3
<1> QED BY <1>1, Always, PTL

-----------------------------------------------------------------------------
(* Why a request is refused.                                                *)

\* The intent of a key under the later of two secrets is reserved.
Later(k) == 2 \in 1..Secrets /\ rows[<<2, k>>] # Nil

\* A copy of a request that looked where the other had not written yet, or
\* that writes where a later copy will not look, was there at the same time.
Parted(q) ==
    /\ q.step # "idle" /\ q.current = 1 /\ Later(q.key) => q.key \in overlaps
    /\ q.step \notin {"idle", "previous"} /\ q.current = 2 /\ q.id = <<2, q.key>> =>
         rows[<<1, q.key>>] = Nil \/ Later(q.key) \/ q.key \in overlaps

OverlapOK ==
    /\ \A k \in Key : rows[<<1, k>>] # Nil /\ Later(k) => k \in overlaps
    /\ \A r \in Request, q \in Requests : q = request[r] => Parted(q)

\* What RefusalsJustified says of one answer.
Justified(q) ==
    /\ q.answer = "conflict" =>
         \E i \in Own(q) : \/ rows[i].manifest # q.manifest \/ rows[i].status # "issued"
                           \/ i \in Legacy
    /\ q.answer = "limited" => Cardinality(HeldRows) + Others >= DailyLimit
    /\ q.answer = "rejected" =>
         \/ ~Fresh(q.key, q.manifest)
         \/ sequence > q.key
         \/ Cardinality(Own(q)) > 1 /\ q.key \in overlaps
         \/ \E i \in Own(q) : intents[i] # Nil /\ intents[i].status = "promoted"
    /\ q.answer = "expired" => now >= Validity
AnswersOK == \A r \in Request, q \in Requests : q = request[r] => Justified(q)

\* How the request of a step moves, as far as the two secrets are concerned.
Moved(q, e) ==
    \/ e = q \/ e.step = "idle"
    \/ e.step = "previous" /\ e.current = secret
    \/ /\ q.step = "previous" /\ e.current = q.current /\ e.key = q.key
       /\ e.id = <<First(q), q.key>>
    \/ /\ q.step \notin {"idle", "previous"} /\ e.current = q.current /\ e.key = q.key
       /\ e.id = q.id \/ (rows[q.id] = Nil /\ e.id = <<q.current, q.key>> /\ SecretOf(q.id) # q.current)

LEMMA RequestsMove ==
    ASSUME IInv, IInv', [IntentNext]_intentVars, NEW o \in Request, NEW q \in Requests, q = request[o]
    PROVE  Moved(q, request'[o])
<1>0. request \in [Request -> Requests] /\ Sound(q)
  BY DEF IInv, IntentTypeOK, RequestsOK
<1>1. CASE UNCHANGED request
  BY <1>1 DEF Moved
<1>2. ASSUME NEW r \in Request, Ask(r) \/ Issuing(r) \/ Die(r) PROVE Moved(q, request'[o])
  <2>1. CASE Ask(r)
    <3>1. PICK k, m : request' = [request EXCEPT ![r] =
              [@ EXCEPT !.step = "previous", !.key = k, !.manifest = m, !.current = secret,
                        !.answer = Nil]]
      BY <2>1 DEF Ask
    <3>2. PICK s : s = secret
      OBVIOUS
    <3>3. PICK e : e = [request[r] EXCEPT !.step = "previous", !.key = k, !.manifest = m, !.current = s,
                        !.answer = Nil]
      OBVIOUS
    <3>4. request' = [request EXCEPT ![r] = e]
      BY <3>1, <3>2, <3>3
    <3>5. e.step = "previous" /\ e.current = s
      BY <1>0, <3>3 DEF Requests
    <3> QED BY <1>0, <3>2, <3>4, <3>5 DEF Moved
  <2>2. CASE LoadPrevious(r)
    <3>1. PICK i, t : i = <<First(request[r]), request[r].key>> /\ t = now
      OBVIOUS
    <3>2. request' = [request EXCEPT ![r] = [request[r] EXCEPT !.step = "find", !.id = i, !.at = t]]
          /\ request[r].step = "previous"
      BY <2>2, <3>1 DEF LoadPrevious, Doing
    <3>3. PICK e : e = [request[r] EXCEPT !.step = "find", !.id = i, !.at = t]
      OBVIOUS
    <3>4. e.id = i /\ e.current = request[r].current /\ e.key = request[r].key
      BY <1>0, <3>3 DEF Requests
    <3> QED BY <1>0, <3>1, <3>2, <3>3, <3>4 DEF Moved
  <2>3. CASE Die(r) \/ End(r)
    <3>1. request' = [request EXCEPT ![r] = Ended]
      BY <2>3 DEF Die, End
    <3> QED BY <1>0, <3>1, EndedFacts DEF Moved
  <2>4. ASSUME NEW why \in Refusals, Refuse(r, why) PROVE Moved(q, request'[o])
    <3>1. PICK e : e = [Ended EXCEPT !.key = request[r].key, !.manifest = request[r].manifest,
                                     !.answer = why]
      OBVIOUS
    <3>2. request' = [request EXCEPT ![r] = e]
      BY <2>4, <3>1 DEF Refuse
    <3>3. e.step = "idle"
      BY <3>1, EndedFacts DEF Requests
    <3> QED BY <1>0, <3>2, <3>3 DEF Moved
  <2>5. ASSUME NEW to \in {"reserve", "project", "upgrade", "complete"}, Goes(r, to),
               request[r].step \notin {"idle", "previous"}
        PROVE Moved(q, request'[o])
    <3>1. PICK e : e = [request[r] EXCEPT !.step = to]
      OBVIOUS
    <3>2. e.id = request[r].id /\ e.current = request[r].current /\ e.key = request[r].key
      BY <1>0, <3>1 DEF Requests
    <3>3. request' = [request EXCEPT ![r] = e]
      BY <2>5, <3>1 DEF Goes
    <3> QED BY <1>0, <2>5, <3>2, <3>3 DEF Moved
  <2>6. ASSUME NEW to, NEW row, request' = [request EXCEPT ![r].step = to, ![r].row = row],
               request[r].step \notin {"idle", "previous"}
        PROVE Moved(q, request'[o])
    <3>1. PICK e : e = [request[r] EXCEPT !.step = to, !.row = row]
      OBVIOUS
    <3>2. e.id = request[r].id /\ e.current = request[r].current /\ e.key = request[r].key
      BY <1>0, <3>1 DEF Requests
    <3>3. request' = [request EXCEPT ![r] = e]
      BY <2>6, <3>1
    <3> QED BY <1>0, <2>6, <3>2, <3>3 DEF Moved
  <2>7. ASSUME NEW to, NEW again, request' = [request EXCEPT ![r].step = to, ![r].again = again],
               request[r].step \notin {"idle", "previous"}
        PROVE Moved(q, request'[o])
    <3>1. PICK e : e = [request[r] EXCEPT !.step = to, !.again = again]
      OBVIOUS
    <3>2. e.id = request[r].id /\ e.current = request[r].current /\ e.key = request[r].key
      BY <1>0, <3>1 DEF Requests
    <3>3. request' = [request EXCEPT ![r] = e]
      BY <2>7, <3>1
    <3> QED BY <1>0, <2>7, <3>2, <3>3 DEF Moved
  <2>8. CASE ReadLifecycle(r)
    <3>1. request[r].step = "find"
      BY <2>8 DEF ReadLifecycle, Doing
    <3>2. CASE rows[request[r].id] # Nil
      BY <2>6, <2>8, <3>1, <3>2 DEF ReadLifecycle
    <3>3. CASE rows[request[r].id] = Nil /\ SecretOf(request[r].id) # request[r].current
      <4>1. PICK i : i = <<request[r].current, request[r].key>>
        OBVIOUS
      <4>2. request' = [request EXCEPT ![r].id = i]
        BY <2>8, <3>3, <4>1 DEF ReadLifecycle, Absent
      <4>3. PICK e : e = [request[r] EXCEPT !.id = i]
        OBVIOUS
      <4>4. e.id = i /\ e.current = request[r].current /\ e.key = request[r].key
        BY <1>0, <4>3 DEF Requests
      <4>5. request' = [request EXCEPT ![r] = e]
        BY <4>2, <4>3
      <4> QED BY <1>0, <3>1, <3>3, <4>1, <4>4, <4>5 DEF Moved
    <3>4. CASE rows[request[r].id] = Nil /\ SecretOf(request[r].id) = request[r].current
      <4>1. Goes(r, "reserve") \/ Refuse(r, "limited")
        BY <2>8, <3>4 DEF ReadLifecycle, Absent
      <4> QED BY <2>4, <2>5, <3>1, <4>1 DEF Refusals
    <3> QED BY <3>2, <3>3, <3>4
  <2>9. CASE CheckReservations(r)
    <3>1. request[r].step = "check"
      BY <2>9 DEF CheckReservations, Doing
    <3>2. Goes(r, "project") \/ Goes(r, "upgrade") \/ Refuse(r, "conflict")
      BY <2>9 DEF CheckReservations
    <3> QED BY <2>4, <2>5, <3>1, <3>2 DEF Refusals
  <2>10. CASE UpgradeLegacy(r)
    BY <2>7, <2>10 DEF UpgradeLegacy, Doing
  <2>11. CASE Reserve(r)
    <3>1. \/ request' = [request EXCEPT ![r].step = "project", ![r].row = Candidate(request[r])]
          \/ request' = [request EXCEPT ![r].step = "find", ![r].again = "cancelled"]
      BY <2>11 DEF Reserve
    <3>2. request[r].step = "reserve"
      BY <2>11 DEF Reserve, Doing
    <3> QED BY <2>6, <2>7, <3>1, <3>2
  <2>12. CASE Project(r)
    <3>1. request[r].step = "project"
      BY <2>12 DEF Project, Doing
    <3>2. Goes(r, "complete") \/ Refuse(r, "rejected")
      BY <2>12 DEF Project
    <3> QED BY <2>4, <2>5, <3>1, <3>2 DEF Refusals
  <2>13. CASE Complete(r)
    <3>1. End(r) \/ Refuse(r, "expired")
      BY <2>13 DEF Complete
    <3> QED BY <2>3, <2>4, <3>1 DEF Refusals
  <2> QED BY <1>2, <2>1, <2>2, <2>3, <2>8, <2>9, <2>10, <2>11, <2>12, <2>13 DEF Issuing
<1>3. ASSUME NEW i \in Intent, RepairRow(i) \/ Take(i) \/ Accept(i) PROVE UNCHANGED request
  BY <1>3 DEF RepairRow, Take, Accept
<1>4. CASE Tick \/ Rotate \/ OtherUpload
  BY <1>1, <1>4 DEF Tick, Rotate, OtherUpload
<1> QED BY <1>1, <1>2, <1>3, <1>4 DEF IntentNext, intentVars

\* Only a reservation fills a row.
LEMMA HeldStays ==
    ASSUME IInv, Forward, [IntentNext]_intentVars, \A r \in Request : ~Reserve(r)
    PROVE  \A i \in Intent : rows[i] = Nil <=> rows'[i] = Nil
<1>0. rows \in [Intent -> Rows \cup {Nil}]
  BY DEF IInv, IntentTypeOK
<1>1. ASSUME UNCHANGED rows PROVE \A i \in Intent : rows[i] = Nil <=> rows'[i] = Nil
  BY <1>1
<1>2. ASSUME NEW r \in Request, UpgradeLegacy(r)
      PROVE \A i \in Intent : rows[i] = Nil <=> rows'[i] = Nil
  <2>1. PICK q \in Requests : q = request[r] /\ Sound(q)
    BY RequestOf DEF IInv
  <2>2. rows[q.id] # Nil
    BY <1>2, <2>1 DEF UpgradeLegacy, Doing, Sound
  <2>3. rows' = rows \/ rows' = [rows EXCEPT ![q.id].indexed = TRUE]
    BY <1>2, <2>1 DEF UpgradeLegacy
  <2>4. \A i \in Intent : i # q.id => rows'[i] = rows[i]
    BY <1>0, <2>3
  <2> QED BY <2>2, <2>4 DEF Forward
<1>3. ASSUME NEW r \in Request, Ask(r) \/ Issuing(r) \/ Die(r)
      PROVE UNCHANGED rows \/ UpgradeLegacy(r)
  BY <1>3 DEF Ask, Issuing, Die, LoadPrevious, ReadLifecycle, CheckReservations, Project, Complete, dynamo
<1>4. ASSUME NEW j \in Intent, RepairRow(j) \/ Take(j) \/ Accept(j)
      PROVE \A i \in Intent : rows[i] = Nil <=> rows'[i] = Nil
  <2>1. CASE RepairRow(j) \/ Accept(j)
    BY <2>1 DEF RepairRow, Accept, dynamo
  <2>2. CASE Take(j)
    <3>1. rows[j] # Nil /\ \A i \in Intent : i # j => rows'[i] = rows[i]
      BY <1>0, <2>2 DEF Take
    <3> QED BY <3>1 DEF Forward
  <2> QED BY <1>4, <2>1, <2>2
<1>5. CASE Tick \/ Rotate \/ OtherUpload
  BY <1>5 DEF Tick, Rotate, OtherUpload, dynamo
<1>6. CASE UNCHANGED intentVars
  BY <1>6 DEF intentVars, dynamo
<1> QED BY <1>1, <1>2, <1>3, <1>4, <1>5, <1>6 DEF IntentNext

\* The order of the two secrets in every lookup: the earlier one first.
LEMMA OverlapMoves ==
    ASSUME Secrets <= 2, IInv, Forward, \A i \in Intent : rows[i] = Nil <=> rows'[i] = Nil,
           NEW q \in Requests, NEW e \in Requests, Sound(q), Parted(q), Moved(q, e)
    PROVE  Parted(e)'
<1>1. /\ Secrets \in Nat /\ secret \in 1..Secrets /\ secret \in Nat /\ q.current \in 1..Secrets
      /\ q.current <= secret /\ e.key \in Key /\ q.key \in Key /\ q.id \in Intent
  BY ConstantFacts DEF Requests, Sound, IInv, IntentTypeOK
<1>2. /\ \A k \in Key : /\ Later(k)' <=> Later(k)
                        /\ rows'[<<1, k>>] = Nil <=> rows[<<1, k>>] = Nil
      /\ overlaps \subseteq overlaps'
  BY <1>1, ConstantFacts DEF Later, Forward
<1>3. CASE e = q
  BY <1>1, <1>2, <1>3 DEF Parted
<1>4. CASE e.step = "idle"
  BY <1>4 DEF Parted
<1>5. CASE e.step = "previous" /\ e.current = secret
  <2>1. Later(e.key) => secret = 2
    <3>1. ASSUME Later(e.key) PROVE 2 <= secret
      <4>1. <<2, e.key>> \in Intent /\ SecretOf(<<2, e.key>>) = 2 /\ rows[<<2, e.key>>] # Nil
        BY <1>1, <3>1, ConstantFacts DEF Later
      <4>2. RowOK(<<2, e.key>>)
        BY <4>1 DEF IInv, StoresOK
      <4> QED BY <4>1, <4>2 DEF RowOK
    <3> QED BY <1>1, <3>1
  <2>2. ~(e.current = 1 /\ Later(e.key)')
    <3>1. Later(e.key)' => Later(e.key)
      BY <1>1, <1>2
    <3>2. e.current = 1 => secret # 2
      BY <1>5
    <3> QED BY <2>1, <3>1, <3>2
  <2> QED BY <1>5, <2>2 DEF Parted
<1>6. CASE /\ q.step = "previous" /\ e.current = q.current /\ e.key = q.key
           /\ e.id = <<First(q), q.key>>
  <2>1. e.current = 2 => e.id # <<2, e.key>>
    BY <1>1, <1>6 DEF First
  <2> QED BY <1>1, <1>2, <1>6, <2>1 DEF Parted
<1>7. CASE /\ q.step \notin {"idle", "previous"} /\ e.current = q.current /\ e.key = q.key
           /\ e.id = q.id
  BY <1>1, <1>2, <1>7 DEF Parted
<1>8. CASE /\ q.step \notin {"idle", "previous"} /\ e.current = q.current /\ e.key = q.key
           /\ rows[q.id] = Nil /\ e.id = <<q.current, q.key>> /\ SecretOf(q.id) # q.current
  <2>1. e.current = 2 => q.id = <<1, e.key>>
    BY <1>1, <1>8, ConstantFacts DEF Sound
  <2> QED BY <1>1, <1>2, <1>8, <2>1 DEF Parted
<1> QED BY <1>3, <1>4, <1>5, <1>6, <1>7, <1>8 DEF Moved

LEMMA OverlapStill ==
    ASSUME Secrets <= 2, IInv, IInv', Forward, [IntentNext]_intentVars, OverlapOK,
           \A i \in Intent : rows[i] = Nil <=> rows'[i] = Nil
    PROVE  OverlapOK'
<1>1. ASSUME NEW k \in Key, rows'[<<1, k>>] # Nil, Later(k)' PROVE k \in overlaps'
  <2>1. <<1, k>> \in Intent /\ (2 \in 1..Secrets => <<2, k>> \in Intent)
    BY ConstantFacts
  <2> QED BY <1>1, <2>1 DEF OverlapOK, Later, Forward
<1>2. ASSUME NEW o \in Request, NEW e \in Requests, e = request'[o] PROVE Parted(e)'
  <2>1. PICK q \in Requests : q = request[o] /\ Sound(q)
    BY RequestOf DEF IInv
  <2>2. Moved(q, e)
    BY <1>2, <2>1, RequestsMove
  <2>3. Parted(q)
    BY <2>1 DEF OverlapOK
  <2> QED BY <2>1, <2>2, <2>3, OverlapMoves
<1> QED BY <1>1, <1>2 DEF OverlapOK

\* Whoever reserves for a key while another copy runs records it, and so does
\* every later reader of its row.
LEMMA OverlapReserve ==
    ASSUME Secrets <= 2, IInv, IInv', Forward, [IntentNext]_intentVars, OverlapOK,
           NEW r \in Request, Reserve(r)
    PROVE  OverlapOK'
<1>1. PICK q \in Requests : q = request[r] /\ Sound(q)
  BY RequestOf DEF IInv
<1>2. PICK i \in Intent : i = q.id
  BY DEF Requests
<1>3. /\ q.step = "reserve" /\ overlaps \subseteq overlaps' /\ KeyOf(i) = q.key
      /\ SecretOf(i) = q.current /\ q.key \in Key /\ q.current \in 1..Secrets /\ Parted(q)
      /\ i = <<q.current, q.key>>
  BY <1>1, <1>2, ConstantFacts DEF Reserve, Doing, Sound, Requests, OverlapOK, Forward
<1>4. ASSUME NEW o \in Request \ {r}, request[o].step # "idle", request[o].key = q.key
      PROVE  q.key \in overlaps'
  BY <1>1, <1>4 DEF Reserve, Doing
<1>5. CASE UNCHANGED rows
  BY <1>5, OverlapStill
<1>6. CASE /\ rows[i] = Nil /\ rows' = [rows EXCEPT ![i] = Candidate(q)]
           /\ request' = [request EXCEPT ![r].step = "project", ![r].row = Candidate(q)]
  <2>1. PICK row : row = Candidate(q)
    OBVIOUS
  <2>2. PICK e : e = [q EXCEPT !.step = "project", !.row = row]
    OBVIOUS
  <2>3. e.id = i /\ e.current = q.current /\ e.key = q.key /\ e.step = "project"
    BY <1>2, <2>2 DEF Requests
  <2>4. /\ \A o \in Request : request'[o] = IF o = r THEN e ELSE request[o]
        /\ \A j \in Intent : j # i => rows'[j] = rows[j]
    <3>1. request' = [request EXCEPT ![r] = e]
      BY <1>1, <1>6, <2>1, <2>2
    <3> QED BY <1>6, <3>1 DEF IInv, IntentTypeOK
  <2>5. rows'[i] # Nil
    <3>1. rows'[i] = Candidate(q)
      BY <1>6 DEF IInv, IntentTypeOK
    <3>2. PICK p \in Requests : p = request'[r] /\ Sound(p)'
      BY RequestOf DEF IInv, RequestsOK, IntentTypeOK
    <3>3. p = e
      BY <2>4, <3>2
    <3> QED BY <2>3, <3>2, <3>3 DEF Sound
  <2>6. 2 \in 1..Secrets => \A k \in Key : <<2, k>> \in Intent /\ <<2, k>> # <<1, k>>
    BY ConstantFacts
  <2>7. \A k \in Key : <<1, k>> \in Intent
    BY ConstantFacts
  <2>8. \A k \in Key : k # q.key => <<1, k>> # i /\ <<2, k>> # i
    BY <1>3
  <2>9. q.current = 1 \/ (q.current = 2 /\ 2 \in 1..Secrets)
    BY <1>3, ConstantFacts
  <2>10. ASSUME NEW k \in Key, rows'[<<1, k>>] # Nil, Later(k)' PROVE k \in overlaps'
    <3>1. CASE k # q.key
      BY <1>3, <2>4, <2>6, <2>7, <2>8, <2>10, <3>1 DEF OverlapOK, Later
    <3>2. CASE k = q.key /\ q.current = 1
      <4>1. Later(k)
        BY <1>3, <2>4, <2>6, <2>10, <3>2 DEF Later
      <4> QED BY <1>3, <3>2, <4>1 DEF Parted
    <3>3. CASE k = q.key /\ q.current = 2 /\ 2 \in 1..Secrets
      <4>1. rows[<<1, k>>] # Nil /\ ~Later(k)
        BY <1>3, <1>6, <2>4, <2>6, <2>7, <2>10, <3>3 DEF Later
      <4> QED BY <1>2, <1>3, <3>3, <4>1 DEF Parted
    <3> QED BY <2>9, <3>1, <3>2, <3>3
  <2>11. ASSUME NEW o \in Request, NEW p \in Requests, p = request'[o] PROVE Parted(p)'
    <3>1. CASE o = r
      <4>1. q.current = 1 /\ Later(q.key)' => Later(q.key)
        BY <1>3, <2>4, <2>6 DEF Later
      <4>2. q.current = 2 => Later(q.key)'
        BY <1>3, <2>5, <2>9 DEF Later
      <4>3. p.current = q.current /\ p.key = q.key /\ p.step = "project"
        BY <2>3, <2>4, <2>11, <3>1
      <4> QED BY <1>3, <4>1, <4>2, <4>3 DEF Parted
    <3>2. CASE o # r /\ p.key = q.key
      <4>1. p = request[o]
        BY <2>4, <2>11, <3>2
      <4>2. p.step # "idle" => q.key \in overlaps'
        BY <1>4, <3>2, <4>1
      <4> QED BY <3>2, <4>2 DEF Parted
    <3>3. CASE o # r /\ p.key # q.key
      <4>1. p = request[o] /\ Parted(p) /\ p.key \in Key
        BY <2>4, <2>11, <3>3 DEF OverlapOK, Requests
      <4>2. (Later(p.key)' <=> Later(p.key)) /\ rows'[<<1, p.key>>] = rows[<<1, p.key>>]
        BY <2>4, <2>6, <2>7, <2>8, <3>3, <4>1 DEF Later
      <4> QED BY <1>3, <4>1, <4>2 DEF Parted
    <3> QED BY <3>1, <3>2, <3>3
  <2> QED BY <2>10, <2>11 DEF OverlapOK
<1>7. UNCHANGED rows \/ (/\ rows[i] = Nil /\ rows' = [rows EXCEPT ![i] = Candidate(q)]
           /\ request' = [request EXCEPT ![r].step = "project", ![r].row = Candidate(q)])
  BY <1>1, <1>2 DEF Reserve, Reservable, dynamo
<1> QED BY <1>5, <1>6, <1>7

-----------------------------------------------------------------------------
(* The reason of a refusal, once given, stays one.                          *)

LEMMA JustifiedKept ==
    ASSUME IInv, IInv', Forward, NEW q \in Requests, Sound(q), Justified(q)
    PROVE  Justified(q)'
<1>1. /\ now \in Nat /\ now' \in Nat /\ sequence \in Nat /\ sequence' \in Nat
      /\ DailyLimit \in Nat /\ Validity \in Nat /\ Window \in Nat /\ q.key \in Key
      /\ q.key \in Nat /\ Keys \in Nat
      /\ now <= now' /\ sequence <= sequence' /\ overlaps \subseteq overlaps'
  BY ConstantFacts DEF IInv, IntentTypeOK, Time, Forward, Requests, Key
<1>2. Own(q) \subseteq Own(q)' /\ Own(q)' \subseteq Intent /\ Own(q) \subseteq Intent
  BY DEF Own, Forward
<1>3. ASSUME q.answer = "conflict"
      PROVE  \E i \in Own(q)' : \/ rows'[i].manifest # q.manifest \/ rows'[i].status # "issued"
                                \/ i \in Legacy
  <2>1. PICK i \in Own(q) : \/ rows[i].manifest # q.manifest \/ rows[i].status # "issued"
                            \/ i \in Legacy
    BY <1>3 DEF Justified
  <2>2. \/ rows'[i].manifest # q.manifest \/ rows'[i].status # "issued" \/ i \in Legacy
    BY <2>1 DEF Own, Forward
  <2> QED BY <1>2, <2>1, <2>2
<1>4. q.answer = "limited" => Cardinality(HeldRows') + Others' >= DailyLimit
  <2>1. /\ Cardinality(HeldRows) \in Nat /\ Cardinality(HeldRows') \in Nat
        /\ Cardinality(HeldRows) <= Cardinality(HeldRows')
    BY HeldGrows DEF Forward
  <2>2. Others \in Nat /\ Others' \in Nat /\ Others <= Others'
    BY <1>1 DEF Others
  <2> QED BY <1>1, <2>1, <2>2 DEF Justified
<1>5. ASSUME q.answer = "rejected"
      PROVE  \/ ~Fresh(q.key, q.manifest)'
             \/ sequence' > q.key
             \/ Cardinality(Own(q)') > 1 /\ q.key \in overlaps'
             \/ \E i \in Own(q)' : intents'[i] # Nil /\ intents'[i].status = "promoted"
  <2>1. CASE ~Fresh(q.key, q.manifest)
    <3>1. signed[<<q.key, q.manifest>>] # Never
      BY <1>5, NilAssumption DEF Sound, Refusals
    <3>2. PICK x \in Key \X Manifest : x = <<q.key, q.manifest>>
      BY DEF Requests
    <3>3. signed'[x] = signed[x] /\ signed[x] \in Nat
      BY <3>1, <3>2, ConstantFacts DEF Forward, IInv, IntentTypeOK
    <3>4. ~(now <= signed[x] + Window)
      BY <2>1, <3>1, <3>2 DEF Fresh
    <3>5. ~(now' <= signed'[x] + Window)
      BY <1>1, <3>3, <3>4
    <3> QED BY <3>2, <3>5 DEF Fresh
  <2>2. CASE sequence > q.key
    BY <1>1, <2>2
  <2>3. CASE Cardinality(Own(q)) > 1 /\ q.key \in overlaps
    <3>1. Cardinality(Own(q)) \in Nat /\ Cardinality(Own(q)') \in Nat
          /\ Cardinality(Own(q)) <= Cardinality(Own(q)')
      BY <1>2, IntentFinite, FS_Subset
    <3> QED BY <1>1, <2>3, <3>1
  <2>4. CASE \E i \in Own(q) : intents[i] # Nil /\ intents[i].status = "promoted"
    BY <1>2, <2>4 DEF Forward
  <2> QED BY <1>5, <2>1, <2>2, <2>3, <2>4 DEF Justified
<1>6. q.answer = "expired" => now' >= Validity
  BY <1>1 DEF Justified
<1> QED BY <1>3, <1>4, <1>5, <1>6 DEF Justified

LEMMA NilJustified ==
    ASSUME NEW q, q.answer = Nil
    PROVE  Justified(q)
BY NilAssumption DEF Justified, Refusals

LEMMA AnswerMoves ==
    ASSUME IInv, IInv', Forward, AnswersOK, NEW r \in Request, NEW e \in Requests,
           request' = [request EXCEPT ![r] = e], Justified(e)'
    PROVE  AnswersOK'
<1>1. \A o \in Request : request'[o] = IF o = r THEN e ELSE request[o]
  BY DEF IInv, IntentTypeOK
<1>2. ASSUME NEW o \in Request, NEW q \in Requests, q = request'[o] PROVE Justified(q)'
  <2>1. CASE o = r
    BY <1>1, <1>2, <2>1
  <2>2. CASE o # r
    BY <1>1, <1>2, <2>2, JustifiedKept DEF AnswersOK, IInv, RequestsOK
  <2> QED BY <2>1, <2>2
<1> QED BY <1>2 DEF AnswersOK

\* A request that is still under way has no answer.
LEMMA BusyMoves ==
    ASSUME IInv, IInv', Forward, AnswersOK, NEW r \in Request, NEW e,
           request' = [request EXCEPT ![r] = e], e.step # "idle" \/ e = Ended
    PROVE  AnswersOK'
<1>1. e = request'[r] /\ e \in Requests
  BY DEF IInv, IntentTypeOK
<1>2. e.answer = Nil
  BY <1>1, EndedFacts DEF IInv, RequestsOK, Sound
<1>3. Justified(e)'
  BY <1>2, NilAssumption DEF Justified, Refusals
<1> QED BY <1>1, <1>3, AnswerMoves

LEMMA AnswersStay ==
    ASSUME IInv, IInv', Forward, AnswersOK, UNCHANGED request
    PROVE  AnswersOK'
BY JustifiedKept DEF AnswersOK, IInv, RequestsOK

LEMMA RefuseMoves ==
    ASSUME IInv, IInv', Forward, AnswersOK, NEW r \in Request, NEW why \in Refusals, Refuse(r, why),
           \A e \in Requests : e.answer = why /\ e.key = request[r].key
                               /\ e.manifest = request[r].manifest => Justified(e)'
    PROVE  AnswersOK'
<1>1. PICK q \in Requests : q = request[r]
  BY DEF IInv, IntentTypeOK
<1>2. PICK e : e = [Ended EXCEPT !.key = q.key, !.manifest = q.manifest, !.answer = why]
  OBVIOUS
<1>3. e \in Requests /\ e.answer = why /\ e.key = q.key /\ e.manifest = q.manifest
  BY <1>2, RefusedFacts
<1>4. request' = [request EXCEPT ![r] = e]
  BY <1>1, <1>2 DEF Refuse
<1>5. Justified(e)'
  BY <1>1, <1>3
<1> QED BY <1>3, <1>4, <1>5, AnswerMoves

LEMMA BusySteps ==
    ASSUME IInv, IInv', Forward, AnswersOK, NEW r \in Request,
           Ask(r) \/ LoadPrevious(r) \/ UpgradeLegacy(r) \/ Reserve(r) \/ Die(r)
    PROVE  AnswersOK'
<1>0. PICK q \in Requests : q = request[r]
  BY DEF IInv, IntentTypeOK
<1>1. CASE Ask(r)
  <2>1. PICK k, m : request' = [request EXCEPT ![r] =
            [@ EXCEPT !.step = "previous", !.key = k, !.manifest = m, !.current = secret,
                      !.answer = Nil]]
    BY <1>1 DEF Ask
  <2>2. PICK e : e = [q EXCEPT !.step = "previous", !.key = k, !.manifest = m, !.current = secret,
                      !.answer = Nil]
    OBVIOUS
  <2>3. request' = [request EXCEPT ![r] = e] /\ e.step = "previous"
    BY <1>0, <2>1, <2>2 DEF Requests
  <2> QED BY <2>3, BusyMoves
<1>2. CASE LoadPrevious(r)
  <2>1. PICK i, t : i = <<First(q), q.key>> /\ t = now
    OBVIOUS
  <2>2. PICK e : e = [q EXCEPT !.step = "find", !.id = i, !.at = t]
    OBVIOUS
  <2>3. request' = [request EXCEPT ![r] = e]
    BY <1>0, <1>2, <2>1, <2>2 DEF LoadPrevious
  <2>4. e.step = "find"
    BY <2>2 DEF Requests
  <2> QED BY <2>3, <2>4, BusyMoves
<1>3. ASSUME NEW to \in {"find"}, NEW again, request' = [request EXCEPT ![r].step = to, ![r].again = again]
      PROVE AnswersOK'
  <2>1. PICK e : e = [q EXCEPT !.step = to, !.again = again]
    OBVIOUS
  <2>2. request' = [request EXCEPT ![r] = e]
    BY <1>0, <1>3, <2>1
  <2>3. e.step = "find"
    BY <1>3, <2>1 DEF Requests
  <2> QED BY <2>2, <2>3, BusyMoves
<1>4. CASE UpgradeLegacy(r)
  BY <1>3, <1>4 DEF UpgradeLegacy
<1>5. CASE Reserve(r)
  <2>1. CASE request' = [request EXCEPT ![r].step = "project", ![r].row = Candidate(q)]
    <3>1. PICK row : row = Candidate(q)
      OBVIOUS
    <3>2. PICK e : e = [q EXCEPT !.step = "project", !.row = row]
      OBVIOUS
    <3>3. request' = [request EXCEPT ![r] = e]
      BY <1>0, <2>1, <3>1, <3>2
    <3>4. e.step = "project"
      BY <3>2 DEF Requests
    <3> QED BY <3>3, <3>4, BusyMoves
  <2>2. CASE request' = [request EXCEPT ![r].step = "find", ![r].again = "cancelled"]
    BY <1>3, <2>2
  <2> QED BY <1>0, <1>5, <2>1, <2>2 DEF Reserve
<1>6. CASE Die(r)
  BY <1>6, BusyMoves DEF Die, End
<1> QED BY <1>1, <1>2, <1>4, <1>5, <1>6

-----------------------------------------------------------------------------
(* Each refusal has its reason when it is given.                            *)

LEMMA GoesBusy ==
    ASSUME IInv, IInv', Forward, AnswersOK, NEW r \in Request,
           NEW to \in {"reserve", "project", "upgrade", "complete"}, Goes(r, to)
    PROVE  AnswersOK'
<1>1. PICK q \in Requests : q = request[r]
  BY DEF IInv, IntentTypeOK
<1>2. PICK e : e = [q EXCEPT !.step = to]
  OBVIOUS
<1>3. request' = [request EXCEPT ![r] = e]
  BY <1>1, <1>2 DEF Goes
<1>4. e.step # "idle"
  BY <1>2 DEF Requests
<1> QED BY <1>3, <1>4, BusyMoves

\* Nothing is found and the transaction was cancelled: the day is full.
LEMMA ReadAnswers ==
    ASSUME IInv, IInv', Forward, AnswersOK, NEW r \in Request, ReadLifecycle(r)
    PROVE  AnswersOK'
<1>1. PICK q \in Requests : q = request[r] /\ Sound(q)
  BY RequestOf DEF IInv
<1>2. UNCHANGED <<rows, reserved, sequence>> /\ q.step = "find"
  BY <1>1 DEF ReadLifecycle, Doing, dynamo, aurora
<1>3. CASE rows[q.id] # Nil
  <2>1. PICK row : row = rows[q.id]
    OBVIOUS
  <2>2. PICK e : e = [q EXCEPT !.step = "check", !.row = row]
    OBVIOUS
  <2>3. request' = [request EXCEPT ![r] = e]
    BY <1>1, <1>3, <2>1, <2>2 DEF ReadLifecycle
  <2>4. e.step = "check"
    BY <2>2 DEF Requests
  <2> QED BY <2>3, <2>4, BusyMoves
<1>4. CASE rows[q.id] = Nil /\ SecretOf(q.id) # q.current
  <2>1. PICK i : i = <<q.current, q.key>>
    OBVIOUS
  <2>2. PICK e : e = [q EXCEPT !.id = i]
    OBVIOUS
  <2>3. request' = [request EXCEPT ![r] = e]
    BY <1>1, <1>4, <2>1, <2>2 DEF ReadLifecycle, Absent
  <2>4. e.step = "find"
    BY <1>2, <2>2 DEF Requests
  <2> QED BY <2>3, <2>4, BusyMoves
<1>5. CASE rows[q.id] = Nil /\ SecretOf(q.id) = q.current /\ q.again = "no"
  BY <1>1, <1>5, GoesBusy DEF ReadLifecycle, Absent
<1>6. CASE rows[q.id] = Nil /\ SecretOf(q.id) = q.current /\ q.again # "no"
  <2>1. Refuse(r, "limited") /\ "limited" \in Refusals
    BY <1>1, <1>6 DEF ReadLifecycle, Absent, Refusals
  <2>2. reserved >= DailyLimit
    BY <1>1, <1>6 DEF Sound, Requests
  <2>3. Cardinality(HeldRows') + Others' >= DailyLimit
    <3>1. HeldRows' = HeldRows /\ Others' = Others
      BY <1>2 DEF HeldRows, Others
    <3>2. Cardinality(HeldRows) \in Nat /\ Others \in Nat /\ reserved \in Nat /\ DailyLimit \in Nat
      BY IntentFinite, ConstantFacts DEF HeldRows, Others, IInv, IntentTypeOK
    <3>3. reserved <= Cardinality(HeldRows) + Others
      BY DEF IInv, StoresOK, CountOK
    <3> QED BY <2>2, <3>1, <3>2, <3>3
  <2>4. \A e \in Requests : e.answer = "limited" => Justified(e)'
    BY <2>3 DEF Justified
  <2> QED BY <2>1, <2>4, RefuseMoves
<1> QED BY <1>3, <1>4, <1>5, <1>6

LEMMA CheckAnswers ==
    ASSUME IInv, IInv', Forward, AnswersOK, NEW r \in Request, CheckReservations(r)
    PROVE  AnswersOK'
<1>1. PICK q \in Requests : q = request[r] /\ Sound(q)
  BY RequestOf DEF IInv
<1>2. UNCHANGED rows /\ q.step = "check" /\ q.id \in Intent
  BY <1>1 DEF CheckReservations, Doing, dynamo, Requests
<1>3. \/ Goes(r, "project") \/ Goes(r, "upgrade")
      \/ Refuse(r, "conflict") /\ (~Exact(q) \/ ~q.row.indexed)
  BY <1>1 DEF CheckReservations
<1>4. CASE Refuse(r, "conflict") /\ (~Exact(q) \/ ~q.row.indexed)
  <2>1. PICK i \in Intent : i = q.id /\ RowOK(i)
    BY <1>2 DEF IInv, StoresOK
  <2>2. /\ KeyOf(i) = q.key /\ rows[i] # Nil /\ requestOf[i] \in BOOLEAN
        /\ q.row.manifest = rows[i].manifest
        /\ q.row.indexed => rows[i].indexed
        /\ ~q.row.indexed => i \in Legacy
        /\ q.row.status # "issued" => rows[i].status # "issued"
    BY <1>1, <1>2, <2>1 DEF Sound, IInv, IntentTypeOK
  <2>3. q.row \in Rows
    BY <1>1, <1>2 DEF Sound, Requests
  <2>4. q.row.indexed \in BOOLEAN
    BY <2>3 DEF Rows
  <2>5. rows[i].manifest # q.manifest \/ rows[i].status # "issued" \/ i \in Legacy
    <3>1. q.row.indexed => requestOf[i]
      BY <2>1, <2>2 DEF RowOK
    <3>2. q.row.indexed => requestOf[q.id] = q.row.indexed
      BY <2>1, <2>2, <2>4, <3>1
    <3>3. CASE ~q.row.indexed
      BY <2>2, <3>3
    <3>4. CASE q.row.indexed /\ ~Exact(q)
      <4>1. q.row.manifest # q.manifest \/ q.row.status # "issued"
        BY <3>2, <3>4 DEF Exact
      <4> QED BY <2>2, <4>1
    <3> QED BY <1>4, <2>4, <3>3, <3>4
  <2>6. ASSUME NEW e \in Requests, e.answer = "conflict", e.key = q.key, e.manifest = q.manifest
        PROVE  Justified(e)'
    <3>1. i \in Own(e)'
      BY <1>2, <2>2, <2>6 DEF Own
    <3>2. rows'[i].manifest # e.manifest \/ rows'[i].status # "issued" \/ i \in Legacy
      BY <1>2, <2>5, <2>6
    <3> QED BY <2>6, <3>1, <3>2 DEF Justified
  <2>7. "conflict" \in Refusals
    BY DEF Refusals
  <2> QED BY <1>1, <1>4, <2>6, <2>7, RefuseMoves
<1> QED BY <1>3, <1>4, GoesBusy

\* Two rows of one key have different secrets.
LEMMA TwoRows ==
    ASSUME Secrets <= 2, IInv, OverlapOK, NEW i \in Intent, NEW j \in Intent, i # j,
           KeyOf(i) = KeyOf(j), rows[i] # Nil, rows[j] # Nil, NEW q, q.key = KeyOf(i)
    PROVE  Cardinality(Own(q)) > 1 /\ q.key \in overlaps
<1>1. i \in Own(q) /\ j \in Own(q) /\ Own(q) \subseteq Intent
  BY DEF Own
<1>2. Cardinality(Own(q)) > 1
  <2>1. IsFiniteSet({i}) /\ Cardinality({i}) = 1 /\ IsFiniteSet(Own(q)) /\ Cardinality(Own(q)) \in Nat
    BY <1>1, IntentFinite, FS_Singleton
  <2>2. Cardinality({i, j}) = 2
    <3>1. {i, j} = {i} \cup {j} /\ j \notin {i}
      OBVIOUS
    <3> QED BY <2>1, <3>1, FS_AddElement
  <2>3. Cardinality({i, j}) <= Cardinality(Own(q))
    BY <1>1, <2>1, FS_Subset
  <2> QED BY <2>1, <2>2, <2>3
<1>3. q.key \in overlaps
  <2>1. \E s \in 1..Secrets, t \in 1..Secrets : s # t /\ i = <<s, q.key>> /\ j = <<t, q.key>>
    BY ConstantFacts
  <2>2. PICK s \in 1..Secrets, t \in 1..Secrets : s # t /\ i = <<s, q.key>> /\ j = <<t, q.key>>
    BY <2>1
  <2>3. /\ rows[<<1, q.key>>] # Nil /\ rows[<<2, q.key>>] # Nil /\ 2 \in 1..Secrets
    BY <2>2, ConstantFacts
  <2>4. q.key \in Key
    BY ConstantFacts
  <2> QED BY <2>3, <2>4 DEF OverlapOK, Later
<1> QED BY <1>2, <1>3

LEMMA ProjectAnswers ==
    ASSUME Secrets <= 2, IInv, IInv', Forward, OverlapOK, AnswersOK, NEW r \in Request, Project(r)
    PROVE  AnswersOK'
<1>1. PICK q \in Requests : q = request[r] /\ Sound(q)
  BY RequestOf DEF IInv
<1>2. \/ Goes(r, "complete")
      \/ Refuse(r, "rejected") /\ ~Accepts(q.id, q.row) /\ UNCHANGED aurora
  BY <1>1 DEF Project
<1>3. q.step = "project" /\ UNCHANGED <<now, signed, rows, overlaps>>
  BY <1>1 DEF Project, Doing, dynamo, history
<1>4. CASE Refuse(r, "rejected") /\ ~Accepts(q.id, q.row) /\ UNCHANGED aurora
  <2>1. PICK i \in Intent : i = q.id /\ IntentOK(i)
    BY DEF Requests, IInv, StoresOK
  <2>2. /\ KeyOf(i) = q.key /\ rows[i] # Nil /\ q.row.manifest = q.manifest
        /\ q.row.manifest = rows[i].manifest /\ q.row.expires = rows[i].expires
        /\ q.key \in Key /\ q.key \in Nat /\ sequence \in Nat
    BY <1>1, <1>3, <2>1, ConstantFacts DEF Sound, Requests, Key, IInv, IntentTypeOK
  <2>3. \/ ~Fresh(q.key, q.manifest)
        \/ sequence > q.key
        \/ Cardinality(Own(q)) > 1 /\ q.key \in overlaps
        \/ i \in Own(q) /\ intents[i] # Nil /\ intents[i].status = "promoted"
    <3>1. CASE ~Fresh(KeyOf(i), q.row.manifest)
      BY <2>2, <3>1
    <3>2. CASE intents[i] = Nil /\ ~New(i)
      <4>1. sequence > q.key \/ evidence[q.key] # Nil
        BY <2>2, <3>2 DEF New, IInv, StoresOK, SequenceOK
      <4>2. ASSUME evidence[q.key] # Nil PROVE Cardinality(Own(q)) > 1 /\ q.key \in overlaps
        <5>1. PICK j \in Intent : j = evidence[q.key]
          BY <2>2, <4>2 DEF IInv, IntentTypeOK
        <5>2. KeyOf(j) = q.key /\ intents[j] # Nil
          BY <2>2, <4>2, <5>1 DEF IInv, StoresOK, OwnerOK
        <5>3. rows[j] # Nil
          BY <5>2 DEF IInv, StoresOK, IntentOK
        <5> QED BY <2>2, <3>2, <5>2, <5>3, TwoRows
      <4> QED BY <4>1, <4>2
    <3>3. CASE intents[i] # Nil /\ ~Same(i, q.row)
      <4>1. intents[i].status # "issued"
        BY <2>1, <2>2, <3>3 DEF Same, IntentOK
      <4>2. intents[i] \in AuroraRows
        BY <3>3 DEF IInv, IntentTypeOK
      <4>3. intents[i].status = "promoted"
        BY <4>1, <4>2 DEF AuroraRows
      <4> QED BY <2>2, <3>3, <4>3 DEF Own
    <3> QED BY <1>4, <2>1, <3>1, <3>2, <3>3 DEF Accepts
  <2>4. ASSUME NEW e \in Requests, e.answer = "rejected", e.key = q.key, e.manifest = q.manifest
        PROVE  Justified(e)'
    <3>1. Own(e)' = Own(q) /\ (Fresh(e.key, e.manifest)' <=> Fresh(q.key, q.manifest))
      BY <1>3, <2>4 DEF Own, Fresh
    <3>2. intents' = intents /\ sequence' = sequence /\ overlaps' = overlaps
      BY <1>3, <1>4 DEF aurora
    <3> QED BY <2>3, <2>4, <3>1, <3>2 DEF Justified
  <2>5. "rejected" \in Refusals
    BY DEF Refusals
  <2> QED BY <1>1, <1>4, <2>4, <2>5, RefuseMoves
<1> QED BY <1>2, <1>4, GoesBusy

LEMMA CompleteAnswers ==
    ASSUME IInv, IInv', Forward, AnswersOK, NEW r \in Request, Complete(r)
    PROVE  AnswersOK'
<1>1. PICK q \in Requests : q = request[r] /\ Sound(q)
  BY RequestOf DEF IInv
<1>2. End(r) \/ (Refuse(r, "expired") /\ ~(now < q.row.expires))
  BY <1>1 DEF Complete
<1>3. q.step = "complete" /\ UNCHANGED now /\ q.id \in Intent
  BY <1>1 DEF Complete, Doing, Requests
<1>4. CASE Refuse(r, "expired") /\ ~(now < q.row.expires)
  <2>1. q.row \in Rows /\ rows[q.id] # Nil /\ q.row.expires = rows[q.id].expires
    BY <1>1, <1>3 DEF Sound, Requests
  <2>2. q.row.expires \in Nat /\ now \in Nat /\ Validity \in Nat
    BY <2>1, ConstantFacts DEF Rows, IInv, IntentTypeOK, Time
  <2>3. q.row.expires >= Validity
    BY <1>3, <2>1 DEF IInv, StoresOK, RowOK
  <2>4. now' >= Validity
    BY <1>3, <1>4, <2>2, <2>3
  <2>5. \A e \in Requests : e.answer = "expired" => Justified(e)'
    BY <2>4 DEF Justified
  <2>6. "expired" \in Refusals
    BY DEF Refusals
  <2> QED BY <1>4, <2>5, <2>6, RefuseMoves
<1>5. CASE End(r)
  BY <1>5, BusyMoves DEF End
<1> QED BY <1>2, <1>4, <1>5

LEMMA AnswersStep ==
    ASSUME Secrets <= 2, IInv, IInv', Forward, OverlapOK, AnswersOK, [IntentNext]_intentVars
    PROVE  AnswersOK'
<1>1. ASSUME NEW r \in Request, Ask(r) \/ Issuing(r) \/ Die(r) PROVE AnswersOK'
  BY <1>1, BusySteps, ReadAnswers, CheckAnswers, ProjectAnswers, CompleteAnswers DEF Issuing
<1>2. ASSUME NEW i \in Intent, RepairRow(i) \/ Take(i) \/ Accept(i) PROVE UNCHANGED request
  BY <1>2 DEF RepairRow, Take, Accept
<1>3. CASE Tick \/ Rotate \/ OtherUpload \/ UNCHANGED intentVars
  BY <1>3, AnswersStay DEF Tick, Rotate, OtherUpload, intentVars
<1> QED BY <1>1, <1>2, <1>3, AnswersStay DEF IntentNext

LEMMA OverlapStep ==
    ASSUME Secrets <= 2, IInv, IInv', Forward, OverlapOK, [IntentNext]_intentVars
    PROVE  OverlapOK'
<1>1. CASE \E r \in Request : Reserve(r)
  BY <1>1, OverlapReserve
<1>2. CASE \A r \in Request : ~Reserve(r)
  BY <1>2, HeldStays, OverlapStill
<1> QED BY <1>1, <1>2

LEMMA InitAnswers == ASSUME IntentInit PROVE OverlapOK /\ AnswersOK
<1>1. \A r \in Request : request[r] = Ended
  BY DEF IntentInit
<1>2. AnswersOK
  BY <1>1, EndedFacts, NilJustified DEF AnswersOK
<1>3. \A k \in Key : ~Later(k)
  <2>1. ASSUME NEW k \in Key, 2 \in 1..Secrets PROVE rows[<<2, k>>] = Nil
    <3>1. <<2, k>> \in Intent /\ SecretOf(<<2, k>>) = 2
      BY <2>1, ConstantFacts
    <3>2. RowOK(<<2, k>>) /\ secret = 1
      BY <3>1, InitIInv DEF IInv, StoresOK, IntentInit
    <3> QED BY <3>1, <3>2 DEF RowOK
  <2> QED BY <2>1 DEF Later
<1>4. OverlapOK
  BY <1>1, <1>3, EndedFacts DEF OverlapOK, Parted
<1> QED BY <1>2, <1>4

\* While the secret has been rotated at most once, every refusal has a reason
\* that the client or the operator gave (UploadIntentIssuer, create_upload_intent).
THEOREM RefusalsCorrect == Secrets <= 2 => (IntentSpec => []RefusalsJustified)
<1> SUFFICES ASSUME Secrets <= 2 PROVE IntentSpec => []RefusalsJustified
  OBVIOUS
<1> DEFINE AInv == IInv /\ OverlapOK /\ AnswersOK
<1>1. IntentInit => AInv
  BY InitIInv, InitAnswers
<1>2. AInv /\ [IntentNext]_intentVars => AInv'
  <2> SUFFICES ASSUME AInv, [IntentNext]_intentVars PROVE AInv'
    OBVIOUS
  <2>1. IInv' /\ Forward
    BY NextIInv
  <2> QED BY <2>1, OverlapStep, AnswersStep
<1>3. AInv => RefusalsJustified
  <2> SUFFICES ASSUME AInv PROVE RefusalsJustified
    OBVIOUS
  <2>1. \A r \in Request : request[r] \in Requests
    BY DEF IInv, IntentTypeOK
  <2>2. \A r \in Request : Justified(request[r])
    BY <2>1 DEF AnswersOK
  <2> QED BY <2>2 DEF RefusalsJustified, Justified, HeldRows
<1> QED
  <2> HIDE DEF AInv
  <2> QED BY <1>1, <1>2, <1>3, PTL DEF IntentSpec
==============================================================================
