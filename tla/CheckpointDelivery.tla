------------------------- MODULE CheckpointDelivery -------------------------
(***************************************************************************)
(* Signed audit checkpoints and their delivery to the independent witness  *)
(* (lib/server/checkpoints.ts, checkpoint-delivery-retry.ts and the        *)
(* triggers of drizzle/0025 and 0027).                                     *)
(*                                                                         *)
(* Several maintenance invocations (Worker) run createAuditCheckpoint      *)
(* concurrently.  Every await of the code is a separate step, so other     *)
(* workers interleave between any read and the write that depends on it.   *)
(* D1 statements are atomic; their responses, R2 puts and R2 deletes may   *)
(* be lost, before or after they took effect, and an invocation may die at *)
(* any await.  MaxFaults bounds how often that happens in a behaviour.     *)
(*                                                                         *)
(* Identities.  A checkpoint id is <<s, w>>: the candidate that worker w   *)
(* builds for audit sequence s.  A delivery attempt id is <<s, n, w>>: the *)
(* n-th claim of checkpoint s, drawn by w; the random lease id is drawn    *)
(* with it.  Clocks are two flags of the retry row: "due" says that        *)
(* next_attempt_at has passed, "lapsed" that lease_expires_at has.         *)
(***************************************************************************)
EXTENDS Naturals, FiniteSets

CONSTANTS
    Worker,        \* concurrent invocations of the scheduler
    NoWorker,      \* null
    MaxEvents,     \* bound on the audit events of a behaviour
    MaxAttempts,   \* CHECKPOINT_DELIVERY_MAX_ATTEMPTS
    MaxFaults      \* bound on crashes and lost responses

ASSUME CheckpointAssumption ==
    /\ NoWorker \notin Worker
    /\ MaxEvents \in Nat
    /\ MaxAttempts \in Nat \ {0}
    /\ MaxFaults \in Nat

VARIABLES
    head,            \* sequence of the newest audit event, 0 when there is none
    row,             \* audit_checkpoints: which candidate was committed for s
    checkpointObjs,  \* R2: signed checkpoint envelopes
    retry,           \* audit_checkpoint_delivery_retry_state, one row per s
    attempts,        \* audit_checkpoint_delivery_attempts, append-only
    receiptObjs,     \* R2: external-receipt envelopes
    posts,           \* requests sent to the witness for the n-th claim of s
    witnessed,       \* attempts for which the witness returned a valid receipt
    pc,              \* the await each worker has reached
    loc,             \* the local variables of each worker's invocation
    faults           \* crashes and lost responses so far

vars == <<head, row, checkpointObjs, retry, attempts, receiptObjs, posts,
          witnessed, pc, loc, faults>>
store == <<head, row, checkpointObjs, retry, attempts, receiptObjs, posts, witnessed>>

Seqs == 1..MaxEvents
MaybeWorker == Worker \union {NoWorker}

\* DELIVERY_FAILED stands for every code an owner reports before its commit
\* (head changed, core invalid, request failed, binding or storage failed).
FailureCodes == {"DELIVERY_FAILED", "DELIVERY_COMMIT_PRECONDITION_FAILED",
                 "DELIVERY_CLAIM_EXPIRED"}

\* "by" drew the attempt, "from" inserted its row (created_at tells the
\* insertions of two workers apart).
NoAttempt == [by |-> NoWorker, outcome |-> "none", from |-> NoWorker]
Attempt == [by : MaybeWorker, from : MaybeWorker,
            outcome : {"none", "delivered"} \union FailureCodes]

RetryRow == [status : {"absent", "retrying", "claimed", "action_required", "delivered"},
             count : 0..MaxAttempts, by : MaybeWorker,
             due : BOOLEAN, lapsed : BOOLEAN]
NoRetryRow == [status |-> "absent", count |-> 0, by |-> NoWorker,
               due |-> FALSE, lapsed |-> FALSE]
NewRetryRow == [status |-> "retrying", count |-> 0, by |-> NoWorker,
                due |-> TRUE, lapsed |-> FALSE]

Steps == {"idle", "load", "put", "insert", "readWinner", "deleteLoser",
          "attempt", "ensure", "readState", "claim", "readClaim", "head1",
          "core", "post", "head2", "putReceipt", "commit", "readDelivered",
          "dropReceipt", "fail", "readFailed", "readRecovered"}

\* seq: the checkpoint at hand; n, by: the claim at hand; code: why it failed;
\* changes, certain: what the last INSERT reported.
Locals == [seq : 0..MaxEvents, n : 0..MaxAttempts, by : MaybeWorker,
           code : {"none"} \union FailureCodes,
           changes : 0..1, certain : BOOLEAN]
LocalsFor(s) == [seq |-> s, n |-> 0, by |-> NoWorker, code |-> "none",
                 changes |-> 0, certain |-> TRUE]
NoLocals == LocalsFor(0)

TypeOK ==
    /\ head \in 0..MaxEvents
    /\ row \in [Seqs -> MaybeWorker]
    /\ checkpointObjs \subseteq Seqs \X Worker
    /\ retry \in [Seqs -> RetryRow]
    /\ attempts \in [Seqs -> [1..MaxAttempts -> Attempt]]
    /\ receiptObjs \subseteq Seqs \X (1..MaxAttempts) \X Worker
    /\ posts \in [Seqs -> [1..MaxAttempts -> Nat]]
    /\ witnessed \subseteq Seqs \X (1..MaxAttempts) \X Worker
    /\ pc \in [Worker -> Steps]
    /\ loc \in [Worker -> Locals]
    /\ faults \in 0..MaxFaults

Init ==
    /\ head = 0
    /\ row = [s \in Seqs |-> NoWorker]
    /\ checkpointObjs = {}
    /\ retry = [s \in Seqs |-> NoRetryRow]
    /\ attempts = [s \in Seqs |-> [n \in 1..MaxAttempts |-> NoAttempt]]
    /\ receiptObjs = {}
    /\ posts = [s \in Seqs |-> [n \in 1..MaxAttempts |-> 0]]
    /\ witnessed = {}
    /\ pc = [w \in Worker |-> "idle"]
    /\ loc = [w \in Worker |-> NoLocals]
    /\ faults = 0

-----------------------------------------------------------------------------
(* Helpers.                                                                *)

Goto(w, step) == pc' = [pc EXCEPT ![w] = step]
Return(w) == Goto(w, "idle") /\ loc' = [loc EXCEPT ![w] = NoLocals]
Fault == faults < MaxFaults /\ faults' = faults + 1

Delivered(s) == \E n \in 1..MaxAttempts : attempts[s][n].outcome = "delivered"

AttemptId(w) == <<loc[w].seq, loc[w].n, loc[w].by>>

\* The claim in w's local variables is the one recorded in the retry row.
HoldsClaim(w) ==
    LET r == retry[loc[w].seq] IN
        /\ r.status = "claimed"
        /\ r.count = loc[w].n
        /\ r.by = loc[w].by

\* w leaves for completeFailedClaim with the given failure code.
FailWith(w, code) ==
    /\ Goto(w, "fail")
    /\ loc' = [loc EXCEPT ![w] = [@ EXCEPT !.code = code, !.changes = 0, !.certain = TRUE]]

\* Mutant: no trigger completes the claim.
RecordAttemptWithoutTrigger(w, outcome) ==
    /\ attempts' = [attempts EXCEPT ![loc[w].seq][loc[w].n] =
                      [by |-> loc[w].by, outcome |-> outcome, from |-> w]]
    /\ UNCHANGED retry

\* The INSERT into the attempts table and the AFTER INSERT trigger that
\* completes the claim.
RecordAttempt(w, outcome) ==
    LET s == loc[w].seq
        n == loc[w].n
        status == IF outcome = "delivered" THEN "delivered"
                  ELSE IF retry[s].count >= MaxAttempts THEN "action_required"
                  ELSE "retrying"
    IN  /\ attempts' = [attempts EXCEPT ![s][n] =
                          [by |-> loc[w].by, outcome |-> outcome, from |-> w]]
        /\ retry' = [retry EXCEPT ![s] = [@ EXCEPT !.status = status, !.lapsed = FALSE]]

\* What the INSERT's response tells its caller.
Report(w, changes, certain) ==
    loc' = [loc EXCEPT ![w] = [@ EXCEPT !.changes = changes, !.certain = certain]]

\* A conditional INSERT ... SELECT whose response may be lost on either side
\* of the commit; the caller sees only changes and certain.
InsertAttempt(w, enabled, outcome, next) ==
    /\ Goto(w, next)
    /\ \/ /\ enabled
          /\ RecordAttempt(w, outcome)
          /\ \/ /\ Report(w, 1, TRUE)
                /\ UNCHANGED faults
             \/ /\ Fault
                /\ Report(w, 0, FALSE)
       \/ /\ ~enabled
          /\ Report(w, 0, TRUE)
          /\ UNCHANGED <<attempts, retry, faults>>
       \/ /\ Fault
          /\ Report(w, 0, FALSE)
          /\ UNCHANGED <<attempts, retry>>

-----------------------------------------------------------------------------
(* Environment.                                                            *)

\* Some audited batch appends an event to the chain (AuditLedger).
AppendEvent ==
    /\ head < MaxEvents
    /\ head' = head + 1
    /\ UNCHANGED <<row, checkpointObjs, retry, attempts, receiptObjs, posts,
                   witnessed, pc, loc, faults>>

\* The two-minute lease of a claim passes, whatever its owner is doing.
LapseLease(s) ==
    /\ retry[s].status = "claimed" /\ ~retry[s].lapsed
    /\ retry' = [retry EXCEPT ![s] = [@ EXCEPT !.lapsed = TRUE]]
    /\ UNCHANGED <<head, row, checkpointObjs, attempts, receiptObjs, posts,
                   witnessed, pc, loc, faults>>

\* The backoff scheduled by the claim passes; only a retrying row is looked
\* at for it.
BackoffElapses(s) ==
    /\ retry[s].status = "retrying" /\ ~retry[s].due
    /\ retry' = [retry EXCEPT ![s].due = TRUE]
    /\ UNCHANGED <<head, row, checkpointObjs, attempts, receiptObjs, posts,
                   witnessed, pc, loc, faults>>

\* The invocation dies, or an uncaught read error ends it.
Crash(w) ==
    /\ pc[w] # "idle"
    /\ Fault
    /\ Return(w)
    /\ UNCHANGED store

-----------------------------------------------------------------------------
(* createAuditCheckpoint.                                                  *)

ReadHead(w) ==
    /\ pc[w] = "idle" /\ head > 0
    /\ Goto(w, "load")
    /\ loc' = [loc EXCEPT ![w] = LocalsFor(head)]
    /\ UNCHANGED <<store, faults>>

LoadExisting(w) ==
    /\ pc[w] = "load"
    /\ Goto(w, IF row[loc[w].seq] # NoWorker THEN "attempt" ELSE "put")
    /\ UNCHANGED <<store, loc, faults>>

\* A failed put throws out of the invocation; the object may exist anyway.
PutCheckpoint(w) ==
    LET id == <<loc[w].seq, w>> IN
    /\ pc[w] = "put"
    /\ \/ /\ checkpointObjs' = checkpointObjs \union {id}
          /\ Goto(w, "insert") /\ UNCHANGED <<loc, faults>>
       \/ /\ Fault /\ Return(w)
          /\ checkpointObjs' \in {checkpointObjs, checkpointObjs \union {id}}
    /\ UNCHANGED <<head, row, retry, attempts, receiptObjs, posts, witnessed>>

\* The INSERT meets the unique index on sequence.
InsertCheckpoint(w) ==
    LET s == loc[w].seq IN
    /\ pc[w] = "insert"
    /\ \/ /\ row[s] = NoWorker
          /\ row' = [row EXCEPT ![s] = w]
          /\ \/ Goto(w, "attempt") /\ UNCHANGED faults
             \/ Goto(w, "readWinner") /\ Fault
       \/ /\ row[s] # NoWorker
          /\ Goto(w, "readWinner") /\ UNCHANGED <<row, faults>>
       \/ Goto(w, "readWinner") /\ Fault /\ UNCHANGED row
    /\ UNCHANGED <<head, checkpointObjs, retry, attempts, receiptObjs, posts,
                   witnessed, loc>>

\* Mutant: an ambiguous INSERT response is taken for a lost race.
ReadWinnerDeletesOwn(w) ==
    /\ pc[w] = "readWinner"
    /\ row[loc[w].seq] # NoWorker /\ Goto(w, "deleteLoser")
    /\ UNCHANGED <<store, loc, faults>>

\* Only a true race loser may remove the object it created.
ReadWinner(w) ==
    LET winner == row[loc[w].seq] IN
    /\ pc[w] = "readWinner"
    /\ \/ winner = NoWorker /\ Return(w)
       \/ winner = w /\ Goto(w, "attempt") /\ UNCHANGED loc
       \/ winner \notin {w, NoWorker} /\ Goto(w, "deleteLoser") /\ UNCHANGED loc
    /\ UNCHANGED <<store, faults>>

DeleteLoser(w) ==
    LET id == <<loc[w].seq, w>> IN
    /\ pc[w] = "deleteLoser"
    /\ \/ /\ checkpointObjs' = checkpointObjs \ {id}
          /\ Goto(w, "attempt") /\ UNCHANGED <<loc, faults>>
       \/ /\ Fault /\ Return(w)
          /\ checkpointObjs' \in {checkpointObjs, checkpointObjs \ {id}}
    /\ UNCHANGED <<head, row, retry, attempts, receiptObjs, posts, witnessed>>

-----------------------------------------------------------------------------
(* claimCheckpointDelivery.                                                *)

CheckDelivered(w) ==
    /\ pc[w] = "attempt"
    /\ \/ Delivered(loc[w].seq) /\ Return(w)
       \/ ~Delivered(loc[w].seq) /\ Goto(w, "ensure") /\ UNCHANGED loc
    /\ UNCHANGED <<store, faults>>

\* INSERT ... ON CONFLICT DO NOTHING; its response is ignored, so losing it
\* matters only when the row was not written.
EnsureRetryState(w) ==
    LET s == loc[w].seq IN
    /\ pc[w] = "ensure"
    /\ Goto(w, "readState")
    /\ \/ /\ retry' = IF retry[s].status = "absent" /\ ~Delivered(s)
                      THEN [retry EXCEPT ![s] = NewRetryRow]
                      ELSE retry
          /\ UNCHANGED faults
       \/ Fault /\ UNCHANGED retry
    /\ UNCHANGED <<head, row, checkpointObjs, attempts, receiptObjs, posts,
                   witnessed, loc>>

\* The row read decides between standing down, recovering a lapsed claim and
\* claiming the next attempt.
StartClaim(w, r) ==
    \/ /\ r.status = "retrying" /\ r.count < MaxAttempts /\ r.due
       /\ Goto(w, "claim")
       /\ loc' = [loc EXCEPT ![w] = [@ EXCEPT !.n = r.count + 1, !.by = w]]
    \/ /\ r.status = "retrying" /\ ~(r.count < MaxAttempts /\ r.due)
       /\ Return(w)

\* Mutant: a claimed row is left alone even after its lease lapsed.
ReadStateNeverRecovers(w) ==
    LET r == retry[loc[w].seq] IN
    /\ pc[w] = "readState"
    /\ \/ r.status # "retrying" /\ Return(w)
       \/ StartClaim(w, r)
    /\ UNCHANGED <<store, faults>>

ReadState(w) ==
    LET r == retry[loc[w].seq] IN
    /\ pc[w] = "readState"
    /\ \/ r.status \in {"absent", "delivered", "action_required"} /\ Return(w)
       \/ r.status = "claimed" /\ ~r.lapsed /\ Return(w)
       \/ /\ r.status = "claimed" /\ r.lapsed
          /\ Goto(w, "fail")
          /\ loc' = [loc EXCEPT ![w] =
                [seq |-> @.seq, n |-> r.count, by |-> r.by,
                 code |-> "DELIVERY_CLAIM_EXPIRED", changes |-> 0, certain |-> TRUE]]
       \/ StartClaim(w, r)
    /\ UNCHANGED <<store, faults>>

ReadRecovered(w) ==
    LET r == retry[loc[w].seq] IN
    /\ pc[w] = "readRecovered"
    /\ \/ r.status # "retrying" /\ Return(w)
       \/ StartClaim(w, r)
    /\ UNCHANGED <<store, faults>>

\* CHECKPOINT_DELIVERY_CLAIM_SQL, a compare-and-set on attempt_count.
ClaimDelivery(w) ==
    LET s == loc[w].seq
        n == loc[w].n
    IN  /\ pc[w] = "claim"
        /\ Goto(w, "readClaim")
        /\ \/ /\ retry' = IF /\ retry[s].status = "retrying"
                             /\ retry[s].count = n - 1
                             /\ retry[s].due
                             /\ ~Delivered(s)
                          THEN [retry EXCEPT ![s] = [status |-> "claimed", count |-> n,
                                  by |-> w, due |-> FALSE, lapsed |-> FALSE]]
                          ELSE retry
              /\ UNCHANGED faults
           \/ Fault /\ UNCHANGED retry
        /\ UNCHANGED <<head, row, checkpointObjs, attempts, receiptObjs, posts,
                       witnessed, loc>>

\* Mutant: the claim's UPDATE is trusted without the exact-claim read.
ReadClaimTrusted(w) ==
    /\ pc[w] = "readClaim"
    /\ Goto(w, "head1")
    /\ UNCHANGED <<store, loc, faults>>

\* The exact-claim read decides whether this invocation owns the attempt.
ReadClaim(w) ==
    /\ pc[w] = "readClaim"
    /\ \/ HoldsClaim(w) /\ Goto(w, "head1") /\ UNCHANGED loc
       \/ ~HoldsClaim(w) /\ Return(w)
    /\ UNCHANGED <<store, faults>>

-----------------------------------------------------------------------------
(* attemptCheckpointDelivery.                                              *)

\* currentHeadMatchesCheckpoint, before and after the request.
CheckHead(w, here, next) ==
    /\ pc[w] = here
    /\ \/ head = loc[w].seq /\ Goto(w, next) /\ UNCHANGED loc
       \/ head # loc[w].seq /\ FailWith(w, "DELIVERY_FAILED")
    /\ UNCHANGED <<store, faults>>

\* verifyCheckpointCore: a committed envelope verifies exactly when its
\* object is still in the bucket.
VerifyCore(w) ==
    LET s == loc[w].seq IN
    /\ pc[w] = "core"
    /\ \/ <<s, row[s]>> \in checkpointObjs /\ Goto(w, "post") /\ UNCHANGED loc
       \/ <<s, row[s]>> \notin checkpointObjs /\ FailWith(w, "DELIVERY_FAILED")
    /\ UNCHANGED <<store, faults>>

\* The request is sent; the witness answers with a valid receipt, or the
\* request, the answer or its validation fails.
PostCheckpoint(w) ==
    /\ pc[w] = "post"
    /\ posts' = [posts EXCEPT ![loc[w].seq][loc[w].n] = @ + 1]
    /\ \/ /\ witnessed' = witnessed \union {AttemptId(w)}
          /\ Goto(w, "head2") /\ UNCHANGED loc
       \/ FailWith(w, "DELIVERY_FAILED") /\ UNCHANGED witnessed
    /\ UNCHANGED <<head, row, checkpointObjs, retry, attempts, receiptObjs, faults>>

\* A failed put is no proof that the object is absent.
PutReceipt(w) ==
    LET id == AttemptId(w) IN
    /\ pc[w] = "putReceipt"
    /\ \/ /\ receiptObjs' = receiptObjs \union {id}
          /\ Goto(w, "commit") /\ UNCHANGED <<loc, faults>>
       \/ /\ FailWith(w, "DELIVERY_FAILED") /\ UNCHANGED <<receiptObjs, faults>>
       \/ /\ Fault /\ FailWith(w, "DELIVERY_FAILED")
          /\ receiptObjs' \in {receiptObjs, receiptObjs \union {id}}
    /\ UNCHANGED <<head, row, checkpointObjs, retry, attempts, posts, witnessed>>

CommitDelivered(w) ==
    /\ pc[w] = "commit"
    /\ InsertAttempt(w, /\ HoldsClaim(w)
                        /\ head = loc[w].seq
                        /\ ~Delivered(loc[w].seq),
                     "delivered", "readDelivered")
    /\ UNCHANGED <<head, row, checkpointObjs, receiptObjs, posts, witnessed>>

\* classifyCheckpointDelivery over the delivered row of the checkpoint; with
\* none visible, or the read itself failed, the outcome is uncertain.
Committed(w) ==
    LET a == attempts[loc[w].seq][loc[w].n] IN
        a.outcome = "delivered" /\ a.by = loc[w].by

\* Mutant: any delivered row makes the candidate receipt a loser.
ProvenLoserAnyWinner(w) == Delivered(loc[w].seq)

ProvenLoser(w) == Delivered(loc[w].seq) /\ ~Committed(w)

Uncertain(w) ==
    \/ /\ ~loc[w].certain \/ loc[w].changes # 0
       /\ Return(w)
    \/ /\ loc[w].certain /\ loc[w].changes = 0
       /\ FailWith(w, "DELIVERY_COMMIT_PRECONDITION_FAILED")

ReadDelivered(w) ==
    /\ pc[w] = "readDelivered"
    /\ \/ Committed(w) /\ Return(w) /\ UNCHANGED faults
       \/ ProvenLoser(w) /\ Goto(w, "dropReceipt") /\ UNCHANGED <<loc, faults>>
       \/ ~Delivered(loc[w].seq) /\ Uncertain(w) /\ UNCHANGED faults
       \/ Fault /\ Uncertain(w)
    /\ UNCHANGED store

DropReceipt(w) ==
    /\ pc[w] = "dropReceipt"
    /\ Return(w)
    /\ \/ receiptObjs' = receiptObjs \ {AttemptId(w)} /\ UNCHANGED faults
       \/ Fault /\ UNCHANGED receiptObjs
    /\ UNCHANGED <<head, row, checkpointObjs, retry, attempts, posts, witnessed>>

-----------------------------------------------------------------------------
(* completeFailedClaim, for the worker's own claim or for a lapsed one.    *)

FailClaim(w) ==
    /\ pc[w] = "fail"
    /\ InsertAttempt(w, HoldsClaim(w) /\ ~Delivered(loc[w].seq), loc[w].code, "readFailed")
    /\ UNCHANGED <<head, row, checkpointObjs, receiptObjs, posts, witnessed>>

\* failedAttemptMatches: w's own insertion, with its own code.
FailureCommitted(w) ==
    LET a == attempts[loc[w].seq][loc[w].n] IN
        a.outcome = loc[w].code /\ a.from = w /\ a.by = loc[w].by
NotOwner(w) == ~FailureCommitted(w) /\ loc[w].certain /\ loc[w].changes = 0

ReadFailed(w) ==
    LET recovering == loc[w].code = "DELIVERY_CLAIM_EXPIRED"
        dropping   == loc[w].code = "DELIVERY_COMMIT_PRECONDITION_FAILED"
        resume     == recovering /\ (FailureCommitted(w) \/ NotOwner(w))
        drop       == dropping /\ FailureCommitted(w)
    IN  /\ pc[w] = "readFailed"
        /\ \/ resume /\ Goto(w, "readRecovered") /\ UNCHANGED loc
           \/ drop /\ Goto(w, "dropReceipt") /\ UNCHANGED loc
           \/ ~resume /\ ~drop /\ Return(w)
        /\ UNCHANGED <<store, faults>>

-----------------------------------------------------------------------------
(* The specification.                                                      *)

Step(w) ==
    \/ ReadHead(w) \/ LoadExisting(w) \/ PutCheckpoint(w) \/ InsertCheckpoint(w)
    \/ ReadWinner(w) \/ DeleteLoser(w) \/ CheckDelivered(w) \/ EnsureRetryState(w)
    \/ ReadState(w) \/ ReadRecovered(w) \/ ClaimDelivery(w) \/ ReadClaim(w)
    \/ CheckHead(w, "head1", "core") \/ VerifyCore(w) \/ PostCheckpoint(w)
    \/ CheckHead(w, "head2", "putReceipt") \/ PutReceipt(w) \/ CommitDelivered(w)
    \/ ReadDelivered(w) \/ DropReceipt(w) \/ FailClaim(w) \/ ReadFailed(w)

Next ==
    \/ AppendEvent
    \/ \E s \in Seqs : LapseLease(s) \/ BackoffElapses(s)
    \/ \E w \in Worker : Step(w) \/ Crash(w)

Spec == Init /\ [][Next]_vars

\* The scheduler fires every 15 minutes, an invocation that does not die
\* reaches its next await, and time passes.  Nothing makes events arrive.
Fairness ==
    /\ \A w \in Worker : WF_vars(Step(w))
    /\ \A s \in Seqs : WF_vars(LapseLease(s)) /\ WF_vars(BackoffElapses(s))
FairSpec == Spec /\ Fairness

-----------------------------------------------------------------------------
(* Properties.                                                             *)

\* The envelope of every committed checkpoint stays in R2: no worker that
\* lost the insertion race, or was told nothing about it, deletes the object
\* the winning row points to (createAuditCheckpoint's catch block).
CheckpointEnvelopeKept ==
    \A s \in Seqs : row[s] # NoWorker => <<s, row[s]>> \in checkpointObjs

\* The receipt of a delivered attempt stays in R2, and the witness did sign
\* for that attempt: the clean-up of race losers and of failed commits never
\* removes an object that a delivered row references.
DeliveredReceiptKept ==
    \A s \in Seqs, n \in 1..MaxAttempts :
        attempts[s][n].outcome = "delivered" =>
            <<s, n, attempts[s][n].by>> \in receiptObjs \intersect witnessed

\* What a committed row refers to in R2 is never deleted by a clean-up.
ReferencedObjectsKept == CheckpointEnvelopeKept /\ DeliveredReceiptKept

\* The retry row and the append-only attempt log tell the same story: every
\* claim ever taken has exactly one logged outcome, except the one in flight,
\* and the row is "delivered" exactly when the log says so.
LedgerAccountsForClaims ==
    \A s \in Seqs :
        /\ \A n \in 1..MaxAttempts :
             (attempts[s][n] # NoAttempt) <=>
                 \/ n < retry[s].count
                 \/ n = retry[s].count /\ retry[s].status # "claimed"
        /\ Delivered(s) <=> retry[s].status = "delivered"

\* The witness is contacted at most once per durable claim, so never more
\* than MaxAttempts times for a checkpoint, whatever crashes, lapses or lost
\* responses happen ("no hot duplicate-POST loop").
OnePostPerClaim ==
    \A s \in Seqs, n \in 1..MaxAttempts :
        /\ posts[s][n] <= 1
        /\ posts[s][n] = 1 => n <= retry[s].count

\* While an audit event stays the head, its checkpoint ends up delivered or
\* flagged for an operator: no crash or lapsed claim parks it for ever.
HeadCheckpointSettles ==
    \A s \in Seqs :
        (head = s) ~> (head # s \/ retry[s].status \in {"delivered", "action_required"})

-----------------------------------------------------------------------------
(* The inductive invariant behind the safety properties: what the locals   *)
(* of a worker say about the database while it is between two awaits.      *)

Owning == {"head1", "core", "post", "head2", "putReceipt", "commit"}
Own == {"claim", "readClaim", "readDelivered", "dropReceipt"} \union Owning
Failing == {"fail", "readFailed"}

LocalOK(w) ==
    /\ pc[w] # "idle" => loc[w].seq \in Seqs
    /\ pc[w] \in Own \union Failing => loc[w].n \in 1..MaxAttempts /\ loc[w].by \in Worker
    /\ pc[w] \in Own => loc[w].by = w
    /\ pc[w] \in Failing =>
          /\ loc[w].code \in FailureCodes
          /\ loc[w].code = "DELIVERY_COMMIT_PRECONDITION_FAILED" => loc[w].by = w
LocalsInv == \A w \in Worker : LocalOK(w)

RetryInv ==
    \A s \in Seqs :
        /\ retry[s].status = "absent" => retry[s].count = 0
        /\ retry[s].status = "claimed" => retry[s].count > 0 /\ retry[s].by \in Worker

\* A losing candidate is deleted only once another row has won.
EnvelopeInv ==
    /\ CheckpointEnvelopeKept
    /\ \A w \in Worker :
          /\ pc[w] = "insert" => <<loc[w].seq, w>> \in checkpointObjs
          /\ pc[w] = "deleteLoser" => row[loc[w].seq] \notin {w, NoWorker}

\* w is on its way to the request for its claim; claims not yet taken have
\* not been posted, and neither has the claim w is about to post.
BeforePost(w) == pc[w] \in {"head1", "core", "post"}
PostInv ==
    /\ \A s \in Seqs, n \in 1..MaxAttempts :
          posts[s][n] <= 1 /\ (n > retry[s].count => posts[s][n] = 0)
    /\ \A w \in Worker :
          LET s == loc[w].seq
              n == loc[w].n
          IN  /\ pc[w] = "claim" =>
                    n <= retry[s].count + 1 /\ ~(n = retry[s].count /\ retry[s].by = w)
              /\ pc[w] = "readClaim" /\ HoldsClaim(w) => posts[s][n] = 0
              /\ BeforePost(w) =>
                    /\ posts[s][n] = 0
                    /\ n <= retry[s].count
                    /\ n = retry[s].count => retry[s].by = w
                    /\ \A v \in Worker \ {w} :
                         BeforePost(v) => <<loc[v].seq, loc[v].n>> # <<s, n>>

\* A receipt is dropped only when no delivered row can refer to it.
ReceiptInv ==
    /\ DeliveredReceiptKept
    /\ \A w \in Worker :
          /\ pc[w] \in {"head2", "putReceipt", "commit"} => AttemptId(w) \in witnessed
          /\ pc[w] = "commit" => AttemptId(w) \in receiptObjs
          /\ pc[w] = "dropReceipt" => ~Committed(w)

IInv == /\ TypeOK /\ LocalsInv /\ RetryInv
        /\ LedgerAccountsForClaims /\ EnvelopeInv /\ PostInv /\ ReceiptInv
=============================================================================
