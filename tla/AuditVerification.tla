------------------------- MODULE AuditVerification -------------------------
(* The audit page and the readiness check over a ledger that keeps growing: *)
(* verifyAuditChain (lib/server/audit.ts) with its cached verdict, and the  *)
(* reads of the newest checkpoint it shares with getLatestAuditCheckpoint   *)
(* (lib/server/checkpoints.ts).                                             *)
(*                                                                          *)
(* The ledger is AuditLedger, step for step.  Checkpoints are what          *)
(* CheckpointDelivery leaves of them: a row per anchored sequence and how   *)
(* its delivery stands.  A verification reads, in transactions of their own,*)
(* the head, the newest checkpoint, that checkpoint again, its delivered    *)
(* attempt and the events behind it page by page; appends, checkpoints and  *)
(* deliveries happen in between.  Nothing is ever tampered with here, so    *)
(* every alarm is the reads' own doing.                                     *)
EXTENDS AuditLedger, FiniteSetsExt

CONSTANTS
    Verifier,        \* requests and scheduled checks that verify
    MaximumEvents,   \* events a verification reads at most (10 000)
    Page             \* events per read (500)

ASSUME VerificationAssumption ==
    MaximumEvents \in Nat /\ Page \in Nat \ {0} /\ IsFiniteSet(Client)

VARIABLES
    delivery,   \* audit_checkpoints by sequence, and how delivery stands
    cache,      \* auditVerificationCache: one verdict under its key
    at,         \* where each verifier stands
    seen,       \* what its reads returned
    answer,     \* what its last verification told its caller
    unsettled   \* did the newest checkpoint change, or lack its delivery,
                \* at any moment of the call

verification == <<delivery, cache, at, seen, answer, unsettled>>
allVars == <<vars, verification>>

Sequences == 1..(Cardinality(Client) * MaxCalls)
NoVerdict == [reason |-> "none", checked |-> 0]
NoEntry == [key |-> <<>>, verdict |-> NoVerdict]
Reasons == {"valid", "checkpoint_invalid", "chain_mismatch", "verification_limit_exceeded"}

\* A call that began at some head, and the checkpoint it rests on, if any.
Since(head, anchor) ==
    [head |-> head, anchor |-> anchor, delivered |-> FALSE, row |-> 0, verified |-> 0]

Newest(d) == Max({n \in Sequences : d[n] # "none"} \union {0})
Delivered(d, n) == n # 0 /\ d[n] = "delivered"

VerificationTypeOK ==
    /\ TypeOK
    /\ delivery \in [Sequences -> {"none", "pending", "delivered"}]
    /\ at \in [Verifier -> {"idle", "anchor", "row", "attempt", "count", "page"}]
    /\ \A v \in Verifier :
          /\ answer[v] = NoVerdict \/ answer[v].reason \in Reasons
          /\ seen[v].anchor \in Sequences \union {0}

VerificationInit ==
    /\ Init
    /\ delivery = [n \in Sequences |-> "none"]
    /\ cache = NoEntry
    /\ at = [v \in Verifier |-> "idle"]
    /\ seen = [v \in Verifier |-> Since(0, 0)]
    /\ answer = [v \in Verifier |-> NoVerdict]
    /\ unsettled = [v \in Verifier |-> FALSE]

-----------------------------------------------------------------------------
(* Checkpoints, as far as a reader of the tables can tell.                  *)

\* Every call under way sees that the newest checkpoint changed or is not
\* delivered; v's own call begins now.
Watch(d) ==
    unsettled' = [v \in Verifier |->
        \/ unsettled[v]
        \/ Newest(d) # Newest(delivery)
        \/ Newest(d) # 0 /\ ~Delivered(d, Newest(d))]

SetDelivery(n, status) ==
    /\ delivery' = [delivery EXCEPT ![n] = status]
    /\ Watch(delivery')
    /\ UNCHANGED <<vars, cache, at, seen, answer>>

\* createAuditCheckpoint anchors the head it read, however long ago; the
\* sequence of a checkpoint is unique.
CreateCheckpoint(n) ==
    /\ n <= Len(log) /\ delivery[n] = "none"
    /\ SetDelivery(n, "pending")

\* A delivered attempt is inserted only while its checkpoint is the head;
\* failed ones leave nothing a verification would see.
DeliverCheckpoint(n) ==
    /\ n = Len(log) /\ delivery[n] = "pending"
    /\ SetDelivery(n, "delivered")

-----------------------------------------------------------------------------
(* verifyAuditChain.                                                        *)

Reads(v, where, record) ==
    /\ at' = [at EXCEPT ![v] = where]
    /\ seen' = [seen EXCEPT ![v] = record]
    /\ UNCHANGED <<vars, delivery>>

Tell(v, verdict) ==
    /\ answer' = [answer EXCEPT ![v] = verdict]
    /\ UNCHANGED unsettled

\* Mutant: the key leaves out the delivered attempt.
KeyWithoutDelivery(s) == <<s.head, s.anchor>>

\* Head and checkpoint stand for their hashes.
Key(s) == <<s.head, s.anchor, s.delivered>>

\* finish: the verdict is cached under the key of the reads it began with.
Finished(v, reason, checked) ==
    LET verdict == [reason |-> reason, checked |-> checked]
    IN  /\ cache' = [key |-> Key(seen[v]), verdict |-> verdict]
        /\ Reads(v, "idle", Since(seen[v].head, seen[v].anchor))
        /\ Tell(v, verdict)

\* The call begins with the read of the chain head.
Ask(v) ==
    /\ at[v] = "idle"
    /\ Reads(v, "anchor", Since(Len(log), 0))
    /\ unsettled' = [unsettled EXCEPT ![v] =
                        Newest(delivery) # 0 /\ ~Delivered(delivery, Newest(delivery))]
    /\ answer' = [answer EXCEPT ![v] = NoVerdict]
    /\ UNCHANGED cache

\* The newest checkpoint joined with its delivered attempt: all the key needs.
AnchorRead(v) ==
    [seen[v] EXCEPT !.anchor = Newest(delivery),
                    !.delivered = Delivered(delivery, Newest(delivery))]

AnswerFromCache(v) ==
    /\ at[v] = "anchor" /\ cache.key = Key(AnchorRead(v))
    /\ Reads(v, "idle", Since(seen[v].head, Newest(delivery)))
    /\ Tell(v, cache.verdict)
    /\ UNCHANGED cache

ReadAnchor(v) ==
    /\ at[v] = "anchor" /\ cache.key # Key(AnchorRead(v))
    /\ Reads(v, IF Newest(delivery) = 0 THEN "count" ELSE "row", AnchorRead(v))
    /\ UNCHANGED <<cache, answer, unsettled>>

\* verifyLatestAuditCheckpoint looks for the newest row again.
LoadRow(v) ==
    /\ at[v] = "row"
    /\ Reads(v, "attempt", [seen[v] EXCEPT !.row = Newest(delivery)])
    /\ UNCHANGED <<cache, answer, unsettled>>

\* The delivered attempt of that row verifies: CheckpointDelivery keeps its
\* receipt and the checkpoint's envelope.
VerifyAttempt(v) ==
    /\ at[v] = "attempt"
    /\ IF Delivered(delivery, seen[v].row) /\ seen[v].row = seen[v].anchor
       THEN Reads(v, "count", seen[v]) /\ UNCHANGED <<cache, answer, unsettled>>
       ELSE Finished(v, "checkpoint_invalid", 0)

CountTail(v) ==
    /\ at[v] = "count"
    /\ IF Len(log) - seen[v].anchor > MaximumEvents
       THEN Finished(v, "verification_limit_exceeded", seen[v].anchor)
       ELSE Reads(v, "page", seen[v]) /\ UNCHANGED <<cache, answer, unsettled>>

LinkHolds(n) == log[n].prev = IF n = 1 THEN Genesis ELSE EventId(log[n - 1])

\* One page of the loop; an empty page or a spent limit ends it.
VerifyPage(v) ==
    LET after == seen[v].anchor + seen[v].verified
        last == Min({after + Page, Len(log)})
    IN  /\ at[v] = "page"
        /\ IF last = after \/ seen[v].verified >= MaximumEvents
           THEN Finished(v, "valid", after)
           ELSE IF \A n \in (after + 1)..last : LinkHolds(n)
           THEN /\ Reads(v, "page", [seen[v] EXCEPT !.verified = @ + last - after])
                /\ UNCHANGED <<cache, answer, unsettled>>
           ELSE Finished(v, "chain_mismatch", after)

\* The cached verdict outlives its 30 seconds.
ExpireVerdict ==
    /\ cache # NoEntry
    /\ cache' = NoEntry
    /\ UNCHANGED <<vars, delivery, at, seen, answer, unsettled>>

Verify(v) ==
    \/ Ask(v) \/ AnswerFromCache(v) \/ ReadAnchor(v)
    \/ LoadRow(v) \/ VerifyAttempt(v) \/ CountTail(v) \/ VerifyPage(v)

VerificationNext ==
    \/ Next /\ UNCHANGED verification
    \/ \E n \in Sequences : CreateCheckpoint(n) \/ DeliverCheckpoint(n)
    \/ \E v \in Verifier : Verify(v)
    \/ ExpireVerdict

VerificationSpec == VerificationInit /\ [][VerificationNext]_allVars

-----------------------------------------------------------------------------
(* Properties.                                                              *)

\* "Valid" covers every event that was there when the caller asked, and rests
\* on a checkpoint an independent witness holds.
ValidCoversTheChain(v) ==
    answer[v].reason = "valid" =>
        /\ answer[v].checked \in seen[v].head..Len(log)
        /\ seen[v].anchor # 0 => Delivered(delivery, seen[v].anchor)

\* An untouched chain raises no alarm, but for a checkpoint that was created
\* or not yet delivered while the caller waited, or a tail that is too long.
AlarmsHaveACause(v) ==
    /\ answer[v].reason # "chain_mismatch"
    /\ answer[v].reason = "checkpoint_invalid" => unsettled[v]
    /\ answer[v].reason = "verification_limit_exceeded" =>
           Len(log) - seen[v].anchor > MaximumEvents

\* A verdict is true of the call it is given to, although it may have been
\* reached by another call up to 30 seconds earlier and although the
\* checkpoint is read twice (verifyAuditChain, audit.ts): a false alarm of one
\* call is never served to a call that began after its cause was gone.
VerdictsAreTrue ==
    /\ VerificationTypeOK
    /\ \A v \in Verifier :
          at[v] = "idle" => ValidCoversTheChain(v) /\ AlarmsHaveACause(v)
=============================================================================
