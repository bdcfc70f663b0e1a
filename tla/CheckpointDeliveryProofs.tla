---------------------- MODULE CheckpointDeliveryProofs ----------------------
(* Theorems about CheckpointDelivery, for any number of workers, events,   *)
(* attempts and faults.                                                    *)
(*                                                                         *)
(* The inductive invariant is IInv of CheckpointDelivery.  LocalsInv ties  *)
(* the claim in a worker's locals to its position in the code; Log is      *)
(* RetryInv /\ LedgerAccountsForClaims; EnvelopeInv, ReceiptInv and PostInv *)
(* say which objects and which requests a worker between two awaits may    *)
(* still touch.  A step is split into its effect on the acting worker's    *)
(* control state (Control, OthersStay) and its effect on the attempt log   *)
(* and retry rows (LogEffect, Calm).                                       *)
EXTENDS CheckpointDelivery, TLAPS

\* A step of w changes only w's control state, and keeps it well typed.
Control(w) ==
    /\ pc' \in [Worker -> Steps]
    /\ loc' \in [Worker -> Locals]
    /\ \A v \in Worker \ {w} : pc'[v] = pc[v] /\ loc'[v] = loc[v]

\* Moving to the next await changes nobody else's control state.
LEMMA GotoControl ==
    ASSUME TypeOK, NEW w \in Worker, NEW st \in Steps, Goto(w, st), UNCHANGED loc
    PROVE  Control(w) /\ pc'[w] = st /\ loc'[w] = loc[w]
BY DEF TypeOK, Goto, Control

\* An invocation that ends changes nobody else's control state.
LEMMA ReturnControl ==
    ASSUME CheckpointAssumption, TypeOK, NEW w \in Worker, Return(w)
    PROVE  Control(w) /\ pc'[w] = "idle"
<1>1. NoLocals \in Locals
  BY DEF CheckpointAssumption, NoLocals, LocalsFor, Locals, MaybeWorker
<1>2. "idle" \in Steps
  BY DEF Steps
<1> QED BY <1>1, <1>2 DEF TypeOK, Return, Goto, Control

\* Leaving for completeFailedClaim keeps the claim at hand.
LEMMA FailControl ==
    ASSUME TypeOK, NEW w \in Worker, NEW code \in FailureCodes, FailWith(w, code)
    PROVE  /\ Control(w)
           /\ pc'[w] = "fail"
           /\ loc'[w].seq = loc[w].seq /\ loc'[w].n = loc[w].n /\ loc'[w].by = loc[w].by
           /\ loc'[w].code = code
<1>1. [loc[w] EXCEPT !.code = code, !.changes = 0, !.certain = TRUE] \in Locals
  <2>1. loc[w] \in Locals /\ code \in {"none"} \union FailureCodes /\ 0 \in 0..1 /\ TRUE \in BOOLEAN
    BY DEF TypeOK
  <2> QED BY <2>1 DEF Locals
<1>2. "fail" \in Steps
  BY DEF Steps
<1>3. loc' = [loc EXCEPT ![w] = [loc[w] EXCEPT !.code = code, !.changes = 0, !.certain = TRUE]]
  BY DEF FailWith
<1>4. loc'[w] = [loc[w] EXCEPT !.code = code, !.changes = 0, !.certain = TRUE]
  BY <1>3 DEF TypeOK
<1>5. Control(w) /\ pc'[w] = "fail"
  BY <1>1, <1>2, <1>3 DEF TypeOK, FailWith, Goto, Control
<1> QED BY <1>4, <1>5 DEF TypeOK, Locals

\* What an INSERT reports keeps the claim at hand.
LEMMA ReportControl ==
    ASSUME TypeOK, NEW w \in Worker, NEW st \in Steps, Goto(w, st),
           NEW changes \in 0..1, NEW certain \in BOOLEAN, Report(w, changes, certain)
    PROVE  /\ Control(w)
           /\ pc'[w] = st
           /\ loc'[w].seq = loc[w].seq /\ loc'[w].n = loc[w].n /\ loc'[w].by = loc[w].by
           /\ loc'[w].code = loc[w].code
<1>1. [loc[w] EXCEPT !.changes = changes, !.certain = certain] \in Locals
  BY DEF TypeOK, Locals
<1>3. loc' = [loc EXCEPT ![w] = [loc[w] EXCEPT !.changes = changes, !.certain = certain]]
  BY DEF Report
<1>4. loc'[w] = [loc[w] EXCEPT !.changes = changes, !.certain = certain]
  BY <1>3 DEF TypeOK
<1>5. Control(w) /\ pc'[w] = st
  BY <1>1, <1>3 DEF TypeOK, Goto, Control
<1> QED BY <1>4, <1>5 DEF TypeOK, Locals

\* Logging an outcome keeps the attempt log and the retry rows well typed.
LEMMA RecordAttemptType ==
    ASSUME CheckpointAssumption, TypeOK,
           NEW w \in Worker, loc[w].seq \in Seqs, loc[w].n \in 1..MaxAttempts,
           NEW outcome \in {"delivered"} \union FailureCodes,
           RecordAttempt(w, outcome)
    PROVE  /\ attempts' \in [Seqs -> [1..MaxAttempts -> Attempt]]
           /\ retry' \in [Seqs -> RetryRow]
<1> DEFINE s == loc[w].seq
           n == loc[w].n
           a == [by |-> loc[w].by, outcome |-> outcome, from |-> w]
           status == IF outcome = "delivered" THEN "delivered"
                     ELSE IF retry[s].count >= MaxAttempts THEN "action_required"
                     ELSE "retrying"
           row1 == [retry[s] EXCEPT !.status = status, !.lapsed = FALSE]
<1>1. a \in Attempt
  BY DEF TypeOK, Locals, Attempt, MaybeWorker
<1>2. status \in {"delivered", "action_required", "retrying"}
  OBVIOUS
<1>3. attempts' = [attempts EXCEPT ![s][n] = a]
  BY DEF RecordAttempt
<1>4. retry' = [retry EXCEPT ![s] = row1]
  BY DEF RecordAttempt
<1>5. attempts' \in [Seqs -> [1..MaxAttempts -> Attempt]]
  <2>1. attempts[s] \in [1..MaxAttempts -> Attempt]
    BY DEF TypeOK
  <2>2. [attempts[s] EXCEPT ![n] = a] \in [1..MaxAttempts -> Attempt]
    BY <1>1, <2>1
  <2>3. attempts' = [attempts EXCEPT ![s] = [attempts[s] EXCEPT ![n] = a]]
    BY <1>3
  <2>4. attempts \in [Seqs -> [1..MaxAttempts -> Attempt]] /\ s \in Seqs
    BY DEF TypeOK
  <2> DEFINE b == [attempts[s] EXCEPT ![n] = a]
  <2> HIDE DEF a, n, s, b
  <2> QED BY <2>2, <2>3, <2>4 DEF b
<1>6. row1 \in RetryRow
  <2>1. retry[s] \in RetryRow
    BY DEF TypeOK
  <2> HIDE DEF status, s
  <2> QED BY <1>2, <2>1 DEF RetryRow
<1>7. retry' \in [Seqs -> RetryRow]
  <2> HIDE DEF row1
  <2> QED BY <1>6, <1>4 DEF TypeOK
<1> QED BY <1>5, <1>7

\* A step of w needs LocalOK to be re-established for w only.
LEMMA LocalsFrame ==
    ASSUME LocalsInv, NEW w \in Worker, Control(w), LocalOK(w)'
    PROVE  LocalsInv'
BY DEF LocalsInv, LocalOK, Control

\* A step of w that leaves the store alone keeps every variable's type.
LEMMA StoreFrame ==
    ASSUME TypeOK, NEW w \in Worker, Control(w), UNCHANGED store, faults' \in 0..MaxFaults
    PROVE  TypeOK'
BY DEF TypeOK, Control, store

\* A fault keeps the fault count within its bound.
LEMMA FaultType ==
    ASSUME CheckpointAssumption, TypeOK, Fault
    PROVE  faults' \in 0..MaxFaults
BY DEF CheckpointAssumption, TypeOK, Fault

\* The claim StartClaim prepares is the next one and belongs to w.
LEMMA StartControl ==
    ASSUME CheckpointAssumption, TypeOK, NEW w \in Worker, LocalOK(w), pc[w] # "idle",
           StartClaim(w, retry[loc[w].seq])
    PROVE  Control(w) /\ LocalOK(w)'
<1> DEFINE r == retry[loc[w].seq]
<1> USE DEF Own, Owning, Failing
<1>1. r \in RetryRow /\ loc[w] \in Locals /\ loc[w].seq \in Seqs
  BY DEF LocalOK, TypeOK
<1>2. CASE Return(w)
  BY <1>2, ReturnControl DEF LocalOK
<1>3. CASE /\ r.status = "retrying" /\ r.count < MaxAttempts /\ r.due
           /\ Goto(w, "claim")
           /\ loc' = [loc EXCEPT ![w] = [@ EXCEPT !.n = r.count + 1, !.by = w]]
  <2> DEFINE l == [loc[w] EXCEPT !.n = r.count + 1, !.by = w]
  <2>1. r.count + 1 \in 1..MaxAttempts /\ r.count + 1 \in 0..MaxAttempts
    BY <1>1, <1>3 DEF RetryRow, CheckpointAssumption
  <2>2. w \in MaybeWorker
    BY DEF MaybeWorker
  <2> HIDE DEF r
  <2>3. l \in Locals /\ l.seq = loc[w].seq /\ l.n = r.count + 1 /\ l.by = w
    BY <1>1, <2>1, <2>2 DEF Locals
  <2>4. loc' = [loc EXCEPT ![w] = l]
    BY <1>3
  <2> HIDE DEF l
  <2>5. Control(w) /\ pc'[w] = "claim" /\ loc'[w] = l
    BY <1>3, <2>3, <2>4 DEF Control, Goto, TypeOK, Steps
  <2> QED BY <1>1, <2>1, <2>3, <2>5 DEF LocalOK
<1> QED BY <1>2, <1>3 DEF StartClaim

\* The conditional INSERT keeps every type and the claim at hand, whatever it
\* reports.
LEMMA InsertAttemptType ==
    ASSUME CheckpointAssumption, TypeOK, NEW w \in Worker,
           loc[w].seq \in Seqs, loc[w].n \in 1..MaxAttempts,
           NEW enabled, NEW outcome \in {"delivered"} \union FailureCodes, NEW st \in Steps,
           InsertAttempt(w, enabled, outcome, st),
           UNCHANGED <<head, row, checkpointObjs, receiptObjs, posts, witnessed>>
    PROVE  /\ TypeOK' /\ Control(w) /\ pc'[w] = st
           /\ loc'[w].seq = loc[w].seq /\ loc'[w].n = loc[w].n /\ loc'[w].by = loc[w].by
           /\ loc'[w].code = loc[w].code
<1>1. Goto(w, st) /\ (Report(w, 1, TRUE) \/ Report(w, 0, FALSE) \/ Report(w, 0, TRUE))
  BY DEF InsertAttempt
<1>2. /\ Control(w) /\ pc'[w] = st
      /\ loc'[w].seq = loc[w].seq /\ loc'[w].n = loc[w].n /\ loc'[w].by = loc[w].by
      /\ loc'[w].code = loc[w].code
  <2>1. ASSUME NEW c \in 0..1, NEW b \in BOOLEAN, Report(w, c, b)
        PROVE  /\ Control(w) /\ pc'[w] = st
               /\ loc'[w].seq = loc[w].seq /\ loc'[w].n = loc[w].n /\ loc'[w].by = loc[w].by
               /\ loc'[w].code = loc[w].code
    BY <1>1, <2>1, ReportControl
  <2>2. 0 \in 0..1 /\ 1 \in 0..1 /\ TRUE \in BOOLEAN /\ FALSE \in BOOLEAN
    OBVIOUS
  <2> QED BY <1>1, <2>1, <2>2
<1>3. RecordAttempt(w, outcome) \/ UNCHANGED <<attempts, retry>>
  BY DEF InsertAttempt
<1>4. attempts' \in [Seqs -> [1..MaxAttempts -> Attempt]] /\ retry' \in [Seqs -> RetryRow]
  BY <1>3, RecordAttemptType DEF TypeOK
<1>5. faults' \in 0..MaxFaults
  BY FaultType DEF InsertAttempt, TypeOK
<1> QED BY <1>2, <1>4, <1>5 DEF TypeOK, Control

\* Every step of an invocation keeps the types and LocalsInv.
LEMMA TypeStep ==
    ASSUME CheckpointAssumption, TypeOK, LocalsInv, RetryInv, NEW w \in Worker, Step(w)
    PROVE  TypeOK' /\ LocalsInv'
<1> USE DEF Own, Owning, Failing, FailureCodes, Steps
<1>1. CASE ReadHead(w)
  <2>1. Control(w) /\ pc'[w] = "load" /\ loc'[w].seq \in Seqs
    <3>1. head \in Seqs /\ LocalsFor(head) \in Locals /\ LocalsFor(head).seq = head
      BY <1>1 DEF ReadHead, TypeOK, Seqs, MaybeWorker, CheckpointAssumption, Locals, LocalsFor
    <3>2. loc' = [loc EXCEPT ![w] = LocalsFor(head)] /\ Goto(w, "load")
      BY <1>1 DEF ReadHead
    <3> QED BY <3>1, <3>2 DEF Control, Goto, TypeOK
  <2>2. LocalsInv'
    <3>2. LocalOK(w)'
      BY <2>1 DEF LocalOK
    <3> QED BY <2>1, <3>2, LocalsFrame
  <2> QED BY <1>1, <2>1, <2>2 DEF ReadHead, store, TypeOK, Control
<1>2. CASE LoadExisting(w)
  <2>1. Control(w) /\ pc'[w] \in {"attempt", "put"} /\ loc'[w] = loc[w]
    BY <1>2, GotoControl DEF LoadExisting
  <2>2. LocalsInv'
    <3>1. LocalOK(w) /\ pc[w] # "idle"
      BY <1>2 DEF LocalsInv, LoadExisting
    <3>2. LocalOK(w)'
      BY <2>1, <3>1 DEF LocalOK
    <3> QED BY <2>1, <3>2, LocalsFrame
  <2> QED BY <1>2, <2>1, <2>2 DEF LoadExisting, store, TypeOK, Control
<1>3. CASE PutCheckpoint(w)
  <2>1. Control(w) /\ (pc'[w] = "idle" \/ (pc'[w] = "insert" /\ loc'[w] = loc[w]))
    BY <1>3, GotoControl, ReturnControl DEF PutCheckpoint
  <2>2. LocalsInv'
    <3>1. LocalOK(w) /\ pc[w] # "idle"
      BY <1>3 DEF LocalsInv, PutCheckpoint
    <3>2. LocalOK(w)'
      BY <2>1, <3>1 DEF LocalOK
    <3> QED BY <2>1, <3>2, LocalsFrame
  <2>3. checkpointObjs' \subseteq Seqs \X Worker
    <3>1. <<loc[w].seq, w>> \in Seqs \X Worker
      BY <1>3 DEF PutCheckpoint, LocalsInv, LocalOK
    <3>2. checkpointObjs' \in {checkpointObjs, checkpointObjs \union {<<loc[w].seq, w>>}}
      BY <1>3 DEF PutCheckpoint
    <3> QED BY <3>1, <3>2 DEF TypeOK
  <2>4. faults' \in 0..MaxFaults
    BY <1>3 DEF PutCheckpoint, TypeOK, LocalsInv, LocalOK, Fault, RetryRow, NoRetryRow, MaybeWorker, CheckpointAssumption
  <2> QED BY <1>3, <2>1, <2>2, <2>3, <2>4 DEF PutCheckpoint, store, TypeOK, Control
<1>4. CASE InsertCheckpoint(w)
  <2>1. Control(w) /\ pc'[w] \in {"attempt", "readWinner"} /\ loc'[w] = loc[w]
    BY <1>4, GotoControl DEF InsertCheckpoint
  <2>2. LocalsInv'
    <3>1. LocalOK(w) /\ pc[w] # "idle"
      BY <1>4 DEF LocalsInv, InsertCheckpoint
    <3>2. LocalOK(w)'
      BY <2>1, <3>1 DEF LocalOK
    <3> QED BY <2>1, <3>2, LocalsFrame
  <2>3. row' \in [Seqs -> MaybeWorker]
    BY <1>4 DEF InsertCheckpoint, TypeOK, LocalsInv, LocalOK, Fault, RetryRow, NoRetryRow, MaybeWorker, CheckpointAssumption
  <2>4. faults' \in 0..MaxFaults
    BY <1>4 DEF InsertCheckpoint, TypeOK, LocalsInv, LocalOK, Fault, RetryRow, NoRetryRow, MaybeWorker, CheckpointAssumption
  <2> QED BY <1>4, <2>1, <2>2, <2>3, <2>4 DEF InsertCheckpoint, store, TypeOK, Control
<1>5. CASE ReadWinner(w)
  <2>1. Control(w) /\ (pc'[w] = "idle" \/ (pc'[w] \in {"attempt", "deleteLoser"} /\ loc'[w] = loc[w]))
    BY <1>5, GotoControl, ReturnControl DEF ReadWinner
  <2>2. LocalsInv'
    <3>1. LocalOK(w) /\ pc[w] # "idle"
      BY <1>5 DEF LocalsInv, ReadWinner
    <3>2. LocalOK(w)'
      BY <2>1, <3>1 DEF LocalOK
    <3> QED BY <2>1, <3>2, LocalsFrame
  <2> QED BY <1>5, <2>1, <2>2 DEF ReadWinner, store, TypeOK, Control
<1>6. CASE DeleteLoser(w)
  <2>1. Control(w) /\ (pc'[w] = "idle" \/ (pc'[w] = "attempt" /\ loc'[w] = loc[w]))
    BY <1>6, GotoControl, ReturnControl DEF DeleteLoser
  <2>2. LocalsInv'
    <3>1. LocalOK(w) /\ pc[w] # "idle"
      BY <1>6 DEF LocalsInv, DeleteLoser
    <3>2. LocalOK(w)'
      BY <2>1, <3>1 DEF LocalOK
    <3> QED BY <2>1, <3>2, LocalsFrame
  <2>3. checkpointObjs' \subseteq Seqs \X Worker
    BY <1>6 DEF DeleteLoser, TypeOK, LocalsInv, LocalOK, Fault, RetryRow, NoRetryRow, MaybeWorker, CheckpointAssumption
  <2>4. faults' \in 0..MaxFaults
    BY <1>6 DEF DeleteLoser, TypeOK, LocalsInv, LocalOK, Fault, RetryRow, NoRetryRow, MaybeWorker, CheckpointAssumption
  <2> QED BY <1>6, <2>1, <2>2, <2>3, <2>4 DEF DeleteLoser, store, TypeOK, Control
<1>7. CASE CheckDelivered(w)
  <2>1. Control(w) /\ (pc'[w] = "idle" \/ (pc'[w] = "ensure" /\ loc'[w] = loc[w]))
    BY <1>7, GotoControl, ReturnControl DEF CheckDelivered
  <2>2. LocalsInv'
    <3>1. LocalOK(w) /\ pc[w] # "idle"
      BY <1>7 DEF LocalsInv, CheckDelivered
    <3>2. LocalOK(w)'
      BY <2>1, <3>1 DEF LocalOK
    <3> QED BY <2>1, <3>2, LocalsFrame
  <2> QED BY <1>7, <2>1, <2>2 DEF CheckDelivered, store, TypeOK, Control
<1>8. CASE EnsureRetryState(w)
  <2>1. Control(w) /\ pc'[w] = "readState" /\ loc'[w] = loc[w]
    BY <1>8, GotoControl DEF EnsureRetryState
  <2>2. LocalsInv'
    <3>1. LocalOK(w) /\ pc[w] # "idle"
      BY <1>8 DEF LocalsInv, EnsureRetryState
    <3>2. LocalOK(w)'
      BY <2>1, <3>1 DEF LocalOK
    <3> QED BY <2>1, <3>2, LocalsFrame
  <2>3. retry' \in [Seqs -> RetryRow]
    <3>1. NewRetryRow \in RetryRow
      BY DEF NewRetryRow, RetryRow, MaybeWorker, CheckpointAssumption
    <3>2. retry' \in {retry, [retry EXCEPT ![loc[w].seq] = NewRetryRow]}
      BY <1>8 DEF EnsureRetryState
    <3> QED BY <3>1, <3>2 DEF TypeOK
  <2>4. faults' \in 0..MaxFaults
    BY <1>8 DEF EnsureRetryState, TypeOK, LocalsInv, LocalOK, Fault, RetryRow, NoRetryRow, MaybeWorker, CheckpointAssumption
  <2> QED BY <1>8, <2>1, <2>2, <2>3, <2>4 DEF EnsureRetryState, store, TypeOK, Control
<1>9. CASE ReadState(w)
  <2> DEFINE r == retry[loc[w].seq]
  <2>1. LocalOK(w) /\ loc[w].seq \in Seqs /\ r \in RetryRow /\ loc[w] \in Locals
    BY <1>9 DEF ReadState, LocalsInv, LocalOK, TypeOK
  <2>2. ASSUME Return(w) PROVE Control(w) /\ LocalOK(w)'
    BY <2>2, ReturnControl DEF LocalOK
  <2>3. ASSUME StartClaim(w, r) PROVE Control(w) /\ LocalOK(w)'
    BY <1>9, <2>1, <2>3, StartControl DEF ReadState
  <2> DEFINE l == [seq |-> loc[w].seq, n |-> r.count, by |-> r.by,
                   code |-> "DELIVERY_CLAIM_EXPIRED", changes |-> 0, certain |-> TRUE]
  <2>4. ASSUME r.status = "claimed", Goto(w, "fail"), loc' = [loc EXCEPT ![w] = l]
        PROVE  Control(w) /\ LocalOK(w)'
    <3>1. r.count \in 1..MaxAttempts /\ r.count \in 0..MaxAttempts /\ r.by \in Worker /\ r.by \in MaybeWorker
      BY <2>1, <2>4 DEF RetryInv, RetryRow, CheckpointAssumption
    <3>2. l \in Locals
      BY <2>1, <3>1 DEF Locals
    <3>3. l.seq \in Seqs /\ l.n \in 1..MaxAttempts /\ l.by \in Worker /\ l.code = "DELIVERY_CLAIM_EXPIRED"
      BY <2>1, <3>1
    <3> HIDE DEF l
    <3>4. Control(w) /\ pc'[w] = "fail" /\ loc'[w] = l
      BY <2>4, <3>2 DEF Control, Goto, TypeOK
    <3> QED BY <3>3, <3>4 DEF LocalOK
  <2>5. Control(w) /\ LocalOK(w)'
    BY <1>9, <2>2, <2>3, <2>4 DEF ReadState
  <2>6. UNCHANGED <<store, faults>>
    BY <1>9 DEF ReadState
  <2> QED BY <2>5, <2>6, LocalsFrame, StoreFrame DEF TypeOK
<1>10. CASE ReadRecovered(w)
  <2>1. LocalOK(w)
    BY DEF LocalsInv
  <2>2. Control(w) /\ LocalOK(w)'
    <3>1. CASE Return(w)
      BY <3>1, ReturnControl DEF LocalOK
    <3>2. CASE StartClaim(w, retry[loc[w].seq])
      BY <1>10, <2>1, <3>2, StartControl DEF ReadRecovered
    <3> QED BY <1>10, <3>1, <3>2 DEF ReadRecovered
  <2>3. UNCHANGED <<store, faults>>
    BY <1>10 DEF ReadRecovered
  <2> QED BY <2>2, <2>3, LocalsFrame, StoreFrame DEF TypeOK
<1>11. CASE ClaimDelivery(w)
  <2> DEFINE s == loc[w].seq
             n == loc[w].n
             claimed == [status |-> "claimed", count |-> n, by |-> w, due |-> FALSE, lapsed |-> FALSE]
  <2>1. LocalOK(w) /\ pc[w] = "claim"
    BY <1>11 DEF ClaimDelivery, LocalsInv
  <2>2. s \in Seqs /\ n \in 1..MaxAttempts
    BY <2>1 DEF LocalOK
  <2>3. Control(w) /\ pc'[w] = "readClaim" /\ loc'[w] = loc[w]
    BY <1>11, GotoControl DEF ClaimDelivery
  <2>4. claimed \in RetryRow
    BY <2>2 DEF RetryRow, MaybeWorker, CheckpointAssumption
  <2>5. retry' \in {retry, [retry EXCEPT ![s] = claimed]}
    BY <1>11 DEF ClaimDelivery
  <2>6. retry' \in [Seqs -> RetryRow]
    <3> HIDE DEF claimed
    <3> QED BY <2>4, <2>5 DEF TypeOK
  <2>7. faults' \in 0..MaxFaults
    BY <1>11, FaultType DEF ClaimDelivery, TypeOK
  <2>8. TypeOK'
    BY <1>11, <2>3, <2>6, <2>7 DEF ClaimDelivery, TypeOK, Control
  <2>9. LocalOK(w)'
    BY <2>1, <2>3 DEF LocalOK
  <2> QED BY <2>3, <2>8, <2>9, LocalsFrame
<1>12. CASE ReadClaim(w)
  <2>1. LocalOK(w) /\ pc[w] = "readClaim"
    BY <1>12 DEF ReadClaim, LocalsInv
  <2>2. Control(w) /\ (pc'[w] = "idle" \/ (pc'[w] = "head1" /\ loc'[w] = loc[w]))
    BY <1>12, GotoControl, ReturnControl DEF ReadClaim
  <2>3. LocalOK(w)'
    BY <2>1, <2>2 DEF LocalOK
  <2>4. UNCHANGED <<store, faults>>
    BY <1>12 DEF ReadClaim
  <2> QED BY <2>2, <2>3, <2>4, LocalsFrame, StoreFrame DEF TypeOK
<1>13. CASE CheckHead(w, "head1", "core")
  <2>1. LocalOK(w) /\ pc[w] = "head1"
    BY <1>13 DEF CheckHead, LocalsInv
  <2>2. Control(w) /\ LocalOK(w)'
    <3>1. ASSUME Goto(w, "core"), UNCHANGED loc PROVE Control(w) /\ LocalOK(w)'
      BY <2>1, <3>1, GotoControl DEF LocalOK
    <3>2. ASSUME FailWith(w, "DELIVERY_FAILED") PROVE Control(w) /\ LocalOK(w)'
      BY <2>1, <3>2, FailControl DEF LocalOK
    <3> QED BY <1>13, <3>1, <3>2 DEF CheckHead
  <2>3. UNCHANGED <<store, faults>>
    BY <1>13 DEF CheckHead
  <2> QED BY <2>2, <2>3, LocalsFrame, StoreFrame DEF TypeOK
<1>14. CASE VerifyCore(w)
  <2>1. LocalOK(w) /\ pc[w] = "core"
    BY <1>14 DEF VerifyCore, LocalsInv
  <2>2. Control(w) /\ LocalOK(w)'
    <3>1. ASSUME Goto(w, "post"), UNCHANGED loc PROVE Control(w) /\ LocalOK(w)'
      BY <2>1, <3>1, GotoControl DEF LocalOK
    <3>2. ASSUME FailWith(w, "DELIVERY_FAILED") PROVE Control(w) /\ LocalOK(w)'
      BY <2>1, <3>2, FailControl DEF LocalOK
    <3> QED BY <1>14, <3>1, <3>2 DEF VerifyCore
  <2>3. UNCHANGED <<store, faults>>
    BY <1>14 DEF VerifyCore
  <2> QED BY <2>2, <2>3, LocalsFrame, StoreFrame DEF TypeOK
<1>15. CASE PostCheckpoint(w)
  <2>1. LocalOK(w) /\ pc[w] = "post"
    BY <1>15 DEF PostCheckpoint, LocalsInv
  <2>2. Control(w) /\ LocalOK(w)'
    <3>1. ASSUME Goto(w, "head2"), UNCHANGED loc PROVE Control(w) /\ LocalOK(w)'
      BY <2>1, <3>1, GotoControl DEF LocalOK
    <3>2. ASSUME FailWith(w, "DELIVERY_FAILED") PROVE Control(w) /\ LocalOK(w)'
      BY <2>1, <3>2, FailControl DEF LocalOK
    <3> QED BY <1>15, <3>1, <3>2 DEF PostCheckpoint
  <2>3. loc[w].seq \in Seqs /\ loc[w].n \in 1..MaxAttempts /\ AttemptId(w) \in Seqs \X (1..MaxAttempts) \X Worker
    BY <2>1 DEF LocalOK, AttemptId
  <2>4. witnessed' \subseteq Seqs \X (1..MaxAttempts) \X Worker
    BY <1>15, <2>3 DEF PostCheckpoint, TypeOK
  <2>5. posts' \in [Seqs -> [1..MaxAttempts -> Nat]]
    <3> DEFINE row1 == [posts[loc[w].seq] EXCEPT ![loc[w].n] = @ + 1]
    <3>1. posts[loc[w].seq] \in [1..MaxAttempts -> Nat]
      BY <2>3 DEF TypeOK
    <3>2. row1 \in [1..MaxAttempts -> Nat]
      <4> DEFINE old == posts[loc[w].seq]
                 n == loc[w].n
      <4>1. n \in 1..MaxAttempts /\ old \in [1..MaxAttempts -> Nat]
        BY <2>3, <3>1
      <4>2. row1 = [old EXCEPT ![n] = old[n] + 1]
        OBVIOUS
      <4> HIDE DEF old, n, row1
      <4>3. old[n] + 1 \in Nat
        BY <4>1
      <4> QED BY <4>1, <4>2, <4>3
    <3>3. posts' = [posts EXCEPT ![loc[w].seq] = row1]
      BY <1>15 DEF PostCheckpoint
    <3> HIDE DEF row1
    <3> QED BY <2>3, <3>2, <3>3 DEF TypeOK
  <2>6. UNCHANGED <<head, row, checkpointObjs, retry, attempts, receiptObjs, faults>>
    BY <1>15 DEF PostCheckpoint
  <2>7. TypeOK'
    BY <2>2, <2>4, <2>5, <2>6 DEF TypeOK, Control
  <2> QED BY <2>2, <2>7, LocalsFrame
<1>16. CASE CheckHead(w, "head2", "putReceipt")
  <2>1. LocalOK(w) /\ pc[w] = "head2"
    BY <1>16 DEF CheckHead, LocalsInv
  <2>2. Control(w) /\ LocalOK(w)'
    <3>1. ASSUME Goto(w, "putReceipt"), UNCHANGED loc PROVE Control(w) /\ LocalOK(w)'
      BY <2>1, <3>1, GotoControl DEF LocalOK
    <3>2. ASSUME FailWith(w, "DELIVERY_FAILED") PROVE Control(w) /\ LocalOK(w)'
      BY <2>1, <3>2, FailControl DEF LocalOK
    <3> QED BY <1>16, <3>1, <3>2 DEF CheckHead
  <2>3. UNCHANGED <<store, faults>>
    BY <1>16 DEF CheckHead
  <2> QED BY <2>2, <2>3, LocalsFrame, StoreFrame DEF TypeOK
<1>17. CASE PutReceipt(w)
  <2>1. LocalOK(w) /\ pc[w] = "putReceipt"
    BY <1>17 DEF PutReceipt, LocalsInv
  <2>2. Control(w) /\ LocalOK(w)'
    <3>1. ASSUME Goto(w, "commit"), UNCHANGED loc PROVE Control(w) /\ LocalOK(w)'
      BY <2>1, <3>1, GotoControl DEF LocalOK
    <3>2. ASSUME FailWith(w, "DELIVERY_FAILED") PROVE Control(w) /\ LocalOK(w)'
      BY <2>1, <3>2, FailControl DEF LocalOK
    <3> QED BY <1>17, <3>1, <3>2 DEF PutReceipt
  <2>3. AttemptId(w) \in Seqs \X (1..MaxAttempts) \X Worker
    BY <2>1 DEF LocalOK, AttemptId
  <2>4. receiptObjs' \in {receiptObjs, receiptObjs \union {AttemptId(w)}}
    BY <1>17 DEF PutReceipt
  <2>5. receiptObjs' \subseteq Seqs \X (1..MaxAttempts) \X Worker
    BY <2>3, <2>4 DEF TypeOK
  <2>6. faults' \in 0..MaxFaults
    BY <1>17, FaultType DEF PutReceipt, TypeOK
  <2>7. UNCHANGED <<head, row, checkpointObjs, retry, attempts, posts, witnessed>>
    BY <1>17 DEF PutReceipt
  <2>8. TypeOK'
    BY <2>2, <2>5, <2>6, <2>7 DEF TypeOK, Control
  <2> QED BY <2>2, <2>8, LocalsFrame
<1>18. CASE CommitDelivered(w)
  <2>1. LocalOK(w) /\ pc[w] = "commit"
    BY <1>18 DEF CommitDelivered, LocalsInv
  <2>2. TypeOK' /\ Control(w) /\ pc'[w] = "readDelivered"
        /\ loc'[w].seq = loc[w].seq /\ loc'[w].n = loc[w].n /\ loc'[w].by = loc[w].by
    BY <1>18, <2>1, InsertAttemptType DEF CommitDelivered, LocalOK
  <2>3. LocalOK(w)'
    BY <2>1, <2>2 DEF LocalOK
  <2> QED BY <2>2, <2>3, LocalsFrame
<1>19. CASE ReadDelivered(w)
  <2>1. LocalOK(w) /\ pc[w] = "readDelivered"
    BY <1>19 DEF ReadDelivered, LocalsInv
  <2>2. Control(w) /\ LocalOK(w)'
    <3>1. ASSUME Goto(w, "dropReceipt"), UNCHANGED loc PROVE Control(w) /\ LocalOK(w)'
      BY <2>1, <3>1, GotoControl DEF LocalOK
    <3>2. ASSUME FailWith(w, "DELIVERY_COMMIT_PRECONDITION_FAILED") PROVE Control(w) /\ LocalOK(w)'
      BY <2>1, <3>2, FailControl DEF LocalOK
    <3>3. ASSUME Return(w) PROVE Control(w) /\ LocalOK(w)'
      BY <3>3, ReturnControl DEF LocalOK
    <3> QED BY <1>19, <3>1, <3>2, <3>3 DEF ReadDelivered, Uncertain
  <2>3. UNCHANGED store /\ faults' \in 0..MaxFaults
    BY <1>19, FaultType DEF ReadDelivered, TypeOK
  <2> QED BY <2>2, <2>3, LocalsFrame, StoreFrame
<1>20. CASE DropReceipt(w)
  <2>1. Control(w) /\ LocalOK(w)'
    BY <1>20, ReturnControl DEF DropReceipt, LocalOK
  <2>2. receiptObjs' \subseteq receiptObjs /\ faults' \in 0..MaxFaults
    BY <1>20, FaultType DEF DropReceipt, TypeOK
  <2>3. UNCHANGED <<head, row, checkpointObjs, retry, attempts, posts, witnessed>>
    BY <1>20 DEF DropReceipt
  <2>4. TypeOK'
    BY <2>1, <2>2, <2>3 DEF TypeOK, Control
  <2> QED BY <2>1, <2>4, LocalsFrame
<1>21. CASE FailClaim(w)
  <2>1. LocalOK(w) /\ pc[w] = "fail"
    BY <1>21 DEF FailClaim, LocalsInv
  <2>2. TypeOK' /\ Control(w) /\ pc'[w] = "readFailed"
        /\ loc'[w].seq = loc[w].seq /\ loc'[w].n = loc[w].n /\ loc'[w].by = loc[w].by
        /\ loc'[w].code = loc[w].code
    BY <1>21, <2>1, InsertAttemptType DEF FailClaim, LocalOK
  <2>3. LocalOK(w)'
    BY <2>1, <2>2 DEF LocalOK
  <2> QED BY <2>2, <2>3, LocalsFrame
<1>22. CASE ReadFailed(w)
  <2>1. LocalOK(w) /\ pc[w] = "readFailed"
    BY <1>22 DEF ReadFailed, LocalsInv
  <2>2. Control(w) /\ LocalOK(w)'
    <3>1. ASSUME Goto(w, "readRecovered"), UNCHANGED loc PROVE Control(w) /\ LocalOK(w)'
      BY <2>1, <3>1, GotoControl DEF LocalOK
    <3>2. ASSUME Goto(w, "dropReceipt"), UNCHANGED loc,
                 loc[w].code = "DELIVERY_COMMIT_PRECONDITION_FAILED"
          PROVE  Control(w) /\ LocalOK(w)'
      BY <2>1, <3>2, GotoControl DEF LocalOK
    <3>3. ASSUME Return(w) PROVE Control(w) /\ LocalOK(w)'
      BY <3>3, ReturnControl DEF LocalOK
    <3> QED BY <1>22, <3>1, <3>2, <3>3 DEF ReadFailed
  <2>3. UNCHANGED <<store, faults>>
    BY <1>22 DEF ReadFailed
  <2> QED BY <2>2, <2>3, LocalsFrame, StoreFrame DEF TypeOK
<1> QED
  BY <1>1, <1>2, <1>3, <1>4, <1>5, <1>6, <1>7, <1>8, <1>9, <1>10, <1>11, <1>12, <1>13,
     <1>14, <1>15, <1>16, <1>17, <1>18, <1>19, <1>20, <1>21, <1>22 DEF Step

\* So do the environment's steps, crashes and stuttering.
LEMMA TypeEnvironment ==
    ASSUME CheckpointAssumption, TypeOK, LocalsInv,
           \/ AppendEvent
           \/ \E s \in Seqs : LapseLease(s) \/ BackoffElapses(s)
           \/ \E w \in Worker : Crash(w)
           \/ UNCHANGED vars
    PROVE  TypeOK' /\ LocalsInv'
<1>1. CASE AppendEvent
  <2>1. head' \in 0..MaxEvents
    BY <1>1 DEF AppendEvent, TypeOK, CheckpointAssumption
  <2> QED BY <1>1, <2>1 DEF AppendEvent, TypeOK, LocalsInv, LocalOK
<1>2. ASSUME NEW s \in Seqs, LapseLease(s) \/ BackoffElapses(s) PROVE TypeOK' /\ LocalsInv'
  <2>1. retry[s] \in RetryRow
    BY DEF TypeOK
  <2>2. [retry[s] EXCEPT !.lapsed = TRUE] \in RetryRow /\ [retry[s] EXCEPT !.due = TRUE] \in RetryRow
    BY <2>1 DEF RetryRow
  <2>3. \/ retry' = [retry EXCEPT ![s] = [retry[s] EXCEPT !.lapsed = TRUE]]
        \/ retry' = [retry EXCEPT ![s] = [retry[s] EXCEPT !.due = TRUE]]
    BY <1>2 DEF LapseLease, BackoffElapses
  <2>4. retry' \in [Seqs -> RetryRow]
    BY <2>2, <2>3 DEF TypeOK
  <2>5. UNCHANGED <<head, row, checkpointObjs, attempts, receiptObjs, posts, witnessed, pc, loc, faults>>
    BY <1>2 DEF LapseLease, BackoffElapses
  <2> QED BY <2>4, <2>5 DEF TypeOK, LocalsInv, LocalOK
<1>3. ASSUME NEW w \in Worker, Crash(w) PROVE TypeOK' /\ LocalsInv'
  <2>1. Control(w) /\ LocalOK(w)'
    BY <1>3, ReturnControl DEF Crash, LocalOK, Own, Owning, Failing
  <2>2. UNCHANGED store /\ faults' \in 0..MaxFaults
    BY <1>3, FaultType DEF Crash
  <2> QED BY <2>1, <2>2, LocalsFrame, StoreFrame
<1>4. CASE UNCHANGED vars
  BY <1>4 DEF vars, TypeOK, LocalsInv, LocalOK
<1> QED BY <1>1, <1>2, <1>3, <1>4

-----------------------------------------------------------------------------
(* The attempt log and the retry row.                                      *)

\* Every step leaves both alone, or changes one row of them in one of five
\* ways: the lease or the backoff passes, the row is created, the next
\* attempt is claimed, or the claimed attempt's outcome is logged.
TimePasses(s) ==
    /\ UNCHANGED attempts
    /\ retry[s].status # "absent"
    /\ retry' \in {[retry EXCEPT ![s] = [@ EXCEPT !.lapsed = TRUE]],
                   [retry EXCEPT ![s] = [@ EXCEPT !.due = TRUE]]}
RowCreated(s) ==
    /\ UNCHANGED attempts
    /\ retry[s].status = "absent" /\ ~Delivered(s)
    /\ retry' = [retry EXCEPT ![s] = NewRetryRow]
AttemptClaimed(s, n, w) ==
    /\ UNCHANGED attempts
    /\ retry[s].status = "retrying" /\ retry[s].count = n - 1 /\ ~Delivered(s)
    /\ retry' = [retry EXCEPT ![s] = [status |-> "claimed", count |-> n,
                                      by |-> w, due |-> FALSE, lapsed |-> FALSE]]
OutcomeLogged(s, n, w, outcome) ==
    /\ retry[s].status = "claimed" /\ retry[s].count = n /\ ~Delivered(s)
    /\ loc[w].seq = s /\ loc[w].n = n
    /\ RecordAttempt(w, outcome)

\* No step of the code or of its environment does anything else to them.
LEMMA LogEffect ==
    ASSUME CheckpointAssumption, TypeOK, LocalsInv, [Next]_vars
    PROVE  \/ UNCHANGED <<attempts, retry>>
           \/ \E s \in Seqs : TimePasses(s) \/ RowCreated(s)
           \/ \E s \in Seqs, n \in 1..MaxAttempts, w \in Worker : AttemptClaimed(s, n, w)
           \/ \E s \in Seqs, n \in 1..MaxAttempts, w \in Worker,
                 outcome \in {"delivered"} \union FailureCodes : OutcomeLogged(s, n, w, outcome)
<1> USE DEF Own, Owning, Failing
<1>1. CASE AppendEvent \/ UNCHANGED vars \/ \E w \in Worker : Crash(w)
  BY <1>1 DEF AppendEvent, vars, Crash, store
<1>2. ASSUME NEW s \in Seqs, LapseLease(s) \/ BackoffElapses(s) PROVE TimePasses(s)
  BY <1>2 DEF LapseLease, BackoffElapses, TimePasses
<1>3. ASSUME NEW w \in Worker, EnsureRetryState(w)
      PROVE  UNCHANGED <<attempts, retry>> \/ \E s \in Seqs : RowCreated(s)
  BY <1>3 DEF EnsureRetryState, RowCreated, LocalsInv, LocalOK
<1>4. ASSUME NEW w \in Worker, ClaimDelivery(w)
      PROVE  UNCHANGED <<attempts, retry>>
             \/ \E s \in Seqs, n \in 1..MaxAttempts : AttemptClaimed(s, n, w)
  BY <1>4 DEF ClaimDelivery, AttemptClaimed, LocalsInv, LocalOK
<1>5. ASSUME NEW w \in Worker, CommitDelivered(w)
      PROVE  UNCHANGED <<attempts, retry>>
             \/ \E s \in Seqs, n \in 1..MaxAttempts : OutcomeLogged(s, n, w, "delivered")
  BY <1>5 DEF CommitDelivered, InsertAttempt, HoldsClaim, OutcomeLogged, LocalsInv, LocalOK
<1>6. ASSUME NEW w \in Worker, FailClaim(w)
      PROVE  UNCHANGED <<attempts, retry>>
             \/ \E s \in Seqs, n \in 1..MaxAttempts : OutcomeLogged(s, n, w, loc[w].code)
  BY <1>6 DEF FailClaim, InsertAttempt, HoldsClaim, OutcomeLogged, LocalsInv, LocalOK
<1>7. ASSUME NEW w \in Worker, FailClaim(w) PROVE loc[w].code \in FailureCodes
  BY <1>7 DEF FailClaim, LocalsInv, LocalOK
<1>8. ASSUME NEW w \in Worker, Step(w), ~EnsureRetryState(w), ~ClaimDelivery(w),
             ~CommitDelivered(w), ~FailClaim(w)
      PROVE  UNCHANGED <<attempts, retry>>
  BY <1>8 DEF Step, store, ReadHead, LoadExisting, PutCheckpoint, InsertCheckpoint, ReadWinner,
     DeleteLoser, CheckDelivered, ReadState, ReadRecovered, ReadClaim, CheckHead, VerifyCore,
     PostCheckpoint, PutReceipt, ReadDelivered, DropReceipt, ReadFailed
<1> QED BY <1>1, <1>2, <1>3, <1>4, <1>5, <1>6, <1>7, <1>8 DEF Next

Log == RetryInv /\ LedgerAccountsForClaims

\* Every step keeps the agreement of log and retry row.
LEMMA LogStep ==
    ASSUME CheckpointAssumption, TypeOK, LocalsInv, Log, [Next]_vars
    PROVE  Log'
<1>1. CASE UNCHANGED <<attempts, retry>>
  BY <1>1 DEF Log, RetryInv, LedgerAccountsForClaims, Delivered
<1>2. ASSUME NEW s \in Seqs, TimePasses(s) PROVE Log'
  <2>1. \A t \in Seqs : retry'[t].status = retry[t].status /\ retry'[t].count = retry[t].count
                         /\ retry'[t].by = retry[t].by
    <3>1. retry[s] \in RetryRow
      BY DEF TypeOK
    <3>2. \A r \in {[retry[s] EXCEPT !.lapsed = TRUE], [retry[s] EXCEPT !.due = TRUE]} :
             r.status = retry[s].status /\ r.count = retry[s].count /\ r.by = retry[s].by
      BY <3>1 DEF RetryRow
    <3>3. \/ retry' = [retry EXCEPT ![s] = [retry[s] EXCEPT !.lapsed = TRUE]]
          \/ retry' = [retry EXCEPT ![s] = [retry[s] EXCEPT !.due = TRUE]]
      BY <1>2 DEF TimePasses
    <3> QED BY <3>2, <3>3 DEF TypeOK
  <2> QED BY <1>2, <2>1 DEF TimePasses, Log, RetryInv, LedgerAccountsForClaims, Delivered
<1>3. ASSUME NEW s \in Seqs, RowCreated(s) PROVE Log'
  <2>1. \A t \in Seqs \ {s} : retry'[t] = retry[t]
    BY <1>3 DEF RowCreated, TypeOK
  <2>2. retry'[s] = NewRetryRow
    BY <1>3 DEF RowCreated, TypeOK
  <2> QED BY <1>3, <2>1, <2>2 DEF RowCreated, Log, RetryInv, LedgerAccountsForClaims, Delivered, NewRetryRow
<1>4. ASSUME NEW s \in Seqs, NEW n \in 1..MaxAttempts, NEW w \in Worker, AttemptClaimed(s, n, w)
      PROVE  Log'
  <2>1. \A t \in Seqs \ {s} : retry'[t] = retry[t]
    BY <1>4 DEF AttemptClaimed, TypeOK
  <2>2. retry'[s] = [status |-> "claimed", count |-> n, by |-> w, due |-> FALSE, lapsed |-> FALSE]
    BY <1>4 DEF AttemptClaimed, TypeOK
  <2>3. retry[s].status = "retrying" /\ retry[s].count = n - 1 /\ ~Delivered(s) /\ UNCHANGED attempts
    BY <1>4 DEF AttemptClaimed
  <2>4. RetryInv'
    BY <2>1, <2>2 DEF Log, RetryInv
  <2>5. \A m \in 1..MaxAttempts : (attempts[s][m] # NoAttempt) <=> m < n
    BY <2>3 DEF Log, LedgerAccountsForClaims
  <2> QED BY <2>1, <2>2, <2>3, <2>4, <2>5 DEF Log, LedgerAccountsForClaims, Delivered
<1>5. ASSUME NEW s \in Seqs, NEW n \in 1..MaxAttempts, NEW w \in Worker,
             NEW outcome \in {"delivered"} \union FailureCodes, OutcomeLogged(s, n, w, outcome)
      PROVE  Log'
  <2> DEFINE a == [by |-> loc[w].by, outcome |-> outcome, from |-> w]
  <2>1. /\ \A t \in Seqs \ {s} : retry'[t] = retry[t] /\ attempts'[t] = attempts[t]
        /\ \A m \in (1..MaxAttempts) \ {n} : attempts'[s][m] = attempts[s][m]
        /\ attempts'[s][n] = a
    BY <1>5 DEF OutcomeLogged, RecordAttempt, TypeOK
  <2>2. /\ retry'[s].count = n
        /\ retry'[s].status \in {"delivered", "action_required", "retrying"}
        /\ retry'[s].status = "delivered" <=> outcome = "delivered"
    <3> DEFINE status == IF outcome = "delivered" THEN "delivered"
                     ELSE IF retry[s].count >= MaxAttempts THEN "action_required"
                     ELSE "retrying"
    <3>1. retry[s] \in RetryRow /\ retry[s].count = n
      BY <1>5 DEF OutcomeLogged, TypeOK
    <3>2. /\ status \in {"delivered", "action_required", "retrying"}
          /\ status = "delivered" <=> outcome = "delivered"
      OBVIOUS
    <3>3. retry' = [retry EXCEPT ![s] = [retry[s] EXCEPT !.status = status, !.lapsed = FALSE]]
      BY <1>5 DEF OutcomeLogged, RecordAttempt
    <3> HIDE DEF status
    <3>4. retry'[s] = [retry[s] EXCEPT !.status = status, !.lapsed = FALSE]
      BY <3>3 DEF TypeOK
    <3> QED BY <3>1, <3>2, <3>4 DEF RetryRow
  <2>3. a # NoAttempt /\ a.outcome = outcome
    BY DEF NoAttempt, FailureCodes
  <2>4. RetryInv'
    BY <2>1, <2>2 DEF Log, RetryInv
  <2> HIDE DEF a
  <2>5. ASSUME NEW m \in 1..MaxAttempts
        PROVE  (attempts'[s][m] # NoAttempt) <=> m <= n
    BY <1>5, <2>1, <2>3 DEF OutcomeLogged, Log, LedgerAccountsForClaims
  <2>6. Delivered(s)' <=> outcome = "delivered"
    BY <1>5, <2>1, <2>3 DEF OutcomeLogged, Delivered
  <2>7. \A t \in Seqs \ {s} : Delivered(t)' <=> Delivered(t)
    BY <2>1 DEF Delivered
  <2> QED BY <2>1, <2>2, <2>4, <2>5, <2>6, <2>7 DEF Log, LedgerAccountsForClaims
<1> QED BY <1>1, <1>2, <1>3, <1>4, <1>5, LogEffect

-----------------------------------------------------------------------------
(* Who moves where.                                                        *)

\* A worker's step is at the await its control state names, and leaves the
\* control state of every other worker alone.
LEMMA OthersStay ==
    ASSUME TypeOK, NEW w \in Worker, Step(w) \/ Crash(w), NEW v \in Worker \ {w}
    PROVE  pc'[v] = pc[v] /\ loc'[v] = loc[v]
<1>1. ASSUME NEW st, Goto(w, st) PROVE pc'[v] = pc[v]
  BY <1>1 DEF Goto, TypeOK
<1>2. ASSUME NEW l, loc' = [loc EXCEPT ![w] = l] PROVE loc'[v] = loc[v]
  BY <1>2 DEF TypeOK
<1>3. ASSUME Return(w) PROVE pc'[v] = pc[v] /\ loc'[v] = loc[v]
  BY <1>1, <1>2, <1>3 DEF Return
<1>4. ASSUME NEW code, FailWith(w, code) PROVE pc'[v] = pc[v] /\ loc'[v] = loc[v]
  <2>1. loc' = [loc EXCEPT ![w] = [loc[w] EXCEPT !.code = code, !.changes = 0, !.certain = TRUE]]
    BY <1>4 DEF FailWith
  <2>2. loc'[v] = loc[v]
    BY <2>1 DEF TypeOK
  <2> QED BY <1>1, <1>4, <2>2 DEF FailWith
<1>5. ASSUME NEW changes, NEW certain, Report(w, changes, certain) PROVE loc'[v] = loc[v]
  BY <1>5 DEF Report, TypeOK
<1>6. ASSUME NEW r, StartClaim(w, r) PROVE pc'[v] = pc[v] /\ loc'[v] = loc[v]
  <2>1. CASE Return(w)
    BY <1>3, <2>1
  <2>2. CASE Goto(w, "claim") /\ loc' = [loc EXCEPT ![w] = [@ EXCEPT !.n = r.count + 1, !.by = w]]
    BY <1>1, <2>2 DEF TypeOK
  <2> QED BY <1>6, <2>1, <2>2 DEF StartClaim
<1>7. ASSUME NEW enabled, NEW outcome, NEW st, InsertAttempt(w, enabled, outcome, st)
      PROVE  pc'[v] = pc[v] /\ loc'[v] = loc[v]
  BY <1>1, <1>5, <1>7 DEF InsertAttempt
<1>8. CASE ReadHead(w) \/ LoadExisting(w) \/ PutCheckpoint(w) \/ InsertCheckpoint(w)
           \/ ReadWinner(w) \/ DeleteLoser(w) \/ CheckDelivered(w) \/ EnsureRetryState(w)
  BY <1>1, <1>2, <1>3, <1>8 DEF ReadHead, LoadExisting, PutCheckpoint, InsertCheckpoint,
     ReadWinner, DeleteLoser, CheckDelivered, EnsureRetryState
<1>9. CASE ReadState(w)
  <2>1. CASE loc' = [loc EXCEPT ![w] =
                [seq |-> @.seq, n |-> retry[loc[w].seq].count, by |-> retry[loc[w].seq].by,
                 code |-> "DELIVERY_CLAIM_EXPIRED", changes |-> 0, certain |-> TRUE]]
             /\ Goto(w, "fail")
    BY <1>1, <2>1 DEF TypeOK
  <2> QED BY <1>3, <1>6, <1>9, <2>1 DEF ReadState
<1>10. CASE ReadRecovered(w) \/ ClaimDelivery(w) \/ ReadClaim(w)
            \/ CheckHead(w, "head1", "core") \/ VerifyCore(w) \/ PostCheckpoint(w)
  BY <1>1, <1>3, <1>4, <1>6, <1>10 DEF ReadRecovered, ClaimDelivery, ReadClaim, CheckHead,
     VerifyCore, PostCheckpoint
<1>11. CASE CheckHead(w, "head2", "putReceipt") \/ PutReceipt(w) \/ CommitDelivered(w)
            \/ ReadDelivered(w) \/ DropReceipt(w) \/ FailClaim(w) \/ ReadFailed(w) \/ Crash(w)
  BY <1>1, <1>3, <1>4, <1>7, <1>11 DEF CheckHead, PutReceipt, CommitDelivered, ReadDelivered,
     Uncertain, DropReceipt, FailClaim, ReadFailed, Crash
<1> QED BY <1>8, <1>9, <1>10, <1>11 DEF Step

\* A worker that moves to st is at st.
LEMMA Arrives ==
    ASSUME TypeOK, NEW w \in Worker, NEW st, Goto(w, st)
    PROVE  pc'[w] = st
BY DEF TypeOK, Goto

\* An invocation that ends, or gives its claim up, is idle or failing.
LEMMA Leaves ==
    ASSUME TypeOK, NEW w \in Worker, Return(w) \/ \E code \in FailureCodes : FailWith(w, code)
    PROVE  pc'[w] \in {"idle", "fail"}
BY Arrives DEF Return, FailWith

-----------------------------------------------------------------------------
(* The checkpoint envelope.                                                *)

\* Rows of audit_checkpoints and their envelopes are touched by the four
\* steps that race for the row, and by nothing else.
LEMMA EnvelopeUntouched ==
    ASSUME TypeOK, NEW w \in Worker, Step(w) \/ Crash(w),
           ~PutCheckpoint(w), ~InsertCheckpoint(w), ~ReadWinner(w), ~DeleteLoser(w)
    PROVE  UNCHANGED <<row, checkpointObjs>> /\ pc'[w] \notin {"insert", "deleteLoser"}
<1>1. CASE ReadHead(w) \/ LoadExisting(w) \/ CheckDelivered(w) \/ EnsureRetryState(w) \/ Crash(w)
  BY <1>1, Arrives DEF ReadHead, LoadExisting, CheckDelivered, EnsureRetryState, Crash, Return, store
<1>2. CASE ReadState(w) \/ ReadRecovered(w) \/ ClaimDelivery(w) \/ ReadClaim(w)
  BY <1>2, Arrives DEF ReadState, ReadRecovered, StartClaim, ClaimDelivery, ReadClaim, Return, store
<1>3. CASE CheckHead(w, "head1", "core") \/ VerifyCore(w) \/ PostCheckpoint(w)
           \/ CheckHead(w, "head2", "putReceipt") \/ PutReceipt(w)
  BY <1>3, Arrives DEF CheckHead, VerifyCore, PostCheckpoint, PutReceipt, FailWith, store
<1>4. CASE CommitDelivered(w) \/ ReadDelivered(w) \/ DropReceipt(w) \/ FailClaim(w) \/ ReadFailed(w)
  BY <1>4, Arrives DEF CommitDelivered, InsertAttempt, ReadDelivered, Uncertain, DropReceipt,
     FailClaim, ReadFailed, FailWith, Return, store
<1> QED BY <1>1, <1>2, <1>3, <1>4 DEF Step

\* No step separates a committed row from its envelope.
LEMMA EnvelopeStep ==
    ASSUME CheckpointAssumption, TypeOK, LocalsInv, EnvelopeInv, [Next]_vars
    PROVE  EnvelopeInv'
<1>1. CASE AppendEvent \/ UNCHANGED vars \/ \E s \in Seqs : LapseLease(s) \/ BackoffElapses(s)
  BY <1>1 DEF AppendEvent, LapseLease, BackoffElapses, vars, EnvelopeInv, CheckpointEnvelopeKept
<1>2. ASSUME NEW w \in Worker, Step(w) \/ Crash(w) PROVE EnvelopeInv'
  <2> DEFINE s == loc[w].seq
  <2>1. \A v \in Worker \ {w} : pc'[v] = pc[v] /\ loc'[v] = loc[v]
    BY <1>2, OthersStay
  <2>2. CASE PutCheckpoint(w)
    <3>1. checkpointObjs \subseteq checkpointObjs' /\ UNCHANGED row
      BY <2>2 DEF PutCheckpoint
    <3>2. \/ pc'[w] = "insert" /\ loc'[w] = loc[w] /\ <<s, w>> \in checkpointObjs'
          \/ pc'[w] = "idle"
      BY <2>2, Arrives DEF PutCheckpoint, Return
    <3> QED BY <2>1, <3>1, <3>2 DEF EnvelopeInv, CheckpointEnvelopeKept
  <2>3. CASE InsertCheckpoint(w)
    <3>1. pc'[w] \in {"attempt", "readWinner"} /\ UNCHANGED checkpointObjs
      BY <2>3, Arrives DEF InsertCheckpoint
    <3>2. s \in Seqs /\ <<s, w>> \in checkpointObjs
      BY <2>3 DEF InsertCheckpoint, LocalsInv, LocalOK, EnvelopeInv
    <3>3. \/ UNCHANGED row
          \/ row[s] = NoWorker /\ row' = [row EXCEPT ![s] = w]
      BY <2>3 DEF InsertCheckpoint
    <3>4. CASE UNCHANGED row
      BY <2>1, <3>1, <3>4 DEF EnvelopeInv, CheckpointEnvelopeKept
    <3>5. CASE row[s] = NoWorker /\ row' = [row EXCEPT ![s] = w]
      <4>1. row'[s] = w /\ \A t \in Seqs \ {s} : row'[t] = row[t]
        BY <3>2, <3>5 DEF TypeOK
      <4>2. CheckpointEnvelopeKept'
        BY <3>1, <3>2, <4>1 DEF EnvelopeInv, CheckpointEnvelopeKept
      <4>3. ASSUME NEW v \in Worker, pc'[v] = "deleteLoser"
            PROVE  row'[loc'[v].seq] \notin {v, NoWorker}
        <5>1. v # w /\ pc[v] = "deleteLoser" /\ loc'[v] = loc[v]
          BY <2>1, <3>1, <4>3
        <5>2. row[loc[v].seq] \notin {v, NoWorker} /\ loc[v].seq \in Seqs
          BY <5>1 DEF EnvelopeInv, LocalsInv, LocalOK
        <5> QED BY <3>5, <4>1, <5>1, <5>2
      <4> QED BY <2>1, <3>1, <4>2, <4>3 DEF EnvelopeInv
    <3> QED BY <3>3, <3>4, <3>5
  <2>4. CASE ReadWinner(w)
    <3>1. UNCHANGED <<row, checkpointObjs>>
      BY <2>4 DEF ReadWinner, store
    <3>2. \/ pc'[w] \in {"idle", "attempt"}
          \/ pc'[w] = "deleteLoser" /\ loc'[w] = loc[w] /\ row[s] \notin {w, NoWorker}
      BY <2>4, Arrives DEF ReadWinner, Return
    <3> QED BY <2>1, <3>1, <3>2 DEF EnvelopeInv, CheckpointEnvelopeKept
  <2>5. CASE DeleteLoser(w)
    <3>1. UNCHANGED row /\ pc'[w] \in {"idle", "attempt"}
      BY <2>5, Arrives DEF DeleteLoser, Return
    <3>2. checkpointObjs \ {<<s, w>>} \subseteq checkpointObjs'
      BY <2>5 DEF DeleteLoser
    <3>3. row[s] # w
      BY <2>5 DEF DeleteLoser, EnvelopeInv
    <3>4. \A t \in Seqs : <<t, row[t]>> # <<s, w>>
      BY <3>3
    <3>5. CheckpointEnvelopeKept'
      BY <3>1, <3>2, <3>4 DEF EnvelopeInv, CheckpointEnvelopeKept
    <3> QED BY <2>1, <3>1, <3>2, <3>5 DEF EnvelopeInv
  <2>6. CASE ~PutCheckpoint(w) /\ ~InsertCheckpoint(w) /\ ~ReadWinner(w) /\ ~DeleteLoser(w)
    <3>1. UNCHANGED <<row, checkpointObjs>> /\ pc'[w] \notin {"insert", "deleteLoser"}
      BY <1>2, <2>6, EnvelopeUntouched
    <3> QED BY <2>1, <3>1 DEF EnvelopeInv, CheckpointEnvelopeKept
  <2> QED BY <2>2, <2>3, <2>4, <2>5, <2>6
<1> QED BY <1>1, <1>2 DEF Next

-----------------------------------------------------------------------------
(* The receipt of a delivered attempt.                                     *)

\* The attempt log changes only when an outcome is logged; receipts and the
\* witness's answers only where ReceiptInv says so; and only the steps named
\* here reach an await that ReceiptInv speaks of.
LEMMA ReceiptUntouched ==
    ASSUME TypeOK, NEW w \in Worker, Step(w) \/ Crash(w),
           ~PostCheckpoint(w), ~CheckHead(w, "head2", "putReceipt"), ~PutReceipt(w),
           ~CommitDelivered(w), ~ReadDelivered(w), ~DropReceipt(w), ~FailClaim(w), ~ReadFailed(w)
    PROVE  /\ UNCHANGED <<attempts, receiptObjs, witnessed>>
           /\ pc'[w] \notin {"head2", "putReceipt", "commit", "dropReceipt"}
<1>1. CASE ReadHead(w) \/ LoadExisting(w) \/ PutCheckpoint(w) \/ InsertCheckpoint(w) \/ Crash(w)
  BY <1>1, Arrives DEF ReadHead, LoadExisting, PutCheckpoint, InsertCheckpoint, Crash, Return, store
<1>2. CASE ReadWinner(w) \/ DeleteLoser(w) \/ CheckDelivered(w) \/ EnsureRetryState(w)
  BY <1>2, Arrives DEF ReadWinner, DeleteLoser, CheckDelivered, EnsureRetryState, Return, store
<1>3. CASE ReadState(w) \/ ReadRecovered(w) \/ ClaimDelivery(w) \/ ReadClaim(w)
  BY <1>3, Arrives DEF ReadState, ReadRecovered, StartClaim, ClaimDelivery, ReadClaim, Return, store
<1>4. CASE CheckHead(w, "head1", "core") \/ VerifyCore(w)
  BY <1>4, Arrives DEF CheckHead, VerifyCore, FailWith, store
<1> QED BY <1>1, <1>2, <1>3, <1>4 DEF Step

\* No step removes, or leaves unwitnessed, the receipt of a delivered attempt.
LEMMA ReceiptStep ==
    ASSUME CheckpointAssumption, TypeOK, LocalsInv, ReceiptInv, [Next]_vars
    PROVE  ReceiptInv'
<1> USE DEF Own, Owning, Failing
<1>1. CASE AppendEvent \/ UNCHANGED vars \/ \E s \in Seqs : LapseLease(s) \/ BackoffElapses(s)
  BY <1>1 DEF AppendEvent, LapseLease, BackoffElapses, vars, ReceiptInv, DeliveredReceiptKept,
     AttemptId, Committed
<1>2. ASSUME NEW w \in Worker, Step(w) \/ Crash(w) PROVE ReceiptInv'
  <2> DEFINE s == loc[w].seq
             n == loc[w].n
  <2>1. \A v \in Worker \ {w} : pc'[v] = pc[v] /\ loc'[v] = loc[v]
    BY <1>2, OthersStay
  <2>2. ASSUME UNCHANGED attempts, receiptObjs \subseteq receiptObjs', witnessed \subseteq witnessed',
               \/ pc'[w] \notin {"head2", "putReceipt", "commit", "dropReceipt"}
               \/ /\ loc'[w] = loc[w]
                  /\ pc'[w] \in {"head2", "putReceipt", "commit"} => AttemptId(w) \in witnessed'
                  /\ pc'[w] = "commit" => AttemptId(w) \in receiptObjs'
                  /\ pc'[w] = "dropReceipt" => ~Committed(w)
        PROVE  ReceiptInv'
    <3>1. DeliveredReceiptKept'
      BY <2>2 DEF ReceiptInv, DeliveredReceiptKept
    <3>2. ASSUME NEW v \in Worker, loc'[v] = loc[v]
          PROVE  AttemptId(v)' = AttemptId(v) /\ (Committed(v)' <=> Committed(v))
      BY <2>2, <3>2 DEF AttemptId, Committed
    <3>3. ASSUME NEW v \in Worker
          PROVE  /\ pc'[v] \in {"head2", "putReceipt", "commit"} => AttemptId(v)' \in witnessed'
                 /\ pc'[v] = "commit" => AttemptId(v)' \in receiptObjs'
                 /\ pc'[v] = "dropReceipt" => ~Committed(v)'
      <4>1. CASE v = w
        BY <2>2, <3>2, <4>1
      <4>2. CASE v # w
        BY <2>1, <2>2, <3>2, <4>2 DEF ReceiptInv
      <4> QED BY <4>1, <4>2
    <3> QED BY <3>1, <3>3 DEF ReceiptInv
  <2>3. CASE PostCheckpoint(w)
    <3>1. CASE witnessed' = witnessed \union {AttemptId(w)} /\ Goto(w, "head2") /\ UNCHANGED loc
      BY <2>2, <2>3, <3>1, Arrives DEF PostCheckpoint
    <3>2. CASE FailWith(w, "DELIVERY_FAILED") /\ UNCHANGED witnessed
      BY <2>2, <2>3, <3>2, Arrives DEF PostCheckpoint, FailWith
    <3> QED BY <2>3, <3>1, <3>2 DEF PostCheckpoint
  <2>4. CASE CheckHead(w, "head2", "putReceipt")
    <3>1. CASE Goto(w, "putReceipt") /\ UNCHANGED loc
      BY <2>2, <2>4, <3>1, Arrives DEF CheckHead, store, ReceiptInv
    <3>2. CASE FailWith(w, "DELIVERY_FAILED")
      BY <2>2, <2>4, <3>2, Arrives DEF CheckHead, FailWith, store
    <3> QED BY <2>4, <3>1, <3>2 DEF CheckHead
  <2>5. CASE PutReceipt(w)
    <3>1. CASE receiptObjs' = receiptObjs \union {AttemptId(w)} /\ Goto(w, "commit") /\ UNCHANGED loc
      BY <2>2, <2>5, <3>1, Arrives DEF PutReceipt, ReceiptInv
    <3>2. CASE FailWith(w, "DELIVERY_FAILED")
      BY <2>2, <2>5, <3>2, Arrives DEF PutReceipt, FailWith
    <3> QED BY <2>5, <3>1, <3>2 DEF PutReceipt
  <2>6. CASE CommitDelivered(w) \/ FailClaim(w)
    <3> DEFINE outcome == IF pc[w] = "commit" THEN "delivered" ELSE loc[w].code
               a == [by |-> loc[w].by, outcome |-> outcome, from |-> w]
    <3>1. pc'[w] \in {"readDelivered", "readFailed"} /\ UNCHANGED <<receiptObjs, witnessed>>
      BY <2>6, Arrives DEF CommitDelivered, FailClaim, InsertAttempt
    <3>2. s \in Seqs /\ n \in 1..MaxAttempts
      BY <2>6 DEF CommitDelivered, FailClaim, LocalsInv, LocalOK
    <3>3. outcome = "delivered" =>
             pc[w] = "commit" /\ loc[w].by = w /\ AttemptId(w) \in receiptObjs \intersect witnessed
      BY <2>6 DEF CommitDelivered, FailClaim, LocalsInv, LocalOK, ReceiptInv, FailureCodes
    <3>4. UNCHANGED attempts \/ attempts' = [attempts EXCEPT ![s][n] = a]
      BY <2>6 DEF CommitDelivered, FailClaim, InsertAttempt, RecordAttempt
    <3>5. CASE UNCHANGED attempts
      BY <2>2, <3>1, <3>5
    <3>6. CASE attempts' = [attempts EXCEPT ![s][n] = a]
      <4>1. /\ attempts'[s][n] = a
            /\ \A t \in Seqs, m \in 1..MaxAttempts :
                  <<t, m>> # <<s, n>> => attempts'[t][m] = attempts[t][m]
        BY <3>2, <3>6 DEF TypeOK
      <4>2. DeliveredReceiptKept'
        BY <3>1, <3>2, <3>3, <4>1 DEF ReceiptInv, DeliveredReceiptKept, AttemptId
      <4>3. ASSUME NEW v \in Worker, pc'[v] \in {"head2", "putReceipt", "commit", "dropReceipt"}
            PROVE  v # w /\ pc'[v] = pc[v] /\ loc'[v] = loc[v] /\ loc[v].by = v
                   /\ loc[v].seq \in Seqs /\ loc[v].n \in 1..MaxAttempts
        BY <2>1, <3>1, <4>3 DEF LocalsInv, LocalOK
      <4>4. ASSUME NEW v \in Worker, pc'[v] = "dropReceipt" PROVE ~Committed(v)'
        <5>1. v # w /\ pc[v] = "dropReceipt" /\ loc'[v] = loc[v] /\ loc[v].by = v
              /\ loc[v].seq \in Seqs /\ loc[v].n \in 1..MaxAttempts
          BY <4>3, <4>4
        <5>2. ~Committed(v)
          BY <5>1 DEF ReceiptInv
        <5>3. CASE <<loc[v].seq, loc[v].n>> = <<s, n>>
          BY <3>3, <4>1, <5>1, <5>3 DEF Committed
        <5>4. CASE <<loc[v].seq, loc[v].n>> # <<s, n>>
          BY <4>1, <5>1, <5>2, <5>4 DEF Committed
        <5> QED BY <5>3, <5>4
      <4>5. ASSUME NEW v \in Worker, pc'[v] \in {"head2", "putReceipt", "commit"}
            PROVE  AttemptId(v)' \in witnessed' /\ (pc'[v] = "commit" => AttemptId(v)' \in receiptObjs')
        BY <3>1, <4>3, <4>5 DEF ReceiptInv, AttemptId
      <4> QED BY <4>2, <4>4, <4>5 DEF ReceiptInv
    <3> QED BY <3>4, <3>5, <3>6
  <2>7. CASE ReadDelivered(w)
    <3>1. CASE ProvenLoser(w) /\ Goto(w, "dropReceipt") /\ UNCHANGED loc
      BY <2>2, <2>7, <3>1, Arrives DEF ReadDelivered, ProvenLoser, store
    <3>2. CASE Return(w) \/ Uncertain(w)
      <4>1. pc'[w] \in {"idle", "fail"}
        BY <3>2, Arrives DEF Uncertain, Return, FailWith
      <4> QED BY <2>2, <2>7, <4>1 DEF ReadDelivered, store
    <3> QED BY <2>7, <3>1, <3>2 DEF ReadDelivered
  <2>8. CASE DropReceipt(w)
    <3>1. pc'[w] = "idle" /\ UNCHANGED <<attempts, witnessed>>
      BY <2>8, Arrives DEF DropReceipt, Return
    <3>2. receiptObjs \ {AttemptId(w)} \subseteq receiptObjs'
      BY <2>8 DEF DropReceipt
    <3>3. ~Committed(w) /\ loc[w].by = w
      BY <2>8 DEF DropReceipt, ReceiptInv, LocalsInv, LocalOK
    <3>4. \A t \in Seqs, m \in 1..MaxAttempts :
             attempts[t][m].outcome = "delivered" => <<t, m, attempts[t][m].by>> # AttemptId(w)
      BY <3>3 DEF Committed, AttemptId
    <3>5. DeliveredReceiptKept'
      BY <3>1, <3>2, <3>4 DEF ReceiptInv, DeliveredReceiptKept
    <3>6. \A v \in Worker \ {w} : pc[v] = "commit" => AttemptId(v) # AttemptId(w)
      BY <3>3 DEF LocalsInv, LocalOK, AttemptId
    <3> QED BY <2>1, <3>1, <3>2, <3>5, <3>6 DEF ReceiptInv, AttemptId, Committed
  <2>9. CASE ReadFailed(w)
    <3>1. UNCHANGED store
      BY <2>9 DEF ReadFailed
    <3>2. CASE FailureCommitted(w) /\ Goto(w, "dropReceipt") /\ UNCHANGED loc
      <4>1. ~Committed(w)
        BY <2>9, <3>2 DEF ReadFailed, FailureCommitted, Committed, LocalsInv, LocalOK, FailureCodes
      <4> QED BY <2>2, <3>1, <3>2, <4>1, Arrives DEF store
    <3>3. CASE Goto(w, "readRecovered") \/ Return(w)
      <4>1. pc'[w] \in {"idle", "readRecovered"}
        BY <3>3, Arrives DEF Return
      <4> QED BY <2>2, <3>1, <4>1 DEF store
    <3> QED BY <2>9, <3>2, <3>3 DEF ReadFailed
  <2>10. CASE /\ ~PostCheckpoint(w) /\ ~CheckHead(w, "head2", "putReceipt") /\ ~PutReceipt(w)
              /\ ~CommitDelivered(w) /\ ~ReadDelivered(w) /\ ~DropReceipt(w) /\ ~FailClaim(w)
              /\ ~ReadFailed(w)
    BY <1>2, <2>2, <2>10, ReceiptUntouched
  <2> QED BY <2>3, <2>4, <2>5, <2>6, <2>7, <2>8, <2>9, <2>10
<1> QED BY <1>1, <1>2 DEF Next

-----------------------------------------------------------------------------
(* The request to the witness.                                             *)

\* Where PostInv says something of a worker.
Posting == {"claim", "readClaim", "head1", "core", "post"}

\* A change of the retry rows that takes no claim: counts stay, no row
\* becomes claimed, and only a row never claimed loses its claimant.
Calm ==
    \A t \in Seqs :
        /\ retry'[t].count = retry[t].count
        /\ retry'[t].status = "claimed" => retry[t].status = "claimed"
        /\ retry'[t].by = retry[t].by \/ retry[t].count = 0

\* A worker comes nearer to its request only along head1, core, post.
Nearer(v) ==
    \/ pc'[v] \notin Posting
    \/ loc'[v] = loc[v] /\ (pc'[v] = pc[v] \/ (BeforePost(v) /\ pc'[v] \in {"core", "post"}))

\* Nothing that neither claims nor posts disturbs PostInv.
LEMMA CalmPost ==
    ASSUME TypeOK, LocalsInv, RetryInv, PostInv, UNCHANGED posts, Calm,
           \A v \in Worker : Nearer(v)
    PROVE  PostInv'
<1> USE DEF Own, Owning, Posting
<1>1. \A s \in Seqs, n \in 1..MaxAttempts :
         posts'[s][n] <= 1 /\ (n > retry'[s].count => posts'[s][n] = 0)
  BY DEF PostInv, Calm
<1>2. ASSUME NEW v \in Worker, BeforePost(v)'
      PROVE  BeforePost(v) /\ loc'[v] = loc[v] /\ loc[v].seq \in Seqs /\ loc[v].n \in 1..MaxAttempts
  <2>1. loc'[v] = loc[v] /\ (pc'[v] = pc[v] \/ BeforePost(v))
    BY <1>2 DEF Nearer, BeforePost
  <2>2. BeforePost(v)
    BY <1>2, <2>1 DEF BeforePost
  <2> QED BY <2>1, <2>2 DEF BeforePost, LocalsInv, LocalOK
<1>3. ASSUME NEW v \in Worker, pc'[v] \in {"claim", "readClaim"}
      PROVE  pc[v] = pc'[v] /\ loc'[v] = loc[v] /\ loc[v].seq \in Seqs /\ loc[v].n \in 1..MaxAttempts
  <2>1. pc[v] = pc'[v] /\ loc'[v] = loc[v]
    BY <1>3 DEF Nearer
  <2> QED BY <1>3, <2>1 DEF LocalsInv, LocalOK
<1>4. \A t \in Seqs : retry[t] \in RetryRow /\ retry[t].count \in Nat
  BY DEF TypeOK, RetryRow
<1>5. ASSUME NEW v \in Worker, pc'[v] = "claim"
      PROVE  /\ loc'[v].n <= retry'[loc'[v].seq].count + 1
             /\ ~(loc'[v].n = retry'[loc'[v].seq].count /\ retry'[loc'[v].seq].by = v)
  BY <1>3, <1>4, <1>5 DEF PostInv, Calm
<1>6. ASSUME NEW v \in Worker, pc'[v] = "readClaim", HoldsClaim(v)'
      PROVE  posts'[loc'[v].seq][loc'[v].n] = 0
  <2>1. HoldsClaim(v)
    BY <1>3, <1>4, <1>6 DEF HoldsClaim, Calm, RetryInv
  <2> QED BY <1>3, <1>6, <2>1 DEF PostInv
<1>7. ASSUME NEW v \in Worker, BeforePost(v)'
      PROVE  /\ posts'[loc'[v].seq][loc'[v].n] = 0
             /\ loc'[v].n <= retry'[loc'[v].seq].count
             /\ loc'[v].n = retry'[loc'[v].seq].count => retry'[loc'[v].seq].by = v
             /\ \A u \in Worker \ {v} :
                  BeforePost(u)' => <<loc'[u].seq, loc'[u].n>> # <<loc'[v].seq, loc'[v].n>>
  <2>1. /\ posts[loc[v].seq][loc[v].n] = 0
        /\ loc[v].n <= retry[loc[v].seq].count
        /\ loc[v].n = retry[loc[v].seq].count => retry[loc[v].seq].by = v
        /\ \A u \in Worker \ {v} :
              BeforePost(u) => <<loc[u].seq, loc[u].n>> # <<loc[v].seq, loc[v].n>>
    BY <1>2, <1>7 DEF PostInv
  <2>2. /\ retry'[loc[v].seq].count = retry[loc[v].seq].count
        /\ retry'[loc[v].seq].by = retry[loc[v].seq].by \/ retry[loc[v].seq].count = 0
    BY <1>2, <1>7 DEF Calm
  <2>3. ASSUME NEW u \in Worker \ {v}, BeforePost(u)'
        PROVE  <<loc'[u].seq, loc'[u].n>> # <<loc'[v].seq, loc'[v].n>>
    BY <1>2, <1>7, <2>1, <2>3
  <2> QED BY <1>2, <1>4, <1>7, <2>1, <2>2, <2>3
<1> QED BY <1>1, <1>5, <1>6, <1>7 DEF PostInv

\* StartClaim prepares the attempt after the newest claimed one.
LEMMA StartPost ==
    ASSUME CheckpointAssumption, TypeOK, LocalsInv, RetryInv, PostInv, NEW w \in Worker,
           pc[w] # "idle", StartClaim(w, retry[loc[w].seq]), UNCHANGED <<store, faults>>,
           \A v \in Worker \ {w} : pc'[v] = pc[v] /\ loc'[v] = loc[v]
    PROVE  PostInv'
<1> USE DEF Own, Owning, Posting
<1> DEFINE r == retry[loc[w].seq]
<1>1. Calm /\ UNCHANGED posts
  BY DEF Calm, store
<1>2. CASE Return(w)
  <2>1. pc'[w] = "idle"
    BY <1>2, Arrives DEF Return
  <2>2. \A v \in Worker : Nearer(v)
    BY <2>1 DEF Nearer
  <2> QED BY <1>1, <2>2, CalmPost
<1>3. CASE /\ Goto(w, "claim")
           /\ loc' = [loc EXCEPT ![w] = [@ EXCEPT !.n = r.count + 1, !.by = w]]
  <2>1. pc'[w] = "claim"
    BY <1>3, Arrives
  <2>2. loc[w] \in Locals /\ loc[w].seq \in Seqs /\ r \in RetryRow /\ r.count \in Nat
    BY DEF LocalsInv, LocalOK, TypeOK, RetryRow
  <2>3. loc'[w].seq = loc[w].seq /\ loc'[w].n = r.count + 1
    <3> DEFINE l == [loc[w] EXCEPT !.n = r.count + 1, !.by = w]
    <3>1. loc' = [loc EXCEPT ![w] = l]
      BY <1>3
    <3>2. loc'[w] = l
      <4> HIDE DEF l
      <4> QED BY <3>1 DEF TypeOK
    <3> HIDE DEF r
    <3> QED BY <2>2, <3>2 DEF Locals
  <2>4. \A v \in Worker \ {w} : BeforePost(v)' <=> BeforePost(v)
    BY DEF BeforePost
  <2>5. ~BeforePost(w)'
    BY <2>1 DEF BeforePost
  <2>6. UNCHANGED <<retry, posts>>
    BY DEF store
  <2>7. \A s \in Seqs, n \in 1..MaxAttempts :
           posts'[s][n] <= 1 /\ (n > retry'[s].count => posts'[s][n] = 0)
    BY <2>6 DEF PostInv
  <2>8. ASSUME NEW v \in Worker \ {w}
        PROVE  LET s == loc'[v].seq
                   n == loc'[v].n
               IN  /\ pc'[v] = "claim" =>
                         n <= retry'[s].count + 1 /\ ~(n = retry'[s].count /\ retry'[s].by = v)
                   /\ pc'[v] = "readClaim" /\ HoldsClaim(v)' => posts'[s][n] = 0
                   /\ BeforePost(v)' =>
                         /\ posts'[s][n] = 0
                         /\ n <= retry'[s].count
                         /\ n = retry'[s].count => retry'[s].by = v
                         /\ \A u \in Worker \ {v} :
                              BeforePost(u)' => <<loc'[u].seq, loc'[u].n>> # <<s, n>>
    <3>1. pc'[v] = pc[v] /\ loc'[v] = loc[v] /\ (HoldsClaim(v)' <=> HoldsClaim(v))
      BY <2>6 DEF HoldsClaim
    <3>2. ASSUME BeforePost(v)', NEW u \in Worker \ {v}, BeforePost(u)'
          PROVE  <<loc'[u].seq, loc'[u].n>> # <<loc[v].seq, loc[v].n>>
      BY <2>4, <2>5, <3>2 DEF PostInv
    <3> QED BY <2>4, <2>6, <3>1, <3>2 DEF PostInv
  <2>9. /\ loc'[w].n <= retry'[loc'[w].seq].count + 1
        /\ loc'[w].n # retry'[loc'[w].seq].count
    BY <2>2, <2>3, <2>6
  <2> QED BY <2>1, <2>5, <2>7, <2>8, <2>9 DEF PostInv
<1> QED BY <1>2, <1>3 DEF StartClaim

\* The claim's compare-and-set gives w an attempt nobody has posted, and no
\* other worker keeps one it had.
LEMMA ClaimPost ==
    ASSUME CheckpointAssumption, TypeOK, LocalsInv, RetryInv, PostInv, NEW w \in Worker,
           ClaimDelivery(w)
    PROVE  PostInv'
<1> USE DEF Own, Owning, Posting
<1> DEFINE s == loc[w].seq
           n == loc[w].n
           claimed == [status |-> "claimed", count |-> n, by |-> w, due |-> FALSE, lapsed |-> FALSE]
<1>1. s \in Seqs /\ n \in 1..MaxAttempts /\ loc[w].by = w /\ pc[w] = "claim"
  BY DEF ClaimDelivery, LocalsInv, LocalOK
<1>2. UNCHANGED <<posts, loc>> /\ pc'[w] = "readClaim"
  BY Arrives DEF ClaimDelivery
<1>3. \A v \in Worker \ {w} : pc'[v] = pc[v]
  BY DEF ClaimDelivery, Goto, TypeOK
<1>4. ~(n = retry[s].count /\ retry[s].by = w) /\ n <= retry[s].count + 1
  BY <1>1 DEF PostInv
<1>5. \A v \in Worker : BeforePost(v)' => v # w /\ BeforePost(v)
  BY <1>2, <1>3 DEF BeforePost
<1>6. \A t \in Seqs : retry[t] \in RetryRow /\ retry[t].count \in Nat
  BY DEF TypeOK, RetryRow
<1>7. \A v \in Worker : pc[v] # "idle" => loc[v].seq \in Seqs
  BY DEF LocalsInv, LocalOK
<1>8. CASE UNCHANGED retry
  <2>1. HoldsClaim(w)' => FALSE
    BY <1>1, <1>2, <1>4, <1>8 DEF HoldsClaim
  <2>2. \A v \in Worker : HoldsClaim(v)' <=> HoldsClaim(v)
    BY <1>2, <1>8 DEF HoldsClaim
  <2>3. ASSUME NEW v \in Worker, pc'[v] = "readClaim", HoldsClaim(v)'
        PROVE  posts[loc[v].seq][loc[v].n] = 0
    BY <1>3, <2>1, <2>2, <2>3 DEF PostInv
  <2>4. ASSUME NEW v \in Worker, pc'[v] = "claim"
        PROVE  v # w /\ pc[v] = "claim"
    BY <1>2, <1>3, <2>4
  <2> QED BY <1>2, <1>5, <1>8, <2>3, <2>4 DEF PostInv
<1>9. CASE retry[s].count = n - 1 /\ retry' = [retry EXCEPT ![s] = claimed]
  <2>1. /\ retry'[s].count = n /\ retry'[s].by = w /\ retry'[s].status = "claimed"
        /\ \A t \in Seqs \ {s} : retry'[t] = retry[t]
    BY <1>1, <1>9 DEF TypeOK
  <2>2. posts[s][n] = 0
    BY <1>1, <1>6, <1>9 DEF PostInv
  <2>3. ASSUME NEW t \in Seqs, NEW m \in 1..MaxAttempts
        PROVE  posts'[t][m] <= 1 /\ (m > retry'[t].count => posts'[t][m] = 0)
    BY <1>1, <1>2, <1>6, <1>9, <2>1 DEF PostInv
  <2>4. ASSUME NEW v \in Worker, pc'[v] = "claim"
        PROVE  /\ loc'[v].n <= retry'[loc'[v].seq].count + 1
               /\ ~(loc'[v].n = retry'[loc'[v].seq].count /\ retry'[loc'[v].seq].by = v)
    <3>1. v # w /\ pc[v] = "claim" /\ loc[v].seq \in Seqs /\ loc[v].n \in 1..MaxAttempts
      BY <1>2, <1>3, <2>4 DEF LocalsInv, LocalOK
    <3>2. /\ loc[v].n <= retry[loc[v].seq].count + 1
          /\ ~(loc[v].n = retry[loc[v].seq].count /\ retry[loc[v].seq].by = v)
      BY <3>1 DEF PostInv
    <3>3. CASE loc[v].seq = s
      BY <1>1, <1>2, <1>9, <2>1, <3>1, <3>2, <3>3
    <3>4. CASE loc[v].seq # s
      BY <1>2, <2>1, <3>1, <3>2, <3>4
    <3> QED BY <3>3, <3>4
  <2>5. ASSUME NEW v \in Worker, pc'[v] = "readClaim", HoldsClaim(v)'
        PROVE  posts'[loc'[v].seq][loc'[v].n] = 0
    <3>1. CASE v = w
      BY <1>2, <2>2, <3>1
    <3>2. CASE v # w
      <4>1. pc[v] = "readClaim" /\ loc[v].by = v /\ loc[v].seq \in Seqs
        BY <1>3, <2>5, <3>2 DEF LocalsInv, LocalOK
      <4>2. loc[v].seq # s
        BY <1>2, <2>1, <2>5, <3>2, <4>1 DEF HoldsClaim
      <4>3. HoldsClaim(v)
        BY <1>2, <2>1, <2>5, <4>1, <4>2 DEF HoldsClaim
      <4> QED BY <1>2, <4>1, <4>3 DEF PostInv
    <3> QED BY <3>1, <3>2
  <2>6. ASSUME NEW v \in Worker, BeforePost(v)'
        PROVE  /\ posts'[loc'[v].seq][loc'[v].n] = 0
               /\ loc'[v].n <= retry'[loc'[v].seq].count
               /\ loc'[v].n = retry'[loc'[v].seq].count => retry'[loc'[v].seq].by = v
               /\ \A u \in Worker \ {v} :
                    BeforePost(u)' => <<loc'[u].seq, loc'[u].n>> # <<loc'[v].seq, loc'[v].n>>
    <3>1. BeforePost(v) /\ loc[v].seq \in Seqs /\ loc[v].n \in 1..MaxAttempts
      BY <1>5, <2>6 DEF BeforePost, LocalsInv, LocalOK
    <3>2. /\ posts[loc[v].seq][loc[v].n] = 0
          /\ loc[v].n <= retry[loc[v].seq].count
          /\ loc[v].n = retry[loc[v].seq].count => retry[loc[v].seq].by = v
          /\ \A u \in Worker \ {v} :
                BeforePost(u) => <<loc[u].seq, loc[u].n>> # <<loc[v].seq, loc[v].n>>
      BY <3>1 DEF PostInv
    <3>3. /\ loc[v].n <= retry'[loc[v].seq].count
          /\ loc[v].n = retry'[loc[v].seq].count => retry'[loc[v].seq].by = v
      <4>1. CASE loc[v].seq = s
        BY <1>1, <1>9, <2>1, <3>1, <3>2, <4>1
      <4>2. CASE loc[v].seq # s
        BY <2>1, <3>1, <3>2, <4>2
      <4> QED BY <4>1, <4>2
    <3> QED BY <1>2, <1>5, <3>2, <3>3
  <2> QED BY <2>3, <2>4, <2>5, <2>6 DEF PostInv
<1>10. UNCHANGED retry \/ (retry[s].count = n - 1 /\ retry' = [retry EXCEPT ![s] = claimed])
  BY DEF ClaimDelivery
<1> QED BY <1>8, <1>9, <1>10

\* The exact-claim read sends w on only if the claim is still its own.
LEMMA ReadClaimPost ==
    ASSUME CheckpointAssumption, TypeOK, LocalsInv, RetryInv, PostInv, NEW w \in Worker,
           ReadClaim(w)
    PROVE  PostInv'
<1> USE DEF Own, Owning, Posting
<1>1. UNCHANGED <<retry, posts>> /\ pc[w] = "readClaim"
  BY DEF ReadClaim, store
<1>2. \A v \in Worker \ {w} : pc'[v] = pc[v] /\ loc'[v] = loc[v]
  BY OthersStay DEF Step
<1>3. CASE ~HoldsClaim(w) /\ Return(w)
  <2>1. pc'[w] = "idle"
    BY <1>3, Arrives DEF Return
  <2>2. \A v \in Worker : Nearer(v)
    BY <1>2, <2>1 DEF Nearer
  <2>3. Calm
    BY <1>1 DEF Calm
  <2> QED BY <1>1, <2>2, <2>3, CalmPost
<1>4. CASE HoldsClaim(w) /\ Goto(w, "head1") /\ UNCHANGED loc
  <2>1. pc'[w] = "head1"
    BY <1>4, Arrives
  <2>2. loc[w].by = w /\ loc[w].n \in Nat
    BY <1>1 DEF LocalsInv, LocalOK
  <2>3. /\ posts[loc[w].seq][loc[w].n] = 0
        /\ retry[loc[w].seq].count = loc[w].n /\ retry[loc[w].seq].by = w
    BY <1>1, <1>4, <2>2 DEF PostInv, HoldsClaim
  <2>4. ASSUME NEW v \in Worker \ {w}, BeforePost(v)
        PROVE  <<loc[v].seq, loc[v].n>> # <<loc[w].seq, loc[w].n>>
    BY <2>3, <2>4 DEF PostInv
  <2>5. \A v \in Worker \ {w} : BeforePost(v)' <=> BeforePost(v)
    BY <1>2 DEF BeforePost
  <2>6. \A s \in Seqs, n \in 1..MaxAttempts :
           posts'[s][n] <= 1 /\ (n > retry'[s].count => posts'[s][n] = 0)
    BY <1>1 DEF PostInv
  <2>7. ASSUME NEW v \in Worker, BeforePost(v)'
        PROVE  /\ posts'[loc'[v].seq][loc'[v].n] = 0
               /\ loc'[v].n <= retry'[loc'[v].seq].count
               /\ loc'[v].n = retry'[loc'[v].seq].count => retry'[loc'[v].seq].by = v
               /\ \A u \in Worker \ {v} :
                    BeforePost(u)' => <<loc'[u].seq, loc'[u].n>> # <<loc'[v].seq, loc'[v].n>>
    <3>1. CASE v = w
      BY <1>1, <1>4, <2>2, <2>3, <2>4, <2>5, <3>1
    <3>2. CASE v # w
      <4>1. BeforePost(v)
        BY <2>5, <2>7, <3>2
      <4>2. \A u \in Worker \ {v} :
               BeforePost(u)' => <<loc[u].seq, loc[u].n>> # <<loc[v].seq, loc[v].n>>
        BY <2>4, <2>5, <3>2, <4>1 DEF PostInv
      <4> QED BY <1>1, <1>4, <4>1, <4>2 DEF PostInv
    <3> QED BY <3>1, <3>2
  <2>8. ASSUME NEW v \in Worker, pc'[v] \in {"claim", "readClaim"}
        PROVE  v # w /\ pc'[v] = pc[v] /\ loc'[v] = loc[v] /\ (HoldsClaim(v)' <=> HoldsClaim(v))
    BY <1>1, <1>2, <2>1, <2>8 DEF HoldsClaim
  <2> QED BY <1>1, <2>6, <2>7, <2>8 DEF PostInv
<1> QED BY <1>3, <1>4 DEF ReadClaim

\* The request is the first one for its claim.
LEMMA RequestPost ==
    ASSUME CheckpointAssumption, TypeOK, LocalsInv, RetryInv, PostInv, NEW w \in Worker,
           PostCheckpoint(w)
    PROVE  PostInv'
<1> USE DEF Own, Owning, Posting
<1> DEFINE s == loc[w].seq
           n == loc[w].n
<1>1. UNCHANGED retry /\ pc[w] = "post"
  BY DEF PostCheckpoint
<1>2. \A v \in Worker \ {w} : pc'[v] = pc[v] /\ loc'[v] = loc[v]
  BY OthersStay DEF Step
<1>3. pc'[w] \in {"head2", "fail"}
  BY Arrives DEF PostCheckpoint, FailWith
<1>4. s \in Seqs /\ n \in 1..MaxAttempts
  BY <1>1 DEF LocalsInv, LocalOK
<1>5. /\ posts[s][n] = 0 /\ n <= retry[s].count
      /\ n = retry[s].count => retry[s].by = w
      /\ \A v \in Worker \ {w} : BeforePost(v) => <<loc[v].seq, loc[v].n>> # <<s, n>>
  BY <1>1 DEF PostInv, BeforePost
<1>6. /\ posts'[s][n] = 1
      /\ \A t \in Seqs, m \in 1..MaxAttempts : <<t, m>> # <<s, n>> => posts'[t][m] = posts[t][m]
  <2>1. posts' = [posts EXCEPT ![s][n] = posts[s][n] + 1]
    BY DEF PostCheckpoint
  <2> QED BY <1>4, <1>5, <2>1 DEF TypeOK
<1>7. \A t \in Seqs : retry[t].count \in Nat
  BY DEF TypeOK, RetryRow
<1>8. ASSUME NEW t \in Seqs, NEW m \in 1..MaxAttempts
      PROVE  posts'[t][m] <= 1 /\ (m > retry'[t].count => posts'[t][m] = 0)
  <2>1. CASE <<t, m>> = <<s, n>>
    BY <1>1, <1>4, <1>5, <1>6, <1>7, <2>1
  <2>2. CASE <<t, m>> # <<s, n>>
    BY <1>1, <1>6, <2>2 DEF PostInv
  <2> QED BY <2>1, <2>2
<1>9. ASSUME NEW v \in Worker, pc'[v] \in Posting
      PROVE  /\ v # w /\ pc[v] = pc'[v] /\ loc'[v] = loc[v]
             /\ HoldsClaim(v)' <=> HoldsClaim(v)
  BY <1>1, <1>2, <1>3, <1>9 DEF HoldsClaim
<1>10. ASSUME NEW v \in Worker, pc'[v] = "readClaim", HoldsClaim(v)'
       PROVE  posts'[loc'[v].seq][loc'[v].n] = 0
  <2>1. /\ v # w /\ pc[v] = "readClaim" /\ loc'[v] = loc[v] /\ HoldsClaim(v)
        /\ loc[v].by = v /\ loc[v].seq \in Seqs /\ loc[v].n \in 1..MaxAttempts
    BY <1>9, <1>10 DEF LocalsInv, LocalOK
  <2>2. <<loc[v].seq, loc[v].n>> # <<s, n>>
    BY <1>5, <2>1 DEF HoldsClaim
  <2>3. posts[loc[v].seq][loc[v].n] = 0
    BY <2>1 DEF PostInv
  <2> QED BY <1>6, <2>1, <2>2, <2>3
<1>11. ASSUME NEW v \in Worker, BeforePost(v)'
       PROVE  BeforePost(v) /\ v # w /\ loc'[v] = loc[v] /\ loc[v].seq \in Seqs /\ loc[v].n \in 1..MaxAttempts
  <2>1. v # w /\ pc[v] = pc'[v] /\ loc'[v] = loc[v]
    BY <1>9, <1>11 DEF BeforePost
  <2> QED BY <1>11, <2>1 DEF BeforePost, LocalsInv, LocalOK
<1>12. ASSUME NEW v \in Worker, BeforePost(v)'
       PROVE  /\ posts'[loc'[v].seq][loc'[v].n] = 0
              /\ loc'[v].n <= retry'[loc'[v].seq].count
              /\ loc'[v].n = retry'[loc'[v].seq].count => retry'[loc'[v].seq].by = v
              /\ \A u \in Worker \ {v} :
                   BeforePost(u)' => <<loc'[u].seq, loc'[u].n>> # <<loc'[v].seq, loc'[v].n>>
  <2>1. /\ posts[loc[v].seq][loc[v].n] = 0
        /\ loc[v].n <= retry[loc[v].seq].count
        /\ loc[v].n = retry[loc[v].seq].count => retry[loc[v].seq].by = v
        /\ \A u \in Worker \ {v} :
              BeforePost(u) => <<loc[u].seq, loc[u].n>> # <<loc[v].seq, loc[v].n>>
    BY <1>11, <1>12 DEF PostInv
  <2>2. posts'[loc[v].seq][loc[v].n] = 0
    BY <1>5, <1>6, <1>11, <1>12, <2>1
  <2>3. ASSUME NEW u \in Worker \ {v}, BeforePost(u)'
        PROVE  <<loc'[u].seq, loc'[u].n>> # <<loc'[v].seq, loc'[v].n>>
    BY <1>11, <1>12, <2>1, <2>3
  <2> QED BY <1>1, <1>11, <1>12, <2>1, <2>2, <2>3
<1>13. ASSUME NEW v \in Worker, pc'[v] = "claim"
       PROVE  /\ loc'[v].n <= retry'[loc'[v].seq].count + 1
              /\ ~(loc'[v].n = retry'[loc'[v].seq].count /\ retry'[loc'[v].seq].by = v)
  BY <1>1, <1>9, <1>13 DEF PostInv
<1> QED BY <1>8, <1>10, <1>12, <1>13 DEF PostInv

\* What the other steps do to the retry rows takes no claim.
LEMMA CalmEffect ==
    ASSUME CheckpointAssumption, TypeOK, LocalsInv, Log, [Next]_vars,
           \A w \in Worker : ~ClaimDelivery(w)
    PROVE  Calm
<1> USE DEF Own, Owning, Failing
<1>1. \A t \in Seqs : retry[t] \in RetryRow
  BY DEF TypeOK
<1>2. CASE UNCHANGED retry
  BY <1>2 DEF Calm
<1>3. ASSUME NEW s \in Seqs, TimePasses(s) PROVE Calm
  <2>1. \A r \in {[retry[s] EXCEPT !.lapsed = TRUE], [retry[s] EXCEPT !.due = TRUE]} :
           r.status = retry[s].status /\ r.count = retry[s].count /\ r.by = retry[s].by
    BY <1>1 DEF RetryRow
  <2>2. \/ retry' = [retry EXCEPT ![s] = [retry[s] EXCEPT !.lapsed = TRUE]]
        \/ retry' = [retry EXCEPT ![s] = [retry[s] EXCEPT !.due = TRUE]]
    BY <1>3 DEF TimePasses
  <2> QED BY <2>1, <2>2 DEF Calm, TypeOK
<1>4. ASSUME NEW s \in Seqs, RowCreated(s) PROVE Calm
  <2>1. retry'[s] = NewRetryRow /\ \A t \in Seqs \ {s} : retry'[t] = retry[t]
    BY <1>4 DEF RowCreated, TypeOK
  <2>2. retry[s].count = 0
    BY <1>4 DEF RowCreated, Log, RetryInv
  <2> QED BY <2>1, <2>2 DEF Calm, NewRetryRow
<1>5. ASSUME NEW s \in Seqs, NEW n \in 1..MaxAttempts, NEW w \in Worker,
             NEW outcome \in {"delivered"} \union FailureCodes, OutcomeLogged(s, n, w, outcome)
      PROVE  Calm
  <2> DEFINE status == IF outcome = "delivered" THEN "delivered"
                       ELSE IF retry[s].count >= MaxAttempts THEN "action_required"
                       ELSE "retrying"
  <2>1. status # "claimed"
    OBVIOUS
  <2>2. retry' = [retry EXCEPT ![s] = [retry[s] EXCEPT !.status = status, !.lapsed = FALSE]]
    BY <1>5 DEF OutcomeLogged, RecordAttempt
  <2> HIDE DEF status
  <2>3. /\ retry'[s] = [retry[s] EXCEPT !.status = status, !.lapsed = FALSE]
        /\ \A t \in Seqs \ {s} : retry'[t] = retry[t]
    BY <2>2 DEF TypeOK
  <2>4. retry'[s].status = status /\ retry'[s].count = retry[s].count /\ retry'[s].by = retry[s].by
    BY <1>1, <2>3 DEF RetryRow
  <2> QED BY <2>1, <2>3, <2>4 DEF Calm
<1>6. ASSUME NEW w \in Worker, Step(w) \/ Crash(w)
      PROVE  UNCHANGED retry \/ EnsureRetryState(w) \/ CommitDelivered(w) \/ FailClaim(w)
  BY <1>6 DEF Step, store, ReadHead, LoadExisting, PutCheckpoint, InsertCheckpoint, ReadWinner,
     DeleteLoser, CheckDelivered, ReadState, ReadRecovered, ReadClaim, CheckHead, VerifyCore,
     PostCheckpoint, PutReceipt, ReadDelivered, DropReceipt, ReadFailed, Crash
<1>7. ASSUME NEW w \in Worker, EnsureRetryState(w)
      PROVE  UNCHANGED retry \/ \E s \in Seqs : RowCreated(s)
  BY <1>7 DEF EnsureRetryState, RowCreated, LocalsInv, LocalOK
<1>8. ASSUME NEW w \in Worker, CommitDelivered(w)
      PROVE  UNCHANGED retry
             \/ \E s \in Seqs, n \in 1..MaxAttempts : OutcomeLogged(s, n, w, "delivered")
  BY <1>8 DEF CommitDelivered, InsertAttempt, HoldsClaim, OutcomeLogged, LocalsInv, LocalOK
<1>9. ASSUME NEW w \in Worker, FailClaim(w)
      PROVE  /\ loc[w].code \in FailureCodes
             /\ \/ UNCHANGED retry
                \/ \E s \in Seqs, n \in 1..MaxAttempts : OutcomeLogged(s, n, w, loc[w].code)
  BY <1>9 DEF FailClaim, InsertAttempt, HoldsClaim, OutcomeLogged, LocalsInv, LocalOK
<1>10. CASE AppendEvent \/ UNCHANGED vars
  BY <1>2, <1>10 DEF AppendEvent, vars
<1>11. CASE \E s \in Seqs : LapseLease(s) \/ BackoffElapses(s)
  BY <1>3, <1>11 DEF LapseLease, BackoffElapses, TimePasses
<1> QED BY <1>2, <1>4, <1>5, <1>6, <1>7, <1>8, <1>9, <1>10, <1>11 DEF Next

\* The steps that neither claim nor post bring no worker nearer to a request
\* than its control state allows.
LEMMA NearerStep ==
    ASSUME TypeOK, NEW w \in Worker, Step(w) \/ Crash(w),
           ~ReadState(w), ~ReadRecovered(w), ~ClaimDelivery(w), ~ReadClaim(w), ~PostCheckpoint(w)
    PROVE  UNCHANGED posts /\ \A v \in Worker : Nearer(v)
<1> USE DEF Posting
<1>1. CASE ReadHead(w) \/ LoadExisting(w) \/ PutCheckpoint(w) \/ InsertCheckpoint(w) \/ Crash(w)
  <2>1. UNCHANGED posts /\ pc'[w] \notin Posting
    BY <1>1, Arrives DEF ReadHead, LoadExisting, PutCheckpoint, InsertCheckpoint, Crash, Return, store
  <2> QED BY <1>1, <2>1, OthersStay DEF Step, Nearer
<1>2. CASE ReadWinner(w) \/ DeleteLoser(w) \/ CheckDelivered(w) \/ EnsureRetryState(w)
  <2>1. UNCHANGED posts /\ pc'[w] \notin Posting
    BY <1>2, Arrives DEF ReadWinner, DeleteLoser, CheckDelivered, EnsureRetryState, Return, store
  <2> QED BY <1>2, <2>1, OthersStay DEF Step, Nearer
<1>3. CASE CheckHead(w, "head1", "core") \/ VerifyCore(w)
  <2>1. UNCHANGED posts
    BY <1>3 DEF CheckHead, VerifyCore, store
  <2>2. Nearer(w)
    BY <1>3, Arrives DEF CheckHead, VerifyCore, FailWith, Nearer, BeforePost
  <2> QED BY <1>3, <2>1, <2>2, OthersStay DEF Step, Nearer
<1>4. CASE CheckHead(w, "head2", "putReceipt") \/ PutReceipt(w) \/ CommitDelivered(w)
           \/ ReadDelivered(w) \/ DropReceipt(w) \/ FailClaim(w) \/ ReadFailed(w)
  <2>1. UNCHANGED posts /\ pc'[w] \notin Posting
    BY <1>4, Arrives DEF CheckHead, PutReceipt, CommitDelivered, InsertAttempt, ReadDelivered,
       Uncertain, DropReceipt, FailClaim, ReadFailed, FailWith, Return, store
  <2> QED BY <1>4, <2>1, OthersStay DEF Step, Nearer
<1> QED BY <1>1, <1>2, <1>3, <1>4 DEF Step

\* No step posts a claim a second time or lets two workers post the same one.
LEMMA PostStep ==
    ASSUME CheckpointAssumption, TypeOK, LocalsInv, Log, PostInv, [Next]_vars
    PROVE  PostInv'
<1>1. RetryInv
  BY DEF Log
<1>2. CASE AppendEvent \/ UNCHANGED vars \/ \E s \in Seqs : LapseLease(s) \/ BackoffElapses(s)
  <2>1. UNCHANGED <<posts, pc, loc>>
    BY <1>2 DEF AppendEvent, LapseLease, BackoffElapses, vars
  <2>2. \A v \in Worker : Nearer(v)
    BY <2>1 DEF Nearer
  <2>3. Calm
    <3>1. ASSUME NEW w \in Worker, ClaimDelivery(w) PROVE FALSE
      <4>1. pc[w] = "claim" /\ pc'[w] = "readClaim"
        BY <3>1, Arrives DEF ClaimDelivery
      <4> QED BY <2>1, <4>1
    <3> QED BY <3>1, CalmEffect
  <2> QED BY <1>1, <2>1, <2>2, <2>3, CalmPost
<1>3. ASSUME NEW w \in Worker, Step(w) \/ Crash(w) PROVE PostInv'
  <2>1. \A v \in Worker \ {w} : pc'[v] = pc[v] /\ loc'[v] = loc[v]
    BY <1>3, OthersStay
  <2>2. CASE ReadState(w)
    <3>1. CASE StartClaim(w, retry[loc[w].seq])
      BY <1>1, <2>1, <2>2, <3>1, StartPost DEF ReadState
    <3>2. CASE Return(w) \/ Goto(w, "fail")
      <4>1. pc'[w] \in {"idle", "fail"}
        BY <3>2, Arrives DEF Return
      <4>2. \A v \in Worker : Nearer(v)
        BY <2>1, <4>1 DEF Nearer, Posting
      <4>3. UNCHANGED <<retry, posts>>
        BY <2>2 DEF ReadState, store
      <4> QED BY <1>1, <4>2, <4>3, CalmPost DEF Calm
    <3> QED BY <2>2, <3>1, <3>2 DEF ReadState
  <2>3. CASE ReadRecovered(w)
    <3>1. CASE StartClaim(w, retry[loc[w].seq])
      BY <1>1, <2>1, <2>3, <3>1, StartPost DEF ReadRecovered
    <3>2. CASE Return(w)
      <4>1. pc'[w] = "idle"
        BY <3>2, Arrives DEF Return
      <4>2. \A v \in Worker : Nearer(v)
        BY <2>1, <4>1 DEF Nearer, Posting
      <4>3. UNCHANGED <<retry, posts>>
        BY <2>3 DEF ReadRecovered, store
      <4> QED BY <1>1, <4>2, <4>3, CalmPost DEF Calm
    <3> QED BY <2>3, <3>1, <3>2 DEF ReadRecovered
  <2>4. CASE ClaimDelivery(w)
    BY <1>1, <2>4, ClaimPost
  <2>5. CASE ReadClaim(w)
    BY <1>1, <2>5, ReadClaimPost
  <2>6. CASE PostCheckpoint(w)
    BY <1>1, <2>6, RequestPost
  <2>7. CASE ~ReadState(w) /\ ~ReadRecovered(w) /\ ~ClaimDelivery(w) /\ ~ReadClaim(w) /\ ~PostCheckpoint(w)
    <3>1. UNCHANGED posts /\ \A v \in Worker : Nearer(v)
      BY <1>3, <2>7, NearerStep
    <3>2. CASE UNCHANGED retry
      BY <1>1, <3>1, <3>2, CalmPost DEF Calm
    <3>3. CASE \E v \in Worker : ClaimDelivery(v)
      <4>1. PICK v \in Worker : ClaimDelivery(v)
        BY <3>3
      <4>2. pc[v] = "claim" /\ pc'[v] = "readClaim"
        BY <4>1, Arrives DEF ClaimDelivery
      <4> QED BY <2>1, <2>7, <4>1, <4>2
    <3>4. CASE \A v \in Worker : ~ClaimDelivery(v)
      BY <1>1, <3>1, <3>4, CalmEffect, CalmPost
    <3> QED BY <3>3, <3>4
  <2> QED BY <2>2, <2>3, <2>4, <2>5, <2>6, <2>7
<1> QED BY <1>2, <1>3 DEF Next

-----------------------------------------------------------------------------
(* The theorems.                                                           *)

\* The initial state satisfies every part of the inductive invariant.
LEMMA Initially == CheckpointAssumption /\ Init => IInv
<1> SUFFICES ASSUME CheckpointAssumption, Init PROVE IInv
  OBVIOUS
<1> USE DEF CheckpointAssumption
<1>1. NoRetryRow \in RetryRow /\ NoAttempt \in Attempt /\ NoLocals \in Locals
  BY DEF NoRetryRow, RetryRow, NoAttempt, Attempt, NoLocals, LocalsFor, Locals, MaybeWorker
<1>2. TypeOK
  BY <1>1 DEF Init, TypeOK, MaybeWorker, Steps
<1>3. LocalsInv
  BY DEF Init, LocalsInv, LocalOK, Own, Owning, Failing
<1>4. RetryInv /\ LedgerAccountsForClaims
  BY DEF Init, RetryInv, LedgerAccountsForClaims, Delivered, NoAttempt, NoRetryRow
<1>5. EnvelopeInv
  BY DEF Init, EnvelopeInv, CheckpointEnvelopeKept
<1>6. PostInv
  BY DEF Init, PostInv, BeforePost, NoRetryRow
<1>7. ReceiptInv
  BY DEF Init, ReceiptInv, DeliveredReceiptKept, NoAttempt
<1> QED BY <1>2, <1>3, <1>4, <1>5, <1>6, <1>7 DEF IInv

\* The inductive invariant.
LEMMA Inductive == Spec => []IInv
<1>1. Init => IInv
  BY CheckpointAssumption, Initially
<1>2. IInv /\ [Next]_vars => IInv'
  <2> SUFFICES ASSUME IInv, [Next]_vars PROVE IInv'
    OBVIOUS
  <2>1. TypeOK /\ LocalsInv /\ Log /\ EnvelopeInv /\ PostInv /\ ReceiptInv
    BY DEF IInv, Log
  <2>2. TypeOK' /\ LocalsInv'
    BY <2>1, CheckpointAssumption, TypeStep, TypeEnvironment DEF Next, Log
  <2>3. Log'
    BY <2>1, CheckpointAssumption, LogStep
  <2>4. EnvelopeInv' /\ PostInv' /\ ReceiptInv'
    BY <2>1, CheckpointAssumption, EnvelopeStep, PostStep, ReceiptStep
  <2> QED BY <2>2, <2>3, <2>4 DEF IInv, Log
<1> QED BY <1>1, <1>2, PTL DEF Spec

\* Every variable keeps its type in every reachable state, for any number of
\* workers, events, attempts and faults (the rows and objects of
\* checkpoints.ts have the shapes the migrations declare).
THEOREM TypeCorrect == Spec => []TypeOK
BY Inductive, PTL DEF IInv

\* For any number of workers, attempts and faults the retry row and the
\* append-only attempt log agree (completeFailedClaim, the delivered INSERT
\* and the completion trigger of drizzle/0027).
THEOREM LedgerCorrect == Spec => []LedgerAccountsForClaims
BY Inductive, PTL DEF IInv

\* The clean-up of race losers and of failed commits never deletes what a
\* committed row refers to, however many workers race and however many
\* responses are lost (createAuditCheckpoint, attemptCheckpointDelivery).
THEOREM ObjectsCorrect == Spec => []ReferencedObjectsKept
<1>1. IInv => ReferencedObjectsKept
  BY DEF IInv, EnvelopeInv, ReceiptInv, ReferencedObjectsKept
<1> QED BY <1>1, Inductive, PTL

\* A durable claim is posted to the witness at most once, and nothing is
\* posted without one, so MaxAttempts bounds the requests for a checkpoint
\* (claimCheckpointDelivery's compare-and-set and exact-claim read).
THEOREM PostsCorrect == Spec => []OnePostPerClaim
<1>1. IInv => OnePostPerClaim
  <2> SUFFICES ASSUME TypeOK, PostInv PROVE OnePostPerClaim
    BY DEF IInv
  <2>1. \A s \in Seqs : retry[s].count \in Nat
    BY DEF TypeOK, RetryRow
  <2> QED BY <2>1 DEF PostInv, OnePostPerClaim
<1> QED BY <1>1, Inductive, PTL
=============================================================================
