---------------------------- MODULE ApiAuditOutbox ----------------------------
(***************************************************************************)
(* The API audit outbox and its signer (AWS runtime).                      *)
(*                                                                         *)
(* An API route performs its operation, records an audit event in the      *)
(* outbox (one Aurora transaction: the immutable row and its work row) and *)
(* only then answers.  The signer Lambda leases the oldest due row, reads  *)
(* the head of the tenant's audit chain, has the event signed by KMS and   *)
(* appends it: one transaction continues the chain and completes the row.  *)
(* The legal-hold worker appends its own events to the same chain.         *)
(*                                                                         *)
(* The reserved concurrency of the signer may be set from 1 to 10 and its  *)
(* lease from 30 s, half of its timeout: two invocations may overlap, and  *)
(* a lease may run out under a live holder.                                *)
(***************************************************************************)
EXTENDS Integers, FiniteSets, FiniteSetsExt

CONSTANTS
    Rows,         \* bound: audited operations, each with its idempotency key
    Poison,       \* the rows the signer cannot parse
    Foreign,      \* events the legal-hold worker appends
    Signer,       \* signer invocations that may overlap, by their lease tokens
    None,         \* no row, no lease, no event before the first
    MaxAttempts,  \* attempts after which a row is dead-lettered (8)
    MaxFaults     \* bound: lost answers, failed calls, deaths, early expiries

\* Idempotency keys, numbered in the order in which their rows are recorded.
Key == 1 .. Rows

ASSUME ConstantsAssumption ==
    /\ Rows \in Nat
    /\ Poison \subseteq Key
    /\ Key \cap Foreign = {} /\ IsFiniteSet(Foreign)
    /\ None \notin Key \cup Foreign \cup Signer
    /\ MaxAttempts \in Nat \ {0} /\ MaxFaults \in Nat

VARIABLES
    answered,   \* operations the API answered with success
    work,       \* [Key -> the outbox row's work row]
    events,     \* the audit chain's events
    head,       \* audit_heads: sequence and event of the chain's end
    signer,     \* [Signer -> progress of the invocation]
    worker,     \* the legal-hold worker: the head it read, its next event
    open,       \* an append whose caller is gone and whose commit is under way
    faults

vars == <<answered, work, events, head, signer, worker, open,
          faults>>
database == <<work, events, head>>

Genesis == [sequence |-> 0, id |-> None]

Events == [sequence : 1 .. Cardinality(Key \cup Foreign), id : Key \cup Foreign,
           previous : Key \cup Foreign \cup {None}]
Heads == [sequence : 0 .. Cardinality(Key \cup Foreign), id : Key \cup Foreign \cup {None}]

\* event: the chain position the row was completed with; Genesis until then.
WorkRows == [state : {"none", "open", "completed", "dead"}, attempts : 0 .. MaxAttempts,
             due : BOOLEAN, lease : Signer \cup {None}, expired : BOOLEAN,
             after : Heads]

NoWork == [state |-> "none", attempts |-> 0, due |-> TRUE, lease |-> None,
           expired |-> FALSE, after |-> Genesis]

Idle == [pc |-> "idle", row |-> None, head |-> Genesis]

TypeOK ==
    /\ answered \subseteq Key
    /\ work \in [Key -> WorkRows]
    /\ events \subseteq Events
    /\ head \in Heads
    /\ signer \in [Signer -> [pc : {"idle", "read", "append", "failed"},
                              row : Key \cup {None}, head : Heads]]
    /\ worker \in [pc : {"idle", "append"}, head : Heads]
    /\ open \in [signer : Signer \cup {None}, row : Key \cup {None}, head : Heads]
    /\ faults \in 0 .. MaxFaults

NotOpen == [signer |-> None, row |-> None, head |-> Genesis]

Init ==
    /\ answered = {}
    /\ work = [k \in Key |-> NoWork]
    /\ events = {}
    /\ head = Genesis
    /\ signer = [s \in Signer |-> Idle]
    /\ worker = [pc |-> "idle", head |-> Genesis]
    /\ open = NotOpen
    /\ faults = 0

Fault == faults < MaxFaults /\ faults' = faults + 1
NoFault == UNCHANGED faults

-----------------------------------------------------------------------------
(* The API.                                                                *)

\* The event of a key is recorded once: a repeated call with the same facts finds
\* the row, whatever became of it.
RecordApiAudit(k) ==
    IF work[k].state = "none"
    THEN work' = [work EXCEPT ![k].state = "open"]
    ELSE UNCHANGED work

\* The route has performed its operation; it records the event and answers.
\* When the record fails, or its answer is lost, the caller gets an error and may
\* try again.
Record(k) ==
    /\ \A j \in 1 .. k - 1 : work[j].state # "none"
    /\ \/ RecordApiAudit(k) /\ answered' = answered \cup {k} /\ NoFault
       \/ RecordApiAudit(k) /\ UNCHANGED answered /\ Fault
    /\ UNCHANGED <<events, head, signer, worker, open>>

-----------------------------------------------------------------------------
(* Time.                                                                   *)

\* The back-off of a failed row ends.
BecomeDue(k) ==
    /\ work[k].state = "open"
    /\ ~work[k].due
    /\ work' = [work EXCEPT ![k].due = TRUE]
    /\ UNCHANGED <<answered, events, head, signer, worker, open, faults>>

Holds(s, k) == signer[s].row = k /\ work[k].lease = s

\* A lease outlives its holder's invocation, or runs out under a slow one.
ExpireLease(k) ==
    /\ work[k].lease # None
    /\ ~work[k].expired
    /\ IF \E s \in Signer : Holds(s, k) THEN Fault ELSE NoFault
    /\ work' = [work EXCEPT ![k].expired = TRUE]
    /\ UNCHANGED <<answered, events, head, signer, worker, open>>

-----------------------------------------------------------------------------
(* The signer.                                                             *)

At(s, pc) == signer[s].pc = pc
Goto(s, pc) == signer' = [signer EXCEPT ![s].pc = pc]
EndItem(s) == signer' = [signer EXCEPT ![s] = Idle]

\* Rows a claim may take; the one an open transaction has locked is skipped.
Claimable ==
    {k \in Key : /\ work[k].state = "open" /\ work[k].attempts < MaxAttempts
                 /\ work[k].due
                 /\ work[k].lease = None \/ work[k].expired
                 /\ open.row # k}

\* The signer's parser accepts the row it claimed.
Parses(k) == k \notin Poison

\* A mutant: the row is parsed inside the claim's transaction.
ClaimParsesFirst(s) ==
    /\ At(s, "idle")
    /\ Claimable \ Poison # {}
    /\ Min(Claimable) \notin Poison
    /\ work' = [work EXCEPT ![Min(Claimable)].lease = s, ![Min(Claimable)].expired = FALSE]
    /\ signer' = [signer EXCEPT ![s] = [pc |-> "read", row |-> Min(Claimable), head |-> Genesis]]
    /\ UNCHANGED <<answered, events, head, worker, open, faults>>

\* The lease commits before the row is parsed, so that a row that cannot be
\* parsed counts as an attempt; when the answer is lost the invocation ends.
Claim(s) ==
    /\ At(s, "idle")
    /\ Claimable # {}
    /\ LET k == Min(Claimable)
       IN  /\ work' = [work EXCEPT ![k].lease = s, ![k].expired = FALSE]
           /\ \/ /\ signer' = [signer EXCEPT ![s] =
                       [pc |-> IF Parses(k) THEN "read" ELSE "failed",
                        row |-> k, head |-> Genesis]]
                 /\ NoFault
              \/ UNCHANGED signer /\ Fault
    /\ UNCHANGED <<answered, events, head, worker, open>>

\* The head is read in a transaction of its own; the event continues it and is
\* signed outside any transaction.
ReadHead(s) ==
    /\ At(s, "read")
    /\ \/ signer' = [signer EXCEPT ![s].pc = "append", ![s].head = head] /\ NoFault
       \/ Goto(s, "failed") /\ Fault
    /\ UNCHANGED <<answered, database, worker, open>>

\* A mutant: the previous hash is not compared with the head's.
ContinuesAnywhere(after) == after.sequence <= head.sequence

\* advance_audit_head: an event must continue the head it names.
Continues(after) == after = head

\* An event enters the chain and moves its head.
AppendEvent(id, after) ==
    /\ events' = events \cup {[sequence |-> after.sequence + 1, id |-> id,
                               previous |-> after.id]}
    /\ head' = [sequence |-> after.sequence + 1, id |-> id]

\* A row already completed with the same event is a replay.
Replays(k, after) == work[k].state = "completed" /\ work[k].after = after

\* A mutant: neither the completion nor the lease of the row is compared.
MayCompleteUnlessDead(s, k) == work[k].state # "dead"

\* A row is completed, and its failures counted, under the lease that claimed it.
MayComplete(s, k) == work[k].state = "open" /\ work[k].lease = s

Complete(k, after) ==
    work' = [work EXCEPT ![k].state = "completed", ![k].lease = None,
                         ![k].expired = FALSE, ![k].after = after]

\* append_signed_api_audit_event: the row is open under this lease, its event is
\* not in the chain yet, and it continues the chain.
MayAppend(s, k, after) ==
    MayComplete(s, k) /\ Continues(after) /\ \A e \in events : e.id # k

AppendSigned(s, k, after) ==
    /\ MayAppend(s, k, after)
    /\ AppendEvent(k, after)
    /\ Complete(k, after)

\* The append: applied or replayed, refused, lost before or after its commit.
\* An open transaction holds the head, and later appends wait for it.
SignAndAppend(s) ==
    LET k == signer[s].row
        after == signer[s].head
    IN  /\ At(s, "append")
        /\ open = NotOpen
        /\ \/ AppendSigned(s, k, after) /\ EndItem(s) /\ NoFault
           \/ AppendSigned(s, k, after) /\ Goto(s, "failed") /\ Fault
           \/ Replays(k, after) /\ EndItem(s) /\ UNCHANGED database /\ NoFault
           \/ /\ ~Replays(k, after) /\ ~MayAppend(s, k, after)
              /\ Goto(s, "failed") /\ UNCHANGED database /\ NoFault
           \/ Goto(s, "failed") /\ UNCHANGED database /\ Fault
        /\ UNCHANGED <<answered, worker, open>>

\* One failed attempt of the row: its lease ends, it backs off, and the last
\* attempt dead-letters it.
CountAttempt(k) ==
    work' = [work EXCEPT ![k].attempts = work[k].attempts + 1,
                         ![k].due = FALSE, ![k].lease = None, ![k].expired = FALSE,
                         ![k].state = IF work[k].attempts + 1 >= MaxAttempts
                                      THEN "dead" ELSE "open"]

\* The store's report of a failure: only the holder of an open row counts it, a
\* completed or dead-lettered row is reported as such, and the call waits for
\* the row lock of an open transaction.
ReportFailure(s, k) ==
    /\ open.row # k
    /\ IF MayComplete(s, k) THEN CountAttempt(k) ELSE UNCHANGED work

\* The signer reports the failure of its item; when that fails too, the
\* invocation ends.
RecordFailure(s) ==
    LET k == signer[s].row IN
    /\ At(s, "failed")
    /\ \/ ReportFailure(s, k) /\ NoFault
       \/ open.row # k /\ UNCHANGED work /\ Fault
    /\ EndItem(s)
    /\ UNCHANGED <<answered, events, head, worker, open>>

\* The invocation dies; the commit of its append may still be under way.
Crash(s) ==
    /\ ~At(s, "idle")
    /\ Fault
    /\ EndItem(s)
    /\ \/ UNCHANGED open
       \/ /\ At(s, "append") /\ open = NotOpen
          /\ MayAppend(s, signer[s].row, signer[s].head)
          /\ open' = [signer |-> s, row |-> signer[s].row, head |-> signer[s].head]
    /\ UNCHANGED <<answered, database, worker>>

\* The open transaction commits, or the Data API rolls it back.
Settle ==
    /\ open # NotOpen
    /\ \/ AppendSigned(open.signer, open.row, open.head)
       \/ UNCHANGED database
    /\ open' = NotOpen
    /\ UNCHANGED <<answered, signer, worker, faults>>

-----------------------------------------------------------------------------
(* The legal-hold worker appends to the same chain.                        *)

ForeignDue == {f \in Foreign : \A e \in events : e.id # f}

WorkerRead ==
    /\ worker.pc = "idle"
    /\ ForeignDue # {}
    /\ worker' = [pc |-> "append", head |-> head]
    /\ UNCHANGED <<answered, database, signer, open, faults>>

\* Its append is refused when the head moved, and the next sweep tries again.
WorkerAppend ==
    /\ worker.pc = "append"
    /\ open = NotOpen
    /\ \E f \in ForeignDue :
         IF Continues(worker.head) THEN AppendEvent(f, worker.head)
                                   ELSE UNCHANGED <<events, head>>
    /\ worker' = [pc |-> "idle", head |-> Genesis]
    /\ UNCHANGED <<answered, work, signer, open, faults>>

-----------------------------------------------------------------------------
Signing(s) == Claim(s) \/ ReadHead(s) \/ SignAndAppend(s) \/ RecordFailure(s)

Next ==
    \/ \E k \in Key : Record(k) \/ BecomeDue(k) \/ ExpireLease(k)
    \/ \E s \in Signer : Signing(s) \/ Crash(s)
    \/ Settle \/ WorkerRead \/ WorkerAppend

\* The schedule runs the signer every minute and the worker's sweeps return;
\* leases and back-offs are times that pass; the Data API ends an abandoned
\* transaction.  Nothing obliges a client to come back.
Fairness ==
    /\ \A s \in Signer : WF_vars(Signing(s))
    /\ \A k \in Key : WF_vars(BecomeDue(k)) /\ WF_vars(ExpireLease(k))
    /\ WF_vars(Settle) /\ WF_vars(WorkerRead) /\ WF_vars(WorkerAppend)

Spec == Init /\ [][Next]_vars /\ Fairness

-----------------------------------------------------------------------------
(* Properties.                                                             *)

Signed(k) == work[k].state = "completed"

\* The rows are well formed; the tenant's audit events form one chain without fork, gap or repetition that
\* ends at the recorded head, whoever appends and whichever answers are lost.
OneChain ==
    /\ TypeOK
    /\ head.sequence = Cardinality(events)
    /\ \A e, f \in events : e.id = f.id \/ e.sequence = f.sequence => e = f
    /\ \A e \in events :
         \/ e.sequence = 1 /\ e.previous = None
         \/ \E f \in events : f.sequence = e.sequence - 1 /\ f.id = e.previous
    /\ events # {} => \E e \in events : e.sequence = head.sequence /\ e.id = head.id

\* A row is completed exactly when its event is in the chain, at the place the
\* row remembers: an event is neither signed for a dead-lettered row nor
\* forgotten because the answer was lost or the lease changed hands.
CompletedIffChained ==
    /\ \A k \in Key : Signed(k) <=> \E e \in events : e.id = k
    /\ \A e \in events : e.id \in Key =>
         [sequence |-> e.sequence - 1, id |-> e.previous] = work[e.id].after

\* Every operation the API answered is signed in the end, whatever the poisoned
\* rows before it, as long as the failures it may meet are fewer than its
\* attempts; and a poisoned row is dead-lettered rather than tried for ever.
AnsweredAreSigned ==
    /\ \A k \in Key \ Poison : k \in answered ~> Signed(k)
    /\ \A k \in Poison : k \in answered ~> work[k].state = "dead"
==============================================================================
