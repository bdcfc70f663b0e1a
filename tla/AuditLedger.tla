----------------------------- MODULE AuditLedger -----------------------------
(* The audited batch of lib/server/audit.ts over the audit_events triggers *)
(* of drizzle/0000 and the guard table of drizzle/0019.                    *)
(*                                                                         *)
(* A handler (Client) reads some rows, decides to change them, and calls   *)
(* executeAuditedBatch.  The call reads the chain head, builds the event   *)
(* and runs one transactional D1 batch; between the read and the batch any *)
(* other client may append.  A batch may also fail for reasons of its own, *)
(* or commit and lose its response (MaxFaults of them).                    *)
(*                                                                         *)
(* A row's value is the call that last changed it, so a compare-and-set    *)
(* mutation compares calls.  An event id is <<call, try>>: every try of a  *)
(* call draws a fresh one, and the hash of an event stands for its id.     *)
EXTENDS Naturals, Sequences, FiniteSets

CONSTANTS
    Client,        \* request handlers running concurrently
    Row,           \* rows of the application tables
    MaxCalls,      \* bound on the calls one client makes
    MaxFaults,     \* bound on failed batches and lost responses
    Tries          \* tries for the chain head (3 in the code)

ASSUME LedgerAssumption == MaxCalls \in Nat /\ MaxFaults \in Nat /\ Tries \in Nat \ {0}

VARIABLES
    log,       \* audit_events, in sequence order
    writer,    \* the call that last changed each row
    pc,        \* "idle", "read" (the head) or "batch"
    call,      \* the call each client is making
    outcome,   \* what each client's last call told its caller
    faults

vars == <<log, writer, pc, call, outcome, faults>>

CallId == Client \X (1..MaxCalls)
Untouched == <<>>
Genesis == <<>>
Kinds == {"guarded", "append", "plain"}

\* number of the call, its kind, the rows it means to change, the values the
\* handler read, the try it is at, the head it read, the length of the log
\* when it began
Calls == [number : 0..MaxCalls, kind : Kinds, want : SUBSET Row,
          read : [Row -> CallId \union {Untouched}], try : 1..Tries,
          prev : (CallId \X (1..Tries)) \union {Genesis}, began : Nat]

Event == [call : CallId, try : 1..Tries, kind : Kinds,
          prev : (CallId \X (1..Tries)) \union {Genesis},
          want : SUBSET Row, rows : SUBSET Row]

TypeOK ==
    /\ log \in Seq(Event)
    /\ writer \in [Row -> CallId \union {Untouched}]
    /\ pc \in [Client -> {"idle", "read", "batch"}]
    /\ call \in [Client -> Calls]
    /\ outcome \in [Client -> {"pending", "committed", "unchanged", "contended", "failed"}]
    /\ faults \in 0..MaxFaults

Init ==
    /\ log = <<>>
    /\ writer = [r \in Row |-> Untouched]
    /\ pc = [c \in Client |-> "idle"]
    /\ call = [c \in Client |-> [number |-> 0, kind |-> "plain", want |-> {},
                  read |-> [r \in Row |-> Untouched], try |-> 1,
                  prev |-> Genesis, began |-> 0]]
    /\ outcome = [c \in Client |-> "pending"]
    /\ faults = 0

-----------------------------------------------------------------------------

Id(c) == <<c, call[c].number>>
EventId(e) == <<e.call, e.try>>
ChainHead == IF log = <<>> THEN Genesis ELSE EventId(log[Len(log)])

Finish(c, result) ==
    /\ pc' = [pc EXCEPT ![c] = "idle"]
    /\ outcome' = [outcome EXCEPT ![c] = result]
    /\ UNCHANGED call

\* The handler reads the rows and decides.  "guarded" passes mutations and an
\* audit condition, "append" only a condition, "plain" only mutations.
Begin(c, kind, want) ==
    /\ pc[c] = "idle" /\ call[c].number < MaxCalls
    /\ want # {} \/ kind = "plain"
    /\ pc' = [pc EXCEPT ![c] = "read"]
    /\ call' = [call EXCEPT ![c] =
                  [number |-> @.number + 1, kind |-> kind, want |-> want,
                   read |-> writer, try |-> 1, prev |-> Genesis, began |-> Len(log)]]
    /\ outcome' = [outcome EXCEPT ![c] = "pending"]
    /\ UNCHANGED <<log, writer, faults>>

ReadHead(c) ==
    /\ pc[c] = "read"
    /\ pc' = [pc EXCEPT ![c] = "batch"]
    /\ call' = [call EXCEPT ![c] = [@ EXCEPT !.prev = ChainHead]]
    /\ UNCHANGED <<log, writer, outcome, faults>>

\* Rows on which the handler's compare-and-set mutations still hit.
Unmoved(c) == {r \in call[c].want : writer[r] = call[c].read[r]}
Changed(c) == IF call[c].kind = "append" THEN {} ELSE Unmoved(c)

\* The audit INSERT runs when the guard saw a change, when the condition
\* holds, or always.
WritesEvent(c) ==
    \/ call[c].kind = "guarded" /\ Changed(c) # {}
    \/ call[c].kind = "append" /\ Unmoved(c) = call[c].want
    \/ call[c].kind = "plain"

\* Mutant: the guard row has no CHECK.
GuardAbortsNever(c) == FALSE

\* The guard's CHECK: some mutation changed a row and yet the condition on
\* the state it leaves does not hold.
GuardAborts(c) ==
    call[c].kind = "guarded" /\ Changed(c) \notin {{}, call[c].want}

\* Mutant: the chain guard trigger is missing.
ChainAbortsNever(c) == FALSE

\* audit_events_chain_guard, a trigger of the INSERT.
ChainAborts(c) == WritesEvent(c) /\ call[c].prev # ChainHead

Apply(c) ==
    /\ writer' = [r \in Row |-> IF r \in Changed(c) THEN Id(c) ELSE writer[r]]
    /\ log' = IF WritesEvent(c)
              THEN Append(log, [call |-> Id(c), try |-> call[c].try, kind |-> call[c].kind,
                                prev |-> call[c].prev, want |-> call[c].want,
                                rows |-> Changed(c)])
              ELSE log

\* Mutant: the batch's statements commit one by one, so a chain abort comes
\* too late for the mutations.
RollbackKeepsMutations(c) ==
    /\ writer' = [r \in Row |-> IF r \in Changed(c) THEN Id(c) ELSE writer[r]]
    /\ UNCHANGED log

\* An aborted batch leaves nothing behind.
Rollback(c) == UNCHANGED <<log, writer>>

\* The batch commits and says so.
CommitBatch(c) ==
    /\ pc[c] = "batch" /\ ~GuardAborts(c) /\ ~ChainAborts(c)
    /\ Apply(c)
    /\ Finish(c, IF WritesEvent(c) THEN "committed" ELSE "unchanged")
    /\ UNCHANGED faults

\* "audit chain head changed": the same mutations again, on a fresh head.
Contend(c) ==
    /\ pc[c] = "batch" /\ ~GuardAborts(c) /\ ChainAborts(c)
    /\ Rollback(c)
    /\ \/ /\ call[c].try < Tries
          /\ pc' = [pc EXCEPT ![c] = "read"]
          /\ call' = [call EXCEPT ![c] = [@ EXCEPT !.try = call[c].try + 1]]
          /\ UNCHANGED outcome
       \/ call[c].try = Tries /\ Finish(c, "contended")
    /\ UNCHANGED faults

AbortOnGuard(c) ==
    /\ pc[c] = "batch" /\ GuardAborts(c)
    /\ Rollback(c)
    /\ Finish(c, "failed")
    /\ UNCHANGED faults

\* Mutant: any error is retried.
FailBatchRetries(c) ==
    /\ pc[c] = "batch" /\ faults < MaxFaults /\ call[c].try < Tries
    /\ faults' = faults + 1
    /\ \/ UNCHANGED <<log, writer>>
       \/ ~GuardAborts(c) /\ ~ChainAborts(c) /\ Apply(c)
    /\ pc' = [pc EXCEPT ![c] = "read"]
    /\ call' = [call EXCEPT ![c] = [@ EXCEPT !.try = call[c].try + 1]]
    /\ UNCHANGED outcome

\* Any other error is thrown at the caller, whether or not the batch took
\* effect before its response was lost.
FailBatch(c) ==
    /\ pc[c] = "batch" /\ faults < MaxFaults
    /\ faults' = faults + 1
    /\ \/ UNCHANGED <<log, writer>>
       \/ ~GuardAborts(c) /\ ~ChainAborts(c) /\ Apply(c)
    /\ Finish(c, "failed")

Step(c) ==
    \/ \E kind \in Kinds, want \in SUBSET Row : Begin(c, kind, want)
    \/ ReadHead(c) \/ CommitBatch(c) \/ Contend(c) \/ AbortOnGuard(c) \/ FailBatch(c)

Next == \E c \in Client : Step(c)
Spec == Init /\ [][Next]_vars

-----------------------------------------------------------------------------
(* Properties.                                                             *)

Logged(id) == \E i \in DOMAIN log : log[i].call = id

\* The hash chain has no gap and no fork: every event names the one before
\* it, although heads are read outside the transaction that uses them.
ChainIntact ==
    \A i \in DOMAIN log :
        log[i].prev = IF i = 1 THEN Genesis ELSE EventId(log[i - 1])

\* An event of a guarded batch never describes a partial change: either all
\* the rows the handler meant to change changed with it, or it is not there.
GuardedAllOrNothing ==
    \A i \in DOMAIN log :
        log[i].kind = "guarded" => log[i].rows = log[i].want

\* A caller that was told of a commit finds its event in the chain; one that
\* was told "unchanged" or gave up on contention left nothing there, so it
\* may safely start over.
CallersKnow ==
    \A c \in Client :
        /\ outcome[c] = "committed" => Logged(Id(c))
        /\ outcome[c] \in {"unchanged", "contended"} => ~Logged(Id(c))

\* Every step is a step of the serial ledger or invisible to it: no row
\* changes without its event, and no call is recorded twice, whatever is
\* retried or lost ("either both commit or both roll back").
Journal == [i \in DOMAIN log |-> [call |-> log[i].call, rows |-> log[i].rows]]
Serial == INSTANCE Ledger WITH Call <- CallId, journal <- Journal
IsSerialLedger == Serial!Spec
=============================================================================
