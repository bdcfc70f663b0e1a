----------------------------- MODULE ChainProofs -----------------------------
(* Theorems about the two chains of the Worker.                              *)
(* AuditLedger and AuditVerification, for any number of clients, rows,       *)
(* calls, faults and verifiers: first what holds of the audited batches      *)
(* alone, then that verifications only read, so that all of it holds beside  *)
(* them, and that their verdicts, cached ones included, are true of the      *)
(* calls they answer.                                                        *)
(* NativeProvenance, for any devices, captures, requests, changes and        *)
(* failures: every device's links form one chain, what is not linked is      *)
(* tracked, and no decision takes effect after it has become wrong.          *)
EXTENDS AuditVerification, NativeProvenance, FiniteSetTheorems, WellFoundedInduction, TLAPS

-----------------------------------------------------------------------------
(* Type correctness.                                                       *)

LEMMA ChainHeadType ==
    ASSUME log \in Seq(Event)
    PROVE  ChainHead \in (CallId \X (1..Tries)) \union {Genesis}
<1>1. CASE log = <<>>
  BY <1>1 DEF ChainHead
<1>2. CASE log # <<>>
  <2>1. Len(log) \in 1..Len(log)
    BY <1>2
  <2>2. log[Len(log)] \in Event
    BY <2>1
  <2>3. EventId(log[Len(log)]) \in CallId \X (1..Tries)
    BY <2>2 DEF EventId, Event
  <2> QED BY <1>2, <2>3 DEF ChainHead
<1> QED BY <1>1, <1>2

\* A client that is inside a call has a call number.
Numbered ==
    \A c \in Client : pc[c] # "idle" => call[c].number \in 1..MaxCalls

LEMMA FinishType ==
    ASSUME TypeOK, NEW c \in Client,
           NEW result \in {"committed", "unchanged", "contended", "failed"},
           Finish(c, result), Numbered
    PROVE  /\ pc' \in [Client -> {"idle", "read", "batch"}]
           /\ call' \in [Client -> Calls]
           /\ outcome' \in [Client -> {"pending", "committed", "unchanged", "contended", "failed"}]
           /\ Numbered'
BY DEF TypeOK, Finish, Numbered

LEMMA ApplyType ==
    ASSUME TypeOK, Numbered, NEW c \in Client, pc[c] = "batch", Apply(c)
    PROVE  log' \in Seq(Event) /\ writer' \in [Row -> CallId \union {Untouched}]
<1>1. call[c] \in Calls /\ Id(c) \in CallId
  BY DEF TypeOK, Numbered, Calls, Id, CallId
<1>2. Changed(c) \in SUBSET Row
  BY <1>1 DEF Changed, Unmoved, Calls
<1>3. writer' \in [Row -> CallId \union {Untouched}]
  BY <1>1 DEF Apply, TypeOK
<1>4. [call |-> Id(c), try |-> call[c].try, kind |-> call[c].kind,
       prev |-> call[c].prev, want |-> call[c].want, rows |-> Changed(c)] \in Event
  BY <1>1, <1>2 DEF Event, Calls
<1>5. log' \in Seq(Event)
  BY <1>4 DEF Apply, TypeOK
<1> QED BY <1>3, <1>5

LEMMA RetryType ==
    ASSUME TypeOK, Numbered, NEW c \in Client, pc[c] = "batch", call[c].try < Tries,
           pc' = [pc EXCEPT ![c] = "read"],
           call' = [call EXCEPT ![c] = [@ EXCEPT !.try = call[c].try + 1]]
    PROVE  /\ pc' \in [Client -> {"idle", "read", "batch"}]
           /\ call' \in [Client -> Calls]
           /\ Numbered'
<1>1. call[c] \in Calls
  BY DEF TypeOK
<1>2. [call[c] EXCEPT !.try = call[c].try + 1] \in Calls
  BY <1>1, LedgerAssumption DEF Calls
<1>3. [call[c] EXCEPT !.try = call[c].try + 1].number = call[c].number
  BY <1>1 DEF Calls
<1>4. call' = [call EXCEPT ![c] = [call[c] EXCEPT !.try = call[c].try + 1]]
  OBVIOUS
<1>5. call' \in [Client -> Calls]
  BY <1>2, <1>4 DEF TypeOK
<1>6. Numbered'
  BY <1>3, <1>4 DEF TypeOK, Numbered
<1> QED BY <1>5, <1>6 DEF TypeOK

LEMMA TypeStep ==
    ASSUME TypeOK, Numbered, NEW c \in Client, Step(c)
    PROVE  TypeOK' /\ Numbered'
<1>1. ASSUME NEW kind \in Kinds, NEW want \in SUBSET Row, Begin(c, kind, want)
      PROVE  TypeOK' /\ Numbered'
  <2> DEFINE new == [number |-> call[c].number + 1, kind |-> kind, want |-> want,
                     read |-> writer, try |-> 1, prev |-> Genesis, began |-> Len(log)]
  <2>1. call[c] \in Calls /\ call[c].number < MaxCalls
    BY <1>1 DEF TypeOK, Begin
  <2>2. new \in Calls /\ new.number \in 1..MaxCalls
    BY <2>1, LedgerAssumption DEF TypeOK, Calls
  <2>3. call' = [call EXCEPT ![c] = new]
    BY <1>1 DEF Begin
  <2>4. call' \in [Client -> Calls]
    BY <2>2, <2>3 DEF TypeOK
  <2>5. Numbered'
    BY <1>1, <2>2, <2>3 DEF Numbered, Begin, TypeOK
  <2> QED BY <1>1, <2>4, <2>5 DEF TypeOK, Begin
<1>2. CASE ReadHead(c)
  <2>1. call[c] \in Calls /\ ChainHead \in (CallId \X (1..Tries)) \union {Genesis}
    BY ChainHeadType DEF TypeOK
  <2>2. [call[c] EXCEPT !.prev = ChainHead] \in Calls
    BY <2>1 DEF Calls
  <2>3. [call[c] EXCEPT !.prev = ChainHead].number = call[c].number
    BY <2>1 DEF Calls
  <2>4. call' = [call EXCEPT ![c] = [call[c] EXCEPT !.prev = ChainHead]]
    BY <1>2 DEF ReadHead
  <2>5. call' \in [Client -> Calls]
    BY <2>2, <2>4 DEF TypeOK
  <2>6. Numbered'
    BY <1>2, <2>3, <2>4 DEF ReadHead, Numbered, TypeOK
  <2> QED BY <1>2, <2>5, <2>6 DEF TypeOK, ReadHead
<1>3. CASE CommitBatch(c)
  <2>1. PICK result \in {"committed", "unchanged"} : Finish(c, result)
    BY <1>3 DEF CommitBatch
  <2> QED BY <1>3, <2>1, FinishType, ApplyType DEF CommitBatch, TypeOK
<1>4. CASE Contend(c)
  <2>1. CASE call[c].try < Tries
    <3>1. call[c].try # Tries
      BY <2>1, LedgerAssumption DEF TypeOK, Calls
    <3> QED BY <1>4, <2>1, <3>1, RetryType DEF Contend, Rollback, TypeOK
  <2>2. CASE Finish(c, "contended")
    BY <1>4, <2>2, FinishType DEF Contend, Rollback, TypeOK
  <2> QED BY <1>4, <2>1, <2>2 DEF Contend
<1>5. CASE AbortOnGuard(c)
  BY <1>5, FinishType DEF AbortOnGuard, Rollback, TypeOK
<1>6. CASE FailBatch(c)
  <2>1. log' \in Seq(Event) /\ writer' \in [Row -> CallId \union {Untouched}]
    BY <1>6, ApplyType DEF FailBatch, TypeOK
  <2>2. faults' \in 0..MaxFaults
    BY <1>6, LedgerAssumption DEF FailBatch, TypeOK
  <2> QED BY <1>6, <2>1, <2>2, FinishType DEF FailBatch, TypeOK
<1> QED BY <1>1, <1>2, <1>3, <1>4, <1>5, <1>6 DEF Step

LEMMA TypeInit == ASSUME Init PROVE TypeOK /\ Numbered
<1>1. \A c \in Client : call[c] \in Calls
  BY LedgerAssumption DEF Init, Calls, Kinds
<1>2. call \in [Client -> Calls]
  BY <1>1 DEF Init
<1>3. log \in Seq(Event) /\ faults \in 0..MaxFaults
  BY LedgerAssumption DEF Init
<1>4. writer \in [Row -> CallId \union {Untouched}]
  BY DEF Init
<1>5. pc \in [Client -> {"idle", "read", "batch"}] /\ Numbered
  BY DEF Init, Numbered
<1>6. outcome \in [Client -> {"pending", "committed", "unchanged", "contended", "failed"}]
  BY DEF Init
<1> QED BY <1>2, <1>3, <1>4, <1>5, <1>6 DEF TypeOK

LEMMA TypeStutter ==
    ASSUME TypeOK, Numbered, UNCHANGED vars
    PROVE  TypeOK' /\ Numbered'
BY DEF TypeOK, Numbered, vars

\* The program's variables keep their types, for any number of clients, rows,
\* calls and faults.
THEOREM TypeCorrect == Spec => []TypeOK
<1>1. Init => TypeOK /\ Numbered
  BY TypeInit
<1>2. TypeOK /\ Numbered /\ [Next]_vars => TypeOK' /\ Numbered'
  BY TypeStep, TypeStutter DEF Next
<1> QED BY <1>1, <1>2, PTL DEF Spec

-----------------------------------------------------------------------------
(* What a step does to the log and the rows: nothing, or one committed     *)
(* batch of one client that is at its batch.                               *)

NewEvent(c) ==
    [call |-> Id(c), try |-> call[c].try, kind |-> call[c].kind,
     prev |-> call[c].prev, want |-> call[c].want, rows |-> Changed(c)]

Appends(c) ==
    /\ pc[c] = "batch" /\ WritesEvent(c)
    /\ ~GuardAborts(c) /\ ~ChainAborts(c)
    /\ log' = Append(log, NewEvent(c))
    /\ writer' = [r \in Row |-> IF r \in Changed(c) THEN Id(c) ELSE writer[r]]

LEMMA ApplyEffect ==
    ASSUME TypeOK, NEW c \in Client, pc[c] = "batch",
           ~GuardAborts(c), ~ChainAborts(c), Apply(c)
    PROVE  UNCHANGED <<log, writer>> \/ Appends(c)
<1>1. CASE WritesEvent(c)
  BY <1>1 DEF Apply, Appends, NewEvent
<1>2. CASE ~WritesEvent(c)
  <2>1. Changed(c) = {}
    BY <1>2 DEF WritesEvent, Changed, TypeOK, Calls, Kinds
  <2> QED BY <1>2, <2>1 DEF Apply, TypeOK
<1> QED BY <1>1, <1>2

LEMMA LogEffect ==
    ASSUME TypeOK, NEW c \in Client, Step(c)
    PROVE  UNCHANGED <<log, writer>> \/ Appends(c)
<1>1. CASE \E kind \in Kinds, want \in SUBSET Row : Begin(c, kind, want)
  BY <1>1 DEF Begin
<1>2. CASE ReadHead(c) \/ Contend(c) \/ AbortOnGuard(c)
  BY <1>2 DEF ReadHead, Contend, AbortOnGuard, Rollback
<1>3. CASE CommitBatch(c)
  BY <1>3, ApplyEffect DEF CommitBatch
<1>4. CASE FailBatch(c)
  BY <1>4, ApplyEffect DEF FailBatch
<1> QED BY <1>1, <1>2, <1>3, <1>4 DEF Step

-----------------------------------------------------------------------------
(* The hash chain and the guarded events.                                  *)

LEMMA ChainStep ==
    ASSUME TypeOK, TypeOK', ChainIntact, NEW c \in Client, Appends(c)
    PROVE  ChainIntact'
<1>1. log' = Append(log, NewEvent(c)) /\ log \in Seq(Event)
  BY DEF Appends, TypeOK
<1>2. NewEvent(c).prev = ChainHead
  BY DEF Appends, ChainAborts, NewEvent
<1>3. Len(log') = Len(log) + 1 /\ DOMAIN log' = 1..(Len(log) + 1)
  BY <1>1
<1>4. \A i \in 1..Len(log) : log'[i] = log[i]
  BY <1>1
<1>5. log'[Len(log) + 1] = NewEvent(c)
  BY <1>1
<1> SUFFICES ASSUME NEW i \in DOMAIN log'
             PROVE  log'[i].prev = IF i = 1 THEN Genesis ELSE EventId(log'[i - 1])
  BY DEF ChainIntact, EventId
<1>6. CASE i \in 1..Len(log)
  BY <1>4, <1>6 DEF ChainIntact
<1>7. CASE i = Len(log) + 1
  <2>1. CASE log = <<>>
    BY <1>2, <1>5, <1>7, <2>1 DEF ChainHead
  <2>2. CASE log # <<>>
    <3>1. Len(log) \in 1..Len(log)
      BY <1>1, <2>2
    <3> QED BY <1>2, <1>4, <1>5, <1>7, <2>2, <3>1 DEF ChainHead, EventId
  <2> QED BY <2>1, <2>2
<1> QED BY <1>1, <1>3, <1>6, <1>7

LEMMA GuardedStep ==
    ASSUME TypeOK, GuardedAllOrNothing, NEW c \in Client, Appends(c)
    PROVE  GuardedAllOrNothing'
<1>1. log' = Append(log, NewEvent(c)) /\ log \in Seq(Event)
  BY DEF Appends, TypeOK
<1>2. NewEvent(c).kind = "guarded" => NewEvent(c).rows = NewEvent(c).want
  BY DEF Appends, GuardAborts, WritesEvent, NewEvent
<1> QED BY <1>1, <1>2 DEF GuardedAllOrNothing

\* The audit chain never forks or skips an event, although every caller
\* reads the head before its transaction.
THEOREM ChainCorrect == Spec => []ChainIntact
<1>1. Init => ChainIntact
  BY DEF Init, ChainIntact
<1>2. ASSUME TypeOK, TypeOK', ChainIntact, [Next]_vars PROVE ChainIntact'
  <2>1. CASE UNCHANGED log
    BY <1>2, <2>1 DEF ChainIntact, EventId
  <2> QED BY <1>2, <2>1, LogEffect, ChainStep DEF Next, vars
<1> QED BY <1>1, <1>2, TypeCorrect, PTL DEF Spec

\* An event written through the guard describes every row its handler meant
\* to change.
THEOREM GuardedCorrect == Spec => []GuardedAllOrNothing
<1>1. Init => GuardedAllOrNothing
  BY DEF Init, GuardedAllOrNothing
<1>2. ASSUME TypeOK, GuardedAllOrNothing, [Next]_vars PROVE GuardedAllOrNothing'
  <2>1. CASE UNCHANGED log
    BY <1>2, <2>1 DEF GuardedAllOrNothing
  <2> QED BY <1>2, <2>1, LogEffect, GuardedStep DEF Next, vars
<1> QED BY <1>1, <1>2, TypeCorrect, PTL DEF Spec

-----------------------------------------------------------------------------
(* No call is logged twice, and callers are told the truth.                *)

\* Log entries belong to calls that were made, and a call that is still
\* running has none.
LogFresh ==
    /\ \A i \in DOMAIN log : log[i].call[2] <= call[log[i].call[1]].number
    /\ \A c \in Client : pc[c] # "idle" => ~Logged(Id(c))

Waiting == \A c \in Client : pc[c] # "idle" => outcome[c] = "pending"

IInv == TypeOK /\ Numbered /\ LogFresh /\ Waiting /\ CallersKnow

\* What the steps do to the client's own place in its call.
LEMMA OwnEffect ==
    ASSUME TypeOK, Numbered, NEW c \in Client, Step(c)
    PROVE  /\ \A d \in Client \ {c} :
                pc'[d] = pc[d] /\ call'[d] = call[d] /\ outcome'[d] = outcome[d]
           /\ call'[c].number >= call[c].number
           /\ pc[c] # "idle" => call'[c].number = call[c].number
           /\ pc[c] = "idle" => /\ call'[c].number = call[c].number + 1
                                /\ outcome'[c] = "pending"
                                /\ UNCHANGED log
<1>1. call[c] \in Calls /\ call[c].number \in Nat
  BY DEF TypeOK, Calls
<1>2. CASE \E kind \in Kinds, want \in SUBSET Row : Begin(c, kind, want)
  BY <1>1, <1>2 DEF Begin, TypeOK
<1>3. CASE ReadHead(c)
  BY <1>1, <1>3 DEF ReadHead, TypeOK, Calls
<1>4. CASE CommitBatch(c)
  BY <1>1, <1>4 DEF CommitBatch, Finish, TypeOK
<1>5. CASE Contend(c)
  <2>1. CASE call[c].try < Tries /\ pc[c] = "batch" /\ UNCHANGED outcome
             /\ pc' = [pc EXCEPT ![c] = "read"]
             /\ call' = [call EXCEPT ![c] = [@ EXCEPT !.try = call[c].try + 1]]
    <3>1. [call[c] EXCEPT !.try = call[c].try + 1].number = call[c].number
      BY <1>1 DEF Calls
    <3>2. call'[c].number = call[c].number
      BY <2>1, <3>1 DEF TypeOK
    <3> QED BY <1>1, <2>1, <3>2 DEF TypeOK
  <2>2. CASE Finish(c, "contended") /\ pc[c] = "batch"
    BY <1>1, <2>2 DEF Finish, TypeOK
  <2> QED BY <1>5, <2>1, <2>2 DEF Contend
<1>6. CASE AbortOnGuard(c)
  BY <1>1, <1>6 DEF AbortOnGuard, Finish, TypeOK
<1>7. CASE FailBatch(c)
  BY <1>1, <1>7 DEF FailBatch, Finish, TypeOK
<1> QED BY <1>2, <1>3, <1>4, <1>5, <1>6, <1>7 DEF Step

\* What a step tells the caller.
LEMMA OutcomeEffect ==
    ASSUME TypeOK, Waiting, NEW c \in Client, Step(c)
    PROVE  /\ pc'[c] # "idle" => outcome'[c] = "pending" /\ UNCHANGED log
           /\ outcome'[c] = "committed" => Appends(c)
           /\ outcome'[c] \in {"unchanged", "contended"} => UNCHANGED log
<1>1. CASE \E kind \in Kinds, want \in SUBSET Row : Begin(c, kind, want)
  BY <1>1 DEF Begin, TypeOK
<1>2. CASE ReadHead(c)
  BY <1>2 DEF ReadHead, TypeOK, Waiting
<1>3. CASE CommitBatch(c)
  <2>1. CASE WritesEvent(c)
    <3>1. Appends(c)
      BY <1>3, <2>1 DEF CommitBatch, Appends, Apply, NewEvent
    <3> QED BY <1>3, <2>1, <3>1 DEF CommitBatch, Finish, TypeOK
  <2>2. CASE ~WritesEvent(c)
    BY <1>3, <2>2 DEF CommitBatch, Apply, Finish, TypeOK
  <2> QED BY <2>1, <2>2
<1>4. CASE Contend(c)
  BY <1>4 DEF Contend, Rollback, Finish, TypeOK, Waiting
<1>5. CASE AbortOnGuard(c)
  BY <1>5 DEF AbortOnGuard, Rollback, Finish, TypeOK
<1>6. CASE FailBatch(c)
  BY <1>6 DEF FailBatch, Finish, TypeOK
<1> QED BY <1>1, <1>2, <1>3, <1>4, <1>5, <1>6 DEF Step

\* Which calls are logged after a step.
LEMMA LoggedEffect ==
    ASSUME TypeOK, NEW c \in Client, Step(c), NEW id
    PROVE  /\ Logged(id) => Logged(id)'
           /\ Logged(id)' => Logged(id) \/ (id = Id(c) /\ pc[c] = "batch")
<1>1. CASE UNCHANGED log
  BY <1>1 DEF Logged
<1>2. CASE Appends(c)
  <2>1. log' = Append(log, NewEvent(c)) /\ log \in Seq(Event) /\ pc[c] = "batch"
    BY <1>2 DEF Appends, TypeOK
  <2>2. NewEvent(c).call = Id(c)
    BY DEF NewEvent
  <2>3. Len(log') = Len(log) + 1 /\ DOMAIN log' = 1..(Len(log) + 1) /\ DOMAIN log = 1..Len(log)
    BY <2>1
  <2>4. (\A i \in DOMAIN log : log'[i] = log[i]) /\ log'[Len(log) + 1] = NewEvent(c)
    BY <2>1
  <2>5. \A i \in DOMAIN log' : i \in DOMAIN log \/ i = Len(log) + 1
    BY <2>1, <2>3
  <2>6. \A i \in DOMAIN log : i \in DOMAIN log'
    BY <2>1, <2>3
  <2> QED BY <2>1, <2>2, <2>4, <2>5, <2>6 DEF Logged
<1> QED BY <1>1, <1>2, LogEffect

LEMMA InductiveStep ==
    ASSUME IInv, NEW c \in Client, Step(c)
    PROVE  IInv'
<1> USE DEF IInv
<1>1. TypeOK' /\ Numbered'
  BY TypeStep
<1>2. \A d \in Client : Id(d) = <<d, call[d].number>> /\ Id(d)' = <<d, call'[d].number>>
  BY DEF Id
<1>3. \A d \in Client : call[d].number \in Nat /\ call'[d].number \in Nat
  BY <1>1 DEF TypeOK, Calls
<1>4. \A i \in DOMAIN log : log[i].call \in CallId
  <2>1. \A i \in DOMAIN log : log[i] \in Event
    BY DEF TypeOK
  <2> QED BY <2>1 DEF Event
<1>5. \A i \in DOMAIN log' : log'[i].call \in CallId
  <2>1. \A i \in DOMAIN log' : log'[i] \in Event
    BY <1>1 DEF TypeOK
  <2> QED BY <2>1 DEF Event
<1>6. \A d \in Client : call'[d].number >= call[d].number
  BY OwnEffect, <1>3
\* A call that has only begun is not logged: its number is new.
<1>7. ASSUME NEW d \in Client, pc'[d] # "idle" PROVE ~Logged(Id(d))'
  <2>1. CASE d # c
    <3>1. pc[d] # "idle" /\ Id(d)' = Id(d)
      BY <1>2, <1>7, <2>1, OwnEffect
    <3>2. Id(d) # Id(c)
      BY <1>2, <2>1
    <3> QED BY <3>1, <3>2, LoggedEffect DEF LogFresh, Logged
  <2>2. CASE d = c /\ pc[c] = "idle"
    <3>1. UNCHANGED log /\ Id(c)' = <<c, call[c].number + 1>>
      BY <1>2, <2>2, OwnEffect
    <3>2. ~Logged(<<c, call[c].number + 1>>)
      <4> SUFFICES ASSUME NEW i \in DOMAIN log, log[i].call = <<c, call[c].number + 1>>
                   PROVE  FALSE
        BY DEF Logged
      <4>1. log[i].call[1] = c /\ log[i].call[2] = call[c].number + 1
        OBVIOUS
      <4> QED BY <1>3, <4>1 DEF LogFresh
    <3> QED BY <2>2, <3>1, <3>2 DEF Logged
  <2>3. CASE d = c /\ pc[c] # "idle"
    <3>1. UNCHANGED log /\ Id(c)' = Id(c)
      BY <1>2, <1>7, <2>3, OwnEffect, OutcomeEffect
    <3> QED BY <2>3, <3>1 DEF LogFresh, Logged
  <2> QED BY <2>1, <2>2, <2>3
<1>8. ASSUME NEW i \in DOMAIN log' PROVE log'[i].call[2] <= call'[log'[i].call[1]].number
  <2> PICK id : id = log'[i].call
    OBVIOUS
  <2>1. Logged(id)'
    BY <1>8 DEF Logged
  <2>2. CASE Logged(id)
    <3>1. PICK j \in DOMAIN log : log[j].call = id
      BY <2>2 DEF Logged
    <3>2. id[1] \in Client /\ id[2] \in Nat
      BY <1>4, <3>1 DEF CallId
    <3>3. id[2] <= call[id[1]].number
      BY <3>1 DEF LogFresh
    <3> QED BY <1>3, <1>6, <3>2, <3>3
  <2>3. CASE id = Id(c) /\ pc[c] = "batch"
    <3>1. id[1] = c /\ id[2] = call[c].number
      BY <2>3 DEF Id
    <3> QED BY <1>3, <1>6, <3>1
  <2> QED BY <2>1, <2>2, <2>3, LoggedEffect
<1>9. LogFresh'
  BY <1>7, <1>8 DEF LogFresh
<1>10. Waiting'
  BY OwnEffect, OutcomeEffect DEF Waiting
<1>11. ASSUME NEW d \in Client
       PROVE  /\ outcome'[d] = "committed" => Logged(Id(d))'
              /\ outcome'[d] \in {"unchanged", "contended"} => ~Logged(Id(d))'
  <2>1. CASE d # c
    <3>1. outcome'[d] = outcome[d] /\ Id(d)' = Id(d) /\ Id(d) # Id(c)
      BY <1>2, <2>1, OwnEffect
    <3> QED BY <3>1, LoggedEffect DEF CallersKnow, Logged
  <2>2. CASE d = c /\ pc[c] = "idle"
    BY <2>2, OwnEffect
  <2>3. CASE d = c /\ pc[c] # "idle"
    <3>1. Id(c)' = Id(c) /\ ~Logged(Id(c))
      BY <1>2, <2>3, OwnEffect DEF LogFresh
    <3>2. Appends(c) => Logged(Id(c))'
      <4> SUFFICES ASSUME Appends(c) PROVE Logged(Id(c))'
        OBVIOUS
      <4>1. log' = Append(log, NewEvent(c)) /\ log \in Seq(Event) /\ NewEvent(c).call = Id(c)
        BY DEF Appends, TypeOK, NewEvent
      <4>2. Len(log) + 1 \in DOMAIN log' /\ log'[Len(log) + 1] = NewEvent(c)
        BY <4>1
      <4> QED BY <3>1, <4>1, <4>2 DEF Logged
    <3> QED BY <2>3, <3>1, <3>2, OutcomeEffect DEF Logged
  <2> QED BY <2>1, <2>2, <2>3
<1>12. CallersKnow'
  BY <1>11 DEF CallersKnow
<1> QED BY <1>1, <1>9, <1>10, <1>12

LEMMA Inductive == Spec => []IInv
<1>1. Init => IInv
  <2> SUFFICES ASSUME Init PROVE IInv
    OBVIOUS
  <2>1. LogFresh /\ Waiting /\ CallersKnow
    BY DEF Init, LogFresh, Waiting, CallersKnow, Logged
  <2> QED BY <2>1, TypeInit DEF IInv
<1>2. IInv /\ UNCHANGED vars => IInv'
  <2> SUFFICES ASSUME IInv, UNCHANGED vars PROVE IInv'
    OBVIOUS
  <2>1. TypeOK' /\ Numbered'
    BY TypeStutter DEF IInv
  <2>2. LogFresh' /\ Waiting' /\ CallersKnow'
    BY DEF IInv, vars, LogFresh, Waiting, CallersKnow, Logged, Id
  <2> QED BY <2>1, <2>2 DEF IInv
<1>3. IInv /\ [Next]_vars => IInv'
  BY <1>2, InductiveStep DEF Next
<1> QED BY <1>1, <1>3, PTL DEF Spec

\* A caller told of a commit finds its event in the chain, and one told that
\* nothing happened left nothing there.
THEOREM CallersCorrect == Spec => []CallersKnow
BY Inductive, PTL DEF IInv

-----------------------------------------------------------------------------
(* Every step is a step of the serial ledger.                              *)

LEMMA JournalStep ==
    ASSUME IInv, NEW c \in Client, Appends(c)
    PROVE  Len(Journal') > Len(Journal) /\ Serial!Commit(Id(c), Changed(c))
<1>1. log' = Append(log, NewEvent(c)) /\ log \in Seq(Event)
  BY DEF Appends, IInv, TypeOK
<1>2. DOMAIN log' = 1..(Len(log) + 1) /\ DOMAIN log = 1..Len(log) /\ Len(log) \in Nat
  BY <1>1
<1>3. (\A i \in DOMAIN log : log'[i] = log[i]) /\ log'[Len(log) + 1] = NewEvent(c)
  BY <1>1
<1> DEFINE entry == [call |-> Id(c), rows |-> Changed(c)]
           Entries == {[call |-> e.call, rows |-> e.rows] : e \in Event} \union {entry}
<1>4. Journal \in Seq(Entries) /\ Len(Journal) = Len(log) /\ DOMAIN Journal = 1..Len(log)
  <2>1. \A i \in 1..Len(log) : log[i] \in Event
    BY <1>1
  <2>2. Journal \in [1..Len(log) -> Entries]
    BY <1>2, <2>1 DEF Journal
  <2> QED BY <1>2, <2>2
<1>5. Append(Journal, entry) \in Seq(Entries) /\ Len(Append(Journal, entry)) = Len(log) + 1
  BY <1>4
<1>6. Journal' = Append(Journal, entry)
  <2>1. Journal' = [i \in 1..(Len(log) + 1) |-> [call |-> log'[i].call, rows |-> log'[i].rows]]
    BY <1>2 DEF Journal
  <2>2. \A i \in 1..(Len(log) + 1) : Journal'[i] = Append(Journal, entry)[i]
    <3> SUFFICES ASSUME NEW i \in 1..(Len(log) + 1) PROVE Journal'[i] = Append(Journal, entry)[i]
      OBVIOUS
    <3>1. CASE i \in 1..Len(log)
      <4>1. Append(Journal, entry)[i] = Journal[i]
        BY <1>4, <3>1
      <4>2. Journal[i] = [call |-> log[i].call, rows |-> log[i].rows]
        BY <1>2, <3>1 DEF Journal
      <4> QED BY <1>2, <1>3, <2>1, <3>1, <4>1, <4>2
    <3>2. CASE i = Len(log) + 1
      <4>1. Append(Journal, entry)[i] = entry
        BY <1>4, <3>2
      <4>2. NewEvent(c).call = Id(c) /\ NewEvent(c).rows = Changed(c)
        BY DEF NewEvent
      <4> QED BY <1>3, <2>1, <3>2, <4>1, <4>2
    <3>3. i \in 1..Len(log) \/ i = Len(log) + 1
      BY <1>2
    <3> QED BY <3>1, <3>2, <3>3
  <2>3. DOMAIN Append(Journal, entry) = 1..(Len(log) + 1)
    BY <1>4, <1>5
  <2>4. Append(Journal, entry) = [i \in 1..(Len(log) + 1) |-> Append(Journal, entry)[i]]
    BY <1>5, <2>3
  <2> QED BY <2>1, <2>2, <2>4
<1>7. \A i \in DOMAIN Journal : Journal[i].call # Id(c)
  <2>1. ~Logged(Id(c))
    BY DEF IInv, LogFresh, Appends
  <2> QED BY <2>1 DEF Logged, Journal
<1>8. writer' = [r \in Row |-> IF r \in Changed(c) THEN Id(c) ELSE writer[r]]
  BY DEF Appends
<1>9. Len(Journal') > Len(Journal)
  BY <1>2, <1>4, <1>5, <1>6
<1> QED BY <1>6, <1>7, <1>8, <1>9 DEF Serial!Commit

LEMMA SerialStep ==
    ASSUME IInv, [Next]_vars
    PROVE  [Serial!Next]_<<Journal, writer>>
<1>1. CASE UNCHANGED <<log, writer>>
  BY <1>1 DEF Journal
<1>2. ASSUME NEW c \in Client, Appends(c) PROVE Serial!Next
  <2>1. Len(Journal') > Len(Journal) /\ Serial!Commit(Id(c), Changed(c))
    BY <1>2, JournalStep
  <2>2. call[c] \in Calls /\ pc[c] # "idle"
    BY <1>2 DEF IInv, TypeOK, Appends
  <2>3. Id(c) \in CallId
    BY <2>2 DEF IInv, Numbered, Id, CallId
  <2>4. Changed(c) \in SUBSET Row
    BY <2>2 DEF Changed, Unmoved, Calls
  <2> QED BY <2>1, <2>3, <2>4 DEF Serial!Next
<1> QED BY <1>1, <1>2, LogEffect DEF Next, vars, IInv

\* The audited batch implements the serial ledger: rows change only together
\* with the event that describes the change, and no call is recorded twice.
THEOREM SerialLedger == Spec => IsSerialLedger
<1>1. Init => Serial!Init
  BY DEF Init, Serial!Init, Journal
<1>2. IInv /\ [Next]_vars => [Serial!Next]_<<Journal, writer>>
  BY SerialStep
<1> QED BY <1>1, <1>2, Inductive, PTL DEF Spec, IsSerialLedger, Serial!Spec

-----------------------------------------------------------------------------
(* Verifications beside the batches.                                       *)

\* A step of the composition is a step of the ledger or leaves it alone.
LEMMA VerificationReads ==
    ASSUME [VerificationNext]_allVars
    PROVE  [Next]_vars
<1>1. CASE Next /\ UNCHANGED verification
  BY <1>1
<1>2. ASSUME NEW n \in Sequences, CreateCheckpoint(n) \/ DeliverCheckpoint(n)
      PROVE  UNCHANGED vars
  BY <1>2 DEF CreateCheckpoint, DeliverCheckpoint, SetDelivery
<1>3. ASSUME NEW v \in Verifier, Verify(v)
      PROVE  UNCHANGED vars
  BY <1>3 DEF Verify, Ask, AnswerFromCache, ReadAnchor, LoadRow, VerifyAttempt,
              CountTail, VerifyPage, Finished, Reads
<1>4. CASE ExpireVerdict
  BY <1>4 DEF ExpireVerdict
<1>5. CASE UNCHANGED allVars
  BY <1>5 DEF allVars
<1> QED BY <1>1, <1>2, <1>3, <1>4, <1>5 DEF VerificationNext

\* Checkpoints and verifications do not disturb the audited batches: the
\* composition implements AuditLedger (verifyAuditChain writes no table).
THEOREM LedgerUndisturbed == VerificationSpec => Spec
<1>1. VerificationInit => Init
  BY DEF VerificationInit
<1>2. [VerificationNext]_allVars => [Next]_vars
  BY VerificationReads
<1> QED BY <1>1, <1>2, PTL DEF VerificationSpec, Spec

\* So every verification walks an intact chain (executeAuditedBatch).
THEOREM ChainUnderVerification == VerificationSpec => []ChainIntact
BY LedgerUndisturbed, ChainCorrect

\* And rows change only together with their events while it is verified.
THEOREM SerialUnderVerification == VerificationSpec => IsSerialLedger
BY LedgerUndisturbed, SerialLedger

-----------------------------------------------------------------------------
(* What the reads of a verification say of the tables they were made from.  *)

Positions == Sequences \union {0}
Readings == [head : Nat, anchor : Positions, delivered : BOOLEAN, row : Positions, verified : Nat]
Verdicts == {NoVerdict} \union [reason : Reasons, checked : Nat]

VerifierTypes ==
    /\ delivery \in [Sequences -> {"none", "pending", "delivered"}]
    /\ at \in [Verifier -> {"idle", "anchor", "row", "attempt", "count", "page"}]
    /\ seen \in [Verifier -> Readings]
    /\ answer \in [Verifier -> Verdicts]
    /\ unsettled \in [Verifier -> BOOLEAN]
    /\ cache \in {NoEntry} \union [key : Nat \X Positions \X BOOLEAN, verdict : Verdicts]

\* A checkpoint anchors an event of the log.
Anchored == \A n \in Sequences : delivery[n] # "none" => n <= Len(log)

\* A call that has seen nothing unsettled knows the newest checkpoint and its
\* delivery; whatever it saw delivered still is.
CallInv(v) ==
    LET newest == Newest(delivery) IN
    /\ seen[v].head <= Len(log)
    /\ at[v] \in {"anchor", "row", "attempt", "count"} => seen[v].verified = 0
    /\ at[v] = "anchor" => unsettled[v] \/ newest = 0 \/ Delivered(delivery, newest)
    /\ at[v] \in {"row", "attempt"} =>
           /\ seen[v].anchor # 0 /\ seen[v].anchor <= newest
           /\ seen[v].delivered => Delivered(delivery, seen[v].anchor)
           /\ unsettled[v] \/ (seen[v].anchor = newest /\ Delivered(delivery, newest))
    /\ at[v] = "attempt" => seen[v].anchor <= seen[v].row /\ seen[v].row <= newest
    /\ at[v] \in {"count", "page"} => seen[v].anchor = 0 \/ Delivered(delivery, seen[v].anchor)
    /\ at[v] = "page" =>
           /\ seen[v].head <= seen[v].anchor + MaximumEvents
           /\ seen[v].anchor + seen[v].verified <= Len(log)
    /\ at[v] = "idle" => ValidCoversTheChain(v) /\ AlarmsHaveACause(v)

\* The cached verdict is true of every call whose reads have its key.
CacheInv ==
    /\ cache.verdict.reason = "valid" =>
           /\ cache.verdict.checked \in cache.key[1]..Len(log)
           /\ cache.key[2] # 0 => Delivered(delivery, cache.key[2])
    /\ cache.verdict.reason # "chain_mismatch"
    /\ cache.verdict.reason = "checkpoint_invalid" =>
           cache.key[2] # 0 /\ (~cache.key[3] \/ cache.key[2] < Newest(delivery))
    /\ cache.verdict.reason = "verification_limit_exceeded" =>
           Len(log) - cache.key[2] > MaximumEvents

VInv == VerifierTypes /\ Anchored /\ (\A v \in Verifier : CallInv(v)) /\ CacheInv

-----------------------------------------------------------------------------
(* The newest checkpoint, and the page limit.                               *)

\* The sequences are bounded.
LEMMA SequencesAre == Cardinality(Client) * MaxCalls \in Nat
BY VerificationAssumption, LedgerAssumption, FS_CardinalityType

\* The newest checkpoint is one of them, or none, and no other is newer.
LEMMA NewestIs ==
    ASSUME NEW d
    PROVE  /\ Newest(d) \in Positions /\ Newest(d) \in Nat
           /\ Newest(d) # 0 => Newest(d) \in Sequences /\ d[Newest(d)] # "none"
           /\ \A n \in Sequences : d[n] # "none" => n <= Newest(d)
<1> DEFINE last == Cardinality(Client) * MaxCalls
           S == {n \in Sequences : d[n] # "none"} \union {0}
           Bounds == {m \in Nat : \A n \in S : n <= m}
           Less == {ss \in Nat \X Nat : ss[1] < ss[2]}
<1>1. last \in Nat /\ Sequences = 1..last
  BY SequencesAre DEF Sequences
<1>2. S \subseteq Nat /\ 0 \in S /\ \A n \in S : n <= last
  BY <1>1
<1>3. last \in Bounds /\ Bounds \subseteq Nat
  BY <1>1, <1>2
<1>4. IsWellFoundedOn(Less, Nat)
  BY NatLessThanWellFounded DEF OpToRel
<1> HIDE DEF Less
<1>5. PICK m \in Bounds : \A k \in Bounds : <<k, m>> \notin Less
  BY <1>3, <1>4, WFMin
<1>6. ASSUME NEW k \in Bounds PROVE m <= k
  <2>1. k \in Nat /\ m \in Nat /\ <<k, m>> \in Nat \X Nat
    BY <1>3
  <2>2. ~(<<k, m>>[1] < <<k, m>>[2])
    BY <1>5, <2>1, Zenon DEF Less
  <2> QED BY <2>1, <2>2
<1>7. m \in S
  <2>1. CASE m = 0
    BY <1>2, <2>1
  <2>2. CASE m # 0 /\ m \notin S
    <3>1. m - 1 \in Nat /\ \A n \in S : n <= m - 1
      BY <1>2, <1>3, <2>2
    <3>2. m - 1 \in Bounds
      BY <3>1
    <3> QED BY <1>3, <1>6, <3>2
  <2> QED BY <2>1, <2>2
<1>8. m \in S /\ \A n \in S : m >= n
  BY <1>2, <1>3, <1>7
<1>9. Newest(d) \in S /\ \A n \in S : Newest(d) >= n
  BY <1>8 DEF Newest, Max
<1> QED BY <1>1, <1>2, <1>9 DEF Positions

\* A delivered checkpoint is one of the table's.
LEMMA DeliveredIs ==
    ASSUME VerifierTypes, NEW n \in Positions, Delivered(delivery, n)
    PROVE  n \in Sequences /\ delivery[n] = "delivered"
BY DEF Delivered, Positions

\* The smaller of two numbers.
LEMMA MinIs ==
    ASSUME NEW a \in Nat, NEW b \in Nat
    PROVE  Min({a, b}) = IF a <= b THEN a ELSE b
<1>1. CASE a <= b
  BY <1>1 DEF Min
<1>2. CASE b < a
  BY <1>2 DEF Min
<1> QED BY <1>1, <1>2

\* The log only grows.
LEMMA LogGrows ==
    ASSUME TypeOK, [Next]_vars
    PROVE  Len(log) \in Nat /\ Len(log') \in Nat /\ Len(log) <= Len(log')
<1>1. log \in Seq(Event)
  BY DEF TypeOK
<1>2. UNCHANGED log \/ \E c \in Client : Appends(c)
  BY LogEffect DEF Next, vars
<1> QED BY <1>1, <1>2 DEF Appends

-----------------------------------------------------------------------------
(* Steps of the ledger and of the checkpoints.                              *)

\* What was true of an answer stays true of it while the log grows and
\* deliveries are added.
LEMMA AnswerKept ==
    ASSUME VerifierTypes, NEW v \in Verifier, ValidCoversTheChain(v), AlarmsHaveACause(v),
           Len(log) \in Nat, Len(log') \in Nat, Len(log) <= Len(log'),
           \A n \in Positions : Delivered(delivery, n) => Delivered(delivery', n),
           answer'[v] = answer[v], seen'[v] = seen[v], unsettled[v] => unsettled'[v]
    PROVE  ValidCoversTheChain(v)' /\ AlarmsHaveACause(v)'
<1>1. seen[v] \in Readings /\ answer[v] \in Verdicts
  BY DEF VerifierTypes
<1>2. /\ seen[v].head \in Nat /\ seen[v].anchor \in Positions /\ seen[v].anchor \in Nat
      /\ answer[v].checked \in Nat /\ MaximumEvents \in Nat
  BY <1>1, SequencesAre, VerificationAssumption DEF Readings, Verdicts, NoVerdict, Positions, Sequences
<1> QED BY <1>2 DEF ValidCoversTheChain, AlarmsHaveACause

\* Appending to the ledger.
LEMMA LedgerStep ==
    ASSUME TypeOK, VInv, [Next]_vars, UNCHANGED verification
    PROVE  VInv'
<1> USE DEF verification
<1>1. Len(log) \in Nat /\ Len(log') \in Nat /\ Len(log) <= Len(log')
  BY LogGrows
<1>2. VerifierTypes'
  BY DEF VInv, VerifierTypes
<1>3. \A n \in Positions : n \in Nat
  BY SequencesAre DEF Positions, Sequences
<1>4. Anchored'
  BY <1>1, <1>3 DEF VInv, Anchored, Positions
<1>5. ASSUME NEW v \in Verifier PROVE CallInv(v)'
  <2>1. CallInv(v) /\ VerifierTypes
    BY DEF VInv
  <2>2. /\ seen[v].head \in Nat /\ seen[v].anchor \in Nat /\ seen[v].verified \in Nat
    BY <1>3, <2>1 DEF VerifierTypes, Readings
  <2>3. at[v] = "idle" => ValidCoversTheChain(v)' /\ AlarmsHaveACause(v)'
    BY <1>1, <2>1, AnswerKept DEF CallInv
  <2> QED BY <1>1, <2>1, <2>2, <2>3 DEF CallInv
<1>6. CacheInv'
  <2>1. CacheInv /\ cache \in {NoEntry} \union [key : Nat \X Positions \X BOOLEAN, verdict : Verdicts]
    BY DEF VInv, VerifierTypes
  <2>2. CASE cache = NoEntry
    BY <2>2 DEF CacheInv, NoEntry, NoVerdict
  <2>3. CASE cache \in [key : Nat \X Positions \X BOOLEAN, verdict : Verdicts]
    <3>1. cache.key[1] \in Nat /\ cache.key[2] \in Nat /\ cache.verdict.checked \in Nat
      BY <1>3, <2>3 DEF Verdicts, NoVerdict
    <3> QED BY <1>1, <2>1, <3>1, VerificationAssumption DEF CacheInv
  <2> QED BY <2>1, <2>2, <2>3
<1> QED BY <1>2, <1>4, <1>5, <1>6 DEF VInv

\* Checkpoints are added and delivered, never taken back; a call under way is
\* told when that leaves the newest one undelivered or makes another newest.
LEMMA CheckpointStep ==
    ASSUME TypeOK, VInv, NEW n \in Sequences, CreateCheckpoint(n) \/ DeliverCheckpoint(n)
    PROVE  VInv'
<1>1. /\ UNCHANGED <<log, cache, at, seen, answer>> /\ Watch(delivery')
      /\ Len(log) \in Nat /\ n <= Len(log)
      /\ \/ delivery[n] = "none" /\ delivery' = [delivery EXCEPT ![n] = "pending"]
         \/ delivery[n] = "pending" /\ delivery' = [delivery EXCEPT ![n] = "delivered"]
  BY SequencesAre DEF CreateCheckpoint, DeliverCheckpoint, SetDelivery, vars, TypeOK, Sequences
<1>2. /\ delivery' \in [Sequences -> {"none", "pending", "delivered"}]
      /\ delivery'[n] # "none" /\ \A m \in Sequences \ {n} : delivery'[m] = delivery[m]
      /\ \A m \in Sequences : delivery[m] # "none" => delivery'[m] # "none"
  BY <1>1 DEF VInv, VerifierTypes
<1>3. \A m \in Positions : Delivered(delivery, m) => Delivered(delivery', m)
  BY <1>1, <1>2, DeliveredIs DEF VInv, VerifierTypes, Delivered, Positions
<1> DEFINE old == Newest(delivery)
           new == Newest(delivery')
<1>4. /\ old \in Nat /\ new \in Nat /\ old \in Positions /\ new \in Positions
      /\ old # 0 => old \in Sequences /\ delivery[old] # "none"
      /\ \A m \in Sequences : delivery'[m] # "none" => m <= new
  BY NewestIs
<1>5. old <= new
  BY <1>2, <1>4
<1>6. \A v \in Verifier : /\ unsettled'[v] \in BOOLEAN /\ (unsettled[v] => unsettled'[v])
                          /\ unsettled'[v] \/ (new = old /\ (new = 0 \/ Delivered(delivery', new)))
  BY <1>1 DEF Watch, VInv, VerifierTypes
<1>7. unsettled' \in [Verifier -> BOOLEAN]
  BY <1>1 DEF Watch, VInv, VerifierTypes
<1> HIDE DEF old, new
<1>8. VerifierTypes'
  BY <1>1, <1>2, <1>7 DEF VInv, VerifierTypes
<1>9. Anchored'
  BY <1>1, <1>2 DEF VInv, Anchored
<1>10. ASSUME NEW v \in Verifier PROVE CallInv(v)'
  <2>1. CallInv(v) /\ VerifierTypes
    BY DEF VInv
  <2>2. /\ seen[v].anchor \in Positions /\ seen[v].anchor \in Nat /\ seen[v].row \in Nat
    BY <2>1, SequencesAre DEF VerifierTypes, Readings, Positions, Sequences
  <2>3. at[v] = "idle" => ValidCoversTheChain(v)' /\ AlarmsHaveACause(v)'
    BY <1>1, <1>3, <1>6, <2>1, AnswerKept DEF CallInv
  <2>4. at[v] = "anchor" => unsettled'[v] \/ new = 0 \/ Delivered(delivery', new)
    BY <1>6
  <2>5. at[v] \in {"row", "attempt"} =>
           /\ seen[v].anchor # 0 /\ seen[v].anchor <= new
           /\ seen[v].delivered => Delivered(delivery', seen[v].anchor)
           /\ unsettled'[v] \/ (seen[v].anchor = new /\ Delivered(delivery', new))
    BY <1>3, <1>4, <1>5, <1>6, <2>1, <2>2 DEF CallInv, old
  <2>6. at[v] = "attempt" => seen[v].anchor <= seen[v].row /\ seen[v].row <= new
    BY <1>4, <1>5, <2>1, <2>2 DEF CallInv, old
  <2>7. at[v] \in {"count", "page"} => seen[v].anchor = 0 \/ Delivered(delivery', seen[v].anchor)
    BY <1>3, <2>1, <2>2 DEF CallInv
  <2> QED BY <1>1, <2>1, <2>3, <2>4, <2>5, <2>6, <2>7 DEF CallInv, new
<1>11. CacheInv'
  <2>1. CacheInv /\ cache \in {NoEntry} \union [key : Nat \X Positions \X BOOLEAN, verdict : Verdicts]
    BY DEF VInv, VerifierTypes
  <2>2. CASE cache = NoEntry
    BY <1>1, <2>2 DEF CacheInv, NoEntry, NoVerdict
  <2>3. CASE cache \in [key : Nat \X Positions \X BOOLEAN, verdict : Verdicts]
    <3>1. cache.key[2] \in Positions /\ cache.key[2] \in Nat
      BY <2>3, SequencesAre DEF Positions, Sequences
    <3> QED BY <1>1, <1>3, <1>4, <1>5, <2>1, <3>1 DEF CacheInv, old, new
  <2> QED BY <2>1, <2>2, <2>3
<1> QED BY <1>8, <1>9, <1>10, <1>11 DEF VInv

-----------------------------------------------------------------------------
(* Steps of a verification.                                                 *)

\* A verification moves its own call only.
LEMMA CallStep ==
    ASSUME TypeOK, VInv, NEW v \in Verifier, NEW where \in {"idle", "anchor", "row", "attempt", "count", "page"},
           NEW record \in Readings, Reads(v, where, record),
           answer' \in [Verifier -> Verdicts], unsettled' \in [Verifier -> BOOLEAN],
           \A w \in Verifier \ {v} : answer'[w] = answer[w] /\ unsettled'[w] = unsettled[w],
           cache' \in {NoEntry} \union [key : Nat \X Positions \X BOOLEAN, verdict : Verdicts],
           CacheInv', CallInv(v)'
    PROVE  VInv'
<1>1. /\ at' = [at EXCEPT ![v] = where] /\ seen' = [seen EXCEPT ![v] = record]
      /\ UNCHANGED <<log, delivery>>
  BY DEF Reads, vars
<1>2. VerifierTypes'
  BY <1>1 DEF VInv, VerifierTypes
<1>3. Anchored'
  BY <1>1 DEF VInv, Anchored
<1>4. ASSUME NEW w \in Verifier \ {v} PROVE CallInv(w)'
  <2>1. at'[w] = at[w] /\ seen'[w] = seen[w] /\ answer'[w] = answer[w] /\ unsettled'[w] = unsettled[w]
    BY <1>1 DEF VInv, VerifierTypes
  <2> QED BY <1>1, <2>1 DEF VInv, CallInv, ValidCoversTheChain, AlarmsHaveACause
<1> QED BY <1>2, <1>3, <1>4 DEF VInv

\* A call between two reads answers nothing and leaves the cache alone.
LEMMA ReadStep ==
    ASSUME TypeOK, VInv, NEW v \in Verifier, NEW where \in {"anchor", "row", "attempt", "count", "page"},
           NEW record \in Readings, Reads(v, where, record), UNCHANGED <<cache, answer, unsettled>>,
           CallInv(v)'
    PROVE  VInv'
<1>1. CacheInv'
  BY DEF VInv, CacheInv, Reads, vars
<1> QED BY <1>1, CallStep DEF VInv, VerifierTypes

\* What a call and the table it reads are made of.
LEMMA CallTypes ==
    ASSUME TypeOK, VInv, NEW v \in Verifier
    PROVE  /\ VerifierTypes /\ CallInv(v) /\ CacheInv /\ seen[v] \in Readings /\ Len(log) \in Nat
           /\ seen[v].head \in Nat /\ seen[v].anchor \in Positions /\ seen[v].anchor \in Nat
           /\ seen[v].delivered \in BOOLEAN /\ seen[v].row \in Positions /\ seen[v].row \in Nat
           /\ seen[v].verified \in Nat /\ seen[v].head <= Len(log)
           /\ seen[v].anchor <= Len(log) \/ at[v] \notin {"count", "page"}
           /\ MaximumEvents \in Nat /\ Page \in Nat \ {0}
<1>1. VerifierTypes /\ CallInv(v) /\ CacheInv /\ Anchored /\ seen[v] \in Readings /\ Len(log) \in Nat
  BY DEF VInv, VerifierTypes, TypeOK
<1>2. /\ seen[v].head \in Nat /\ seen[v].anchor \in Positions /\ seen[v].delivered \in BOOLEAN
      /\ seen[v].row \in Positions /\ seen[v].verified \in Nat
  BY <1>1 DEF Readings
<1>3. seen[v].anchor \in Nat /\ seen[v].row \in Nat
  BY <1>2, SequencesAre DEF Positions, Sequences
<1>4. at[v] \in {"count", "page"} => seen[v].anchor <= Len(log)
  BY <1>1, <1>2, <1>3, DeliveredIs DEF CallInv, Anchored
<1> QED BY <1>1, <1>2, <1>3, <1>4, VerificationAssumption DEF CallInv

\* A step that begins or continues a call leaves it with these reads.
LEMMA MovedIs ==
    ASSUME VerifierTypes, NEW v \in Verifier, NEW where, NEW record, Reads(v, where, record)
    PROVE  at'[v] = where /\ seen'[v] = record /\ UNCHANGED <<log, delivery>>
BY DEF VerifierTypes, Reads, vars

\* Asking takes the head there is.
LEMMA AskStep == ASSUME TypeOK, VInv, NEW v \in Verifier, Ask(v) PROVE VInv'
<1> DEFINE record == Since(Len(log), 0)
<1>1. /\ Reads(v, "anchor", record) /\ UNCHANGED cache
      /\ unsettled' = [unsettled EXCEPT ![v] =
                          Newest(delivery) # 0 /\ ~Delivered(delivery, Newest(delivery))]
      /\ answer' = [answer EXCEPT ![v] = NoVerdict]
  BY DEF Ask
<1>2. /\ record \in Readings /\ record.head = Len(log) /\ record.verified = 0 /\ Len(log) \in Nat
      /\ VerifierTypes /\ CacheInv
  BY CallTypes DEF Since, Readings, Positions
<1> HIDE DEF record
<1>3. NoVerdict \in Verdicts
  BY DEF NoVerdict, Verdicts
<1>4. at'[v] = "anchor" /\ seen'[v] = record /\ UNCHANGED <<log, delivery>>
  BY <1>1, <1>2, MovedIs
<1>5. unsettled'[v] \/ Newest(delivery) = 0 \/ Delivered(delivery, Newest(delivery))
  BY <1>1, <1>2 DEF VerifierTypes
<1>6. CallInv(v)'
  BY <1>2, <1>4, <1>5 DEF CallInv
<1>7. CacheInv'
  BY <1>1, <1>2, <1>4 DEF CacheInv
<1> QED BY <1>1, <1>2, <1>3, <1>6, <1>7, CallStep DEF VerifierTypes

\* The read of the newest checkpoint and its delivery.
LEMMA AnchorIs ==
    ASSUME TypeOK, VInv, NEW v \in Verifier
    PROVE  /\ AnchorRead(v) \in Readings
           /\ AnchorRead(v).head = seen[v].head /\ AnchorRead(v).verified = seen[v].verified
           /\ AnchorRead(v).anchor = Newest(delivery)
           /\ AnchorRead(v).delivered = Delivered(delivery, Newest(delivery))
           /\ Newest(delivery) \in Nat /\ Newest(delivery) \in Positions
<1>1. seen[v] \in Readings /\ Newest(delivery) \in Positions /\ Newest(delivery) \in Nat
  BY CallTypes, NewestIs
<1>2. Delivered(delivery, Newest(delivery)) \in BOOLEAN
  BY DEF Delivered
<1> QED BY <1>1, <1>2 DEF AnchorRead, Readings

\* A cached verdict is true of the call it is served to.
LEMMA ServeStep == ASSUME TypeOK, VInv, NEW v \in Verifier, AnswerFromCache(v) PROVE VInv'
<1> DEFINE newest == Newest(delivery)
           record == Since(seen[v].head, newest)
<1>1. /\ at[v] = "anchor" /\ Reads(v, "idle", record) /\ UNCHANGED <<cache, unsettled>>
      /\ answer' = [answer EXCEPT ![v] = cache.verdict]
      /\ cache.key = <<seen[v].head, newest, Delivered(delivery, newest)>>
  BY AnchorIs DEF AnswerFromCache, Tell, Key
<1>2. /\ VerifierTypes /\ CallInv(v) /\ CacheInv /\ seen[v].head \in Nat /\ Len(log) \in Nat
      /\ seen[v].head <= Len(log) /\ newest \in Nat /\ newest \in Positions
  BY CallTypes, NewestIs
<1>3. record \in Readings /\ record.head = seen[v].head /\ record.anchor = newest
  BY <1>2 DEF Since, Readings, Positions
<1> HIDE DEF record, newest
<1>4. cache.verdict \in Verdicts
  BY <1>2 DEF VerifierTypes, NoEntry, NoVerdict, Verdicts
<1>5. /\ at'[v] = "idle" /\ seen'[v] = record /\ answer'[v] = cache.verdict
      /\ unsettled'[v] = unsettled[v] /\ UNCHANGED <<log, delivery>>
  BY <1>1, <1>2, MovedIs DEF VerifierTypes
<1>6. unsettled[v] \/ newest = 0 \/ Delivered(delivery, newest)
  BY <1>1, <1>2 DEF CallInv, newest
<1>7. /\ cache.key[1] = seen[v].head /\ cache.key[2] = newest
      /\ cache.key[3] = Delivered(delivery, newest)
  BY <1>1
<1>8. ValidCoversTheChain(v)'
  BY <1>2, <1>3, <1>5, <1>7 DEF ValidCoversTheChain, CacheInv
<1>9. AlarmsHaveACause(v)'
  <2>1. cache.verdict.reason # "chain_mismatch"
    BY <1>2 DEF CacheInv
  <2>2. cache.verdict.reason = "checkpoint_invalid" => unsettled[v]
    BY <1>2, <1>6, <1>7 DEF CacheInv, newest
  <2>3. cache.verdict.reason = "verification_limit_exceeded" => Len(log) - newest > MaximumEvents
    BY <1>2, <1>7 DEF CacheInv
  <2> QED BY <1>3, <1>5, <2>1, <2>2, <2>3 DEF AlarmsHaveACause
<1>10. CallInv(v)'
  BY <1>2, <1>3, <1>5, <1>8, <1>9 DEF CallInv
<1>11. CacheInv'
  BY <1>1, <1>2, <1>5 DEF CacheInv
<1> QED BY <1>1, <1>2, <1>3, <1>4, <1>10, <1>11, CallStep DEF VerifierTypes

\* A call without a cached verdict goes on with the checkpoint it read.
LEMMA AnchorStep == ASSUME TypeOK, VInv, NEW v \in Verifier, ReadAnchor(v) PROVE VInv'
<1> DEFINE newest == Newest(delivery)
           place == IF newest = 0 THEN "count" ELSE "row"
<1>1. /\ at[v] = "anchor" /\ Reads(v, place, AnchorRead(v)) /\ UNCHANGED <<cache, answer, unsettled>>
  BY DEF ReadAnchor
<1>2. /\ VerifierTypes /\ CallInv(v) /\ seen[v].head \in Nat /\ seen[v].head <= Len(log)
  BY CallTypes
<1>3. /\ AnchorRead(v) \in Readings /\ AnchorRead(v).head = seen[v].head
      /\ AnchorRead(v).verified = seen[v].verified /\ AnchorRead(v).anchor = newest
      /\ AnchorRead(v).delivered = Delivered(delivery, newest) /\ newest \in Nat
  BY AnchorIs
<1>4. at'[v] = place /\ seen'[v] = AnchorRead(v) /\ UNCHANGED <<log, delivery>>
  BY <1>1, <1>2, MovedIs
<1>5. seen[v].verified = 0 /\ (unsettled[v] \/ newest = 0 \/ Delivered(delivery, newest))
  BY <1>1, <1>2 DEF CallInv
<1> HIDE DEF newest
<1>6. CallInv(v)'
  <2>1. Newest(delivery') = newest /\ unsettled'[v] = unsettled[v]
    BY <1>1, <1>4 DEF newest
  <2>2. CASE newest = 0
    BY <1>2, <1>3, <1>4, <1>5, <2>1, <2>2 DEF CallInv
  <2>3. CASE newest # 0
    BY <1>2, <1>3, <1>4, <1>5, <2>1, <2>3 DEF CallInv
  <2> QED BY <2>2, <2>3
<1> QED BY <1>1, <1>3, <1>6, ReadStep

\* A verdict that is true of the call that reached it may be cached under the
\* key of its reads.
LEMMA FinishStep ==
    ASSUME TypeOK, VInv, NEW v \in Verifier, NEW reason \in Reasons \ {"chain_mismatch"},
           NEW checked \in Nat, Finished(v, reason, checked),
           reason = "valid" => /\ checked \in seen[v].head..Len(log)
                               /\ seen[v].anchor # 0 => Delivered(delivery, seen[v].anchor),
           reason = "checkpoint_invalid" =>
               /\ unsettled[v] /\ seen[v].anchor # 0
               /\ ~seen[v].delivered \/ seen[v].anchor < Newest(delivery),
           reason = "verification_limit_exceeded" => Len(log) - seen[v].anchor > MaximumEvents
    PROVE  VInv'
<1> DEFINE verdict == [reason |-> reason, checked |-> checked]
           record == Since(seen[v].head, seen[v].anchor)
<1>1. /\ cache' = [key |-> Key(seen[v]), verdict |-> verdict] /\ Reads(v, "idle", record)
      /\ answer' = [answer EXCEPT ![v] = verdict] /\ UNCHANGED unsettled
  BY DEF Finished, Tell
<1>2. /\ VerifierTypes /\ seen[v].head \in Nat /\ seen[v].anchor \in Positions
      /\ seen[v].delivered \in BOOLEAN /\ seen[v].head <= Len(log)
  BY CallTypes
<1>3. /\ record \in Readings /\ record.head = seen[v].head /\ record.anchor = seen[v].anchor
      /\ verdict \in Verdicts /\ verdict.reason = reason /\ verdict.checked = checked
  BY <1>2 DEF Since, Readings, Positions, Verdicts, NoVerdict
<1>4. /\ Key(seen[v]) = <<seen[v].head, seen[v].anchor, seen[v].delivered>>
      /\ Key(seen[v]) \in Nat \X Positions \X BOOLEAN
  BY <1>2 DEF Key
<1> HIDE DEF record, verdict
<1>5. /\ at'[v] = "idle" /\ seen'[v] = record /\ answer'[v] = verdict
      /\ unsettled'[v] = unsettled[v] /\ UNCHANGED <<log, delivery>>
  BY <1>1, <1>2, MovedIs DEF VerifierTypes
<1>6. /\ cache' \in [key : Nat \X Positions \X BOOLEAN, verdict : Verdicts]
      /\ cache'.verdict.reason = reason /\ cache'.verdict.checked = checked
      /\ cache'.key[1] = seen[v].head /\ cache'.key[2] = seen[v].anchor
      /\ cache'.key[3] = seen[v].delivered
  BY <1>1, <1>3, <1>4
<1>7. ValidCoversTheChain(v)' /\ AlarmsHaveACause(v)'
  BY <1>3, <1>5 DEF ValidCoversTheChain, AlarmsHaveACause
<1>8. CallInv(v)'
  BY <1>2, <1>3, <1>5, <1>7 DEF CallInv
<1>9. CacheInv'
  BY <1>5, <1>6 DEF CacheInv
<1> QED BY <1>1, <1>2, <1>3, <1>6, <1>8, <1>9, CallStep DEF VerifierTypes

\* The newest row is read again, and may be a newer one.
LEMMA RowStep == ASSUME TypeOK, VInv, NEW v \in Verifier, LoadRow(v) PROVE VInv'
<1> DEFINE newest == Newest(delivery)
           record == [seen[v] EXCEPT !.row = newest]
<1>1. /\ at[v] = "row" /\ Reads(v, "attempt", record) /\ UNCHANGED <<cache, answer, unsettled>>
  BY DEF LoadRow
<1>2. /\ VerifierTypes /\ CallInv(v) /\ seen[v] \in Readings /\ newest \in Positions /\ newest \in Nat
  BY CallTypes, NewestIs
<1>3. /\ record \in Readings /\ record.head = seen[v].head /\ record.anchor = seen[v].anchor
      /\ record.delivered = seen[v].delivered /\ record.row = newest
      /\ record.verified = seen[v].verified
  BY <1>2 DEF Readings
<1> HIDE DEF record, newest
<1>4. at'[v] = "attempt" /\ seen'[v] = record /\ UNCHANGED <<log, delivery>>
  BY <1>1, <1>2, MovedIs
<1>5. Newest(delivery') = newest /\ Newest(delivery) = newest /\ unsettled'[v] = unsettled[v]
  BY <1>1, <1>4 DEF newest
<1>6. CallInv(v)'
  BY <1>1, <1>2, <1>3, <1>4, <1>5 DEF CallInv
<1> QED BY <1>1, <1>3, <1>6, ReadStep

\* An alarm over the checkpoint is raised only where the newest one changed or
\* had no delivery during the call.
LEMMA AttemptStep == ASSUME TypeOK, VInv, NEW v \in Verifier, VerifyAttempt(v) PROVE VInv'
<1> DEFINE newest == Newest(delivery)
           good == Delivered(delivery, seen[v].row) /\ seen[v].row = seen[v].anchor
<1>1. /\ VerifierTypes /\ CallInv(v) /\ seen[v] \in Readings /\ seen[v].anchor \in Nat
      /\ seen[v].row \in Nat /\ newest \in Nat
  BY CallTypes, NewestIs
<1>2. /\ at[v] = "attempt" /\ seen[v].anchor # 0 /\ seen[v].anchor <= newest
      /\ seen[v].delivered => Delivered(delivery, seen[v].anchor)
      /\ unsettled[v] \/ (seen[v].anchor = newest /\ Delivered(delivery, newest))
      /\ seen[v].anchor <= seen[v].row /\ seen[v].row <= newest /\ seen[v].verified = 0
      /\ seen[v].head <= Len(log)
  BY <1>1 DEF VerifyAttempt, CallInv
<1>3. CASE good
  <2>1. Reads(v, "count", seen[v]) /\ UNCHANGED <<cache, answer, unsettled>>
    BY <1>3 DEF VerifyAttempt
  <2>2. at'[v] = "count" /\ seen'[v] = seen[v] /\ UNCHANGED <<log, delivery>>
    BY <1>1, <2>1, MovedIs
  <2>3. CallInv(v)'
    BY <1>2, <1>3, <2>2 DEF CallInv
  <2> QED BY <1>1, <2>1, <2>3, ReadStep
<1>4. CASE ~good
  <2>1. Finished(v, "checkpoint_invalid", 0)
    BY <1>4 DEF VerifyAttempt
  <2>2. unsettled[v]
    <3>1. CASE ~unsettled[v]
      <4>1. seen[v].row = seen[v].anchor /\ seen[v].anchor = newest
        BY <1>1, <1>2, <3>1
      <4> QED BY <1>2, <1>4, <3>1, <4>1
    <3> QED BY <3>1
  <2>3. ~seen[v].delivered \/ seen[v].anchor < newest
    <3>1. CASE seen[v].row = seen[v].anchor
      BY <1>2, <1>4, <3>1
    <3>2. CASE seen[v].row # seen[v].anchor
      BY <1>1, <1>2, <3>2
    <3> QED BY <3>1, <3>2
  <2>4. "checkpoint_invalid" \in Reasons \ {"chain_mismatch"}
    BY DEF Reasons
  <2> QED BY <1>2, <2>1, <2>2, <2>3, <2>4, FinishStep
<1> QED BY <1>3, <1>4

\* Counting the events that are left to read.
LEMMA CountStep == ASSUME TypeOK, VInv, NEW v \in Verifier, CountTail(v) PROVE VInv'
<1>1. /\ VerifierTypes /\ CallInv(v) /\ seen[v] \in Readings /\ seen[v].anchor \in Nat
      /\ seen[v].head \in Nat /\ Len(log) \in Nat /\ MaximumEvents \in Nat
      /\ at[v] = "count" /\ seen[v].head <= Len(log)
  BY CallTypes DEF CountTail
<1>2. /\ seen[v].anchor <= Len(log) /\ seen[v].verified = 0
      /\ seen[v].anchor = 0 \/ Delivered(delivery, seen[v].anchor)
  BY <1>1, CallTypes DEF CallInv
<1>3. CASE Len(log) - seen[v].anchor > MaximumEvents
  <2>1. Finished(v, "verification_limit_exceeded", seen[v].anchor)
    BY <1>3 DEF CountTail
  <2>2. "verification_limit_exceeded" \in Reasons \ {"chain_mismatch"}
    BY DEF Reasons
  <2> QED BY <1>1, <1>3, <2>1, <2>2, FinishStep
<1>4. CASE ~(Len(log) - seen[v].anchor > MaximumEvents)
  <2>1. Reads(v, "page", seen[v]) /\ UNCHANGED <<cache, answer, unsettled>>
    BY <1>4 DEF CountTail
  <2>2. at'[v] = "page" /\ seen'[v] = seen[v] /\ UNCHANGED <<log, delivery>>
    BY <1>1, <2>1, MovedIs
  <2>3. seen[v].head <= seen[v].anchor + MaximumEvents /\ seen[v].anchor + seen[v].verified <= Len(log)
    BY <1>1, <1>2, <1>4
  <2>4. CallInv(v)'
    BY <1>1, <1>2, <2>2, <2>3 DEF CallInv
  <2> QED BY <1>1, <2>1, <2>4, ReadStep
<1> QED BY <1>3, <1>4

\* The loop ends at the end of the log, or at the limit, which the count has
\* shown to lie behind the head the caller asked about.
LEMMA PageStep ==
    ASSUME TypeOK, VInv, ChainIntact, NEW v \in Verifier, VerifyPage(v)
    PROVE  VInv'
<1> DEFINE after == seen[v].anchor + seen[v].verified
           last == Min({after + Page, Len(log)})
           record == [seen[v] EXCEPT !.verified = @ + last - after]
<1>1. /\ VerifierTypes /\ CallInv(v) /\ seen[v] \in Readings /\ seen[v].anchor \in Nat
      /\ seen[v].head \in Nat /\ Len(log) \in Nat /\ MaximumEvents \in Nat /\ Page \in Nat \ {0}
      /\ seen[v].verified \in Nat /\ at[v] = "page" /\ seen[v].head <= Len(log)
  BY CallTypes DEF VerifyPage
<1>2. /\ seen[v].anchor = 0 \/ Delivered(delivery, seen[v].anchor)
      /\ seen[v].head <= seen[v].anchor + MaximumEvents /\ after <= Len(log)
  BY <1>1 DEF CallInv
<1>3. last = IF after + Page <= Len(log) THEN after + Page ELSE Len(log)
  <2>1. after + Page \in Nat
    BY <1>1
  <2> HIDE DEF after
  <2> QED BY <1>1, <2>1, MinIs
<1>6. IF last = after \/ seen[v].verified >= MaximumEvents
      THEN Finished(v, "valid", after)
      ELSE IF \A n \in (after + 1)..last : LinkHolds(n)
      THEN Reads(v, "page", record) /\ UNCHANGED <<cache, answer, unsettled>>
      ELSE Finished(v, "chain_mismatch", after)
  BY Zenon DEF VerifyPage
<1> HIDE DEF last
<1>4. CASE last = after \/ seen[v].verified >= MaximumEvents
  <2>1. Finished(v, "valid", after)
    BY <1>4, <1>6
  <2>2. after \in Nat /\ after \in seen[v].head..Len(log)
    <3>1. after \in Nat
      BY <1>1
    <3>2. CASE last = after
      <4> HIDE DEF after
      <4> QED BY <1>1, <1>2, <1>3, <3>1, <3>2
    <3>3. CASE seen[v].verified >= MaximumEvents
      <4>1. seen[v].head <= after
        BY <1>1, <1>2, <3>3
      <4> QED BY <1>1, <1>2, <3>1, <4>1
    <3> QED BY <1>4, <3>1, <3>2, <3>3
  <2>3. "valid" \in Reasons \ {"chain_mismatch"}
    BY DEF Reasons
  <2> QED BY <1>2, <2>1, <2>2, <2>3, FinishStep
<1>5. CASE ~(last = after \/ seen[v].verified >= MaximumEvents)
  <2>1. \A n \in (after + 1)..last : LinkHolds(n)
    <3> SUFFICES ASSUME NEW n \in (after + 1)..last PROVE LinkHolds(n)
      OBVIOUS
    <3>1. n \in 1..Len(log)
      BY <1>1, <1>3
    <3>2. n \in DOMAIN log
      BY <3>1 DEF TypeOK
    <3> QED BY <3>2 DEF LinkHolds, ChainIntact
  <2>2. Reads(v, "page", record) /\ UNCHANGED <<cache, answer, unsettled>>
    BY <1>5, <1>6, <2>1
  <2>3. last \in Nat /\ after <= last /\ last <= Len(log)
    BY <1>1, <1>2, <1>3
  <2>4. seen[v].verified + last - after \in Nat
    BY <1>1, <2>3
  <2>5. /\ record \in Readings /\ record.head = seen[v].head /\ record.anchor = seen[v].anchor
        /\ record.verified = seen[v].verified + last - after
    BY <1>1, <2>4 DEF Readings
  <2>6. record.anchor + record.verified = last
    BY <1>1, <2>3, <2>5
  <2> HIDE DEF record
  <2>7. at'[v] = "page" /\ seen'[v] = record /\ UNCHANGED <<log, delivery>>
    BY <1>1, <2>2, MovedIs
  <2>8. CallInv(v)'
    BY <1>1, <1>2, <2>3, <2>5, <2>6, <2>7 DEF CallInv
  <2> QED BY <2>2, <2>5, <2>8, ReadStep
<1> QED BY <1>4, <1>5

-----------------------------------------------------------------------------
(* The verdicts.                                                            *)

\* Nobody asked and no checkpoint stands.
LEMMA VerifiersInit == ASSUME VerificationInit PROVE VInv
<1> USE DEF VerificationInit, Init
<1>1. VerifierTypes
  <2>1. Since(0, 0) \in Readings
    BY DEF Since, Readings, Positions
  <2>2. NoVerdict \in Verdicts
    BY DEF NoVerdict, Verdicts
  <2> QED BY <2>1, <2>2 DEF VerifierTypes
<1>2. Anchored
  BY DEF Anchored
<1>3. \A v \in Verifier : CallInv(v)
  BY DEF CallInv, ValidCoversTheChain, AlarmsHaveACause, Since, NoVerdict
<1>4. CacheInv
  BY DEF CacheInv, NoEntry, NoVerdict
<1> QED BY <1>1, <1>2, <1>3, <1>4 DEF VInv

\* Every step keeps what the reads say of the tables.
LEMMA VerifiersStep ==
    ASSUME TypeOK, ChainIntact, VInv, [VerificationNext]_allVars
    PROVE  VInv'
<1>1. CASE Next /\ UNCHANGED verification
  BY <1>1, LedgerStep
<1>2. ASSUME NEW n \in Sequences, CreateCheckpoint(n) \/ DeliverCheckpoint(n) PROVE VInv'
  BY <1>2, CheckpointStep
<1>3. ASSUME NEW v \in Verifier, Verify(v) PROVE VInv'
  BY <1>3, AskStep, ServeStep, AnchorStep, RowStep, AttemptStep, CountStep, PageStep DEF Verify
<1>4. CASE ExpireVerdict
  <2>1. VerifierTypes' /\ Anchored' /\ \A v \in Verifier : CallInv(v)'
    BY <1>4 DEF ExpireVerdict, VInv, VerifierTypes, Anchored, CallInv, vars, ValidCoversTheChain,
                AlarmsHaveACause
  <2>2. CacheInv'
    BY <1>4 DEF ExpireVerdict, CacheInv, NoEntry, NoVerdict
  <2> QED BY <2>1, <2>2 DEF VInv
<1>5. CASE UNCHANGED allVars
  BY <1>5, LedgerStep DEF allVars
<1> QED BY <1>1, <1>2, <1>3, <1>4, <1>5 DEF VerificationNext

\* A verdict is true of the call it is given to, also when another call reached
\* it before and although the checkpoint is read twice (verifyAuditChain).
THEOREM VerdictsCorrect == VerificationSpec => []VerdictsAreTrue
<1>1. VerificationInit => VInv
  BY VerifiersInit
<1>2. TypeOK /\ ChainIntact /\ VInv /\ [VerificationNext]_allVars => VInv'
  BY VerifiersStep
<1>3. TypeOK /\ VInv => VerdictsAreTrue
  <2> SUFFICES ASSUME TypeOK, VInv PROVE VerdictsAreTrue
    OBVIOUS
  <2>1. \A v \in Verifier : /\ answer[v] = NoVerdict \/ answer[v].reason \in Reasons
                            /\ seen[v].anchor \in Sequences \union {0}
    BY DEF VInv, VerifierTypes, Verdicts, Readings, Positions, NoVerdict
  <2> QED BY <2>1 DEF VerdictsAreTrue, VerificationTypeOK, VInv, VerifierTypes, CallInv
<1>4. VerificationSpec => []TypeOK /\ []ChainIntact
  BY LedgerUndisturbed, TypeCorrect, ChainCorrect, PTL
<1> QED BY <1>1, <1>2, <1>3, <1>4, PTL DEF VerificationSpec

-----------------------------------------------------------------------------
(* NativeProvenance                                                          *)

-----------------------------------------------------------------------------
(* The inductive invariant.                                                 *)

\* Requests that are about to ask for a lease.
Claiming == {w \in Worker : upload[w].pc = "claim"}

\* Every lease was granted to an upload request.
LeasesCounted ==
    /\ uploads <= scenario.uploads
    /\ IsFiniteSet(Claiming) /\ granted + Cardinality(Claiming) <= uploads

\* A request on its way has a capture and an assessment; past the insertion,
\* its artifact is stored.
RequestsOK ==
    \A w \in Worker : upload[w].pc # "idle" =>
        /\ Target(w) \in Artifact
        /\ upload[w].pc \in {"finalize", "link", "recheck"} => Target(w) \in Stored

PassRecord == [pc : {"idle", "examine", "finalize", "release", "dismiss", "orphans", "drain",
                     "quarantine", "advance"},
               lease : 0..MaxUploads, entry : 0..Cardinality(Artifact),
               item : Artifact \union {<<>>}, seen : Statuses \union {"active", "revoked", "linked"}]

\* What a pass of the reconciler has read.
PassOK ==
    /\ pass \in PassRecord
    /\ pass.pc \in {"finalize", "drain", "quarantine"} => pass.item \in Artifact
    /\ pass.pc = "finalize" => pass.seen \in Activity
    /\ pass.pc = "drain" => pass.seen = "returned" \/ Linked(pass.item)

\* The links of a device and its row.
ChainOK(d) ==
    LET row == device[d] IN
    /\ IsFiniteSet(LinksOf(d)) /\ Cardinality(LinksOf(d)) = row.sequence
    /\ row.sequence = 0 <=> row.head = DeviceGenesis
    /\ \A l \in LinksOf(d) :
         /\ l.sequence \in 1..row.sequence
         /\ l.artifact[1] = l.capture /\ l.artifact \in Stored
         /\ Facts[l.capture].device = d /\ l.key = row.key /\ Facts[l.capture].key = row.key
         /\ Facts[l.capture].previous = DeviceGenesis <=> l.sequence = 1
         /\ l.sequence > 1 => \E k \in LinksOf(d) :
               k.sequence = l.sequence - 1 /\ k.capture = Facts[l.capture].previous
         /\ l.sequence = row.sequence => row.head = l.capture
    /\ \A n \in 1..row.sequence : \E l \in LinksOf(d) : l.sequence = n
    /\ Reserved(d) =>
         /\ Facts[row.pending.capture].device = d
         /\ Continues(row.pending.capture) /\ row.key = Facts[row.pending.capture].key

\* What has been reviewed has been stored.
ReviewsOK == \A a \in Artifact : artifact[a].review # "absent" => artifact[a].status # "absent"

DeviceInv ==
    /\ DeviceTypeOK /\ LeasesCounted /\ RequestsOK /\ PassOK
    /\ \A d \in Device : ChainOK(d)
    /\ OrphansAreTracked

-----------------------------------------------------------------------------
(* Numbers and sets.                                                        *)

LEMMA LeastExists ==
    ASSUME NEW S \in SUBSET Nat, S # {}
    PROVE  \E n \in S : \A m \in S : n <= m
<1> DEFINE Less == {ss \in Nat \X Nat : ss[1] < ss[2]}
<1>1. IsWellFoundedOn(Less, Nat)
  BY NatLessThanWellFounded DEF OpToRel
<1> HIDE DEF Less
<1>2. PICK n \in S : \A m \in S : <<m, n>> \notin Less
  BY <1>1, WFMin
<1>3. ASSUME NEW m \in S PROVE n <= m
  <2>1. m \in Nat /\ n \in Nat /\ <<m, n>> \in Nat \X Nat
    BY <1>2
  <2>2. ~(<<m, n>>[1] < <<m, n>>[2])
    BY <1>2, <2>1, Zenon DEF Less
  <2> QED BY <2>1, <2>2
<1> QED BY <1>2, <1>3

LEMMA NextAfterIs ==
    ASSUME NEW rows \in SUBSET Nat, rows # {}, NEW position
    PROVE  NextAfter(position, rows) \in rows
<1> DEFINE later == {n \in rows : n > position}
           eligible == IF later = {} THEN rows ELSE later
<1>1. eligible \in SUBSET Nat /\ eligible # {} /\ eligible \subseteq rows
  OBVIOUS
<1>2. \E n \in eligible : \A m \in eligible : n <= m
  BY <1>1, LeastExists
<1>3. NextAfter(position, rows) \in eligible
  BY <1>2 DEF NextAfter
<1> QED BY <1>1, <1>3

LEMMA FreeSlotIs ==
    ASSUME NEW w \in Worker, w = FreeSlot
    PROVE  upload[w].pc = "idle"
<1> DEFINE free == {v \in Worker : upload[v].pc = "idle"}
<1>1. free # {} /\ free \in SUBSET Nat
  BY FactsAssumption DEF FreeSlot
<1>2. \E v \in free : \A u \in free : v <= u
  BY <1>1, LeastExists
<1>3. w \in free
  BY <1>1, <1>2 DEF FreeSlot
<1> QED BY <1>3

LEMMA ArtifactsFinite ==
    /\ IsFiniteSet(Artifact) /\ Cardinality(Artifact) \in Nat
    /\ \A S \in SUBSET Artifact : IsFiniteSet(S) /\ Cardinality(S) \in 0..Cardinality(Artifact)
<1>1. IsFiniteSet(1..MaxAssessment)
  BY FactsAssumption, FS_Interval
<1>2. IsFiniteSet(Artifact)
  BY <1>1, FactsAssumption, FS_Product DEF Artifact
<1>3. ASSUME NEW S \in SUBSET Artifact
      PROVE IsFiniteSet(S) /\ Cardinality(S) <= Cardinality(Artifact)
  BY <1>2, FS_Subset
<1> QED BY <1>2, <1>3, FS_CardinalityType

\* A capture names a device, and is not the start of a chain.
LEMMA CaptureFacts ==
    ASSUME NEW c \in Capture
    PROVE  /\ Facts[c].device \in Device /\ Facts[c].sequence \in Nat /\ Facts[c].sequence > 0
           /\ Facts[c].previous \in Capture \union {DeviceGenesis} /\ Facts[c].key # NoKey
           /\ Facts[c].key \in Keys /\ c # DeviceGenesis
BY FactsAssumption DEF Keys

-----------------------------------------------------------------------------
(* What steps that do not touch a part leave as it is.                      *)

LEMMA ChainFrame ==
    ASSUME \A d \in Device : ChainOK(d), UNCHANGED <<device, links>>, Stored \subseteq Stored'
    PROVE  \A d \in Device : ChainOK(d)'
<1> TAKE d \in Device
<1>1. ChainOK(d) /\ LinksOf(d)' = LinksOf(d)
  BY DEF LinksOf
<1>2. device' = device
  OBVIOUS
<1>3. Reserved(d)' = Reserved(d) /\ \A c : Continues(c)' = Continues(c)
  BY <1>2 DEF Reserved, Continues
<1> QED BY <1>1, <1>2, <1>3 DEF ChainOK

LEMMA OrphanFrame ==
    ASSUME OrphansAreTracked, UNCHANGED <<artifact, links, queue>>
    PROVE  OrphansAreTracked'
BY DEF OrphansAreTracked, Stored, Linked

LEMMA RequestsFrame ==
    ASSUME RequestsOK, UNCHANGED upload, Stored \subseteq Stored'
    PROVE  RequestsOK'
BY DEF RequestsOK, Target

LEMMA CountFrame ==
    ASSUME LeasesCounted, UNCHANGED <<granted, uploads, scenario>>, Claiming' = Claiming
    PROVE  LeasesCounted'
BY DEF LeasesCounted

LEMMA PassFrame ==
    ASSUME PassOK, UNCHANGED pass, links \subseteq links'
    PROVE  PassOK'
BY DEF PassOK, Linked

-----------------------------------------------------------------------------
(* A link joins the chain.                                                  *)

LEMMA AppendKeeps ==
    ASSUME DeviceInv, NEW c \in Capture, NEW a \in Artifact, NEW n, AppendLink(c, a),
           a[1] = c, a \in Stored, HoldsLease(c, n)
    PROVE  /\ \A d \in Device : ChainOK(d)'
           /\ OrphansAreTracked'
           /\ device' \in [Device -> [status : {"active", "revoked"}, key : Keys \union {NoKey},
                              sequence : Nat, head : Capture \union {DeviceGenesis},
                              pending : [lease : Lease, capture : Capture] \union {None}]]
           /\ links' \subseteq [device : Device, sequence : Nat, capture : Capture,
                        artifact : Artifact, key : Keys]
           /\ queue' \in [Artifact -> 0..Cardinality(Artifact)]
           /\ links \subseteq links' /\ Stored' = Stored /\ UNCHANGED artifact
<1> DEFINE o == Facts[c].device
           new == [device |-> o, sequence |-> Facts[c].sequence, capture |-> c,
                   artifact |-> a, key |-> Facts[c].key]
<1>1. /\ o \in Device /\ Facts[c].sequence \in Nat /\ Facts[c].key \in Keys
      /\ c # DeviceGenesis /\ Facts[c].key # NoKey
  BY CaptureFacts
<1>2. /\ links' = links \union {new}
      /\ device' = [device EXCEPT ![o].sequence = Facts[c].sequence, ![o].head = c,
                                  ![o].pending = None]
      /\ queue' = [queue EXCEPT ![a] = 0] /\ artifact' = artifact
  BY DEF AppendLink
<1>3. /\ device[o].sequence \in Nat /\ Facts[c].sequence = device[o].sequence + 1
      /\ Facts[c].previous = device[o].head /\ device[o].key = Facts[c].key
  BY <1>1 DEF HoldsLease, Continues, DeviceInv, DeviceTypeOK
<1>4. /\ device' \in [Device -> [status : {"active", "revoked"}, key : Keys \union {NoKey},
                              sequence : Nat, head : Capture \union {DeviceGenesis},
                              pending : [lease : Lease, capture : Capture] \union {None}]]
      /\ links' \subseteq [device : Device, sequence : Nat, capture : Capture,
                        artifact : Artifact, key : Keys]
      /\ queue' \in [Artifact -> 0..Cardinality(Artifact)]
  <2>1. new \in [device : Device, sequence : Nat, capture : Capture,
                 artifact : Artifact, key : Keys]
    BY <1>1
  <2>2. links' \subseteq [device : Device, sequence : Nat, capture : Capture,
                        artifact : Artifact, key : Keys]
    BY <1>2, <2>1 DEF DeviceInv, DeviceTypeOK
  <2>3. queue' \in [Artifact -> 0..Cardinality(Artifact)]
    BY <1>2, ArtifactsFinite DEF DeviceInv, DeviceTypeOK
  <2>4. device' \in [Device -> [status : {"active", "revoked"}, key : Keys \union {NoKey},
                              sequence : Nat, head : Capture \union {DeviceGenesis},
                              pending : [lease : Lease, capture : Capture] \union {None}]]
    BY <1>1, <1>2 DEF DeviceInv, DeviceTypeOK
  <2> QED BY <2>2, <2>3, <2>4
<1>5. Stored' = Stored
  BY <1>2 DEF Stored
<1>6. OrphansAreTracked'
  <2>1. \A x : Linked(x)' <=> Linked(x) \/ x = a
    <3>1. new.artifact = a
      OBVIOUS
    <3> HIDE DEF new
    <3> QED BY <1>2, <3>1 DEF Linked
  <2>2. \A x \in Artifact : queue'[x] = IF x = a THEN 0 ELSE queue[x]
    BY <1>2 DEF DeviceInv, DeviceTypeOK
  <2>3. Stored \subseteq Artifact /\ OrphansAreTracked
    BY DEF Stored, DeviceInv
  <2> QED BY <1>2, <1>5, <2>1, <2>2, <2>3 DEF OrphansAreTracked
<1>7. ASSUME NEW d \in Device, d # o PROVE ChainOK(d)'
  <2>1. ChainOK(d) /\ LinksOf(d)' = LinksOf(d)
    BY <1>2, <1>7 DEF LinksOf, DeviceInv
  <2>2. device'[d] = device[d]
    BY <1>2, <1>7 DEF DeviceInv, DeviceTypeOK
  <2>3. Reserved(d)' = Reserved(d)
    BY <2>2 DEF Reserved
  <2>4. \A k : Facts[k].device = d => Continues(k)' = Continues(k)
    BY <2>2 DEF Continues
  <2> QED BY <1>5, <2>1, <2>2, <2>3, <2>4 DEF ChainOK
<1>8. ChainOK(o)'
  <2>1. ChainOK(o)
    BY <1>1 DEF DeviceInv
  <2>2. LinksOf(o)' = LinksOf(o) \union {new}
    BY <1>2 DEF LinksOf
  <2>3. /\ device'[o].sequence = Facts[c].sequence /\ device'[o].head = c
        /\ device'[o].key = device[o].key /\ device'[o].pending = None
    BY <1>1, <1>2 DEF DeviceInv, DeviceTypeOK
  <2>4. \A l \in LinksOf(o) : l.sequence \in 1..device[o].sequence
    BY <2>1 DEF ChainOK
  <2>5. new \notin LinksOf(o)
    BY <1>3, <2>4
  <2>6. IsFiniteSet(LinksOf(o)') /\ Cardinality(LinksOf(o)') = device[o].sequence + 1
    <3> HIDE DEF new
    <3>1. IsFiniteSet(LinksOf(o)) /\ Cardinality(LinksOf(o)) = device[o].sequence
      BY <2>1 DEF ChainOK
    <3>2. IsFiniteSet(LinksOf(o) \union {new})
          /\ Cardinality(LinksOf(o) \union {new}) = Cardinality(LinksOf(o)) + 1
      BY <2>5, <3>1, FS_AddElement
    <3> QED BY <2>2, <3>1, <3>2
  <2>7. ASSUME NEW l \in LinksOf(o)'
        PROVE  /\ l.sequence \in 1..(device'[o].sequence)
               /\ l.artifact[1] = l.capture /\ l.artifact \in Stored
               /\ Facts[l.capture].device = o /\ l.key = device'[o].key
               /\ Facts[l.capture].key = device'[o].key
               /\ Facts[l.capture].previous = DeviceGenesis <=> l.sequence = 1
               /\ l.sequence > 1 => \E k \in LinksOf(o)' :
                    k.sequence = l.sequence - 1 /\ k.capture = Facts[l.capture].previous
               /\ l.sequence = device'[o].sequence => device'[o].head = l.capture
    <3>1. CASE l = new
      <4>1. Facts[l.capture].previous = DeviceGenesis <=> l.sequence = 1
        BY <1>3, <2>1, <3>1 DEF ChainOK
      <4>2. l.sequence > 1 => \E k \in LinksOf(o) :
                    k.sequence = l.sequence - 1 /\ k.capture = Facts[l.capture].previous
        <5> SUFFICES ASSUME l.sequence > 1
                     PROVE  \E k \in LinksOf(o) : k.sequence = device[o].sequence
                                               /\ k.capture = device[o].head
          BY <1>3, <3>1
        <5>1. device[o].sequence \in 1..device[o].sequence
          BY <1>3, <3>1
        <5>2. PICK k \in LinksOf(o) : k.sequence = device[o].sequence
          BY <2>1, <5>1 DEF ChainOK
        <5> QED BY <2>1, <5>2 DEF ChainOK
      <4> QED BY <1>1, <1>3, <2>2, <2>3, <3>1, <4>1, <4>2
    <3>2. CASE l \in LinksOf(o)
      <4>1. /\ l.sequence \in 1..device[o].sequence
            /\ l.artifact[1] = l.capture /\ l.artifact \in Stored
            /\ Facts[l.capture].device = o /\ l.key = device[o].key
            /\ Facts[l.capture].key = device[o].key
            /\ Facts[l.capture].previous = DeviceGenesis <=> l.sequence = 1
            /\ l.sequence > 1 => \E k \in LinksOf(o) :
                    k.sequence = l.sequence - 1 /\ k.capture = Facts[l.capture].previous
        BY <2>1, <3>2 DEF ChainOK
      <4> QED BY <1>3, <2>2, <2>3, <4>1
    <3> QED BY <2>2, <3>1, <3>2
  <2>8. \A k \in 1..(device'[o].sequence) : \E l \in LinksOf(o)' : l.sequence = k
    <3> TAKE k \in 1..(device'[o].sequence)
    <3>1. CASE k = Facts[c].sequence
      <4>1. new.sequence = k /\ new \in LinksOf(o)'
        BY <2>2, <3>1
      <4> QED BY <4>1
    <3>2. CASE k \in 1..device[o].sequence
      BY <2>1, <2>2, <3>2 DEF ChainOK
    <3> QED BY <1>3, <2>3, <3>1, <3>2
  <2>9. ~Reserved(o)'
    BY <2>3 DEF Reserved, None
  <2> QED BY <1>1, <1>3, <1>5, <2>3, <2>6, <2>7, <2>8, <2>9 DEF ChainOK
<1>9. links \subseteq links'
  BY <1>2
<1> QED BY <1>2, <1>4, <1>5, <1>6, <1>7, <1>8, <1>9

-----------------------------------------------------------------------------
(* The upload route.                                                        *)

LEMMA UploadStep ==
    ASSUME DeviceInv, NEW w \in Worker, NEW c \in Capture, Upload(w, c)
    PROVE  DeviceInv'
<1> DEFINE row == device[Facts[c].device]
           entered == [pc |-> IF Reserved(Facts[c].device) /\ ~Expired(row.pending.lease)
                                 /\ row.pending.capture = c THEN "lookup" ELSE "claim",
                       capture |-> c, assessment |-> assessment, lease |-> row.pending.lease]
<1>1. upload[w].pc = "idle"
  BY FreeSlotIs DEF Upload
<1>2. /\ upload' = [upload EXCEPT ![w] = entered] /\ uploads' = uploads + 1
      /\ uploads < scenario.uploads
      /\ UNCHANGED <<state, rules, clocks, cursor, pass, scenario, changes, failures>>
  BY DEF Upload
<1>3. Facts[c].device \in Device /\ row.pending \in [lease : Lease, capture : Capture] \union {None}
  BY CaptureFacts DEF DeviceInv, DeviceTypeOK
<1>4. row.pending.lease \in 0..MaxUploads
  BY <1>3, FactsAssumption DEF Lease, None
<1>5. scenario \in Scenarios /\ scenario.uploads \in 0..MaxUploads /\ uploads \in Nat
  BY FactsAssumption DEF DeviceInv, DeviceTypeOK
<1>6. DeviceTypeOK'
  <2>1. upload' \in [Worker -> [pc : {"idle", "claim", "lookup", "insert", "finalize", "link", "recheck"},
                              capture : Capture \union {DeviceGenesis}, assessment : 0..MaxAssessment,
                              lease : 0..MaxUploads]]
    BY <1>2, <1>4, FactsAssumption DEF DeviceInv, DeviceTypeOK
  <2>2. uploads' \in 0..MaxUploads
    BY <1>2, <1>5, FactsAssumption
  <2> QED BY <1>2, <2>1, <2>2 DEF DeviceInv, DeviceTypeOK, state, rules, clocks
<1>7. LeasesCounted'
  <2>1. Claiming' \in {Claiming, Claiming \union {w}}
    <3>1. \A v \in Worker : v # w => upload'[v] = upload[v]
      BY <1>2 DEF DeviceInv, DeviceTypeOK
    <3> QED BY <3>1, <1>1 DEF Claiming
  <2>2. IsFiniteSet(Claiming') /\ Cardinality(Claiming') <= Cardinality(Claiming) + 1
        /\ Cardinality(Claiming) \in Nat /\ Cardinality(Claiming') \in Nat
    <3>1. IsFiniteSet(Claiming) /\ Cardinality(Claiming) \in Nat
      BY FS_CardinalityType DEF DeviceInv, LeasesCounted
    <3>2. w \notin Claiming
      BY <1>1 DEF Claiming
    <3>3. IsFiniteSet(Claiming \union {w})
          /\ Cardinality(Claiming \union {w}) = Cardinality(Claiming) + 1
      BY <3>1, <3>2, FS_AddElement
    <3>4. CASE Claiming' = Claiming
      BY <3>1, <3>4
    <3>5. CASE Claiming' = Claiming \union {w}
      BY <3>1, <3>3, <3>5
    <3> QED BY <2>1, <3>4, <3>5
  <2> QED BY <1>2, <1>5, <2>2 DEF DeviceInv, LeasesCounted, DeviceTypeOK, clocks
<1>8. Stored' = Stored
  BY <1>2 DEF Stored, state
<1>9. RequestsOK'
  <2>1. Target(w)' \in Artifact /\ upload'[w].pc \in {"lookup", "claim"}
    BY <1>2 DEF Target, Artifact, DeviceInv, DeviceTypeOK
  <2>2. \A v \in Worker : v # w => upload'[v] = upload[v]
    BY <1>2 DEF DeviceInv, DeviceTypeOK
  <2> QED BY <1>8, <2>1, <2>2 DEF DeviceInv, RequestsOK, Target
<1>10. PassOK'
  BY <1>2, PassFrame DEF DeviceInv, state
<1>11. (\A d \in Device : ChainOK(d)')
  BY <1>2, <1>8, ChainFrame DEF DeviceInv, state
<1>12. OrphansAreTracked'
  BY <1>2, OrphanFrame DEF DeviceInv, state
<1> QED BY <1>6, <1>7, <1>9, <1>10, <1>11, <1>12 DEF DeviceInv

\* A request that moves on or leaves, and is not about to ask for a lease.
LEMMA MoveRequest ==
    ASSUME DeviceInv, NEW w \in Worker, NEW to \in {"lookup", "insert", "finalize", "link", "recheck"},
           Leave(w) \/ Goto(w, to), Stored \subseteq Stored',
           upload[w].pc # "idle", to \in {"finalize", "link", "recheck"} => Target(w) \in Stored',
           UNCHANGED <<granted, uploads, scenario>>
    PROVE  /\ upload' \in [Worker -> [pc : {"idle", "claim", "lookup", "insert", "finalize", "link", "recheck"},
                              capture : Capture \union {DeviceGenesis}, assessment : 0..MaxAssessment,
                              lease : 0..MaxUploads]]
           /\ LeasesCounted' /\ RequestsOK'
<1>1. upload' \in [Worker -> [pc : {"idle", "claim", "lookup", "insert", "finalize", "link", "recheck"},
                              capture : Capture \union {DeviceGenesis}, assessment : 0..MaxAssessment,
                              lease : 0..MaxUploads]]
  <2>1. Away \in [pc : {"idle", "claim", "lookup", "insert", "finalize", "link", "recheck"},
                  capture : Capture \union {DeviceGenesis}, assessment : 0..MaxAssessment,
                  lease : 0..MaxUploads]
    BY FactsAssumption DEF Away
  <2>2. CASE Leave(w)
    BY <2>1, <2>2 DEF DeviceInv, DeviceTypeOK, Leave
  <2>3. CASE Goto(w, to)
    BY <2>3 DEF DeviceInv, DeviceTypeOK, Goto
  <2> QED BY <2>2, <2>3
<1>2. \A v \in Worker : v # w => upload'[v] = upload[v]
  BY DEF DeviceInv, DeviceTypeOK, Leave, Goto
<1>3. upload'[w] = Away \/ upload'[w] = [upload[w] EXCEPT !.pc = to]
  BY DEF DeviceInv, DeviceTypeOK, Leave, Goto
<1>4. LeasesCounted'
  <2>1. Claiming' \subseteq Claiming
    <3>1. upload'[w].pc # "claim"
      BY <1>3 DEF Away, DeviceInv, DeviceTypeOK
    <3> QED BY <1>2, <3>1 DEF Claiming
  <2>2. IsFiniteSet(Claiming') /\ Cardinality(Claiming') <= Cardinality(Claiming)
        /\ Cardinality(Claiming) \in Nat /\ Cardinality(Claiming') \in Nat
    BY <2>1, FS_Subset, FS_CardinalityType DEF DeviceInv, LeasesCounted
  <2> QED BY <2>2 DEF DeviceInv, LeasesCounted, DeviceTypeOK
<1>5. RequestsOK'
  <2>1. Target(w) \in Artifact
    BY DEF DeviceInv, RequestsOK
  <2>2. CASE upload'[w] = Away
    BY <1>2, <2>2 DEF DeviceInv, RequestsOK, Target, Away
  <2>3. CASE upload'[w] = [upload[w] EXCEPT !.pc = to]
    <3>1. upload[w] \in [pc : {"idle", "claim", "lookup", "insert", "finalize", "link", "recheck"},
                              capture : Capture \union {DeviceGenesis}, assessment : 0..MaxAssessment,
                              lease : 0..MaxUploads]
      BY DEF DeviceInv, DeviceTypeOK
    <3>2. Target(w)' = Target(w) /\ upload'[w].pc = to
      BY <2>3, <3>1 DEF Target
    <3> QED BY <1>2, <2>1, <3>2 DEF DeviceInv, RequestsOK, Target
  <2> QED BY <1>3, <2>2, <2>3
<1> QED BY <1>1, <1>4, <1>5

LEMMA ClaimStep ==
    ASSUME DeviceInv, NEW w \in Worker, ClaimLink(w)
    PROVE  DeviceInv'
<1>0. PICK c : c = upload[w].capture
  OBVIOUS
<1>00. PICK o : o = Facts[c].device
  OBVIOUS
<1>1. upload[w].pc = "claim" /\ Target(w) \in Artifact /\ c \in Capture /\ w \in Claiming
  BY <1>0 DEF ClaimLink, DeviceInv, RequestsOK, Target, Artifact, Claiming
<1>2. UNCHANGED <<links, artifact, queue, rules, lapsed, due, cursor, pass, bounds>>
  BY DEF ClaimLink
<1>3. Stored' = Stored
  BY <1>2 DEF Stored
<1>4. PassOK' /\ OrphansAreTracked'
  BY <1>2, PassFrame, OrphanFrame DEF DeviceInv
<1>5. CASE ~Claimable(w, c)
  <2>1. Leave(w) /\ UNCHANGED <<device, granted>>
    BY <1>0, <1>5 DEF ClaimLink
  <2>2. /\ upload' \in [Worker -> [pc : {"idle", "claim", "lookup", "insert", "finalize", "link", "recheck"},
                              capture : Capture \union {DeviceGenesis}, assessment : 0..MaxAssessment,
                              lease : 0..MaxUploads]]
        /\ LeasesCounted' /\ RequestsOK'
    <3>1. "lookup" \in {"lookup", "insert", "finalize", "link", "recheck"}
          /\ "lookup" \notin {"finalize", "link", "recheck"}
      OBVIOUS
    <3> QED BY <1>1, <1>2, <1>3, <2>1, <3>1, MoveRequest DEF bounds
  <2>3. \A d \in Device : ChainOK(d)'
    BY <1>2, <1>3, <2>1, ChainFrame DEF DeviceInv
  <2> QED BY <1>2, <1>4, <2>1, <2>2, <2>3 DEF DeviceInv, DeviceTypeOK, rules, bounds
<1>6. CASE Claimable(w, c)
  <2>1. /\ granted' = granted + 1
        /\ device' = [device EXCEPT ![o].key = Facts[c].key,
                                    ![o].pending = [lease |-> granted + 1, capture |-> c]]
        /\ upload' = [upload EXCEPT ![w].pc = "lookup", ![w].lease = granted + 1]
    BY <1>0, <1>00, <1>6 DEF ClaimLink
  <2>2. /\ o \in Device /\ Facts[c].sequence \in Nat /\ Facts[c].key \in Keys
        /\ c # DeviceGenesis /\ Facts[c].key # NoKey /\ Facts[c].sequence > 0
    BY <1>00, <1>1, CaptureFacts
  <2>3. IsFiniteSet(Claiming) /\ Cardinality(Claiming) \in Nat /\ Cardinality(Claiming) > 0
    BY <1>1, FS_CardinalityType, FS_EmptySet DEF DeviceInv, LeasesCounted
  <2>4. granted \in Nat /\ uploads \in 0..MaxUploads /\ MaxUploads \in Nat
    BY FactsAssumption DEF DeviceInv, DeviceTypeOK
  <2>5. granted + 1 \in Lease /\ granted + 1 \in 0..MaxUploads
    BY <2>3, <2>4 DEF DeviceInv, LeasesCounted, Lease
  <2>6. /\ device' \in [Device -> [status : {"active", "revoked"}, key : Keys \union {NoKey},
                              sequence : Nat, head : Capture \union {DeviceGenesis},
                              pending : [lease : Lease, capture : Capture] \union {None}]]
    <3>1. [lease |-> granted + 1, capture |-> c] \in [lease : Lease, capture : Capture]
      BY <1>1, <2>5
    <3> DEFINE pending == [lease |-> granted + 1, capture |-> c]
    <3>2. device' = [device EXCEPT ![o].key = Facts[c].key, ![o].pending = pending]
          /\ pending \in [lease : Lease, capture : Capture] \union {None}
      BY <2>1, <3>1
    <3> HIDE DEF pending
    <3>3. device \in [Device -> [status : {"active", "revoked"}, key : Keys \union {NoKey},
                              sequence : Nat, head : Capture \union {DeviceGenesis},
                              pending : [lease : Lease, capture : Capture] \union {None}]]
      BY DEF DeviceInv, DeviceTypeOK
    <3>4. \A d \in Device : d # o => device'[d] = device[d]
      BY <3>2, <3>3
    <3>5. /\ device'[o].key = Facts[c].key /\ device'[o].pending = pending
          /\ device'[o] = [status |-> device[o].status, key |-> Facts[c].key,
                            sequence |-> device[o].sequence, head |-> device[o].head,
                            pending |-> pending]
      BY <2>2, <3>2, <3>3
    <3>6. device'[o] \in [status : {"active", "revoked"}, key : Keys \union {NoKey},
                          sequence : Nat, head : Capture \union {DeviceGenesis},
                          pending : [lease : Lease, capture : Capture] \union {None}]
      BY <2>2, <3>2, <3>3, <3>5
    <3>7. device' = [d \in Device |-> device'[d]]
      BY <3>2, <3>3
    <3> QED BY <3>3, <3>4, <3>6, <3>7
  <2>7. upload' \in [Worker -> [pc : {"idle", "claim", "lookup", "insert", "finalize", "link", "recheck"},
                              capture : Capture \union {DeviceGenesis}, assessment : 0..MaxAssessment,
                              lease : 0..MaxUploads]]
    BY <2>1, <2>5 DEF DeviceInv, DeviceTypeOK
  <2>8. /\ \A v \in Worker : v # w => upload'[v] = upload[v]
        /\ upload'[w].pc = "lookup" /\ Target(w)' = Target(w)
    BY <2>1 DEF DeviceInv, DeviceTypeOK, Target
  <2>9. LeasesCounted'
    <3>1. Claiming' = Claiming \ {w}
      BY <2>8 DEF Claiming
    <3>2. IsFiniteSet(Claiming') /\ Cardinality(Claiming') = Cardinality(Claiming) - 1
      BY <1>1, <2>3, <3>1, FS_RemoveElement
    <3> QED BY <1>2, <2>1, <2>3, <2>4, <3>2 DEF DeviceInv, LeasesCounted, bounds
  <2>10. RequestsOK'
    BY <1>1, <1>3, <2>8 DEF DeviceInv, RequestsOK, Target
  <2>11. ASSUME NEW d \in Device, d # o PROVE ChainOK(d)'
    <3>1. ChainOK(d) /\ LinksOf(d)' = LinksOf(d)
      BY <1>2 DEF LinksOf, DeviceInv
    <3>2. device'[d] = device[d]
      BY <2>1, <2>11 DEF DeviceInv, DeviceTypeOK
    <3>3. Reserved(d)' = Reserved(d) /\ \A k : Facts[k].device = d => Continues(k)' = Continues(k)
      BY <3>2 DEF Reserved, Continues
    <3> QED BY <1>3, <3>1, <3>2, <3>3 DEF ChainOK
  <2>12. ChainOK(o)'
    <3>1. ChainOK(o) /\ LinksOf(o)' = LinksOf(o)
      BY <1>2, <2>2 DEF LinksOf, DeviceInv
    <3>2. /\ device'[o].sequence = device[o].sequence /\ device'[o].head = device[o].head
          /\ device'[o].key = Facts[c].key
          /\ device'[o].pending = [lease |-> granted + 1, capture |-> c]
      <4> DEFINE pending == [lease |-> granted + 1, capture |-> c]
      <4>1. device' = [device EXCEPT ![o].key = Facts[c].key, ![o].pending = pending]
        BY <2>1
      <4> HIDE DEF pending
      <4>2. device'[o].pending = pending /\ device'[o].sequence = device[o].sequence
            /\ device'[o].head = device[o].head /\ device'[o].key = Facts[c].key
        BY <2>2, <4>1 DEF DeviceInv, DeviceTypeOK
      <4> QED BY <4>2 DEF pending
    <3>3. Continues(c)'
      BY <1>00, <1>6, <3>2 DEF Claimable, Continues
    <3>4. \A l \in LinksOf(o) : device[o].key = Facts[c].key
      <4> TAKE l \in LinksOf(o)
      <4>1. device[o].key = Facts[l.capture].key /\ l.capture \in Capture
        BY <3>1 DEF ChainOK, LinksOf, DeviceInv, DeviceTypeOK
      <4>2. device[o].key # NoKey
        BY <4>1, CaptureFacts
      <4> QED BY <1>00, <1>6, <4>2 DEF Claimable
    <3> QED BY <1>00, <1>3, <3>1, <3>2, <3>3, <3>4 DEF ChainOK
  <2>13. DeviceTypeOK'
    BY <1>2, <2>1, <2>4, <2>5, <2>6, <2>7 DEF DeviceInv, DeviceTypeOK, rules, bounds
  <2> QED BY <1>4, <2>9, <2>10, <2>11, <2>12, <2>13 DEF DeviceInv
<1> QED BY <1>5, <1>6

LEMMA LookUpStep ==
    ASSUME DeviceInv, NEW w \in Worker, LookUp(w)
    PROVE  DeviceInv'
<1>1. /\ UNCHANGED <<state, rules, clocks, cursor, pass, bounds>>
      /\ upload[w].pc = "lookup"
  BY DEF LookUp
<1>2. Stored' = Stored
  BY <1>1 DEF Stored, state
<1>3. /\ upload' \in [Worker -> [pc : {"idle", "claim", "lookup", "insert", "finalize", "link", "recheck"},
                              capture : Capture \union {DeviceGenesis}, assessment : 0..MaxAssessment,
                              lease : 0..MaxUploads]]
      /\ LeasesCounted' /\ RequestsOK'
  <2>1. CASE Leave(w) \/ Goto(w, "insert")
    BY <1>1, <1>2, <2>1, MoveRequest DEF clocks, bounds
  <2>2. CASE Target(w) \in Stored /\ Goto(w, "finalize")
    BY <1>1, <1>2, <2>2, MoveRequest DEF clocks, bounds
  <2> QED BY <2>1, <2>2 DEF LookUp
<1> QED BY <1>1, <1>2, <1>3, PassFrame, ChainFrame, OrphanFrame
        DEF DeviceInv, DeviceTypeOK, state, rules, clocks, bounds

LEMMA InsertStep ==
    ASSUME DeviceInv, NEW w \in Worker, InsertArtifact(w)
    PROVE  DeviceInv'
<1> DEFINE a == Target(w)
<1>1. /\ UNCHANGED <<device, links, rules, clocks, cursor, pass, bounds>>
      /\ upload[w].pc = "insert" /\ a \in Artifact
  BY DEF InsertArtifact, DeviceInv, RequestsOK
<1>2. CASE a \in Stored
  <2>1. Leave(w) /\ UNCHANGED <<artifact, queue>>
    BY <1>2 DEF InsertArtifact
  <2>2. Stored' = Stored
    BY <2>1 DEF Stored
  <2>3. /\ upload' \in [Worker -> [pc : {"idle", "claim", "lookup", "insert", "finalize", "link", "recheck"},
                              capture : Capture \union {DeviceGenesis}, assessment : 0..MaxAssessment,
                              lease : 0..MaxUploads]]
        /\ LeasesCounted' /\ RequestsOK'
    BY <1>1, <1>2, <2>1, <2>2, MoveRequest DEF clocks, bounds
  <2> QED BY <1>1, <2>1, <2>2, <2>3, PassFrame, ChainFrame, OrphanFrame
        DEF DeviceInv, DeviceTypeOK, rules, clocks, bounds
<1>3. CASE a \notin Stored
  <2>1. /\ artifact' = [artifact EXCEPT ![a] = Fresh]
        /\ queue' = [queue EXCEPT ![a] = Cardinality(Stored) + 1]
        /\ Goto(w, "finalize")
    BY <1>3 DEF InsertArtifact
  <2>2. Stored' = Stored \union {a} /\ Stored \subseteq Artifact
    BY <1>1, <2>1 DEF Stored, DeviceInv, DeviceTypeOK, Fresh
  <2>3. /\ upload' \in [Worker -> [pc : {"idle", "claim", "lookup", "insert", "finalize", "link", "recheck"},
                              capture : Capture \union {DeviceGenesis}, assessment : 0..MaxAssessment,
                              lease : 0..MaxUploads]]
        /\ LeasesCounted' /\ RequestsOK'
    BY <1>1, <2>1, <2>2, MoveRequest DEF clocks, bounds
  <2>4. Cardinality(Stored) + 1 \in 1..Cardinality(Artifact)
    <3>1. IsFiniteSet(Stored) /\ Cardinality(Stored) \in Nat
      BY <2>2, ArtifactsFinite, FS_CardinalityType
    <3>2. Cardinality(Stored \union {a}) = Cardinality(Stored) + 1
      BY <1>3, <3>1, FS_AddElement
    <3>3. Stored \union {a} \subseteq Artifact
      BY <1>1, <2>2
    <3>4. Cardinality(Stored \union {a}) \in 0..Cardinality(Artifact)
      BY <3>3, ArtifactsFinite
    <3> QED BY <3>1, <3>2, <3>4, ArtifactsFinite
  <2>5. /\ artifact' \in [Artifact -> [status : Statuses, review : Statuses, reopened : BOOLEAN]]
        /\ queue' \in [Artifact -> 0..Cardinality(Artifact)]
    BY <1>1, <2>1, <2>4, ArtifactsFinite DEF DeviceInv, DeviceTypeOK, Fresh, Statuses, Activity
  <2>6. ~Linked(a)
    <3>1. \A l \in links : l.device \in Device /\ l \in LinksOf(l.device)
      BY DEF LinksOf, DeviceInv, DeviceTypeOK
    <3>2. \A l \in links : l.artifact \in Stored
      BY <3>1 DEF DeviceInv, ChainOK
    <3> QED BY <1>3, <3>2 DEF Linked
  <2>7. OrphansAreTracked'
    <3>1. \A x : Linked(x)' = Linked(x)
      BY <1>1 DEF Linked
    <3>2. /\ queue'[a] > 0 /\ artifact'[a] = Fresh
          /\ \A x \in Artifact : x # a => queue'[x] = queue[x] /\ artifact'[x] = artifact[x]
      BY <1>1, <2>1, <2>4 DEF DeviceInv, DeviceTypeOK
    <3> QED BY <2>2, <2>6, <3>1, <3>2 DEF OrphansAreTracked, DeviceInv, Fresh
  <2>8. \A d \in Device : ChainOK(d)'
    BY <1>1, <2>2, ChainFrame DEF DeviceInv
  <2>9. PassOK'
    BY <1>1, PassFrame DEF DeviceInv
  <2>10. DeviceTypeOK'
    BY <1>1, <2>3, <2>5 DEF DeviceInv, DeviceTypeOK, rules, clocks, bounds
  <2> QED BY <2>3, <2>7, <2>8, <2>9, <2>10 DEF DeviceInv
<1> QED BY <1>2, <1>3

LEMMA FindLinkStep ==
    ASSUME DeviceInv, NEW w \in Worker, FindLink(w)
    PROVE  DeviceInv'
<1> DEFINE a == Target(w)
<1>1. /\ UNCHANGED <<device, links, artifact, rules, clocks, cursor, pass, bounds>>
      /\ upload[w].pc \in {"finalize", "recheck"} /\ a \in Artifact /\ a \in Stored
  BY DEF FindLink, DeviceInv, RequestsOK
<1>2. Stored' = Stored
  BY <1>1 DEF Stored
<1>3. Leave(w) \/ Goto(w, "link")
  BY DEF FindLink
<1>4. /\ upload' \in [Worker -> [pc : {"idle", "claim", "lookup", "insert", "finalize", "link", "recheck"},
                              capture : Capture \union {DeviceGenesis}, assessment : 0..MaxAssessment,
                              lease : 0..MaxUploads]]
      /\ LeasesCounted' /\ RequestsOK'
  BY <1>1, <1>2, <1>3, MoveRequest DEF clocks, bounds
<1>5. queue' = queue \/ (Linked(a) /\ queue' = [queue EXCEPT ![a] = 0])
  BY DEF FindLink, ExactExisting, Linked
<1>6. queue' \in [Artifact -> 0..Cardinality(Artifact)]
  BY <1>5, ArtifactsFinite DEF DeviceInv, DeviceTypeOK
<1>7. OrphansAreTracked'
  <2>1. \A x : Linked(x)' = Linked(x)
    BY <1>1 DEF Linked
  <2>2. \A x \in Artifact : queue'[x] = queue[x] \/ (Linked(x) /\ queue'[x] = 0)
    BY <1>5 DEF DeviceInv, DeviceTypeOK
  <2> QED BY <1>1, <1>2, <2>1, <2>2 DEF OrphansAreTracked, Stored, DeviceInv
<1>8. (\A d \in Device : ChainOK(d)') /\ PassOK'
  BY <1>1, <1>2, ChainFrame, PassFrame DEF DeviceInv
<1>9. DeviceTypeOK'
  BY <1>1, <1>4, <1>6 DEF DeviceInv, DeviceTypeOK, rules, clocks, bounds
<1> QED BY <1>4, <1>7, <1>8, <1>9 DEF DeviceInv

LEMMA LinkStep ==
    ASSUME DeviceInv, NEW w \in Worker, LinkCapture(w)
    PROVE  DeviceInv'
<1> DEFINE c == upload[w].capture
           a == Target(w)
<1>1. /\ UNCHANGED <<rules, clocks, cursor, pass, scenario, uploads, changes>>
      /\ upload[w].pc = "link" /\ a \in Artifact /\ a \in Stored /\ a[1] = c /\ c \in Capture
  BY DEF LinkCapture, DeviceInv, RequestsOK, Target, Artifact
<1>2. failures' \in 0..scenario.faults
  <2>1. scenario.faults \in Nat
    BY FactsAssumption DEF DeviceInv, DeviceTypeOK
  <2> QED BY <2>1 DEF LinkCapture, DeviceInv, DeviceTypeOK
<1>3. Leave(w) \/ Goto(w, "recheck")
  BY DEF LinkCapture
<1>4. CASE AppendLink(c, a) /\ HoldsLease(c, upload[w].lease)
  <2>1. /\ \A d \in Device : ChainOK(d)'
        /\ OrphansAreTracked'
        /\ device' \in [Device -> [status : {"active", "revoked"}, key : Keys \union {NoKey},
                              sequence : Nat, head : Capture \union {DeviceGenesis},
                              pending : [lease : Lease, capture : Capture] \union {None}]]
        /\ links' \subseteq [device : Device, sequence : Nat, capture : Capture,
                        artifact : Artifact, key : Keys]
        /\ queue' \in [Artifact -> 0..Cardinality(Artifact)]
        /\ links \subseteq links' /\ Stored' = Stored /\ UNCHANGED artifact
    BY <1>1, <1>4, AppendKeeps
  <2>2. /\ upload' \in [Worker -> [pc : {"idle", "claim", "lookup", "insert", "finalize", "link", "recheck"},
                              capture : Capture \union {DeviceGenesis}, assessment : 0..MaxAssessment,
                              lease : 0..MaxUploads]]
        /\ LeasesCounted' /\ RequestsOK'
    BY <1>1, <1>3, <2>1, MoveRequest DEF clocks
  <2>3. PassOK'
    BY <1>1, <2>1, PassFrame DEF DeviceInv
  <2>4. DeviceTypeOK'
    BY <1>1, <1>2, <2>1, <2>2 DEF DeviceInv, DeviceTypeOK, rules, clocks
  <2> QED BY <2>1, <2>2, <2>3, <2>4 DEF DeviceInv
<1>5. CASE UNCHANGED state
  <2>1. Stored' = Stored
    BY <1>5 DEF Stored, state
  <2>2. /\ upload' \in [Worker -> [pc : {"idle", "claim", "lookup", "insert", "finalize", "link", "recheck"},
                              capture : Capture \union {DeviceGenesis}, assessment : 0..MaxAssessment,
                              lease : 0..MaxUploads]]
        /\ LeasesCounted' /\ RequestsOK'
    BY <1>1, <1>3, <2>1, MoveRequest DEF clocks
  <2>3. DeviceTypeOK'
    BY <1>1, <1>2, <1>5, <2>2 DEF DeviceInv, DeviceTypeOK, state, rules, clocks
  <2> QED BY <1>1, <1>5, <2>1, <2>2, <2>3, ChainFrame, OrphanFrame, PassFrame DEF DeviceInv, state
<1> QED BY <1>4, <1>5 DEF LinkCapture

LEMMA DieStep ==
    ASSUME DeviceInv, NEW w \in Worker, Die(w)
    PROVE  DeviceInv'
<1>1. /\ UNCHANGED <<state, rules, clocks, cursor, pass, scenario, uploads, changes>>
      /\ upload[w].pc # "idle" /\ Leave(w)
  BY DEF Die
<1>2. failures' \in 0..scenario.faults
  <2>1. scenario.faults \in Nat
    BY FactsAssumption DEF DeviceInv, DeviceTypeOK
  <2> QED BY <2>1 DEF Die, DeviceInv, DeviceTypeOK
<1>3. Stored' = Stored
  BY <1>1 DEF Stored, state
<1>4. /\ upload' \in [Worker -> [pc : {"idle", "claim", "lookup", "insert", "finalize", "link", "recheck"},
                              capture : Capture \union {DeviceGenesis}, assessment : 0..MaxAssessment,
                              lease : 0..MaxUploads]]
      /\ LeasesCounted' /\ RequestsOK'
  <2>1. "lookup" \in {"lookup", "insert", "finalize", "link", "recheck"}
        /\ "lookup" \notin {"finalize", "link", "recheck"}
    OBVIOUS
  <2> QED BY <1>1, <1>3, <2>1, MoveRequest DEF clocks
<1> QED BY <1>1, <1>2, <1>3, <1>4, PassFrame, ChainFrame, OrphanFrame
        DEF DeviceInv, DeviceTypeOK, state, rules, clocks

-----------------------------------------------------------------------------
(* Everybody else.                                                          *)

\* The row of a device that is revoked, or loses its reservation.
LEMMA RevokedRow ==
    ASSUME NEW r \in [status : {"active", "revoked"}, key : Keys \union {NoKey},
                              sequence : Nat, head : Capture \union {DeviceGenesis},
                              pending : [lease : Lease, capture : Capture] \union {None}]
    PROVE  /\ [r EXCEPT !.status = "revoked"] \in [status : {"active", "revoked"}, key : Keys \union {NoKey},
                              sequence : Nat, head : Capture \union {DeviceGenesis},
                              pending : [lease : Lease, capture : Capture] \union {None}]
           /\ [r EXCEPT !.pending = None] \in [status : {"active", "revoked"}, key : Keys \union {NoKey},
                              sequence : Nat, head : Capture \union {DeviceGenesis},
                              pending : [lease : Lease, capture : Capture] \union {None}]
           /\ [r EXCEPT !.status = "revoked", !.pending = None] \in [status : {"active", "revoked"}, key : Keys \union {NoKey},
                              sequence : Nat, head : Capture \union {DeviceGenesis},
                              pending : [lease : Lease, capture : Capture] \union {None}]
<1> DEFINE pendings == [lease : Lease, capture : Capture] \union {None}
<1>1. None \in pendings
  OBVIOUS
<1> HIDE DEF pendings
<1>2. r.status \in {"active", "revoked"} /\ r.key \in Keys \union {NoKey}
      /\ r.sequence \in Nat /\ r.head \in Capture \union {DeviceGenesis} /\ r.pending \in pendings
  BY DEF pendings
<1>3. r = [status |-> r.status, key |-> r.key, sequence |-> r.sequence, head |-> r.head,
           pending |-> r.pending]
  OBVIOUS
<1>4. \A s \in {"active", "revoked"}, p \in pendings :
        [status |-> s, key |-> r.key, sequence |-> r.sequence, head |-> r.head,
         pending |-> p] \in [status : {"active", "revoked"}, key : Keys \union {NoKey},
                            sequence : Nat, head : Capture \union {DeviceGenesis}, pending : pendings]
  BY <1>2
<1>5. r \in [status : {"active", "revoked"}, key : Keys \union {NoKey}, sequence : Nat,
            head : Capture \union {DeviceGenesis}, pending : pendings]
  BY DEF pendings
<1>6. /\ [r EXCEPT !.status = "revoked"] = [status |-> "revoked", key |-> r.key,
           sequence |-> r.sequence, head |-> r.head, pending |-> r.pending]
  BY <1>5
<1>7. /\ [r EXCEPT !.pending = None] = [status |-> r.status, key |-> r.key,
           sequence |-> r.sequence, head |-> r.head, pending |-> None]
  BY <1>5
<1>8. \A s \in {"active", "revoked"}, p \in pendings :
        [r EXCEPT !.status = s, !.pending = p] \in
           [status : {"active", "revoked"}, key : Keys \union {NoKey}, sequence : Nat,
            head : Capture \union {DeviceGenesis}, pending : pendings]
  BY <1>5
<1> QED BY <1>1, <1>2, <1>4, <1>6, <1>7, <1>8 DEF pendings

\* A device keeps its chain when at most its status and its reservation go.
LEMMA ReleasedChain ==
    ASSUME DeviceInv, UNCHANGED <<links, artifact>>,
           device' \in [Device -> [status : {"active", "revoked"}, key : Keys \union {NoKey},
                              sequence : Nat, head : Capture \union {DeviceGenesis},
                              pending : [lease : Lease, capture : Capture] \union {None}]],
           \A d \in Device :
               /\ device'[d].key = device[d].key /\ device'[d].sequence = device[d].sequence
               /\ device'[d].head = device[d].head
               /\ device'[d].pending \in {device[d].pending, None}
    PROVE  \A d \in Device : ChainOK(d)'
<1> TAKE d \in Device
<1>1. ChainOK(d) /\ LinksOf(d)' = LinksOf(d) /\ Stored' = Stored
  BY DEF DeviceInv, LinksOf, Stored
<1>2. Reserved(d)' => Reserved(d) /\ device'[d].pending = device[d].pending
  BY DEF Reserved, None
<1>3. \A c : Facts[c].device = d => Continues(c)' = Continues(c)
  BY DEF Continues
<1> QED BY <1>1, <1>2, <1>3 DEF ChainOK

LEMMA ChangeTypes ==
    ASSUME DeviceInv, NEW kind, Change(kind), UNCHANGED scenario
    PROVE  changes' \in 0..scenario.changes
<1>1. scenario.changes \in Nat
  BY FactsAssumption DEF DeviceInv, DeviceTypeOK
<1> QED BY <1>1 DEF Change, DeviceInv, DeviceTypeOK

LEMMA RevokeStep ==
    ASSUME DeviceInv, NEW d \in Device, Revoke(d)
    PROVE  DeviceInv'
<1>1. /\ device' = [device EXCEPT ![d].status = "revoked", ![d].pending = None]
      /\ UNCHANGED <<links, artifact, queue, rules, clocks, upload, cursor, pass, scenario, uploads, failures>>
  BY DEF Revoke
<1>2. device' \in [Device -> [status : {"active", "revoked"}, key : Keys \union {NoKey},
                              sequence : Nat, head : Capture \union {DeviceGenesis},
                              pending : [lease : Lease, capture : Capture] \union {None}]]
  <2>1. device' = [device EXCEPT ![d] = [device[d] EXCEPT !.status = "revoked", !.pending = None]]
    BY <1>1
  <2> QED BY <2>1, RevokedRow DEF DeviceInv, DeviceTypeOK
<1>3. \A e \in Device :
               /\ device'[e].key = device[e].key /\ device'[e].sequence = device[e].sequence
               /\ device'[e].head = device[e].head
               /\ device'[e].pending \in {device[e].pending, None}
  BY <1>1 DEF DeviceInv, DeviceTypeOK
<1>4. \A e \in Device : ChainOK(e)'
  BY <1>1, <1>2, <1>3, ReleasedChain
<1>5. Claiming' = Claiming /\ Stored' = Stored
  BY <1>1 DEF Claiming, Stored
<1>6. changes' \in 0..scenario.changes
  BY <1>1, ChangeTypes DEF Revoke
<1>7. DeviceTypeOK'
  BY <1>1, <1>2, <1>6 DEF DeviceInv, DeviceTypeOK, rules, clocks
<1> QED BY <1>1, <1>4, <1>5, <1>7, CountFrame, RequestsFrame, PassFrame, OrphanFrame
        DEF DeviceInv, clocks

LEMMA MembershipStep ==
    ASSUME DeviceInv, ChangeMembership
    PROVE  DeviceInv'
<1>1. UNCHANGED <<links, artifact, queue, assessment, clocks, upload, cursor, pass, scenario, uploads, failures>>
      /\ member' \in {"active", "suspended", "revoked"}
  BY DEF ChangeMembership
<1>2. CASE UNCHANGED device
  <2>1. \A e \in Device : ChainOK(e)'
    BY <1>1, <1>2, ChainFrame DEF DeviceInv, Stored
  <2>2. changes' \in 0..scenario.changes
    BY <1>1, ChangeTypes DEF ChangeMembership
  <2>3. Claiming' = Claiming /\ Stored' = Stored
    BY <1>1 DEF Claiming, Stored
  <2>4. DeviceTypeOK'
    BY <1>1, <1>2, <2>2 DEF DeviceInv, DeviceTypeOK, clocks
  <2> QED BY <1>1, <2>1, <2>3, <2>4, CountFrame, RequestsFrame, PassFrame, OrphanFrame
          DEF DeviceInv, clocks
<1>3. CASE device' = [d \in Device |-> [device[d] EXCEPT !.status = "revoked"]]
  <2>1. device' \in [Device -> [status : {"active", "revoked"}, key : Keys \union {NoKey},
                              sequence : Nat, head : Capture \union {DeviceGenesis},
                              pending : [lease : Lease, capture : Capture] \union {None}]]
    BY <1>3, RevokedRow DEF DeviceInv, DeviceTypeOK
  <2>2. \A e \in Device :
               /\ device'[e].key = device[e].key /\ device'[e].sequence = device[e].sequence
               /\ device'[e].head = device[e].head
               /\ device'[e].pending \in {device[e].pending, None}
    BY <1>3 DEF DeviceInv, DeviceTypeOK
  <2>3. \A e \in Device : ChainOK(e)'
    BY <1>1, <2>1, <2>2, ReleasedChain
  <2>4. Claiming' = Claiming /\ Stored' = Stored
    BY <1>1 DEF Claiming, Stored
  <2>5. changes' \in 0..scenario.changes
    BY <1>1, ChangeTypes DEF ChangeMembership
  <2>6. DeviceTypeOK'
    BY <1>1, <2>1, <2>5 DEF DeviceInv, DeviceTypeOK, clocks
  <2> QED BY <1>1, <2>3, <2>4, <2>6, CountFrame, RequestsFrame, PassFrame, OrphanFrame
          DEF DeviceInv, clocks
<1> QED BY <1>2, <1>3 DEF ChangeMembership

LEMMA AssessmentStep ==
    ASSUME DeviceInv, ChangeAssessment
    PROVE  DeviceInv'
<1>1. /\ UNCHANGED <<state, member, clocks, upload, cursor, pass, scenario, uploads, failures>>
      /\ assessment' \in 1..MaxAssessment
  BY FactsAssumption DEF ChangeAssessment, DeviceInv, DeviceTypeOK
<1>2. changes' \in 0..scenario.changes
  BY <1>1, ChangeTypes DEF ChangeAssessment
<1>3. Claiming' = Claiming /\ Stored' = Stored
  BY <1>1 DEF Claiming, Stored, state
<1>4. DeviceTypeOK'
  BY <1>1, <1>2 DEF DeviceInv, DeviceTypeOK, state, clocks
<1> QED BY <1>1, <1>3, <1>4, CountFrame, RequestsFrame, PassFrame, ChainFrame, OrphanFrame
        DEF DeviceInv, clocks, state

\* A decision of a reviewer, approving only what is linked.
LEMMA DecideStep ==
    ASSUME DeviceInv, NEW a \in Artifact, NEW from \in {"needs_review", "returned"},
           NEW to \in {"needs_review", "approved", "returned"}, Decide(a, from, to),
           to = "approved" => Linked(a), to = "needs_review" => from = "returned",
           ReviewsOK
    PROVE  DeviceInv'
<1>1. /\ artifact' = [artifact EXCEPT ![a].status = to, ![a].review = to,
                                      ![a].reopened = @ \/ from = "returned"]
      /\ UNCHANGED <<device, links, queue, rules, clocks, upload, cursor, pass, scenario, uploads, failures>>
      /\ artifact[a].review = from
  BY DEF Decide
<1>2. changes' \in 0..scenario.changes
  BY <1>1, ChangeTypes DEF Decide
<1>3. /\ artifact'[a].status = to
      /\ artifact'[a].reopened = (artifact[a].reopened \/ from = "returned")
      /\ \A x \in Artifact : x # a => artifact'[x] = artifact[x]
  BY <1>1 DEF DeviceInv, DeviceTypeOK
<1>4. artifact' \in [Artifact -> [status : Statuses, review : Statuses, reopened : BOOLEAN]]
  <2>1. artifact[a] \in [status : Statuses, review : Statuses, reopened : BOOLEAN]
        /\ to \in Statuses
    BY DEF DeviceInv, DeviceTypeOK, Statuses, Activity
  <2>2. PICK again \in BOOLEAN : again = (artifact[a].reopened \/ from = "returned")
    OBVIOUS
  <2>3. artifact' = [artifact EXCEPT ![a].status = to, ![a].review = to, ![a].reopened = again]
    BY <1>1, <2>2, Zenon
  <2> QED BY <2>1, <2>3 DEF DeviceInv, DeviceTypeOK
<1>5. Stored' = Stored /\ a \in Stored
  BY <1>1, <1>3 DEF Stored, ReviewsOK
<1>6. Claiming' = Claiming
  BY <1>1 DEF Claiming
<1>7. DeviceTypeOK'
  BY <1>1, <1>2, <1>4 DEF DeviceInv, DeviceTypeOK, rules, clocks
<1>8. OrphansAreTracked'
  <2>1. (\A x : Linked(x)' = Linked(x)) /\ queue' = queue
    BY <1>1 DEF Linked
  <2>2. Linked(a) => queue[a] = 0
    BY <1>5 DEF DeviceInv, OrphansAreTracked
  <2>3. to \in Activity /\ ~Linked(a) => artifact'[a].reopened
    BY <1>3 DEF Activity
  <2>4. ASSUME NEW x \in Stored
        PROVE  /\ Linked(x) => queue[x] = 0
               /\ ~Linked(x) /\ artifact'[x].status \in Activity => queue[x] # 0 \/ artifact'[x].reopened
               /\ artifact'[x].status = "approved" => Linked(x)
    <3>1. CASE x = a
      BY <1>3, <2>2, <2>3, <3>1
    <3>2. CASE x # a
      BY <1>3, <3>2 DEF DeviceInv, OrphansAreTracked, Stored
    <3> QED BY <3>1, <3>2
  <2> QED BY <1>5, <2>1, <2>4 DEF OrphansAreTracked
<1> QED BY <1>1, <1>5, <1>6, <1>7, <1>8, CountFrame, RequestsFrame, PassFrame, ChainFrame
        DEF DeviceInv, clocks

LEMMA ReviewStep ==
    ASSUME DeviceInv, ReviewsOK, NEW a \in Artifact, Approve(a) \/ Return(a) \/ Reopen(a)
    PROVE  DeviceInv'
<1>1. CASE Approve(a)
  BY <1>1, DecideStep DEF Approve
<1>2. CASE Return(a)
  BY <1>2, DecideStep DEF Return
<1>3. CASE Reopen(a)
  BY <1>3, DecideStep DEF Reopen
<1> QED BY <1>1, <1>2, <1>3

LEMMA ClockStep ==
    ASSUME DeviceInv, LeaseLapses \/ EntryFallsDue
    PROVE  DeviceInv'
<1>1. UNCHANGED <<state, rules, granted, upload, cursor, pass, bounds>>
  BY DEF LeaseLapses, EntryFallsDue
<1>2. lapsed' \in 0..granted
  <2>1. granted \in Nat /\ lapsed \in 0..granted
    BY FactsAssumption DEF DeviceInv, DeviceTypeOK
  <2>2. CASE LeaseLapses
    BY <2>1, <2>2 DEF LeaseLapses
  <2>3. CASE EntryFallsDue
    BY <2>1, <2>3 DEF EntryFallsDue
  <2> QED BY <2>2, <2>3
<1>3. due' \in Nat
  <2>1. CASE LeaseLapses
    BY <2>1 DEF LeaseLapses, DeviceInv, DeviceTypeOK
  <2>2. CASE EntryFallsDue
    <3>1. Queued \subseteq Nat
      BY ArtifactsFinite DEF Queued, DeviceInv, DeviceTypeOK
    <3> QED BY <2>2, <3>1 DEF EntryFallsDue
  <2> QED BY <2>1, <2>2
<1>4. Claiming' = Claiming /\ Stored' = Stored
  BY <1>1 DEF Claiming, Stored, state
<1>5. DeviceTypeOK'
  BY <1>1, <1>2, <1>3 DEF DeviceInv, DeviceTypeOK, state, rules, bounds
<1> QED BY <1>1, <1>4, <1>5, CountFrame, RequestsFrame, PassFrame, ChainFrame, OrphanFrame
        DEF DeviceInv, state, bounds

-----------------------------------------------------------------------------
(* The reconciler.                                                          *)

\* A step that moves the pass, and nothing but the pass.
LEMMA PassMoves ==
    ASSUME DeviceInv, UNCHANGED <<state, rules, clocks, upload, scenario, uploads, changes>>,
           cursor' \in [pending : 0..MaxUploads, orphan : 0..Cardinality(Artifact)],
           failures' \in 0..scenario.faults, PassOK',
           pass'.pc \in {"idle", "examine", "finalize", "release", "dismiss", "orphans", "drain",
                         "quarantine", "advance"}
    PROVE  DeviceInv'
<1>1. Claiming' = Claiming /\ Stored' = Stored
  BY DEF Claiming, Stored, state
<1>2. DeviceTypeOK'
  BY DEF DeviceInv, DeviceTypeOK, state, rules, clocks
<1> QED BY <1>1, <1>2, CountFrame, RequestsFrame, ChainFrame, OrphanFrame
        DEF DeviceInv, state, clocks

LEMMA AsleepIs ==
    /\ Asleep.pc = "idle" /\ Asleep.lease = 0 /\ Asleep.entry = 0
    /\ Asleep.item = <<>> /\ Asleep.seen = "absent"
    /\ Asleep \in PassRecord
<1>1. 0 \in 0..MaxUploads /\ 0 \in 0..Cardinality(Artifact)
  BY FactsAssumption, ArtifactsFinite
<1>2. "absent" \in Statuses
  BY DEF Statuses
<1> QED BY <1>1, <1>2 DEF Asleep, PassRecord

LEMMA DueLeasesAre ==
    ASSUME DeviceInv
    PROVE  /\ DueLeases \subseteq Nat /\ DueLeases \subseteq 0..MaxUploads
           /\ \A n \in DueLeases : Holder(n) \in Device
<1>1. granted \in 0..MaxUploads /\ lapsed \in 0..granted /\ MaxUploads \in Nat
  BY FactsAssumption DEF DeviceInv, DeviceTypeOK
<1>2. DueLeases \subseteq Nat /\ DueLeases \subseteq 0..MaxUploads
  BY <1>1 DEF DueLeases
<1>3. \A n \in Pending : \E d \in Device : device[d].pending.lease = n
  BY DEF Pending
<1> QED BY <1>2, <1>3 DEF DueLeases, Holder

LEMMA DueEntriesAre ==
    ASSUME DeviceInv
    PROVE  /\ DueEntries \subseteq Nat /\ DueEntries \subseteq 0..Cardinality(Artifact)
           /\ \A n \in DueEntries : Entry(n) \in Artifact
<1>1. queue \in [Artifact -> 0..Cardinality(Artifact)] /\ Cardinality(Artifact) \in Nat
  BY ArtifactsFinite DEF DeviceInv, DeviceTypeOK
<1>2. Queued \subseteq 0..Cardinality(Artifact)
  BY <1>1 DEF Queued
<1>3. \A n \in Queued : Entry(n) \in Artifact
  BY DEF Queued, Entry
<1> QED BY <1>1, <1>2, <1>3 DEF DueEntries

LEMMA StartStep ==
    ASSUME DeviceInv, StartPass
    PROVE  DeviceInv'
<1> DEFINE n == NextAfter(cursor.pending, DueLeases)
<1>1. UNCHANGED <<state, rules, clocks, upload, cursor, bounds>>
  BY DEF StartPass
<1>2. CASE DueLeases = {}
  <2>1. pass' = [Asleep EXCEPT !.pc = "orphans"]
    BY <1>2 DEF StartPass
  <2>2. PassOK' /\ pass'.pc = "orphans"
    BY <2>1, AsleepIs DEF PassOK, PassRecord
  <2> QED BY <1>1, <2>2, PassMoves DEF bounds, DeviceInv, DeviceTypeOK
<1>3. CASE DueLeases # {}
  <2>1. n \in 0..MaxUploads
    BY <1>3, DueLeasesAre, NextAfterIs
  <2> DEFINE status == device[Holder(n)].status
             to == IF status = "active" /\ member = "active" THEN "examine" ELSE "dismiss"
  <2>2. pass' = [Asleep EXCEPT !.lease = n, !.seen = status, !.pc = to]
    BY <1>3 DEF StartPass
  <2>3. status \in {"active", "revoked"}
    <3>1. Holder(n) \in Device
      BY <1>3, DueLeasesAre, NextAfterIs
    <3> QED BY <2>2, <3>1 DEF DeviceInv, DeviceTypeOK
  <2>4. PassOK' /\ pass'.pc \in {"examine", "dismiss"}
    BY <2>1, <2>2, <2>3, AsleepIs DEF PassOK, PassRecord
  <2> QED BY <1>1, <2>4, PassMoves DEF bounds, DeviceInv, DeviceTypeOK
<1> QED BY <1>2, <1>3

LEMMA ExamineStep ==
    ASSUME DeviceInv, Examine
    PROVE  DeviceInv'
<1>1. UNCHANGED <<state, rules, clocks, upload, cursor, bounds>>
  BY DEF Examine
<1>2. pass \in PassRecord
  BY DEF DeviceInv, PassOK
<1>3. CASE pass' = [pass EXCEPT !.pc = "release"] \/ pass' = [pass EXCEPT !.pc = "orphans", !.seen = "absent"]
  <2>1. PassOK' /\ pass'.pc \in {"release", "orphans"}
    BY <1>2, <1>3 DEF PassOK, PassRecord, Statuses
  <2> QED BY <1>1, <2>1, PassMoves DEF bounds, DeviceInv, DeviceTypeOK
<1>4. CASE \E a \in Artifact : /\ artifact[a].status \in Activity
                               /\ pass' = [pass EXCEPT !.pc = "finalize", !.item = a, !.seen = artifact[a].status]
  <2>1. PICK a \in Artifact, was \in Activity :
          pass' = [pass EXCEPT !.pc = "finalize", !.item = a, !.seen = was]
    BY <1>4
  <2>2. PassOK' /\ pass'.pc = "finalize"
    BY <1>2, <2>1 DEF PassOK, PassRecord, Activity, Statuses
  <2> QED BY <1>1, <2>2, PassMoves DEF bounds, DeviceInv, DeviceTypeOK
<1> QED BY <1>3, <1>4 DEF Examine, Candidates

LEMMA FinalizeStep ==
    ASSUME DeviceInv, FinalizeCandidate
    PROVE  DeviceInv'
<1>1. /\ UNCHANGED <<rules, clocks, upload, cursor, bounds>> /\ pass.pc = "finalize"
      /\ pass' = [Asleep EXCEPT !.pc = "orphans", !.lease = pass.lease]
  BY DEF FinalizeCandidate
<1>2. pass \in PassRecord /\ pass.item \in Artifact /\ pass.seen \in Activity
  BY <1>1 DEF DeviceInv, PassOK
<1>3. PassOK' /\ pass'.pc = "orphans"
  BY <1>1, <1>2, AsleepIs DEF PassOK, PassRecord, Statuses
<1>4. Claiming' = Claiming
  BY <1>1 DEF Claiming
<1>5. CASE StillExact
  <2>1. PICK c \in Capture, a \in Artifact : c = pass.item[1] /\ a = pass.item
    BY <1>2 DEF Artifact
  <2>2. /\ AppendLink(c, a) /\ HoldsLease(c, pass.lease) /\ a[1] = c
        /\ artifact[a].status \in Activity
    BY <1>2, <1>5, <2>1 DEF FinalizeCandidate, StillExact
  <2>3. a \in Stored
    BY <2>2 DEF Stored, Activity
  <2>4. /\ \A d \in Device : ChainOK(d)'
        /\ OrphansAreTracked'
        /\ device' \in [Device -> [status : {"active", "revoked"}, key : Keys \union {NoKey},
                              sequence : Nat, head : Capture \union {DeviceGenesis},
                              pending : [lease : Lease, capture : Capture] \union {None}]]
        /\ links' \subseteq [device : Device, sequence : Nat, capture : Capture,
                        artifact : Artifact, key : Keys]
        /\ queue' \in [Artifact -> 0..Cardinality(Artifact)]
        /\ links \subseteq links' /\ Stored' = Stored /\ UNCHANGED artifact
    BY <2>2, <2>3, AppendKeeps
  <2>5. DeviceTypeOK'
    BY <1>1, <1>3, <2>4 DEF DeviceInv, DeviceTypeOK, rules, clocks, bounds
  <2> QED BY <1>1, <1>3, <1>4, <2>4, <2>5, CountFrame, RequestsFrame DEF DeviceInv, clocks, bounds
<1>6. CASE UNCHANGED state
  BY <1>1, <1>3, <1>6, PassMoves DEF bounds, DeviceInv, DeviceTypeOK
<1> QED BY <1>5, <1>6 DEF FinalizeCandidate

LEMMA ReleaseStep ==
    ASSUME DeviceInv, ReleaseReservation
    PROVE  DeviceInv'
<1>1. /\ UNCHANGED <<links, artifact, queue, rules, clocks, upload, cursor, bounds>>
      /\ pass' = [pass EXCEPT !.pc = "orphans", !.seen = "absent"]
  BY DEF ReleaseReservation
<1>2. PassOK' /\ pass'.pc = "orphans"
  <2>1. pass \in PassRecord
    BY DEF DeviceInv, PassOK
  <2> QED BY <1>1, <2>1 DEF PassOK, PassRecord, Statuses
<1>3. CASE UNCHANGED device
  BY <1>1, <1>2, <1>3, PassMoves DEF bounds, state, DeviceInv, DeviceTypeOK
<1>4. CASE device' = [device EXCEPT ![Holder(pass.lease)].pending = None]
  <2>1. device' \in [Device -> [status : {"active", "revoked"}, key : Keys \union {NoKey},
                              sequence : Nat, head : Capture \union {DeviceGenesis},
                              pending : [lease : Lease, capture : Capture] \union {None}]]
    <3>1. device' = [device EXCEPT ![Holder(pass.lease)] =
                       [device[Holder(pass.lease)] EXCEPT !.pending = None]]
      BY <1>4
    <3> QED BY <3>1, RevokedRow DEF DeviceInv, DeviceTypeOK
  <2>2. \A e \in Device :
               /\ device'[e].key = device[e].key /\ device'[e].sequence = device[e].sequence
               /\ device'[e].head = device[e].head
               /\ device'[e].pending \in {device[e].pending, None}
    BY <1>4 DEF DeviceInv, DeviceTypeOK
  <2>3. \A e \in Device : ChainOK(e)'
    BY <1>1, <2>1, <2>2, ReleasedChain
  <2>4. Claiming' = Claiming /\ Stored' = Stored
    BY <1>1 DEF Claiming, Stored
  <2>5. DeviceTypeOK'
    BY <1>1, <1>2, <2>1 DEF DeviceInv, DeviceTypeOK, rules, clocks, bounds
  <2> QED BY <1>1, <1>2, <2>3, <2>4, <2>5, CountFrame, RequestsFrame, OrphanFrame
          DEF DeviceInv, clocks, bounds
<1> QED BY <1>3, <1>4 DEF ReleaseReservation

LEMMA LoadStep ==
    ASSUME DeviceInv, LoadOrphan
    PROVE  DeviceInv'
<1> DEFINE n == NextAfter(cursor.orphan, DueEntries)
           a == Entry(n)
           was == IF Linked(a) THEN "linked" ELSE artifact[a].status
           to == IF Linked(a) \/ artifact[a].status = "returned" THEN "drain"
                 ELSE IF Reserved(Facts[a[1]].device) THEN "advance" ELSE "quarantine"
<1>1. UNCHANGED <<state, rules, clocks, upload, cursor, bounds>>
  BY DEF LoadOrphan
<1>2. pass \in PassRecord
  BY DEF DeviceInv, PassOK
<1>3. CASE DueEntries = {}
  <2>1. PassOK' /\ pass'.pc = "advance"
    BY <1>2, <1>3 DEF LoadOrphan, PassOK, PassRecord
  <2> QED BY <1>1, <2>1, PassMoves DEF bounds, DeviceInv, DeviceTypeOK
<1>4. CASE DueEntries # {}
  <2>1. n \in DueEntries /\ n \in 0..Cardinality(Artifact) /\ a \in Artifact
    BY <1>4, DueEntriesAre, NextAfterIs
  <2>2. artifact[a].status \in Statuses
    BY <2>1 DEF DeviceInv, DeviceTypeOK
  <2>3. /\ was \in Statuses \union {"linked"} /\ to \in {"drain", "advance", "quarantine"}
        /\ to = "drain" => was = "returned" \/ Linked(a)
    BY <2>2
  <2>4. pass' = [pass EXCEPT !.entry = n, !.item = a, !.seen = was, !.pc = to]
    BY <1>4 DEF LoadOrphan
  <2>5. PICK m \in 0..Cardinality(Artifact), x \in Artifact, s \in Statuses \union {"linked"},
             p \in {"drain", "advance", "quarantine"} :
          /\ pass' = [pass EXCEPT !.entry = m, !.item = x, !.seen = s, !.pc = p]
          /\ p = "drain" => s = "returned" \/ Linked(x)
    BY <2>1, <2>3, <2>4
  <2>6. links' = links
    BY <1>1 DEF state
  <2>7. Linked(x)' = Linked(x)
    BY <2>6 DEF Linked
  <2>8. pass' \in PassRecord /\ pass'.pc = p /\ pass'.item = x /\ pass'.seen = s
    BY <1>2, <2>5 DEF PassRecord
  <2>9. pass'.pc = "drain" => pass'.seen = "returned" \/ Linked(pass.item)'
    BY <2>5, <2>6, <2>8 DEF Linked
  <2>10. PassOK'
    BY <2>8, <2>9 DEF PassOK
  <2> QED BY <1>1, <2>8, <2>10, PassMoves DEF bounds, DeviceInv, DeviceTypeOK
<1> QED BY <1>3, <1>4

LEMMA DrainStep ==
    ASSUME DeviceInv, DrainEntry
    PROVE  DeviceInv'
<1>1. /\ UNCHANGED <<device, links, artifact, rules, clocks, upload, cursor, bounds>>
      /\ pass.pc = "drain" /\ pass' = [pass EXCEPT !.pc = "advance"]
  BY DEF DrainEntry
<1>2. /\ pass \in PassRecord /\ pass.item \in Artifact
      /\ pass.seen = "returned" \/ Linked(pass.item)
  BY <1>1 DEF DeviceInv, PassOK
<1>3. PassOK' /\ pass'.pc = "advance"
  BY <1>1, <1>2 DEF PassOK, PassRecord
<1>4. CASE UNCHANGED queue
  BY <1>1, <1>3, <1>4, PassMoves DEF bounds, state, DeviceInv, DeviceTypeOK
<1>5. CASE /\ Linked(pass.item) \/ artifact[pass.item].status = "returned"
           /\ queue' = [queue EXCEPT ![pass.item] = 0]
  <2>1. queue' \in [Artifact -> 0..Cardinality(Artifact)]
    <3>1. PICK a : a = pass.item
      OBVIOUS
    <3>2. queue' = [queue EXCEPT ![a] = 0]
      BY <1>5, <3>1
    <3>3. 0 \in 0..Cardinality(Artifact)
      BY ArtifactsFinite
    <3>4. queue \in [Artifact -> 0..Cardinality(Artifact)]
      BY DEF DeviceInv, DeviceTypeOK
    <3> QED BY <3>2, <3>3, <3>4, Zenon
  <2>2. Claiming' = Claiming /\ Stored' = Stored
    BY <1>1 DEF Claiming, Stored
  <2>3. OrphansAreTracked'
    <3>1. \A x : Linked(x)' = Linked(x)
      BY <1>1 DEF Linked
    <3>2. \A x \in Artifact : queue'[x] = queue[x]
             \/ (queue'[x] = 0 /\ (Linked(x) \/ artifact[x].status = "returned"))
      BY <1>5 DEF DeviceInv, DeviceTypeOK
    <3> QED BY <1>1, <2>2, <3>1, <3>2 DEF DeviceInv, OrphansAreTracked, Stored, Activity
  <2>4. DeviceTypeOK'
    BY <1>1, <1>3, <2>1 DEF DeviceInv, DeviceTypeOK, rules, clocks, bounds
  <2> QED BY <1>1, <1>3, <2>2, <2>3, <2>4, CountFrame, RequestsFrame, ChainFrame
          DEF DeviceInv, clocks, bounds
<1> QED BY <1>2, <1>4, <1>5 DEF DrainEntry

LEMMA QuarantineStep ==
    ASSUME DeviceInv, QuarantineOrphan
    PROVE  DeviceInv'
<1>1. /\ UNCHANGED <<device, links, rules, clocks, upload, cursor, bounds>>
      /\ pass.pc = "quarantine" /\ pass' = [pass EXCEPT !.pc = "advance"]
  BY DEF QuarantineOrphan
<1>2. pass \in PassRecord /\ pass.item \in Artifact
  BY <1>1 DEF DeviceInv, PassOK
<1>3. PassOK' /\ pass'.pc = "advance"
  BY <1>1, <1>2 DEF PassOK, PassRecord
<1>4. CASE UNCHANGED <<artifact, queue>>
  BY <1>1, <1>3, <1>4, PassMoves DEF bounds, state, DeviceInv, DeviceTypeOK
<1>5. CASE StillOrphan
  <2>1. PICK a \in Artifact : a = pass.item
    BY <1>2
  <2>2. /\ artifact' = [artifact EXCEPT ![a].status = "returned"]
        /\ queue' = [queue EXCEPT ![a] = 0]
    BY <1>5, <2>1 DEF QuarantineOrphan
  <2>3. queue' \in [Artifact -> 0..Cardinality(Artifact)]
        /\ artifact' \in [Artifact -> [status : Statuses, review : Statuses, reopened : BOOLEAN]]
    BY <2>2, ArtifactsFinite DEF DeviceInv, DeviceTypeOK, Statuses
  <2>4. /\ \A x \in Artifact : x # a => queue'[x] = queue[x] /\ artifact'[x] = artifact[x]
        /\ queue'[a] = 0 /\ artifact'[a].status = "returned"
    BY <2>2 DEF DeviceInv, DeviceTypeOK
  <2>5. Claiming' = Claiming /\ Stored \subseteq Stored'
    BY <1>1, <2>4 DEF Claiming, Stored
  <2>6. OrphansAreTracked'
    <3>1. \A x : Linked(x)' = Linked(x)
      BY <1>1 DEF Linked
    <3> QED BY <2>4, <3>1 DEF DeviceInv, OrphansAreTracked, Stored, Activity
  <2>7. DeviceTypeOK'
    BY <1>1, <1>3, <2>3 DEF DeviceInv, DeviceTypeOK, rules, clocks, bounds
  <2> QED BY <1>1, <1>3, <2>5, <2>6, <2>7, CountFrame, RequestsFrame, ChainFrame
          DEF DeviceInv, clocks, bounds
<1> QED BY <1>4, <1>5 DEF QuarantineOrphan

LEMMA AdvanceStep ==
    ASSUME DeviceInv, AdvanceCursors \/ PassDies
    PROVE  DeviceInv'
<1>1. UNCHANGED <<state, rules, clocks, upload, scenario, uploads, changes>> /\ pass' = Asleep
  BY DEF AdvanceCursors, PassDies, bounds
<1>2. PassOK' /\ pass'.pc = "idle"
  BY <1>1, AsleepIs DEF PassOK
<1>3. failures' \in 0..scenario.faults
  <2>1. scenario.faults \in Nat
    BY FactsAssumption DEF DeviceInv, DeviceTypeOK
  <2> QED BY <2>1 DEF AdvanceCursors, PassDies, bounds, DeviceInv, DeviceTypeOK
<1>4. cursor' \in [pending : 0..MaxUploads, orphan : 0..Cardinality(Artifact)]
  <2>1. pass \in PassRecord
    BY DEF DeviceInv, PassOK
  <2> QED BY <2>1 DEF AdvanceCursors, PassDies, DeviceInv, DeviceTypeOK, PassRecord
<1> QED BY <1>1, <1>2, <1>3, <1>4, PassMoves

-----------------------------------------------------------------------------
(* The invariant.                                                           *)

LEMMA InitIInv == ASSUME DeviceInit PROVE DeviceInv /\ ReviewsOK
<1> DEFINE left == scenario.left
           abandoned(d) == \E a \in left : Facts[a[1]].device = d
           lost == CHOOSE c \in Capture : \E a \in left : a[1] = c
<1>1. /\ scenario \in Scenarios
      /\ device = [d \in Device |->
            [status |-> "active", key |-> IF abandoned(d) THEN Facts[lost].key ELSE NoKey,
             sequence |-> 0, head |-> DeviceGenesis,
             pending |-> IF abandoned(d) THEN [lease |-> 1, capture |-> lost] ELSE None]]
      /\ artifact = [a \in Artifact |-> IF a \in left THEN Fresh ELSE Unstored]
      /\ queue = [a \in Artifact |-> IF a \in left THEN a[2] ELSE 0]
      /\ uploads = Cardinality(left)
      /\ assessment = IF left = {} THEN 1 ELSE Cardinality(left)
      /\ granted = IF left = {} THEN 0 ELSE 1
      /\ links = {} /\ member = "active" /\ lapsed = 0 /\ due = 0
      /\ upload = [w \in Worker |-> Away]
      /\ cursor = [pending |-> 0, orphan |-> 0] /\ pass = Asleep
      /\ changes = 0 /\ failures = 0
  BY DEF DeviceInit
<1>2. /\ scenario.uploads \in 0..MaxUploads /\ scenario.changes \in Nat /\ scenario.faults \in Nat
      /\ left \in SUBSET Artifact /\ MaxUploads \in Nat /\ MaxAssessment \in Nat
  BY <1>1, FactsAssumption
<1>3. IsFiniteSet(left) /\ Cardinality(left) \in 0..Cardinality(Artifact)
      /\ Cardinality(Artifact) \in Nat
  BY <1>2, ArtifactsFinite
<1>4. /\ Cardinality(left) \in 0..scenario.uploads
      /\ left # {} => /\ Cardinality(left) \in 1..MaxAssessment
                      /\ lost \in Capture /\ Facts[lost].sequence = 1
                      /\ Facts[lost].previous = DeviceGenesis
                      /\ \A d \in Device : abandoned(d) <=> d = Facts[lost].device
                      /\ \A a \in left : a[2] \in 1..Cardinality(left)
  <2>1. CASE left = {}
    BY <1>2, <2>1, FS_EmptySet
  <2>2. CASE left # {}
    <3>1. PICK c \in Capture, n \in 1..MaxAssessment :
            /\ left = {c} \X (1..n) /\ n <= scenario.uploads
            /\ Facts[c].sequence = 1 /\ Facts[c].previous = DeviceGenesis
      BY <1>1, <2>2, FactsAssumption
    <3>2. n \in Nat /\ n > 0 /\ IsFiniteSet(1..n) /\ Cardinality(1..n) = n
      <4>1. n \in Nat /\ n > 0
        BY <1>2
      <4>2. IsFiniteSet(1..n) /\ Cardinality(1..n) = IF 1 > n THEN 0 ELSE n - 1 + 1
        BY <4>1, FS_Interval
      <4> QED BY <4>1, <4>2
    <3>3. IsFiniteSet({c}) /\ Cardinality({c}) = 1
      BY FS_Singleton
    <3>4. Cardinality(left) = n
      <4>1. Cardinality({c} \X (1..n)) = Cardinality({c}) * Cardinality(1..n)
        BY <3>2, <3>3, FS_Product
      <4> QED BY <3>1, <3>2, <3>3, <4>1
    <3>5. \A a \in left : a[1] = c /\ a[2] \in 1..n
      BY <3>1
    <3>6. <<c, 1>> \in left
      BY <3>1, <3>2
    <3>7. lost = c
      <4>1. <<c, 1>>[1] = c
        OBVIOUS
      <4>2. \E k \in Capture : \E a \in left : a[1] = k
        BY <3>5, <3>6
      <4> QED BY <3>5, <4>2
    <3>8. \A d \in Device : abandoned(d) <=> d = Facts[c].device
      BY <3>5, <3>6
    <3>9. Cardinality(left) \in 0..scenario.uploads /\ Cardinality(left) \in 1..MaxAssessment
      BY <1>2, <3>1, <3>2, <3>4
    <3>10. \A a \in left : a[2] \in 1..Cardinality(left)
      BY <3>4, <3>5
    <3> HIDE DEF lost, abandoned, left
    <3> QED BY <3>1, <3>7, <3>8, <3>9, <3>10
  <2> QED BY <2>1, <2>2
<1>5. \A d \in Device :
         /\ device[d].sequence = 0 /\ device[d].head = DeviceGenesis /\ device[d].status = "active"
         /\ device[d].pending # None =>
              /\ left # {} /\ d = Facts[lost].device
              /\ device[d].key = Facts[lost].key /\ device[d].pending = [lease |-> 1, capture |-> lost]
  BY <1>1, <1>4, Zenon
<1>6. device \in [Device -> [status : {"active", "revoked"}, key : Keys \union {NoKey},
                              sequence : Nat, head : Capture \union {DeviceGenesis},
                              pending : [lease : Lease, capture : Capture] \union {None}]]
  <2> SUFFICES ASSUME NEW d \in Device
               PROVE  [status |-> "active", key |-> IF abandoned(d) THEN Facts[lost].key ELSE NoKey,
                       sequence |-> 0, head |-> DeviceGenesis,
                       pending |-> IF abandoned(d) THEN [lease |-> 1, capture |-> lost] ELSE None]
                    \in [status : {"active", "revoked"}, key : Keys \union {NoKey},
                              sequence : Nat, head : Capture \union {DeviceGenesis},
                              pending : [lease : Lease, capture : Capture] \union {None}]
    BY <1>1
  <2>1. abandoned(d) => left # {}
    OBVIOUS
  <2>2. left # {} => lost \in Capture /\ Facts[lost].key \in Keys /\ 1 \in Lease
    <3>1. left # {} => Facts[lost].key \in Keys
      BY <1>4, CaptureFacts
    <3> QED BY <1>2, <1>4, <3>1 DEF Lease
  <2> HIDE DEF lost, abandoned, left
  <2>3. (IF abandoned(d) THEN [lease |-> 1, capture |-> lost] ELSE None)
           \in [lease : Lease, capture : Capture] \union {None}
    BY <2>1, <2>2
  <2> QED BY <2>1, <2>2, <2>3
<1>7. /\ artifact \in [Artifact -> [status : Statuses, review : Statuses, reopened : BOOLEAN]]
      /\ queue \in [Artifact -> 0..Cardinality(Artifact)]
      /\ \A a \in Artifact : a \in left => queue[a] # 0
      /\ Stored = left /\ \A a \in left : artifact[a] = Fresh
      /\ ReviewsOK
  <2>1. Fresh \in [status : Statuses, review : Statuses, reopened : BOOLEAN]
        /\ Unstored \in [status : Statuses, review : Statuses, reopened : BOOLEAN]
    BY DEF Fresh, Unstored, Statuses, Activity
  <2>2. artifact \in [Artifact -> [status : Statuses, review : Statuses, reopened : BOOLEAN]]
    BY <1>1, <2>1
  <2>3. \A a \in left : a[2] \in 0..Cardinality(Artifact) /\ a[2] # 0
    <3> HIDE DEF left
    <3> QED BY <1>3, <1>4
  <2>4. queue \in [Artifact -> 0..Cardinality(Artifact)]
    <3> HIDE DEF left
    <3> QED BY <1>1, <1>3, <2>3
  <2>5. \A a \in Artifact : a \in left => queue[a] # 0
    BY <1>1, <2>3
  <2>6. Stored = left /\ (\A a \in left : artifact[a] = Fresh) /\ ReviewsOK
    BY <1>1, <1>2 DEF Stored, ReviewsOK, Fresh, Unstored
  <2> QED BY <2>2, <2>4, <2>5, <2>6
<1>8. DeviceTypeOK
  <2>1. /\ links \subseteq [device : Device, sequence : Nat, capture : Capture,
                        artifact : Artifact, key : Keys]
        /\ member \in {"active", "suspended", "revoked"} /\ due \in Nat
        /\ cursor \in [pending : 0..MaxUploads, orphan : 0..Cardinality(Artifact)]
        /\ pass.pc = "idle" /\ changes \in 0..scenario.changes /\ failures \in 0..scenario.faults
    BY <1>1, <1>2, <1>3, AsleepIs
  <2>2. uploads \in 0..MaxUploads /\ granted \in 0..MaxUploads /\ lapsed \in 0..granted
    <3> HIDE DEF left
    <3> QED BY <1>1, <1>2, <1>3, <1>4
  <2>3. assessment \in 1..MaxAssessment
    <3>1. 1 \in 1..MaxAssessment
      BY FactsAssumption
    <3> HIDE DEF left
    <3> QED BY <1>1, <1>4, <3>1
  <2>4. upload \in [Worker -> [pc : {"idle", "claim", "lookup", "insert", "finalize", "link", "recheck"},
                              capture : Capture \union {DeviceGenesis}, assessment : 0..MaxAssessment,
                              lease : 0..MaxUploads]]
    BY <1>1, <1>2 DEF Away
  <2> QED BY <1>1, <1>6, <1>7, <2>1, <2>2, <2>3, <2>4 DEF DeviceTypeOK
<1>9. LeasesCounted /\ RequestsOK
  <2>1. Claiming = {}
    BY <1>1 DEF Claiming, Away
  <2>2. IsFiniteSet(Claiming) /\ Cardinality(Claiming) = 0
    BY <2>1, FS_EmptySet
  <2>3. RequestsOK
    BY <1>1 DEF RequestsOK, Away
  <2> HIDE DEF left
  <2>4. granted + 0 <= uploads /\ uploads <= scenario.uploads
    BY <1>1, <1>2, <1>3, <1>4
  <2> QED BY <2>2, <2>3, <2>4 DEF LeasesCounted
<1>10. PassOK
  BY <1>1, AsleepIs DEF PassOK
<1>11. ASSUME NEW d \in Device PROVE ChainOK(d)
  <2>1. LinksOf(d) = {} /\ IsFiniteSet(LinksOf(d)) /\ Cardinality(LinksOf(d)) = 0
    BY <1>1, FS_EmptySet DEF LinksOf
  <2>2. device[d].sequence = 0 /\ device[d].head = DeviceGenesis
    BY <1>5
  <2>3. Reserved(d) =>
         /\ Facts[device[d].pending.capture].device = d
         /\ Continues(device[d].pending.capture) /\ device[d].key = Facts[device[d].pending.capture].key
    <3> SUFFICES ASSUME Reserved(d)
                 PROVE  /\ Facts[device[d].pending.capture].device = d
                        /\ Continues(device[d].pending.capture)
                        /\ device[d].key = Facts[device[d].pending.capture].key
      OBVIOUS
    <3>1. device[d].pending # None
      BY DEF Reserved, None
    <3> HIDE DEF left, lost
    <3>2. /\ left # {} /\ d = Facts[lost].device
          /\ device[d].key = Facts[lost].key /\ device[d].pending.capture = lost
      BY <1>5, <3>1
    <3>3. Facts[lost].sequence = 1 /\ Facts[lost].previous = DeviceGenesis
      BY <1>4, <3>2
    <3>4. Continues(lost)
      BY <2>2, <3>2, <3>3 DEF Continues
    <3> QED BY <3>2, <3>4
  <2> QED BY <2>1, <2>2, <2>3 DEF ChainOK
<1>12. OrphansAreTracked
  <2>1. \A a : ~Linked(a)
    BY <1>1 DEF Linked
  <2> HIDE DEF left
  <2> QED BY <1>2, <1>7, <2>1 DEF OrphansAreTracked, Fresh
<1> QED BY <1>7, <1>8, <1>9, <1>10, <1>11, <1>12 DEF DeviceInv

LEMMA NextIInv == ASSUME DeviceInv, ReviewsOK, [DeviceNext]_deviceVars PROVE DeviceInv'
<1>1. CASE UNCHANGED deviceVars
  <2>1. Claiming' = Claiming /\ Stored' = Stored
    BY <1>1 DEF deviceVars, Claiming, Stored
  <2>2. DeviceTypeOK'
    BY <1>1 DEF deviceVars, DeviceInv, DeviceTypeOK
  <2> QED BY <1>1, <2>1, <2>2, CountFrame, RequestsFrame, PassFrame, ChainFrame, OrphanFrame
          DEF DeviceInv, deviceVars
<1>2. ASSUME NEW w \in Worker, Proceed(w) PROVE DeviceInv'
  BY <1>2, ClaimStep, LookUpStep, InsertStep, FindLinkStep, LinkStep DEF Proceed
<1>3. ASSUME NEW w \in Worker, Die(w) PROVE DeviceInv'
  BY <1>3, DieStep
<1>4. ASSUME NEW w \in Worker, NEW c \in Capture, Upload(w, c) PROVE DeviceInv'
  BY <1>4, UploadStep
<1>5. ASSUME NEW d \in Device, Revoke(d) PROVE DeviceInv'
  BY <1>5, RevokeStep
<1>6. CASE ChangeMembership \/ ChangeAssessment
  BY <1>6, MembershipStep, AssessmentStep
<1>7. ASSUME NEW a \in Artifact, Approve(a) \/ Return(a) \/ Reopen(a) PROVE DeviceInv'
  BY <1>7, ReviewStep
<1>8. CASE LeaseLapses \/ EntryFallsDue
  BY <1>8, ClockStep
<1>9. CASE Reconcile \/ PassDies
  BY <1>9, StartStep, ExamineStep, FinalizeStep, ReleaseStep, LoadStep, DrainStep,
     QuarantineStep, AdvanceStep DEF Reconcile
<1> QED BY <1>1, <1>2, <1>3, <1>4, <1>5, <1>6, <1>7, <1>8, <1>9 DEF DeviceNext

LEMMA NextReviews == ASSUME DeviceTypeOK, ReviewsOK, [DeviceNext]_deviceVars PROVE ReviewsOK'
<1>1. CASE UNCHANGED artifact
  BY <1>1 DEF ReviewsOK
<1>2. ASSUME NEW a, artifact' = [artifact EXCEPT ![a] = Fresh] PROVE ReviewsOK'
  BY <1>2 DEF ReviewsOK, DeviceTypeOK, Fresh
<1>3. ASSUME NEW a, artifact' = [artifact EXCEPT ![a].status = "returned"] PROVE ReviewsOK'
  BY <1>3 DEF ReviewsOK, DeviceTypeOK
<1>4. ASSUME NEW a \in Artifact, NEW from, NEW to \in {"approved", "returned", "needs_review"},
             Decide(a, from, to) PROVE ReviewsOK'
  <2>1. \A x \in Artifact : (x = a /\ artifact'[x].status = to) \/ artifact'[x] = artifact[x]
    BY <1>4 DEF Decide, DeviceTypeOK
  <2> QED BY <2>1 DEF ReviewsOK
<1>5. CASE UNCHANGED deviceVars
  BY <1>1, <1>5 DEF deviceVars
<1>6. ASSUME NEW w \in Worker, Proceed(w) \/ Die(w) PROVE ReviewsOK'
  <2>1. CASE InsertArtifact(w)
    BY <1>1, <1>2, <2>1 DEF InsertArtifact
  <2> QED BY <1>1, <1>6, <2>1
          DEF Proceed, Die, ClaimLink, LookUp, FindLink, LinkCapture, AppendLink, state
<1>7. ASSUME NEW w \in Worker, NEW c \in Capture, Upload(w, c) PROVE ReviewsOK'
  BY <1>1, <1>7 DEF Upload, state
<1>8. ASSUME NEW d \in Device, Revoke(d) PROVE ReviewsOK'
  BY <1>1, <1>8 DEF Revoke
<1>9. CASE ChangeMembership \/ ChangeAssessment \/ LeaseLapses \/ EntryFallsDue
  BY <1>1, <1>9 DEF ChangeMembership, ChangeAssessment, LeaseLapses, EntryFallsDue, state
<1>10. ASSUME NEW a \in Artifact, Approve(a) \/ Return(a) \/ Reopen(a) PROVE ReviewsOK'
  BY <1>4, <1>10 DEF Approve, Return, Reopen
<1>11. CASE Reconcile \/ PassDies
  <2>1. CASE QuarantineOrphan
    BY <1>1, <1>3, <2>1 DEF QuarantineOrphan
  <2> QED BY <1>1, <1>11, <2>1
          DEF Reconcile, PassDies, StartPass, Examine, FinalizeCandidate, ReleaseReservation,
              LoadOrphan, DrainEntry, AdvanceCursors, AppendLink, state
<1> QED BY <1>5, <1>6, <1>7, <1>8, <1>9, <1>10, <1>11 DEF DeviceNext

LEMMA Always == DeviceSpec => [](DeviceInv /\ ReviewsOK)
<1>1. DeviceInv => DeviceTypeOK
  BY DEF DeviceInv
<1> QED BY <1>1, InitIInv, NextIInv, NextReviews, PTL DEF DeviceSpec

-----------------------------------------------------------------------------
(* The theorems.                                                            *)

LEMMA ChainMeaning == ASSUME DeviceInv PROVE OneDeviceChain
<1> SUFFICES ASSUME NEW d \in Device
             PROVE  LET row == device[d] IN
         /\ Cardinality(LinksOf(d)) = row.sequence
         /\ \A n \in 1..row.sequence : \E l \in LinksOf(d) :
              /\ l.sequence = n /\ l.artifact[1] = l.capture /\ l.artifact \in Stored
              /\ Facts[l.capture].device = d /\ l.key = row.key /\ Facts[l.capture].key = row.key
              /\ Facts[l.capture].previous = DeviceGenesis <=> n = 1
              /\ n > 1 => \E k \in LinksOf(d) :
                    k.sequence = n - 1 /\ k.capture = Facts[l.capture].previous
              /\ n = row.sequence => row.head = l.capture
         /\ Reserved(d) =>
              /\ Facts[row.pending.capture].device = d
              /\ Continues(row.pending.capture) /\ row.key = Facts[row.pending.capture].key
  BY DEF DeviceInv, OneDeviceChain
<1>1. ChainOK(d)
  BY DEF DeviceInv
<1>2. ASSUME NEW n \in 1..device[d].sequence
      PROVE  \E l \in LinksOf(d) :
              /\ l.sequence = n /\ l.artifact[1] = l.capture /\ l.artifact \in Stored
              /\ Facts[l.capture].device = d /\ l.key = device[d].key
              /\ Facts[l.capture].key = device[d].key
              /\ Facts[l.capture].previous = DeviceGenesis <=> n = 1
              /\ n > 1 => \E k \in LinksOf(d) :
                    k.sequence = n - 1 /\ k.capture = Facts[l.capture].previous
              /\ n = device[d].sequence => device[d].head = l.capture
  <2>1. PICK l \in LinksOf(d) : l.sequence = n
    BY <1>1 DEF ChainOK
  <2> QED BY <1>1, <2>1 DEF ChainOK
<1> QED BY <1>1, <1>2 DEF ChainOK

\* What NothingTakesEffectLate says of one step.
Timely ==
    /\ \A d \in Device : device[d].status = "revoked" =>
         /\ device'[d] \in {device[d], [device[d] EXCEPT !.pending = None]}
         /\ \A l \in links' \ links : l.device # d
    /\ links \subseteq links'
    /\ \A a \in Artifact :
         artifact'[a].status = "returned" /\ artifact[a].status # "returned"
           /\ artifact'[a].review = artifact[a].review
         => ~Linked(a) /\ ~Reserved(Facts[a[1]].device)

LEMMA StillIsTimely == ASSUME UNCHANGED <<device, links, artifact>> PROVE Timely
BY DEF Timely

\* Only the device that holds the lease moves, and it is active.
LEMMA AppendIsTimely ==
    ASSUME DeviceInv, NEW c \in Capture, NEW a, NEW n, AppendLink(c, a), HoldsLease(c, n)
    PROVE  Timely
<1> DEFINE o == Facts[c].device
           new == [device |-> o, sequence |-> Facts[c].sequence, capture |-> c,
                   artifact |-> a, key |-> Facts[c].key]
<1>1. links' = links \union {new} /\ new.device = o /\ artifact' = artifact
  BY DEF AppendLink
<1>2. device[o].status = "active"
  BY DEF HoldsLease
<1>3. \A d \in Device : d # o => device'[d] = device[d]
  BY DEF AppendLink, DeviceInv, DeviceTypeOK
<1> HIDE DEF new
<1>4. \A l \in links' \ links : l.device = o
  BY <1>1
<1> HIDE DEF o
<1> QED BY <1>1, <1>2, <1>3, <1>4 DEF Timely

\* A step that changes the row of one device at most, an active one.
LEMMA ActiveIsTimely ==
    ASSUME NEW o \in Device, device[o].status = "active", UNCHANGED <<links, artifact>>,
           \A d \in Device : d # o => device'[d] = device[d]
    PROVE  Timely
BY DEF Timely

\* A decision changes what was reviewed.
LEMMA DecisionIsTimely ==
    ASSUME DeviceInv, NEW a \in Artifact, NEW from, NEW to, from # to, Decide(a, from, to)
    PROVE  Timely
<1>1. UNCHANGED <<device, links>> /\ artifact[a].review = from /\ artifact'[a].review = to
      /\ \A x \in Artifact : x # a => artifact'[x] = artifact[x]
  BY DEF Decide, DeviceInv, DeviceTypeOK
<1> QED BY <1>1 DEF Timely

LEMMA NextIsTimely == ASSUME DeviceInv, [DeviceNext]_deviceVars PROVE Timely
<1>1. CASE UNCHANGED deviceVars
  BY <1>1, StillIsTimely DEF deviceVars
<1>2. ASSUME NEW w \in Worker, Proceed(w) PROVE Timely
  <2>1. CASE ClaimLink(w)
    <3>1. PICK c : c = upload[w].capture
      OBVIOUS
    <3>2. CASE Claimable(w, c)
      <4>1. PICK o : o = Facts[c].device
        OBVIOUS
      <4>2. /\ device' = [device EXCEPT ![o].key = Facts[c].key,
                                        ![o].pending = [lease |-> granted + 1, capture |-> c]]
            /\ UNCHANGED <<links, artifact>> /\ device[o].status = "active"
        BY <2>1, <3>1, <3>2, <4>1 DEF ClaimLink, Claimable
      <4>3. \A d \in Device : d # o => device'[d] = device[d]
        BY <4>2 DEF DeviceInv, DeviceTypeOK
      <4> QED BY <4>2, <4>3 DEF Timely
    <3>3. CASE ~Claimable(w, c)
      BY <2>1, <3>1, <3>3, StillIsTimely DEF ClaimLink
    <3> QED BY <3>2, <3>3
  <2>2. CASE LookUp(w) \/ FindLink(w)
    BY <2>2, StillIsTimely DEF LookUp, FindLink, state
  <2>3. CASE InsertArtifact(w)
    <3>1. UNCHANGED <<device, links>>
      BY <2>3 DEF InsertArtifact
    <3>2. \A x \in Artifact : artifact'[x] = artifact[x] \/ artifact'[x].status = "needs_review"
      BY <2>3 DEF InsertArtifact, DeviceInv, DeviceTypeOK, Fresh
    <3> QED BY <3>1, <3>2 DEF Timely
  <2>4. CASE LinkCapture(w)
    <3>1. upload[w].capture \in Capture
      BY <2>4 DEF LinkCapture, DeviceInv, RequestsOK, Target, Artifact
    <3>2. \/ AppendLink(upload[w].capture, Target(w)) /\ HoldsLease(upload[w].capture, upload[w].lease)
          \/ UNCHANGED state
      BY <2>4 DEF LinkCapture
    <3> QED BY <3>1, <3>2, AppendIsTimely, StillIsTimely DEF state
  <2> QED BY <1>2, <2>1, <2>2, <2>3, <2>4 DEF Proceed
<1>3. ASSUME NEW w \in Worker, Die(w) \/ \E c \in Capture : Upload(w, c) PROVE Timely
  BY <1>3, StillIsTimely DEF Die, Upload, state
<1>4. ASSUME NEW d \in Device, Revoke(d) PROVE Timely
  <2>1. /\ device[d].status = "active" /\ UNCHANGED <<links, artifact>>
        /\ \A e \in Device : e # d => device'[e] = device[e]
    BY <1>4 DEF Revoke, DeviceInv, DeviceTypeOK
  <2> QED BY <2>1, ActiveIsTimely
<1>5. CASE ChangeMembership
  <2>1. CASE UNCHANGED device
    BY <1>5, <2>1, StillIsTimely DEF ChangeMembership
  <2>2. CASE device' = [d \in Device |-> [device[d] EXCEPT !.status = "revoked"]]
    <3>1. \A d \in Device : device[d].status = "revoked" => device'[d] = device[d]
      BY <2>2 DEF DeviceInv, DeviceTypeOK
    <3> QED BY <1>5, <3>1 DEF ChangeMembership, Timely
  <2> QED BY <1>5, <2>1, <2>2 DEF ChangeMembership
<1>6. CASE ChangeAssessment \/ LeaseLapses \/ EntryFallsDue
  BY <1>6, StillIsTimely DEF ChangeAssessment, LeaseLapses, EntryFallsDue, state
<1>7. ASSUME NEW a \in Artifact, Approve(a) \/ Return(a) \/ Reopen(a) PROVE Timely
  BY <1>7, DecisionIsTimely DEF Approve, Return, Reopen
<1>8. CASE Reconcile \/ PassDies
  <2>1. CASE FinalizeCandidate
    <3>1. pass.item[1] \in Capture
      BY <2>1 DEF FinalizeCandidate, DeviceInv, PassOK, Artifact
    <3>2. CASE StillExact
      BY <2>1, <3>1, <3>2, AppendIsTimely DEF FinalizeCandidate, StillExact
    <3>3. CASE ~StillExact
      BY <2>1, <3>3, StillIsTimely DEF FinalizeCandidate, state
    <3> QED BY <3>2, <3>3
  <2>2. CASE ReleaseReservation
    <3>1. UNCHANGED <<links, artifact>>
      BY <2>2 DEF ReleaseReservation
    <3>2. PICK h : h = Holder(pass.lease)
      OBVIOUS
    <3>3. \A d \in Device : device'[d] \in {device[d], [device[d] EXCEPT !.pending = None]}
      <4>1. UNCHANGED device \/ device' = [device EXCEPT ![h].pending = None]
        BY <2>2, <3>2 DEF ReleaseReservation
      <4> QED BY <4>1 DEF DeviceInv, DeviceTypeOK
    <3> QED BY <3>1, <3>3 DEF Timely
  <2>3. CASE QuarantineOrphan
    <3>1. UNCHANGED <<device, links>>
      BY <2>3 DEF QuarantineOrphan
    <3>2. \A x \in Artifact : artifact'[x] = artifact[x] \/ (x = pass.item /\ StillOrphan)
      <4>1. UNCHANGED artifact \/ (StillOrphan /\ artifact' = [artifact EXCEPT ![pass.item].status = "returned"])
        BY <2>3 DEF QuarantineOrphan
      <4> QED BY <4>1 DEF DeviceInv, DeviceTypeOK
    <3> QED BY <3>1, <3>2 DEF Timely, StillOrphan
  <2> QED BY <1>8, <2>1, <2>2, <2>3, StillIsTimely
          DEF Reconcile, PassDies, StartPass, Examine, LoadOrphan, DrainEntry, AdvanceCursors, state
<1> QED BY <1>1, <1>2, <1>3, <1>4, <1>5, <1>6, <1>7, <1>8 DEF DeviceNext

\* The links of a device are one chain that ends at the head of its row, and
\* a reservation is for what comes next, whichever of the uploads and the
\* reconciler appended them (finalizeCaptureDeviceChain,
\* finalizeExactCandidate).
THEOREM DeviceChainCorrect == DeviceSpec => []OneDeviceChain
BY Always, ChainMeaning, PTL

\* Every stored artifact is linked, queued for the reconciler, returned or
\* put back by a reviewer, and none is approved without its link (the batches
\* of storeEvidence and of the finalizers, approveEvidence).
THEOREM OrphansCorrect == DeviceSpec => []OrphansAreTracked
<1>1. DeviceInv => OrphansAreTracked
  BY DEF DeviceInv
<1> QED BY <1>1, Always, PTL

\* No step decides on what an earlier one has read: the chain of a revoked
\* device stands still, and the reconciler returns no artifact that is linked
\* or whose device has a reservation (the guards of the three UPDATEs).
THEOREM TimelyCorrect == DeviceSpec => NothingTakesEffectLate
<1>1. DeviceInv /\ [DeviceNext]_deviceVars => [Timely]_deviceVars
  BY NextIsTimely
<1>2. DeviceSpec => [][Timely]_deviceVars
  BY <1>1, Always, PTL DEF DeviceSpec
<1> QED BY <1>2 DEF NothingTakesEffectLate, Timely
==============================================================================
