------------------------- MODULE ApiAuditOutboxProofs -------------------------
(* Theorems about ApiAuditOutbox, for any number of operations, events of   *)
(* the legal-hold worker, signer invocations, attempts and faults.          *)
(*                                                                          *)
(* The inductive invariant is TypeOK /\ InHand /\ Chain /\                  *)
(* CompletedIffChained.  InHand says that whoever is past its claim has a   *)
(* row, and that an open row has attempts left; Chain counts the events and *)
(* their ids, so that a fresh event always finds its place.  A step either  *)
(* leaves the chain alone and completes no row (RowsKept), or appends one   *)
(* event to the head it has just compared (AppendKeepsChain).               *)
EXTENDS ApiAuditOutbox, FiniteSetTheorems, TLAPS

-----------------------------------------------------------------------------
(* The inductive invariant.                                                 *)

\* Whoever is past its claim works on a row, and a row still to be signed has
\* attempts left.
InHand ==
    /\ \A s \in Signer : ~At(s, "idle") => signer[s].row \in Key
    /\ open # NotOpen => open.row \in Key /\ open.signer \in Signer
    /\ \A k \in Key : work[k].state \in {"none", "open"} => work[k].attempts < MaxAttempts

Ids == {e.id : e \in events}

\* The chain, with the number of its events counted twice.
Chain ==
    /\ IsFiniteSet(events)
    /\ head.sequence = Cardinality(events)
    /\ head.sequence = Cardinality(Ids)
    /\ \A e \in events : e.sequence <= head.sequence
    /\ \A e, f \in events : e.id = f.id \/ e.sequence = f.sequence => e = f
    /\ \A e \in events :
         \/ e.sequence = 1 /\ e.previous = None
         \/ \E f \in events : f.sequence = e.sequence - 1 /\ f.id = e.previous
    /\ events = {} => head = Genesis
    /\ events # {} => \E e \in events : e.sequence = head.sequence /\ e.id = head.id

IInv == TypeOK /\ InHand /\ Chain /\ CompletedIffChained

-----------------------------------------------------------------------------
(* What the operators return.                                               *)

\* The earliest due row is one of them.
LEMMA MinMember ==
    ASSUME NEW S \in SUBSET Key, S # {}
    PROVE  Min(S) \in S
<1>1. S \subseteq Nat
  BY DEF Key
<1> DEFINE Less == {ss \in Nat \X Nat : ss[1] < ss[2]}
<1>2. IsWellFoundedOn(Less, Nat)
  BY NatLessThanWellFounded DEF OpToRel
<1> HIDE DEF Less
<1>3. PICK m \in S : \A n \in S : <<n, m>> \notin Less
  BY <1>1, <1>2, WFMin
<1>4. ASSUME NEW n \in S PROVE m <= n
  <2>1. n \in Nat /\ m \in Nat /\ <<n, m>> \in Nat \X Nat
    BY <1>1
  <2>2. ~(<<n, m>>[1] < <<n, m>>[2])
    BY <1>3, <2>1, Zenon DEF Less
  <2> QED BY <2>1, <2>2
<1> QED BY <1>4 DEF Min

\* The keys and the worker's events are finitely many.
LEMMA IdsFinite ==
    ASSUME ConstantsAssumption
    PROVE  IsFiniteSet(Key \cup Foreign) /\ Cardinality(Key \cup Foreign) \in Nat
<1>1. IsFiniteSet(Key)
  BY FS_Interval DEF ConstantsAssumption, Key
<1>2. IsFiniteSet(Key \cup Foreign)
  BY <1>1, FS_Union DEF ConstantsAssumption
<1> QED BY <1>2, FS_CardinalityType

\* A fresh event appended to the head finds its place in the chain.
LEMMA AppendKeepsChain ==
    ASSUME ConstantsAssumption, TypeOK, Chain,
           NEW id \in Key \cup Foreign, \A e \in events : e.id # id,
           AppendEvent(id, head)
    PROVE  Chain' /\ events' \subseteq Events /\ head' \in Heads
<1> DEFINE new == [sequence |-> head.sequence + 1, id |-> id, previous |-> head.id]
<1>1. events' = events \cup {new} /\ head' = [sequence |-> head.sequence + 1, id |-> id]
  BY DEF AppendEvent
<1>2. /\ new.sequence = head.sequence + 1 /\ new.id = id /\ new.previous = head.id
      /\ head'.sequence = head.sequence + 1 /\ head'.id = id
  BY <1>1
<1>3. head.sequence \in Nat /\ head.id \in Key \cup Foreign \cup {None}
  BY IdsFinite DEF TypeOK, Heads
<1>4. new \notin events
  BY <1>2
<1> HIDE DEF new
<1>5. IsFiniteSet(events') /\ Cardinality(events') = head.sequence + 1
  BY <1>1, <1>4, FS_AddElement DEF Chain
<1>6. Ids' = Ids \cup {id}
  BY <1>1, <1>2 DEF Ids
<1>7. id \notin Ids
  BY DEF Ids
<1>8. Ids \subseteq Key \cup Foreign
  BY DEF Ids, TypeOK, Events
<1>9. IsFiniteSet(Ids)
  BY <1>8, IdsFinite, FS_Subset
<1>10. Cardinality(Ids') = head.sequence + 1
  <2>1. Cardinality(Ids \cup {id}) = Cardinality(Ids) + 1
    BY <1>7, <1>9, FS_AddElement
  <2> QED BY <1>6, <2>1 DEF Chain
<1>11. head.sequence + 1 <= Cardinality(Key \cup Foreign)
  <2>1. Ids' \in SUBSET (Key \cup Foreign)
    BY <1>6, <1>8
  <2> QED BY <2>1, <1>10, IdsFinite, FS_Subset
<1>12. head' \in Heads
  BY <1>1, <1>3, <1>11, IdsFinite DEF Heads
<1>13. new \in Events
  BY <1>3, <1>11, IdsFinite DEF Events, new
<1>14. events' \subseteq Events
  BY <1>1, <1>13 DEF TypeOK
<1>15. \A e \in events : e.sequence \in Nat /\ e.sequence <= head.sequence
  BY IdsFinite DEF TypeOK, Events, Chain
<1>16. \A e \in events' : e.sequence <= head'.sequence
  BY <1>1, <1>2, <1>3, <1>15
<1>17. \A e, f \in events' : e.id = f.id \/ e.sequence = f.sequence => e = f
  BY <1>1, <1>2, <1>3, <1>15 DEF Chain
<1>18. ASSUME NEW e \in events'
       PROVE  \/ e.sequence = 1 /\ e.previous = None
              \/ \E f \in events' : f.sequence = e.sequence - 1 /\ f.id = e.previous
  <2>1. CASE e \in events
    BY <2>1, <1>1 DEF Chain
  <2>2. CASE e = new /\ events = {}
    BY <2>2, <1>2 DEF Chain, Genesis
  <2>3. CASE e = new /\ events # {}
    <3>1. PICK f \in events : f.sequence = head.sequence /\ f.id = head.id
      BY <2>3 DEF Chain
    <3> QED BY <2>3, <3>1, <1>1, <1>2, <1>3
  <2> QED BY <2>1, <2>2, <2>3, <1>1
<1>19. \E e \in events' : e.sequence = head'.sequence /\ e.id = head'.id
  BY <1>1, <1>2
<1> QED BY <1>2, <1>5, <1>10, <1>12, <1>14, <1>16, <1>17, <1>18, <1>19 DEF Chain

\* The row's event enters the chain and the row is completed, in one transaction.
LEMMA AppendSignedStep ==
    ASSUME ConstantsAssumption, IInv, NEW s \in Signer, NEW k \in Key, NEW after \in Heads,
           AppendSigned(s, k, after)
    PROVE  /\ Chain' /\ CompletedIffChained'
           /\ events' \subseteq Events /\ head' \in Heads
           /\ work' \in [Key -> WorkRows]
           /\ \A j \in Key : work'[j].state \in {"none", "open"} => work'[j].attempts < MaxAttempts
<1>1. /\ after = head /\ work[k].state = "open" /\ \A e \in events : e.id # k
      /\ AppendEvent(k, head)
      /\ Complete(k, head)
  BY DEF AppendSigned, MayAppend, MayComplete, Continues
<1>2. Chain' /\ events' \subseteq Events /\ head' \in Heads
  BY <1>1, AppendKeepsChain DEF IInv
<1>3. /\ work[k] \in WorkRows /\ head \in Heads
      /\ work' = [work EXCEPT ![k] = [work[k] EXCEPT !.state = "completed", !.lease = None,
                                          !.expired = FALSE, !.after = head]]
  BY <1>1 DEF IInv, TypeOK, Complete
<1>4. /\ work'[k] \in WorkRows /\ work'[k].state = "completed" /\ work'[k].after = head
      /\ \A j \in Key \ {k} : work'[j] = work[j]
      /\ work' \in [Key -> WorkRows]
  BY <1>3 DEF IInv, TypeOK, WorkRows
<1>5. \A j \in Key : work'[j].state \in {"none", "open"} => work'[j].attempts < MaxAttempts
  BY <1>4 DEF IInv, InHand
<1>6. CompletedIffChained'
  <2> DEFINE new == [sequence |-> head.sequence + 1, id |-> k, previous |-> head.id]
  <2>1. events' = events \cup {new} /\ new.id = k
    BY <1>1 DEF AppendEvent
  <2>2. head = [sequence |-> new.sequence - 1, id |-> new.previous]
    BY IdsFinite DEF IInv, TypeOK, Heads
  <2> HIDE DEF new
  <2>3. ASSUME NEW j \in Key PROVE Signed(j)' <=> \E e \in events' : e.id = j
    BY <2>1, <1>4 DEF IInv, CompletedIffChained, Signed
  <2>4. ASSUME NEW e \in events', e.id \in Key
        PROVE  [sequence |-> e.sequence - 1, id |-> e.previous] = work'[e.id].after
    BY <2>1, <2>2, <2>4, <1>1, <1>4 DEF IInv, CompletedIffChained
  <2> QED BY <2>3, <2>4 DEF CompletedIffChained
<1> QED BY <1>2, <1>4, <1>5, <1>6

-----------------------------------------------------------------------------
(* Steps that complete no row.                                              *)

\* The rows stay well formed, and none is completed or forgotten.
RowsKept ==
    /\ work' \in [Key -> WorkRows]
    /\ \A k \in Key : work'[k].state \in {"none", "open"} => work'[k].attempts < MaxAttempts
    /\ \A k \in Key : /\ work'[k].state = "completed" <=> work[k].state = "completed"
                      /\ work'[k].after = work[k].after

LEMMA SameRows == ASSUME IInv, UNCHANGED work PROVE RowsKept
BY DEF IInv, TypeOK, InHand, RowsKept

\* A change of one row keeps the others.
LEMMA OneRow ==
    ASSUME IInv, NEW k \in Key, NEW r \in WorkRows, work' = [work EXCEPT ![k] = r],
           r.state \in {"none", "open"} => r.attempts < MaxAttempts,
           r.state = "completed" <=> work[k].state = "completed",
           r.after = work[k].after
    PROVE  RowsKept
BY DEF IInv, TypeOK, InHand, RowsKept

LEMMA RecordRows ==
    ASSUME IInv, NEW k \in Key, RecordApiAudit(k) PROVE RowsKept
<1>1. CASE work[k].state = "none"
  <2> DEFINE r == [work[k] EXCEPT !.state = "open"]
  <2>1. work[k] \in WorkRows /\ work[k].attempts < MaxAttempts
    BY <1>1 DEF IInv, TypeOK, InHand
  <2>2. r \in WorkRows /\ r.state = "open" /\ r.attempts < MaxAttempts /\ r.after = work[k].after
    BY <2>1 DEF WorkRows
  <2>3. work' = [work EXCEPT ![k] = r]
    BY <1>1 DEF RecordApiAudit
  <2> HIDE DEF r
  <2> QED BY <1>1, <2>2, <2>3, OneRow
<1>2. CASE work[k].state # "none"
  BY <1>2, SameRows DEF RecordApiAudit
<1> QED BY <1>1, <1>2

LEMMA TimeRows ==
    ASSUME IInv, NEW k \in Key, BecomeDue(k) \/ ExpireLease(k) PROVE RowsKept
<1>1. work[k] \in WorkRows
  BY DEF IInv, TypeOK
<1>2. PICK r \in {[work[k] EXCEPT !.due = TRUE], [work[k] EXCEPT !.expired = TRUE]} :
        work' = [work EXCEPT ![k] = r]
  BY DEF BecomeDue, ExpireLease
<1>3. /\ r \in WorkRows /\ r.state = work[k].state /\ r.attempts = work[k].attempts
      /\ r.after = work[k].after
  BY <1>1 DEF WorkRows
<1> QED BY <1>2, <1>3, OneRow DEF IInv, InHand

LEMMA ClaimRows ==
    ASSUME IInv, NEW s \in Signer, NEW k \in Key,
           work' = [work EXCEPT ![k].lease = s, ![k].expired = FALSE]
    PROVE  RowsKept
<1> DEFINE r == [work[k] EXCEPT !.lease = s, !.expired = FALSE]
<1>1. work[k] \in WorkRows
  BY DEF IInv, TypeOK
<1>2. /\ r \in WorkRows /\ r.state = work[k].state /\ r.attempts = work[k].attempts
      /\ r.after = work[k].after
  BY <1>1 DEF WorkRows
<1>3. work' = [work EXCEPT ![k] = r]
  OBVIOUS
<1> HIDE DEF r
<1> QED BY <1>2, <1>3, OneRow DEF IInv, InHand

LEMMA CountRows ==
    ASSUME ConstantsAssumption, IInv, NEW s \in Signer, NEW k \in Key, ReportFailure(s, k)
    PROVE  RowsKept
<1>1. CASE MayComplete(s, k)
  <2> DEFINE n == work[k].attempts + 1
             st == IF n >= MaxAttempts THEN "dead" ELSE "open"
             r == [work[k] EXCEPT !.attempts = n, !.due = FALSE, !.lease = None,
                                  !.expired = FALSE, !.state = st]
  <2>1. work[k] \in WorkRows /\ work[k].state = "open" /\ work[k].attempts < MaxAttempts
    BY <1>1 DEF IInv, TypeOK, InHand, MayComplete
  <2>2. n \in 0 .. MaxAttempts
    BY <2>1 DEF WorkRows, ConstantsAssumption
  <2>3. work' = [work EXCEPT ![k] = r]
    BY <1>1 DEF ReportFailure, CountAttempt
  <2> HIDE DEF n
  <2>4. st \in {"dead", "open"} /\ (st = "open" => n < MaxAttempts)
    BY <2>2, ConstantsAssumption DEF ConstantsAssumption
  <2> HIDE DEF st
  <2>5. r \in WorkRows /\ r.state = st /\ r.attempts = n /\ r.after = work[k].after
    BY <2>1, <2>2, <2>4 DEF WorkRows
  <2> HIDE DEF r
  <2> QED BY <2>1, <2>3, <2>4, <2>5, OneRow
<1>2. CASE ~MayComplete(s, k)
  BY <1>2, SameRows DEF ReportFailure
<1> QED BY <1>1, <1>2

\* A step that leaves the chain and the completed rows alone keeps what is said
\* of them.
LEMMA ChainUntouched ==
    ASSUME IInv, RowsKept, UNCHANGED <<events, head>>
    PROVE  /\ Chain' /\ CompletedIffChained'
           /\ events' \subseteq Events /\ head' \in Heads
<1>1. Chain' /\ events' \subseteq Events /\ head' \in Heads
  BY DEF IInv, TypeOK, Chain, Ids
<1>2. CompletedIffChained'
  BY DEF IInv, TypeOK, Events, RowsKept, CompletedIffChained, Signed
<1> QED BY <1>1, <1>2

-----------------------------------------------------------------------------
(* The steps.                                                               *)

Signers == [Signer -> [pc : {"idle", "read", "append", "failed"},
                       row : Key \cup {None}, head : Heads]]

\* A signer whose item ends, or fails, keeps the others' rows in hand.
LEMMA SignerMoves ==
    ASSUME ConstantsAssumption, IInv, NEW s \in Signer,
           \/ EndItem(s)
           \/ ~At(s, "idle") /\ Goto(s, "failed")
           \/ UNCHANGED signer
    PROVE  /\ signer' \in Signers
           /\ \A t \in Signer : ~At(t, "idle")' => signer'[t].row \in Key
<1>1. Idle \in [pc : {"idle", "read", "append", "failed"}, row : Key \cup {None}, head : Heads]
  BY IdsFinite DEF Idle, Heads, Genesis
<1>2. CASE EndItem(s)
  BY <1>1, <1>2 DEF EndItem, Idle, IInv, TypeOK, InHand, Signers, At
<1>3. CASE ~At(s, "idle") /\ Goto(s, "failed")
  <2>1. signer' = [signer EXCEPT ![s] = [signer[s] EXCEPT !.pc = "failed"]]
    BY <1>3 DEF Goto
  <2>2. signer[s].row \in Key
    BY <1>3 DEF IInv, InHand
  <2> QED BY <2>1, <2>2 DEF IInv, TypeOK, InHand, Signers, At
<1>4. CASE UNCHANGED signer
  BY <1>4 DEF IInv, TypeOK, InHand, Signers, At
<1> QED BY <1>2, <1>3, <1>4

LEMMA FaultType ==
    ASSUME ConstantsAssumption, TypeOK, Fault \/ NoFault PROVE faults' \in 0 .. MaxFaults
BY DEF ConstantsAssumption, TypeOK, Fault, NoFault

\* An open transaction, if any, belongs to a signer and a row.
OpenOK ==
    /\ open \in [signer : Signer \cup {None}, row : Key \cup {None}, head : Heads]
    /\ open # NotOpen => open.row \in Key /\ open.signer \in Signer

LEMMA OpenKept ==
    ASSUME ConstantsAssumption, IInv, open' \in {open, NotOpen} PROVE OpenOK'
<1>1. Genesis \in Heads
  BY IdsFinite DEF Genesis, Heads
<1>2. NotOpen \in [signer : Signer \cup {None}, row : Key \cup {None}, head : Heads]
  BY <1>1 DEF NotOpen
<1>3. NotOpen' = NotOpen
  BY DEF NotOpen, Genesis
<1> QED BY <1>2, <1>3 DEF IInv, TypeOK, InHand, OpenOK

\* The parts of a step put together.
LEMMA Assemble ==
    ASSUME answered' \subseteq Key, work' \in [Key -> WorkRows],
           \A k \in Key : work'[k].state \in {"none", "open"} => work'[k].attempts < MaxAttempts,
           Chain', CompletedIffChained', events' \subseteq Events, head' \in Heads,
           signer' \in Signers, \A t \in Signer : ~At(t, "idle")' => signer'[t].row \in Key,
           worker' \in [pc : {"idle", "append"}, head : Heads],
           OpenOK', faults' \in 0 .. MaxFaults
    PROVE  IInv'
<1>1. TypeOK'
  BY DEF TypeOK, Signers, OpenOK
<1>2. InHand'
  BY DEF InHand, OpenOK
<1> QED BY <1>1, <1>2 DEF IInv

\* The API and the passing of time.
LEMMA ClientStep ==
    ASSUME ConstantsAssumption, IInv, NEW k \in Key,
           Record(k) \/ BecomeDue(k) \/ ExpireLease(k)
    PROVE  IInv'
<1>1. RowsKept
  BY RecordRows, TimeRows DEF Record
<1>2. UNCHANGED <<events, head, signer, worker, open>> /\ answered' \subseteq Key
  BY DEF Record, BecomeDue, ExpireLease, IInv, TypeOK
<1>3. Fault \/ NoFault
  BY DEF Record, BecomeDue, ExpireLease, NoFault
<1>4. signer' \in Signers /\ \A t \in Signer : ~At(t, "idle")' => signer'[t].row \in Key
  BY <1>2 DEF IInv, TypeOK, InHand, Signers, At
<1>5. worker' \in [pc : {"idle", "append"}, head : Heads]
  BY <1>2 DEF IInv, TypeOK
<1> QED BY <1>1, <1>2, <1>3, <1>4, <1>5, ChainUntouched, FaultType, OpenKept, Assemble
        DEF RowsKept, IInv

LEMMA ClaimStep ==
    ASSUME ConstantsAssumption, IInv, NEW s \in Signer, Claim(s) PROVE IInv'
<1> DEFINE k == Min(Claimable)
<1>1. k \in Key
  <2>1. Claimable \in SUBSET Key /\ Claimable # {}
    BY DEF Claim, Claimable
  <2> QED BY <2>1, MinMember
<1>2. /\ work' = [work EXCEPT ![k].lease = s, ![k].expired = FALSE]
      /\ UNCHANGED <<answered, events, head, worker, open>>
      /\ Fault \/ NoFault
      /\ \/ signer' = [signer EXCEPT ![s] = [pc |-> IF Parses(k) THEN "read" ELSE "failed",
                                             row |-> k, head |-> Genesis]]
         \/ UNCHANGED signer
  BY DEF Claim
<1> HIDE DEF k
<1>3. RowsKept
  BY <1>1, <1>2, ClaimRows
<1>4. signer' \in Signers /\ \A t \in Signer : ~At(t, "idle")' => signer'[t].row \in Key
  <2>1. Genesis \in Heads
    BY IdsFinite DEF Genesis, Heads
  <2> QED BY <1>1, <1>2, <2>1 DEF IInv, TypeOK, InHand, Signers, At
<1>5. answered' \subseteq Key /\ worker' \in [pc : {"idle", "append"}, head : Heads]
  BY <1>2 DEF IInv, TypeOK
<1> QED BY <1>2, <1>3, <1>4, <1>5, ChainUntouched, FaultType, OpenKept, Assemble
        DEF RowsKept, IInv

LEMMA ReadHeadStep ==
    ASSUME ConstantsAssumption, IInv, NEW s \in Signer, ReadHead(s) PROVE IInv'
<1>1. /\ UNCHANGED <<answered, work, events, head, worker, open>> /\ (Fault \/ NoFault)
      /\ At(s, "read")
  BY DEF ReadHead, database
<1>2. signer' \in Signers /\ \A t \in Signer : ~At(t, "idle")' => signer'[t].row \in Key
  <2>1. PICK r \in {[signer[s] EXCEPT !.pc = "append", !.head = head],
                    [signer[s] EXCEPT !.pc = "failed"]} : signer' = [signer EXCEPT ![s] = r]
    BY DEF ReadHead, Goto
  <2>2. signer[s].row \in Key
    BY <1>1 DEF IInv, InHand, At
  <2>3. /\ r \in [pc : {"idle", "read", "append", "failed"}, row : Key \cup {None}, head : Heads]
        /\ r.row \in Key
    BY <2>2 DEF IInv, TypeOK
  <2> QED BY <2>1, <2>3 DEF IInv, TypeOK, InHand, Signers, At
<1>3. answered' \subseteq Key /\ worker' \in [pc : {"idle", "append"}, head : Heads]
  BY <1>1 DEF IInv, TypeOK
<1> QED BY <1>1, <1>2, <1>3, SameRows, ChainUntouched, FaultType, OpenKept, Assemble
        DEF RowsKept, IInv

LEMMA SignAndAppendStep ==
    ASSUME ConstantsAssumption, IInv, NEW s \in Signer, SignAndAppend(s) PROVE IInv'
<1> DEFINE k == signer[s].row
           after == signer[s].head
<1>1. /\ At(s, "append") /\ UNCHANGED <<answered, worker, open>> /\ (Fault \/ NoFault)
      /\ EndItem(s) \/ Goto(s, "failed")
      /\ AppendSigned(s, k, after) \/ UNCHANGED database
  BY DEF SignAndAppend
<1>2. k \in Key /\ after \in Heads
  BY <1>1 DEF IInv, TypeOK, InHand, At
<1> HIDE DEF k, after
<1>3. signer' \in Signers /\ \A t \in Signer : ~At(t, "idle")' => signer'[t].row \in Key
  BY <1>1, SignerMoves DEF At
<1>4. answered' \subseteq Key /\ worker' \in [pc : {"idle", "append"}, head : Heads]
  BY <1>1 DEF IInv, TypeOK
<1>5. OpenOK' /\ faults' \in 0 .. MaxFaults
  BY <1>1, OpenKept, FaultType DEF IInv
<1>6. CASE AppendSigned(s, k, after)
  BY <1>2, <1>3, <1>4, <1>5, <1>6, AppendSignedStep, Assemble
<1>7. CASE UNCHANGED database
  BY <1>3, <1>4, <1>5, <1>7, SameRows, ChainUntouched, Assemble DEF RowsKept, database
<1> QED BY <1>1, <1>6, <1>7

LEMMA RecordFailureStep ==
    ASSUME ConstantsAssumption, IInv, NEW s \in Signer, RecordFailure(s) PROVE IInv'
<1> DEFINE k == signer[s].row
<1>1. /\ At(s, "failed") /\ UNCHANGED <<answered, events, head, worker, open>>
      /\ (Fault \/ NoFault) /\ EndItem(s)
      /\ ReportFailure(s, k) \/ UNCHANGED work
  BY DEF RecordFailure
<1>2. k \in Key
  BY <1>1 DEF IInv, TypeOK, InHand, At
<1> HIDE DEF k
<1>3. signer' \in Signers /\ \A t \in Signer : ~At(t, "idle")' => signer'[t].row \in Key
  BY <1>1, SignerMoves
<1>4. answered' \subseteq Key /\ worker' \in [pc : {"idle", "append"}, head : Heads]
  BY <1>1 DEF IInv, TypeOK
<1>5. RowsKept
  BY <1>1, <1>2, CountRows, SameRows
<1> QED BY <1>1, <1>3, <1>4, <1>5, ChainUntouched, FaultType, OpenKept, Assemble
        DEF RowsKept, IInv

LEMMA CrashStep ==
    ASSUME ConstantsAssumption, IInv, NEW s \in Signer, Crash(s) PROVE IInv'
<1>1. ~At(s, "idle") /\ Fault /\ EndItem(s) /\ UNCHANGED <<answered, work, events, head, worker>>
  BY DEF Crash, database
<1>2. OpenOK'
  <2>1. CASE UNCHANGED open
    BY <2>1, OpenKept
  <2>2. CASE open' = [signer |-> s, row |-> signer[s].row, head |-> signer[s].head]
    BY <2>2, <1>1 DEF IInv, TypeOK, InHand, OpenOK
  <2> QED BY <2>1, <2>2 DEF Crash
<1>3. signer' \in Signers /\ \A t \in Signer : ~At(t, "idle")' => signer'[t].row \in Key
  BY <1>1, SignerMoves
<1>4. answered' \subseteq Key /\ worker' \in [pc : {"idle", "append"}, head : Heads]
  BY <1>1 DEF IInv, TypeOK
<1> QED BY <1>1, <1>2, <1>3, <1>4, SameRows, ChainUntouched, FaultType, Assemble
        DEF RowsKept, IInv

LEMMA SettleStep ==
    ASSUME ConstantsAssumption, IInv, Settle PROVE IInv'
<1>1. /\ open # NotOpen /\ open' = NotOpen /\ UNCHANGED <<answered, signer, worker, faults>>
      /\ AppendSigned(open.signer, open.row, open.head) \/ UNCHANGED database
  BY DEF Settle
<1>2. open.signer \in Signer /\ open.row \in Key /\ open.head \in Heads
  BY <1>1 DEF IInv, TypeOK, InHand
<1>3. signer' \in Signers /\ \A t \in Signer : ~At(t, "idle")' => signer'[t].row \in Key
  BY <1>1 DEF IInv, TypeOK, InHand, Signers, At
<1>4. /\ answered' \subseteq Key /\ worker' \in [pc : {"idle", "append"}, head : Heads]
      /\ faults' \in 0 .. MaxFaults
  BY <1>1 DEF IInv, TypeOK
<1>5. OpenOK'
  BY <1>1, OpenKept
<1>6. CASE AppendSigned(open.signer, open.row, open.head)
  BY <1>2, <1>3, <1>4, <1>5, <1>6, AppendSignedStep, Assemble
<1>7. CASE UNCHANGED database
  BY <1>3, <1>4, <1>5, <1>7, SameRows, ChainUntouched, Assemble DEF RowsKept, database
<1> QED BY <1>1, <1>6, <1>7

\* The legal-hold worker's event completes no row: its id is no key.
LEMMA WorkerStep ==
    ASSUME ConstantsAssumption, IInv, WorkerRead \/ WorkerAppend PROVE IInv'
<1>1. UNCHANGED <<answered, work, signer, open, faults>>
  BY DEF WorkerRead, WorkerAppend, database
<1>2. signer' \in Signers /\ \A t \in Signer : ~At(t, "idle")' => signer'[t].row \in Key
  BY <1>1 DEF IInv, TypeOK, InHand, Signers, At
<1>3. answered' \subseteq Key /\ faults' \in 0 .. MaxFaults
  BY <1>1 DEF IInv, TypeOK
<1>4. worker' \in [pc : {"idle", "append"}, head : Heads]
  <2>1. Genesis \in Heads
    BY IdsFinite DEF Genesis, Heads
  <2> QED BY <2>1 DEF WorkerRead, WorkerAppend, IInv, TypeOK
<1>5. OpenOK' /\ RowsKept
  BY <1>1, OpenKept, SameRows
<1>6. CASE UNCHANGED <<events, head>>
  BY <1>2, <1>3, <1>4, <1>5, <1>6, ChainUntouched, Assemble DEF RowsKept
<1>7. ASSUME NEW f \in ForeignDue, Continues(worker.head), AppendEvent(f, worker.head)
      PROVE  IInv'
  <2>1. f \in Foreign /\ f \notin Key /\ \A e \in events : e.id # f
    BY <1>7 DEF ForeignDue, ConstantsAssumption
  <2>2. AppendEvent(f, head)
    BY <1>7 DEF Continues
  <2>3. Chain' /\ events' \subseteq Events /\ head' \in Heads
    BY <2>1, <2>2, AppendKeepsChain DEF IInv
  <2>4. CompletedIffChained'
    <3>1. \A e \in events' : e.id \in Key => e \in events
      BY <2>1, <2>2 DEF AppendEvent
    <3>2. events \subseteq events'
      BY <2>2 DEF AppendEvent
    <3> QED BY <3>1, <3>2, <1>1 DEF IInv, CompletedIffChained, Signed
  <2> QED BY <1>2, <1>3, <1>4, <1>5, <2>3, <2>4, Assemble DEF RowsKept
<1> QED BY <1>6, <1>7 DEF WorkerRead, WorkerAppend, database

-----------------------------------------------------------------------------
(* The theorems.                                                            *)

LEMMA Initially == ASSUME ConstantsAssumption, Init PROVE IInv
<1>1. Genesis \in Heads
  BY IdsFinite DEF Genesis, Heads
<1>2. NoWork \in WorkRows
  BY <1>1 DEF NoWork, WorkRows, ConstantsAssumption
<1>3. TypeOK
  BY <1>1, <1>2 DEF Init, TypeOK, Idle, NotOpen, ConstantsAssumption
<1>4. InHand
  BY DEF Init, InHand, At, Idle, NoWork, ConstantsAssumption
<1>5. Ids = {} /\ events = {}
  BY DEF Init, Ids
<1>6. Chain
  BY <1>5, FS_EmptySet DEF Init, Chain, Genesis
<1>7. CompletedIffChained
  BY <1>5 DEF Init, CompletedIffChained, Signed, NoWork
<1> QED BY <1>3, <1>4, <1>6, <1>7 DEF IInv

\* The inductive invariant.
LEMMA Inductive == Spec => []IInv
<1>1. Init => IInv
  BY Initially, ConstantsAssumption
<1>2. IInv /\ [Next]_vars => IInv'
  <2> SUFFICES ASSUME IInv, [Next]_vars PROVE IInv'
    OBVIOUS
  <2>1. ASSUME NEW k \in Key, Record(k) \/ BecomeDue(k) \/ ExpireLease(k) PROVE IInv'
    BY <2>1, ClientStep, ConstantsAssumption
  <2>2. ASSUME NEW s \in Signer, Signing(s) \/ Crash(s) PROVE IInv'
    BY <2>2, ClaimStep, ReadHeadStep, SignAndAppendStep, RecordFailureStep, CrashStep,
       ConstantsAssumption DEF Signing
  <2>3. CASE Settle \/ WorkerRead \/ WorkerAppend
    BY <2>3, SettleStep, WorkerStep, ConstantsAssumption
  <2>4. CASE UNCHANGED vars
    BY <2>4 DEF vars, IInv, TypeOK, InHand, At, Chain, Ids, CompletedIffChained, Signed
  <2> QED BY <2>1, <2>2, <2>3, <2>4 DEF Next
<1> QED BY <1>1, <1>2, PTL DEF Spec

\* For any number of operations, signers, attempts and faults, whatever is lost
\* and whoever else appends, the tenant's events form one chain without fork,
\* gap or repetition that ends at audit_heads (append_signed_api_audit_event
\* and advance_audit_head).
THEOREM ChainCorrect == Spec => []OneChain
<1>1. IInv => OneChain
  BY DEF IInv, Chain, OneChain
<1> QED BY <1>1, Inductive, PTL

\* A row is completed exactly when its event is in the chain, at the place the
\* row remembers, for any number of signers, early expiries and lost answers.
THEOREM CompletionCorrect == Spec => []CompletedIffChained
<1>1. IInv => CompletedIffChained
  BY DEF IInv
<1> QED BY <1>1, Inductive, PTL
==============================================================================
