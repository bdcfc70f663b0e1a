----------------------- MODULE EvidencePromotionProofs -----------------------
(* Theorems about EvidencePromotion, for any number of messages, versions,  *)
(* deliveries, fences and faults: every variable keeps its type; the        *)
(* promotion implements EvidenceCustody; the maintenance action an intent   *)
(* names is the outstanding one; what is published is what Aurora accepted; *)
(* what it accepted can be completed; a superseded worker changes nothing;  *)
(* one fault does not lose a clean version its last message.                *)
EXTENDS EvidencePromotion, TLAPS

-----------------------------------------------------------------------------
(* What a worker's locals say of the stores.  l: the locals of a worker, v: *)
(* the version its message names, k: the locked object, a: what Aurora      *)
(* accepted, p: the recovery receipt of the version.                        *)

Leasing == {"validate", "fence", "find", "permit", "put", "record", "resolve", "renew", "refence",
            "execute", "commit", "renewAgain", "complete"}
Holding == {"record", "resolve", "renew", "refence", "execute", "commit"}
Destined == {"resolve", "renew", "refence", "execute"}
Accepted == {"recover", "renewAgain", "complete"}

Sound(l, v, k, a, p) ==
    /\ l.pc \in Leasing => l.fence \in Fences
    /\ l.pc \in Holding => k # None /\ k.source = v
    /\ l.pc \in Destined => l.dest \in Fences
    /\ l.pc \in Accepted \union {"commit"} => l.facts \in Facts /\ l.facts.source = v
    /\ l.pc \in Accepted => a = l.facts
    /\ l.pc = "delete" => p # None

AllSound == \A m \in Message : Sound(local[m], about[m], kept, aurora.facts, published[about[m]])

\* A transaction that holds the row lock found no receipt.
Locked == tx # None => aurora.facts = None

Inv == TypeOK /\ AllSound /\ Locked

-----------------------------------------------------------------------------
(* Types.                                                                   *)

Places == {"idle", "read", "verify", "scan", "lookup", "recover", "claim", "validate", "fence",
           "find", "permit", "put", "record", "resolve", "renew", "refence", "execute",
           "commit", "renewAgain", "complete", "delete"}

LEMMA Bounds ==
    /\ MaxFence \in Nat \ {0} /\ MaxDeliveries \in Nat \ {0} /\ MaxFaults \in Nat
    /\ 0 \in Flags /\ 0 \in 0..MaxFence /\ 1 \in Fences /\ Fences \subseteq 0..MaxFence
BY PromotionAssumption DEF Flags, Fences

LEMMA IdleType == Idle \in Locals
<1>1. Seen(Issued) \in Views
  BY Bounds DEF Seen, Issued, Views, Statuses, Active
<1> QED BY <1>1, Bounds DEF Idle, Locals

LEMMA SeenType == ASSUME intent \in Intents PROVE Seen(intent) \in Views
BY DEF Seen, Intents, Views

LEMMA GotoType ==
    ASSUME TypeOK, NEW m \in Message, NEW place \in Places, Goto(m, place)
    PROVE  local' \in [Message -> Locals]
<1>1. local[m] \in Locals
  BY DEF TypeOK
<1>2. [local[m] EXCEPT !.pc = place] \in Locals
  BY <1>1 DEF Locals, Places
<1> QED BY <1>2 DEF Goto, TypeOK

LEMMA IdleAgain ==
    ASSUME TypeOK, NEW m \in Message, Ack(m) \/ Fail(m)
    PROVE  /\ local' \in [Message -> Locals]
           /\ done' \in [Message -> {"open", "acked", "dead"}]
           /\ local' = [local EXCEPT ![m] = Idle]
BY IdleType DEF TypeOK, Ack, Fail

LEMMA FaultType == ASSUME TypeOK, Fault PROVE faults' \in Flags \ {0}
BY Bounds DEF TypeOK, Fault, Flags

\* The steps of a worker, by what they do to its locals.
LEMMA LeasedType ==
    ASSUME TypeOK, NEW m \in Message, NEW fence \in Fences, NEW place \in Places, Leased(m, fence, place)
    PROVE  local' \in [Message -> Locals]
<1>1. fence \in 0..MaxFence
  BY Bounds
<1>2. [Idle EXCEPT !.pc = place, !.fence = fence, !.live = TRUE] \in Locals
  BY <1>1, IdleType DEF Locals, Places
<1> QED BY <1>2 DEF Leased, TypeOK

LEMMA PrepareLocals ==
    ASSUME Inv, NEW m \in Message, Prepare(m)
    PROVE  local' \in [Message -> Locals]
<1>0. TypeOK /\ local[m] \in Locals /\ intent \in Intents
  BY DEF Inv, TypeOK
<1>1. CASE ReadIntent(m)
  <2>1. Seen(intent) \in Views
    BY <1>0, SeenType
  <2> DEFINE place == IF intent.status = "promoted" THEN "verify" ELSE "scan"
  <2>2. [local[m] EXCEPT !.pc = place, !.seen = Seen(intent)] \in Locals
    BY <1>0, <2>1 DEF Locals
  <2>3. local' = [local EXCEPT ![m] = [local[m] EXCEPT !.pc = place, !.seen = Seen(intent)]]
    BY <1>0, <1>1 DEF ReadIntent, TypeOK
  <2> QED BY <1>0, <2>2, <2>3 DEF TypeOK
<1>2. CASE Verify(m)
  BY <1>0, <1>2, IdleAgain DEF Verify
<1>3. CASE Scanned(m)
  <2>1. [local[m].seen EXCEPT !.scan = None] \in Views
    BY <1>0 DEF Locals, Views
  <2>2. [local[m] EXCEPT !.pc = "lookup", !.seen = [local[m].seen EXCEPT !.scan = None]] \in Locals
    BY <1>0, <2>1 DEF Locals
  <2>3. local' = [local EXCEPT ![m] = [local[m] EXCEPT !.pc = "lookup", !.seen = [local[m].seen EXCEPT !.scan = None]]]
    BY <1>0, <1>3 DEF Scanned, TypeOK
  <2> QED BY <1>0, <2>2, <2>3 DEF TypeOK
<1>4. CASE Scan(m)
  BY <1>0, <1>3, <1>4, IdleAgain DEF Scan
<1>5. CASE Reuse(m)
  BY <1>3, <1>5 DEF Reuse
<1>6. CASE LookUp(m)
  <2> DEFINE place == IF aurora.facts = None THEN "claim" ELSE "recover"
  <2>1. [local[m] EXCEPT !.pc = place, !.facts = aurora.facts] \in Locals
    <3>1. aurora.facts \in Facts \union {None}
      BY <1>0 DEF TypeOK, AuroraRows
    <3> QED BY <1>0, <3>1 DEF Locals
  <2>2. local' = [local EXCEPT ![m] = [local[m] EXCEPT !.pc = place, !.facts = aurora.facts]]
    BY <1>0, <1>6 DEF LookUp, TypeOK
  <2> QED BY <1>0, <2>1, <2>2 DEF TypeOK
<1>7. CASE Claim(m)
  BY <1>0, <1>7, Bounds, LeasedType DEF Claim, Places
<1>8. CASE TakeOver(m)
  <2>1. intent.fence + 1 \in Fences
    BY <1>0, <1>8, Bounds DEF TakeOver, Intents, Fences
  <2>2. (IF intent.status = "quarantined" THEN "validate" ELSE "fence") \in Places
    BY DEF Places
  <2> QED BY <1>0, <1>8, <2>1, <2>2, LeasedType DEF TakeOver
<1>9. CASE Validate(m) \/ ClaimFence(m)
  BY <1>0, <1>9, GotoType DEF Validate, ClaimFence, Places
<1>10. CASE Renew(m)
  <2> DEFINE place == IF At(m, "renew") THEN "refence" ELSE "complete"
  <2>1. [local[m] EXCEPT !.pc = place, !.live = TRUE] \in Locals
    BY <1>0 DEF Locals
  <2>2. local' = [local EXCEPT ![m] = [local[m] EXCEPT !.pc = place, !.live = TRUE]]
    BY <1>0, <1>10 DEF Renew, TypeOK
  <2> QED BY <1>0, <2>1, <2>2 DEF TypeOK
<1> QED BY <1>1, <1>2, <1>4, <1>5, <1>6, <1>7, <1>8, <1>9, <1>10 DEF Prepare

\* The locals of a worker that holds a lease, and of one with a copy.
LEMMA LocalsOf ==
    ASSUME Inv, NEW m \in Message
    PROVE  /\ local[m] \in Locals /\ about[m] \in Version
           /\ Sound(local[m], about[m], kept, aurora.facts, published[about[m]])
BY DEF Inv, TypeOK, AllSound

LEMMA CopyType ==
    ASSUME Inv, NEW m \in Message, UseCopy(m), Adoptable(m)
    PROVE  /\ local' \in [Message -> Locals]
           /\ local' = [local EXCEPT ![m] = [local[m] EXCEPT !.pc = "resolve", !.dest = kept.fence]]
           /\ kept.fence \in Fences
<1>1. kept \in Copies /\ kept.fence \in Fences
  BY DEF Inv, TypeOK, Adoptable, Copies
<1>2. kept.fence \in 0..MaxFence
  BY <1>1, Bounds
<1>3. [local[m] EXCEPT !.pc = "resolve", !.dest = kept.fence] \in Locals
  BY <1>2, LocalsOf DEF Locals
<1>4. local' = [local EXCEPT ![m] = [local[m] EXCEPT !.pc = "resolve", !.dest = kept.fence]]
  BY DEF UseCopy, Inv, TypeOK
<1> QED BY <1>1, <1>3, <1>4 DEF Inv, TypeOK

\* What Execute is about to have signed.
Signing(m) == [source |-> about[m], copy |-> local[m].dest, fence |-> local[m].fence]

LEMMA ExecuteType ==
    ASSUME Inv, NEW m \in Message, Execute(m)
    PROVE  /\ Signing(m) \in Facts
           /\ local' = [local EXCEPT ![m] = [local[m] EXCEPT !.pc = "commit", !.facts = Signing(m)]]
           /\ local' \in [Message -> Locals]
<1>1. local[m].dest \in Fences /\ local[m].fence \in Fences
  BY LocalsOf DEF Sound, Execute, At, Destined, Leasing
<1>2. Signing(m) \in Facts
  BY <1>1, LocalsOf DEF Signing, Facts
<1>3. local' = [local EXCEPT ![m] = [local[m] EXCEPT !.pc = "commit", !.facts = Signing(m)]]
  BY DEF Execute, Signing, Inv, TypeOK
<1> HIDE DEF Signing
<1>4. [local[m] EXCEPT !.pc = "commit", !.facts = Signing(m)] \in Locals
  BY <1>2, LocalsOf DEF Locals
<1> QED BY <1>2, <1>3, <1>4 DEF Inv, TypeOK

LEMMA RecordType ==
    ASSUME Inv, NEW m \in Message, Record(m)
    PROVE  /\ local' = [local EXCEPT ![m] = [local[m] EXCEPT !.pc = "resolve", !.dest = local[m].fence]]
           /\ local' \in [Message -> Locals]
<1>1. [local[m] EXCEPT !.pc = "resolve", !.dest = local[m].fence] \in Locals
  BY LocalsOf DEF Locals
<1>2. local' = [local EXCEPT ![m] = [local[m] EXCEPT !.pc = "resolve", !.dest = local[m].fence]]
  BY DEF Record, Inv, TypeOK
<1> QED BY <1>1, <1>2 DEF Inv, TypeOK

LEMMA PromoteLocals ==
    ASSUME Inv, NEW m \in Message, Promote(m)
    PROVE  local' \in [Message -> Locals]
<1>0. TypeOK
  BY DEF Inv
<1>1. CASE Find(m)
  BY <1>0, <1>1, GotoType, CopyType DEF Find, Places
<1>2. CASE Permit(m) \/ Put(m) \/ Commit(m)
  BY <1>0, <1>2, GotoType DEF Permit, Put, Commit, Places
<1>3. CASE Adopt(m)
  BY <1>3, CopyType DEF Adopt
<1>4. CASE Resolve(m)
  BY <1>0, <1>4, GotoType DEF Resolve, Places, TypeOK
<1>5. CASE Complete(m) \/ Recover(m)
  BY <1>0, <1>5, GotoType DEF Complete, Recover, Publish, Places
<1>6. CASE Delete(m)
  BY <1>0, <1>6, IdleAgain DEF Delete
<1> QED BY <1>1, <1>2, <1>3, <1>4, <1>5, <1>6, RecordType, ExecuteType DEF Promote

LEMMA LocalType == ASSUME Inv, Next PROVE local' \in [Message -> Locals]
<1>0. TypeOK
  BY DEF Inv
<1>1. ASSUME NEW m \in Message, Receive(m) \/ Work(m) \/ Die(m)
      PROVE  local' \in [Message -> Locals]
  <2>1. CASE Receive(m)
    BY <1>0, <2>1, GotoType DEF Receive, Places
  <2>2. CASE Refuse(m) \/ Die(m)
    BY <1>0, <2>2, IdleAgain DEF Refuse, Die
  <2> QED BY <1>1, <2>1, <2>2, PrepareLocals, PromoteLocals DEF Work
<1>2. CASE Lapse
  <2>1. ASSUME NEW m \in Message PROVE [local[m] EXCEPT !.live = FALSE] \in Locals
    <3>1. local[m] \in Locals
      BY <1>0 DEF TypeOK
    <3> QED BY <3>1 DEF Locals
  <2>2. local' = [m \in Message |-> [local[m] EXCEPT !.live = FALSE]]
    BY <1>2 DEF Lapse
  <2> QED BY <2>1, <2>2
<1>3. CASE UNCHANGED local
  BY <1>0, <1>3 DEF TypeOK
<1> QED BY <1>1, <1>2, <1>3 DEF Next, Deadline, Expire, Flag, RejectRead, RejectMark, RejectCommit,
           RejectConfirm, RejectFail

\* The intent.
LEMMA LeaseType ==
    ASSUME Inv, NEW m \in Message, NEW fence \in Fences, NEW status \in Statuses, Lease(m, fence, status)
    PROVE  intent' \in Intents
<1>1. intent \in Intents /\ about[m] \in Version /\ fence \in 0..MaxFence /\ 0 \in Flags
  BY Bounds DEF Inv, TypeOK
<1> QED BY <1>1 DEF Lease, Intents

LEMMA IntentType == ASSUME Inv, Next PROVE intent' \in Intents
<1>0. intent \in Intents /\ 0 \in Flags
  BY Bounds DEF Inv, TypeOK
<1>1. ASSUME NEW m \in Message, Receive(m) \/ Work(m) \/ Die(m)
      PROVE  intent' \in Intents
  <2>0. about[m] \in Version /\ local[m] \in Locals
    BY LocalsOf
  <2>1. CASE Receive(m)
    BY <1>0, <2>1 DEF Receive, Intents
  <2>2. CASE Scan(m)
    <3>1. PICK clean \in BOOLEAN : intent' = [intent EXCEPT !.scan = [source |-> about[m], clean |-> clean]]
      BY <2>2 DEF Scan
    <3>2. [source |-> about[m], clean |-> clean] \in Scans
      BY <2>0 DEF Scans
    <3> QED BY <1>0, <3>1, <3>2 DEF Intents
  <2>3. CASE Claim(m)
    BY <2>3, LeaseType, Bounds DEF Claim, Statuses, Active
  <2>4. CASE TakeOver(m)
    <3>1. intent.fence + 1 \in Fences /\ intent.status \in Statuses
      BY <1>0, <2>4, Bounds DEF TakeOver, Intents, Fences
    <3> QED BY <2>4, <3>1, LeaseType DEF TakeOver
  <2>5. CASE Validate(m)
    BY <1>0, <2>5 DEF Validate, Intents, Statuses, Active
  <2>6. CASE Renew(m)
    BY <1>0, <2>6 DEF Renew, Intents
  <2>7. CASE Permit(m)
    BY <1>0, <2>7 DEF Permit, Intents
  <2>8. CASE Complete(m) \/ Recover(m)
    <3>1. local[m].facts \in Facts
      BY <2>8, LocalsOf DEF Sound, Complete, Recover, At, Accepted
    <3>2. intent' = [intent EXCEPT !.status = "promoted", !.lease = "none", !.flag = 0, !.facts = local[m].facts]
      BY <2>8 DEF Complete, Recover, Publish
    <3> QED BY <1>0, <3>1, <3>2 DEF Intents, Statuses
  <2>9. CASE UNCHANGED intent
    BY <1>0, <2>9
  <2> QED BY <1>1, <2>1, <2>2, <2>3, <2>4, <2>5, <2>6, <2>7, <2>8, <2>9
          DEF Work, Prepare, Promote, ReadIntent, Verify, Reuse, LookUp, ClaimFence, Find, Put, Adopt,
              Record, Resolve, Execute, Commit, Delete, Refuse, Die
<1>2. CASE Lapse
  BY <1>0, <1>2 DEF Lapse, Intents
<1>3. CASE Expire
  BY <1>0, <1>3 DEF Expire, Intents, Statuses
<1>4. CASE Flag
  <2>1. faults' \in Flags
    BY <1>4, FaultType DEF Flag, Inv
  <2> QED BY <1>0, <1>4, <2>1 DEF Flag, Intents
<1>5. CASE RejectMark
  <2>1. rejecter.version \in Version \union {None}
    BY DEF Inv, TypeOK, Rejecters
  <2> QED BY <1>0, <1>5, <2>1 DEF RejectMark, Intents, Statuses
<1>6. CASE RejectConfirm
  BY <1>0, <1>6 DEF RejectConfirm, Intents
<1>7. CASE UNCHANGED intent
  BY <1>0, <1>7
<1> QED BY <1>1, <1>2, <1>3, <1>4, <1>5, <1>6, <1>7 DEF Next, Deadline, RejectRead, RejectCommit, RejectFail

\* Aurora and the lock on its row.
LEMMA AuroraType ==
    ASSUME Inv, Next
    PROVE  aurora' \in AuroraRows /\ tx' \in Message \union {None}
<1>0. aurora \in AuroraRows /\ tx \in Message \union {None}
  BY DEF Inv, TypeOK
<1>1. ASSUME NEW m \in Message, Receive(m) \/ Work(m) \/ Die(m)
      PROVE  aurora' \in AuroraRows /\ tx' \in Message \union {None}
  <2>0. local[m] \in Locals
    BY LocalsOf
  <2>1. CASE ClaimFence(m)
    BY <1>0, <2>0, <2>1 DEF ClaimFence, AuroraRows, Locals
  <2>2. CASE Commit(m)
    <3>1. local[m].facts \in Facts
      BY <2>2, LocalsOf DEF Commit, At, Sound
    <3> QED BY <1>0, <2>2, <3>1 DEF Commit, AuroraRows
  <2>3. CASE Execute(m)
    BY <1>0, <2>3 DEF Execute
  <2>4. CASE UNCHANGED aurora /\ (tx' = tx \/ tx' = None)
    BY <1>0, <2>4
  <2> QED BY <1>1, <2>1, <2>2, <2>3, <2>4
          DEF Work, Prepare, Promote, Receive, ReadIntent, Verify, Scan, Reuse, LookUp, Claim, TakeOver,
              Validate, Renew, Find, Permit, Put, Adopt, Record, Resolve, Complete, Recover, Publish,
              Delete, Refuse, Die, Fail
<1>2. CASE Lapse
  BY <1>0, <1>2 DEF Lapse, AuroraRows
<1>3. CASE RejectCommit
  <2>1. rejecter.version \in Version \union {None}
    BY DEF Inv, TypeOK, Rejecters
  <2> QED BY <1>0, <1>3, <2>1 DEF RejectCommit, AuroraRows
<1>4. CASE UNCHANGED <<aurora, tx>>
  BY <1>0, <1>4
<1> QED BY <1>1, <1>2, <1>3, <1>4 DEF Next, Deadline, Expire, Flag, RejectRead, RejectMark,
           RejectConfirm, RejectFail

\* DynamoDB's other items and the buckets.
LEMMA StoresType ==
    ASSUME Inv, Next
    PROVE  /\ rows' \in [Version -> {"none", "copying", "complete"}]
           /\ attempts' \in [Fences -> {"none", "permitted", "copied", "adopted", "reconciled"}]
           /\ published' \in [Version -> Facts \union {None}]
           /\ sources' \subseteq Version /\ kept' \in Copies \union {None}
<1> DEFINE Typed ==
        /\ rows' \in [Version -> {"none", "copying", "complete"}]
        /\ attempts' \in [Fences -> {"none", "permitted", "copied", "adopted", "reconciled"}]
        /\ published' \in [Version -> Facts \union {None}]
        /\ sources' \subseteq Version /\ kept' \in Copies \union {None}
<1>0. /\ rows \in [Version -> {"none", "copying", "complete"}]
      /\ attempts \in [Fences -> {"none", "permitted", "copied", "adopted", "reconciled"}]
      /\ published \in [Version -> Facts \union {None}]
      /\ sources \subseteq Version /\ kept \in Copies \union {None}
  BY DEF Inv, TypeOK
<1>1. CASE UNCHANGED <<rows, attempts, published, sources, kept>>
  BY <1>0, <1>1
<1>2. ASSUME NEW m \in Message, Claim(m) PROVE Typed
  BY <1>0, <1>2 DEF Claim
<1>3. ASSUME NEW m \in Message, Find(m) \/ Permit(m) \/ Adopt(m) \/ Record(m) \/ Resolve(m)
      PROVE  Typed
  BY <1>0, <1>3 DEF Find, Permit, PermitCopy, Adopt, Record, Resolve, UseCopy, Copied
<1>4. ASSUME NEW m \in Message, Put(m) PROVE Typed
  <2>1. [source |-> about[m], fence |-> local[m].fence] \in Copies
    BY <1>4, LocalsOf DEF Put, At, Sound, Leasing, Copies
  <2> QED BY <1>0, <1>4, <2>1 DEF Put, control
<1>5. ASSUME NEW m \in Message, Complete(m) \/ Recover(m) PROVE Typed
  <2>1. local[m].facts \in Facts
    BY <1>5, LocalsOf DEF Sound, Complete, Recover, At, Accepted
  <2> QED BY <1>0, <1>5, <2>1 DEF Complete, Recover, Publish
<1>6. ASSUME NEW m \in Message, Delete(m) PROVE Typed
  BY <1>0, <1>6 DEF Delete, control
<1> QED BY <1>1, <1>2, <1>3, <1>4, <1>5, <1>6, ZenonT(30)
        DEF Next, Work, Prepare, Promote, Receive, ReadIntent, Verify, Scan, Reuse, LookUp, TakeOver,
            Validate, ClaimFence, Renew, Execute, Commit, Refuse, Die, Lapse, Deadline, Expire, Flag,
            RejectRead, RejectMark, RejectCommit, RejectConfirm, RejectFail, control

\* The queue, the clock, the maintenance actions and the rejecter.
LEMMA QueueType ==
    ASSUME Inv, Next
    PROVE  /\ about' \in [Message -> Version]
           /\ sent' \in [Message -> 0..MaxDeliveries]
           /\ done' \in [Message -> {"open", "acked", "dead"}]
<1>0. /\ TypeOK /\ about \in [Message -> Version] /\ sent \in [Message -> 0..MaxDeliveries]
      /\ done \in [Message -> {"open", "acked", "dead"}]
  BY DEF Inv, TypeOK
<1>1. ASSUME NEW m \in Message, Receive(m)
      PROVE  about' = about /\ done' = done /\ sent' \in [Message -> 0..MaxDeliveries]
  BY <1>0, <1>1, Bounds DEF Receive
<1>2. ASSUME NEW m \in Message, Ack(m) \/ Fail(m)
      PROVE  about' = about /\ sent' = sent /\ done' \in [Message -> {"open", "acked", "dead"}]
  BY <1>0, <1>2, IdleAgain DEF Ack, Fail
<1>3. CASE UNCHANGED queue
  BY <1>0, <1>3 DEF queue
<1> QED BY <1>0, <1>1, <1>2, <1>3, ZenonT(30)
        DEF Next, Work, Prepare, Promote, ReadIntent, Verify, Scan, Reuse, LookUp, Claim, TakeOver,
            Validate, ClaimFence, Renew, Find, Permit, Put, Adopt, Record, Resolve, Execute, Commit,
            Complete, Recover, Publish, Delete, Refuse, Die, Lapse, Deadline, Expire, Flag,
            RejectRead, RejectMark, RejectCommit, RejectConfirm, RejectFail

LEMMA WorldType ==
    ASSUME Inv, Next
    PROVE  /\ actions' \subseteq Flags \ {0}
           /\ late' \in BOOLEAN /\ rejecter' \in Rejecters /\ faults' \in Flags
<1> DEFINE Typed == /\ actions' \subseteq Flags \ {0}
                    /\ late' \in BOOLEAN /\ rejecter' \in Rejecters /\ faults' \in Flags
<1>0. /\ TypeOK /\ actions \subseteq Flags \ {0}
      /\ late \in BOOLEAN /\ rejecter \in Rejecters /\ faults \in Flags /\ 0 \in Flags
  BY Bounds DEF Inv, TypeOK
<1>1. ASSUME NEW m \in Message, Receive(m) \/ Work(m)
      PROVE  Typed
  BY <1>0, <1>1 DEF Work, Prepare, Promote, Receive, ReadIntent, Verify, Scan, Reuse, LookUp, Claim,
            TakeOver, ActionResolved, Validate, ClaimFence, Renew, Find, Permit, PermitCopy, Put, Adopt, Record, Resolve,
            Execute, Commit, Complete, Recover, Publish, Delete, Refuse, world, control
<1>2. ASSUME NEW m \in Message, Die(m) PROVE Typed
  BY <1>0, <1>2, FaultType DEF Die, control
<1>3. CASE Lapse \/ Deadline \/ Expire \/ Flag
  BY <1>0, <1>3, FaultType DEF Lapse, Deadline, Expire, Flag, world, control
<1>4. ASSUME NEW v \in Threat, RejectRead(v) PROVE Typed
  <2>1. v \in Version /\ intent.status \in Statuses /\ intent.flag \in Flags
    BY <1>0, <1>4, PromotionAssumption DEF TypeOK, Intents
  <2>2. rejecter' \in Rejecters
    BY <1>0, <1>4, <2>1 DEF RejectRead, Rejecters, Statuses
  <2> QED BY <1>0, <1>4, <2>2 DEF RejectRead, control
<1>5. CASE RejectMark \/ RejectCommit \/ RejectConfirm \/ RejectFail
  <2>1. Resting \in Rejecters
    BY <1>0 DEF Resting, Rejecters, Statuses, Active
  <2>2. rejecter' \in Rejecters
    BY <1>0, <1>5, <2>1 DEF RejectMark, RejectCommit, RejectConfirm, RejectFail, Rest, Rejecters
  <2>3. faults' \in Flags
    BY <1>0, <1>5, FaultType DEF RejectMark, RejectCommit, RejectConfirm, RejectFail
  <2> QED BY <1>0, <1>5, <2>2, <2>3 DEF RejectMark, ActionResolved, RejectCommit, RejectConfirm, RejectFail, control
<1> QED BY <1>1, <1>2, <1>3, <1>4, <1>5 DEF Next

LEMMA TypeStep == ASSUME Inv, [Next]_vars PROVE TypeOK'
<1>1. CASE UNCHANGED vars
  BY <1>1 DEF Inv, TypeOK, vars, control, queue, world
<1>2. CASE Next
  BY <1>2, LocalType, IntentType, AuroraType, StoresType, QueueType, WorldType DEF TypeOK
<1> QED BY <1>1, <1>2

-----------------------------------------------------------------------------
(* The locals stay sound.                                                   *)

\* What a step may do to the stores: the copy, the acceptance and the receipts
\* are written once.
StoresGrow ==
    /\ about' = about
    /\ kept' = kept \/ kept = None
    /\ aurora'.facts = aurora.facts \/ aurora.facts = None
    /\ \A v \in Version : published[v] # None => published'[v] # None

LEMMA CommitFinds ==
    ASSUME Inv, NEW m \in Message, Commit(m)
    PROVE  /\ aurora.facts = None /\ aurora'.facts = local[m].facts
           /\ local[m].facts \in Facts /\ local[m].facts.source = about[m]
           /\ kept # None /\ kept.source = about[m]
<1>1. tx # None
  BY NoneAssumption DEF Commit
<1>2. aurora.facts = None
  BY <1>1 DEF Inv, Locked
<1>3. aurora \in AuroraRows
  BY DEF Inv, TypeOK
<1>4. aurora'.facts = local[m].facts
  BY <1>3 DEF Commit, AuroraRows
<1> QED BY <1>2, <1>4, LocalsOf DEF Commit, At, Sound, Holding

LEMMA PublishAdds ==
    ASSUME Inv, NEW m \in Message, Complete(m) \/ Recover(m)
    PROVE  /\ local[m].facts \in Facts /\ local[m].facts # None
           /\ local[m].facts.source = about[m] /\ aurora.facts = local[m].facts
           /\ published[about[m]] = None
           /\ published' = [published EXCEPT ![about[m]] = local[m].facts]
           /\ Goto(m, "delete")
           /\ UNCHANGED <<about, sources, kept, aurora, tx>>
<1>1. /\ local[m].facts \in Facts
      /\ local[m].facts.source = about[m] /\ aurora.facts = local[m].facts
  BY LocalsOf DEF Sound, Complete, Recover, At, Accepted
<1> QED BY <1>1, NoneAssumption DEF Complete, Recover, Completable, Publish, queue

LEMMA Growing == ASSUME Inv, Next PROVE StoresGrow
<1>0. published \in [Version -> Facts \union {None}] /\ aurora \in AuroraRows
  BY DEF Inv, TypeOK
<1>1. CASE /\ UNCHANGED <<about, published>> /\ aurora'.facts = aurora.facts
           /\ kept' = kept \/ kept = None
  BY <1>1 DEF StoresGrow
<1>2. ASSUME NEW m \in Message, Put(m) PROVE StoresGrow
  BY <1>1, <1>2 DEF Put, Vacant, control, queue
<1>3. ASSUME NEW m \in Message, Commit(m) PROVE StoresGrow
  BY <1>3, CommitFinds DEF Commit, control, queue, StoresGrow
<1>4. ASSUME NEW m \in Message, Complete(m) \/ Recover(m) PROVE StoresGrow
  BY <1>0, <1>4, PublishAdds, LocalsOf DEF StoresGrow
<1>5. CASE UNCHANGED <<about, published, aurora, kept>>
  BY <1>1, <1>5
<1>6. ASSUME NEW m \in Message, ClaimFence(m) PROVE StoresGrow
  BY <1>0, <1>1, <1>6 DEF ClaimFence, control, queue, AuroraRows
<1>7. CASE Lapse
  BY <1>0, <1>1, <1>7 DEF Lapse, control, queue, AuroraRows
<1>8. CASE RejectCommit
  BY <1>0, <1>1, <1>8 DEF RejectCommit, control, queue, AuroraRows
<1> QED BY <1>2, <1>3, <1>4, <1>5, <1>6, <1>7, <1>8, ZenonT(30)
        DEF Next, Work, Prepare, Promote, Receive, ReadIntent, Verify, Scan, Reuse, LookUp, Claim,
            TakeOver, Validate, Renew, Find, Permit, Adopt, Record, Resolve, Execute, Delete,
            Refuse, Die, Ack, Fail, Deadline, Expire, Flag, RejectRead, RejectMark, RejectConfirm,
            RejectFail, control, queue

\* What holds of a worker's locals goes on holding while others step.
LEMMA StillSound ==
    ASSUME StoresGrow, NEW l, NEW v \in Version,
           Sound(l, v, kept, aurora.facts, published[v])
    PROVE  Sound(l, v, kept', aurora'.facts, published'[v])
BY NoneAssumption DEF StoresGrow, Sound

LEMMA NobodyMoved == ASSUME Inv, StoresGrow, UNCHANGED local PROVE AllSound'
<1>1. ASSUME NEW m \in Message
      PROVE  Sound(local'[m], about'[m], kept', aurora'.facts, published'[about'[m]])
  BY LocalsOf, StillSound DEF StoresGrow
<1> QED BY <1>1 DEF AllSound

LEMMA OneMoved ==
    ASSUME Inv, StoresGrow, NEW m \in Message, NEW l, local' = [local EXCEPT ![m] = l],
           Sound(l, about[m], kept', aurora'.facts, published'[about[m]])
    PROVE  AllSound'
<1>1. about' = about /\ local \in [Message -> Locals]
  BY DEF StoresGrow, Inv, TypeOK
<1>2. ASSUME NEW n \in Message
      PROVE  Sound(local'[n], about'[n], kept', aurora'.facts, published'[about'[n]])
  <2>1. CASE n = m
    BY <1>1, <2>1
  <2>2. CASE n # m
    <3>1. local'[n] = local[n]
      BY <1>1, <2>2
    <3> QED BY <1>1, <3>1, LocalsOf, StillSound
  <2> QED BY <2>1, <2>2
<1> QED BY <1>2 DEF AllSound

\* A worker that starts over, or has no lease yet.
Early == {"idle", "read", "verify", "scan", "lookup", "claim"}

LEMMA EarlySound ==
    ASSUME NEW l, l.pc \in Early, NEW v, NEW k, NEW a, NEW p
    PROVE  Sound(l, v, k, a, p)
BY DEF Early, Sound, Leasing, Holding, Destined, Accepted

LEMMA IdleSound ==
    ASSUME Inv, StoresGrow, NEW m \in Message, Ack(m) \/ Fail(m)
    PROVE  AllSound'
<1>1. Idle.pc \in Early
  BY DEF Idle, Early
<1>2. Sound(Idle, about[m], kept', aurora'.facts, published'[about[m]])
  BY <1>1, EarlySound
<1> QED BY <1>2, IdleAgain, OneMoved DEF Inv

\* A worker goes on, and nothing more has to hold where it goes.
LEMMA KeepSound ==
    ASSUME Inv, StoresGrow, NEW m \in Message, NEW place,
           place \in Leasing => local[m].pc \in Leasing,
           place \in Holding => local[m].pc \in Holding,
           place \in Destined => local[m].pc \in Destined,
           place \notin Accepted \union {"commit", "delete"},
           Goto(m, place)
    PROVE  AllSound'
<1> DEFINE l == [local[m] EXCEPT !.pc = place]
<1>1. local[m] \in Locals /\ about[m] \in Version
  BY LocalsOf
<1>2. Sound(local[m], about[m], kept', aurora'.facts, published'[about[m]])
  BY <1>1, LocalsOf, StillSound
<1>3. l.pc = place /\ l.fence = local[m].fence /\ l.dest = local[m].dest
  BY <1>1 DEF Locals
<1>4. Sound(l, about[m], kept', aurora'.facts, published'[about[m]])
  BY <1>2, <1>3 DEF Sound
<1>5. local' = [local EXCEPT ![m] = l]
  BY DEF Goto, Inv, TypeOK
<1> HIDE DEF l
<1> QED BY <1>4, <1>5, OneMoved

LEMMA PrepareSound ==
    ASSUME Inv, StoresGrow, NEW m \in Message, Prepare(m)
    PROVE  AllSound'
<1>0. local[m] \in Locals /\ about[m] \in Version /\ local \in [Message -> Locals] /\ intent \in Intents
  BY LocalsOf DEF Inv, TypeOK
<1>1. ASSUME NEW l, l.pc \in Early, local' = [local EXCEPT ![m] = l]
      PROVE  AllSound'
  BY <1>1, EarlySound, OneMoved
<1>2. CASE ReadIntent(m)
  <2> DEFINE l == [local[m] EXCEPT !.pc = IF intent.status = "promoted" THEN "verify" ELSE "scan",
                                   !.seen = Seen(intent)]
  <2>1. l.pc \in Early
    BY <1>0 DEF Locals, Early
  <2>2. local' = [local EXCEPT ![m] = l]
    BY <1>0, <1>2 DEF ReadIntent
  <2> HIDE DEF l
  <2> QED BY <1>1, <2>1, <2>2
<1>3. CASE Scanned(m)
  <2> DEFINE l == [local[m] EXCEPT !.pc = "lookup", !.seen = [local[m].seen EXCEPT !.scan = None]]
  <2>1. l.pc \in Early
    BY <1>0 DEF Locals, Early
  <2>2. local' = [local EXCEPT ![m] = l]
    BY <1>0, <1>3 DEF Scanned
  <2> HIDE DEF l
  <2> QED BY <1>1, <2>1, <2>2
<1>4. CASE Verify(m) \/ Scan(m) \/ Reuse(m)
  BY <1>3, <1>4, IdleSound DEF Verify, Scan, Reuse
<1>5. CASE LookUp(m)
  <2> DEFINE l == [local[m] EXCEPT !.pc = IF aurora.facts = None THEN "claim" ELSE "recover",
                                   !.facts = aurora.facts]
  <2>1. local' = [local EXCEPT ![m] = l] /\ aurora' = aurora
    BY <1>0, <1>5 DEF LookUp
  <2>2. CASE aurora.facts = None
    <3>1. l.pc \in Early
      BY <1>0, <2>2 DEF Locals, Early
    <3> HIDE DEF l
    <3> QED BY <1>1, <2>1, <3>1
  <2>3. CASE aurora.facts # None
    <3>1. l.pc = "recover" /\ l.facts = aurora.facts
      BY <1>0, <2>3 DEF Locals
    <3>2. aurora.facts \in Facts /\ aurora.facts.source = about[m]
      BY <1>5, <2>3 DEF LookUp, Acceptable, Inv, TypeOK, AuroraRows
    <3>3. Sound(l, about[m], kept', aurora'.facts, published'[about[m]])
      BY <2>1, <3>1, <3>2 DEF Sound, Leasing, Holding, Destined, Accepted
    <3> HIDE DEF l
    <3> QED BY <2>1, <3>3, OneMoved
  <2> QED BY <2>2, <2>3
<1>6. ASSUME NEW fence \in Fences, NEW place \in {"validate", "fence"}, Leased(m, fence, place)
      PROVE  AllSound'
  <2> DEFINE l == [Idle EXCEPT !.pc = place, !.fence = fence, !.live = TRUE]
  <2>1. l.pc = place /\ l.fence = fence
    BY DEF Idle
  <2>2. Sound(l, about[m], kept', aurora'.facts, published'[about[m]])
    BY <1>6, <2>1 DEF Sound, Leasing, Holding, Destined, Accepted
  <2>3. local' = [local EXCEPT ![m] = l]
    BY <1>6 DEF Leased
  <2> HIDE DEF l
  <2> QED BY <2>2, <2>3, OneMoved
<1>7. CASE Claim(m)
  BY <1>6, <1>7, Bounds DEF Claim
<1>8. CASE TakeOver(m)
  <2>1. intent.fence + 1 \in Fences
    BY <1>0, <1>8, Bounds DEF TakeOver, Intents, Fences
  <2>2. (IF intent.status = "quarantined" THEN "validate" ELSE "fence") \in {"validate", "fence"}
    OBVIOUS
  <2> QED BY <1>6, <1>8, <2>1, <2>2 DEF TakeOver
<1>9. CASE Validate(m)
  BY <1>9, KeepSound DEF Validate, At, Leasing, Holding, Destined, Accepted
<1>10. CASE ClaimFence(m)
  <2>1. CASE At(m, "fence")
    BY <1>10, <2>1, KeepSound DEF ClaimFence, At, Leasing, Holding, Destined, Accepted
  <2>2. CASE ~At(m, "fence") /\ At(m, "refence")
    BY <1>10, <2>2, KeepSound DEF ClaimFence, At, Leasing, Holding, Destined, Accepted
  <2> QED BY <1>10, <2>1, <2>2 DEF ClaimFence
<1>11. CASE Renew(m)
  <2> DEFINE l == [local[m] EXCEPT !.pc = IF At(m, "renew") THEN "refence" ELSE "complete", !.live = TRUE]
  <2>1. local' = [local EXCEPT ![m] = l]
    BY <1>0, <1>11 DEF Renew
  <2>2. Sound(local[m], about[m], kept', aurora'.facts, published'[about[m]])
    BY <1>0, LocalsOf, StillSound
  <2>3. /\ l.pc = (IF At(m, "renew") THEN "refence" ELSE "complete")
        /\ l.fence = local[m].fence /\ l.dest = local[m].dest /\ l.facts = local[m].facts
    BY <1>0 DEF Locals
  <2>4. Sound(l, about[m], kept', aurora'.facts, published'[about[m]])
    BY <1>11, <2>2, <2>3 DEF Sound, Renew, At, Leasing, Holding, Destined, Accepted
  <2> HIDE DEF l
  <2> QED BY <2>1, <2>4, OneMoved
<1> QED BY <1>2, <1>4, <1>5, <1>7, <1>8, <1>9, <1>10, <1>11 DEF Prepare


\* A worker that found the object, or wrote it.
LEMMA CopySound ==
    ASSUME Inv, StoresGrow, NEW m \in Message, kept' # None, kept'.source = about[m],
           NEW fence \in Fences, local[m].pc \in Leasing,
           local' = [local EXCEPT ![m] = [local[m] EXCEPT !.pc = "resolve", !.dest = fence]]
    PROVE  AllSound'
<1> DEFINE l == [local[m] EXCEPT !.pc = "resolve", !.dest = fence]
<1>1. local[m] \in Locals /\ about[m] \in Version
  BY LocalsOf
<1>2. l.pc = "resolve" /\ l.fence = local[m].fence /\ l.dest = fence /\ local[m].fence \in Fences
  BY <1>1, LocalsOf DEF Locals, Sound
<1>3. Sound(l, about[m], kept', aurora'.facts, published'[about[m]])
  BY <1>2 DEF Sound, Leasing, Holding, Destined, Accepted
<1> HIDE DEF l
<1> QED BY <1>3, OneMoved DEF l

LEMMA PromoteSound ==
    ASSUME Inv, StoresGrow, NEW m \in Message, Promote(m)
    PROVE  AllSound'
<1>0. local[m] \in Locals /\ about[m] \in Version /\ local \in [Message -> Locals]
  BY LocalsOf DEF Inv, TypeOK
<1>s. Sound(local[m], about[m], kept', aurora'.facts, published'[about[m]])
  BY <1>0, LocalsOf, StillSound
<1>1. CASE Find(m)
  <2>1. CASE Goto(m, "permit")
    BY <1>1, <2>1, KeepSound DEF Find, At, Leasing, Holding, Destined, Accepted
  <2>2. CASE Adoptable(m) /\ UseCopy(m)
    BY <1>1, <2>2, CopyType, CopySound DEF Find, At, Adoptable, Leasing
  <2> QED BY <1>1, <2>1, <2>2 DEF Find
<1>2. CASE Permit(m)
  BY <1>2, KeepSound DEF Permit, At, Leasing, Holding, Destined, Accepted
<1>3. CASE Put(m)
  <2> DEFINE l == [local[m] EXCEPT !.pc = "record"]
  <2>1. l.pc = "record" /\ l.fence = local[m].fence
    BY <1>0 DEF Locals
  <2>2. kept' # None /\ kept'.source = about[m]
    <3>1. local[m].fence \in Fences
      BY <1>3, LocalsOf DEF Put, At, Sound, Leasing
    <3>2. kept' \in Copies
      BY <1>0, <1>3, <3>1 DEF Put, Copies
    <3> QED BY <1>3, <3>2, NoneAssumption DEF Put
  <2>3. Sound(l, about[m], kept', aurora'.facts, published'[about[m]])
    BY <1>3, <1>s, <2>1, <2>2 DEF Sound, Put, At, Leasing, Holding, Destined, Accepted
  <2>4. local' = [local EXCEPT ![m] = l]
    BY <1>0, <1>3 DEF Put, Goto
  <2> HIDE DEF l
  <2> QED BY <2>3, <2>4, OneMoved
<1>4. CASE Adopt(m)
  BY <1>4, CopyType, CopySound DEF Adopt, Adoptable, At, Leasing
<1>5. CASE Record(m)
  <2>1. local[m].fence \in Fences /\ kept # None /\ kept.source = about[m] /\ local[m].pc \in Leasing
    BY <1>5, LocalsOf DEF Record, At, Sound, Leasing, Holding
  <2> QED BY <1>5, <2>1, RecordType, CopySound DEF Record
<1>6. CASE Resolve(m)
  <2>1. CASE UNCHANGED local
    BY <2>1, NobodyMoved
  <2>2. CASE Goto(m, "renew")
    BY <1>6, <2>2, KeepSound DEF Resolve, At, Leasing, Holding, Destined, Accepted
  <2> QED BY <1>6, <2>1, <2>2 DEF Resolve
<1>7. CASE Execute(m)
  <2> DEFINE l == [local[m] EXCEPT !.pc = "commit", !.facts = Signing(m)]
  <2>1. Signing(m) \in Facts /\ local' = [local EXCEPT ![m] = l] /\ Signing(m).source = about[m]
    BY <1>7, ExecuteType DEF Signing
  <2> HIDE DEF Signing
  <2>2. l.pc = "commit" /\ l.fence = local[m].fence /\ l.facts = Signing(m)
    BY <1>0 DEF Locals
  <2>3. Sound(l, about[m], kept', aurora'.facts, published'[about[m]])
    BY <1>7, <1>s, <2>1, <2>2 DEF Sound, Execute, At, Leasing, Holding, Destined, Accepted
  <2> HIDE DEF l
  <2> QED BY <2>1, <2>3, OneMoved
<1>8. CASE Commit(m)
  <2> DEFINE l == [local[m] EXCEPT !.pc = "renewAgain"]
  <2>1. local' = [local EXCEPT ![m] = l]
    BY <1>0, <1>8 DEF Commit, Goto
  <2>2. l.pc = "renewAgain" /\ l.fence = local[m].fence /\ l.facts = local[m].facts
    BY <1>0 DEF Locals
  <2>3. local[m].fence \in Fences
    BY <1>8, LocalsOf DEF Commit, At, Sound, Leasing
  <2>4. Sound(l, about[m], kept', aurora'.facts, published'[about[m]])
    BY <1>8, <2>2, <2>3, CommitFinds DEF Sound, Leasing, Holding, Destined, Accepted
  <2> HIDE DEF l
  <2> QED BY <2>1, <2>4, OneMoved
<1>9. CASE Complete(m) \/ Recover(m)
  <2> DEFINE l == [local[m] EXCEPT !.pc = "delete"]
  <2>1. local' = [local EXCEPT ![m] = l]
    BY <1>0, <1>9, PublishAdds DEF Goto
  <2>2. l.pc = "delete"
    BY <1>0 DEF Locals
  <2>3. published'[about[m]] # None
    BY <1>0, <1>9, PublishAdds DEF Inv, TypeOK
  <2>4. Sound(l, about[m], kept', aurora'.facts, published'[about[m]])
    BY <2>2, <2>3 DEF Sound, Leasing, Holding, Destined, Accepted
  <2> HIDE DEF l
  <2> QED BY <2>1, <2>4, OneMoved
<1>10. CASE Delete(m)
  BY <1>10, IdleSound DEF Delete
<1> QED BY <1>1, <1>2, <1>3, <1>4, <1>5, <1>6, <1>7, <1>8, <1>9, <1>10 DEF Promote

LEMMA SoundStep == ASSUME Inv, Next PROVE AllSound'
<1>0. StoresGrow /\ local \in [Message -> Locals]
  BY Growing DEF Inv, TypeOK
<1>1. ASSUME NEW m \in Message, Receive(m) \/ Work(m) \/ Die(m)
      PROVE  AllSound'
  <2>1. CASE Receive(m)
    BY <1>0, <2>1, KeepSound DEF Receive, Leasing, Holding, Destined, Accepted
  <2>2. CASE Refuse(m) \/ Die(m)
    BY <1>0, <2>2, IdleSound DEF Refuse, Die
  <2> QED BY <1>0, <1>1, <2>1, <2>2, PrepareSound, PromoteSound DEF Work
<1>2. CASE Lapse
  <2>1. ASSUME NEW m \in Message
        PROVE  Sound(local'[m], about'[m], kept', aurora'.facts, published'[about'[m]])
    <3>1. local'[m] = [local[m] EXCEPT !.live = FALSE]
      BY <1>2 DEF Lapse
    <3>2. /\ local'[m].pc = local[m].pc /\ local'[m].fence = local[m].fence
          /\ local'[m].dest = local[m].dest /\ local'[m].facts = local[m].facts
      BY <3>1, LocalsOf DEF Locals
    <3>3. Sound(local[m], about[m], kept', aurora'.facts, published'[about[m]])
      BY <1>0, LocalsOf, StillSound
    <3> QED BY <1>0, <3>2, <3>3 DEF Sound, StoresGrow
  <2> QED BY <2>1 DEF AllSound
<1>3. CASE UNCHANGED local
  BY <1>0, <1>3, NobodyMoved
<1> QED BY <1>1, <1>2, <1>3 DEF Next, Deadline, Expire, Flag, RejectRead, RejectMark, RejectCommit,
           RejectConfirm, RejectFail


\* The receipt appears only when the row lock is given up.
LEMMA LockedStep == ASSUME Inv, Next PROVE Locked'
<1>0. Locked /\ aurora \in AuroraRows
  BY DEF Inv, TypeOK
<1>1. CASE aurora'.facts = aurora.facts /\ (tx' = tx \/ tx' = None)
  BY <1>0, <1>1 DEF Locked
<1>2. ASSUME NEW m \in Message, Execute(m) PROVE Locked'
  BY <1>2 DEF Execute, Locked
<1>3. ASSUME NEW m \in Message, Commit(m) PROVE Locked'
  BY <1>3 DEF Commit, Locked
<1>4. ASSUME NEW m \in Message, ClaimFence(m) PROVE Locked'
  BY <1>0, <1>1, <1>4 DEF ClaimFence, AuroraRows
<1>5. CASE Lapse \/ RejectCommit
  BY <1>0, <1>1, <1>5 DEF Lapse, RejectCommit, AuroraRows
<1>6. CASE UNCHANGED aurora /\ (tx' = tx \/ tx' = None)
  BY <1>1, <1>6
<1>7. CASE Deadline \/ RejectFail
  BY <1>6, <1>7 DEF Deadline, RejectFail
<1>8. ASSUME NEW m \in Message, Receive(m) \/ Prepare(m) \/ Refuse(m) \/ Die(m) PROVE Locked'
  BY <1>4, <1>6, <1>8 DEF Receive, Prepare, ReadIntent, Verify, Scan, Reuse, LookUp, Claim, TakeOver,
          Validate, Renew, Refuse, Die, Fail
<1>9. ASSUME NEW m \in Message, Promote(m) PROVE Locked'
  BY <1>2, <1>3, <1>6, <1>9 DEF Promote, Find, Permit, Put, Adopt, Record, Resolve, Complete, Recover,
          Publish, Delete
<1>10. CASE Expire \/ Flag \/ RejectMark \/ RejectConfirm \/ \E v \in Threat : RejectRead(v)
  BY <1>6, <1>10 DEF Expire, Flag, RejectMark, RejectConfirm, RejectRead
<1> QED BY <1>5, <1>7, <1>8, <1>9, <1>10 DEF Next, Work

LEMMA InvInit == ASSUME Init PROVE Inv
<1>1. TypeOK
  <2>1. Issued \in Intents
    BY Bounds DEF Issued, Intents, Statuses, Active
  <2>2. aurora \in AuroraRows
    BY Bounds DEF Init, AuroraRows
  <2>3. Resting \in Rejecters
    BY Bounds DEF Resting, Rejecters, Statuses, Active
  <2>4. /\ about \in [Message -> Version] /\ local \in [Message -> Locals]
        /\ sent \in [Message -> 0..MaxDeliveries] /\ done \in [Message -> {"open", "acked", "dead"}]
    BY IdleType, Bounds DEF Init
  <2>5. /\ rows \in [Version -> {"none", "copying", "complete"}]
        /\ attempts \in [Fences -> {"none", "permitted", "copied", "adopted", "reconciled"}]
        /\ published \in [Version -> Facts \union {None}]
    BY DEF Init
  <2> QED BY <2>1, <2>2, <2>3, <2>4, <2>5, Bounds DEF Init, TypeOK
<1>2. AllSound
  <2>1. ASSUME NEW m \in Message PROVE local[m].pc \in Early
    BY DEF Init, Idle, Early
  <2> QED BY <2>1, EarlySound DEF AllSound
<1> QED BY <1>1, <1>2 DEF Inv, Init, Locked

LEMMA InvStep == ASSUME Inv, [Next]_vars PROVE Inv'
<1>1. CASE UNCHANGED vars
  <2>1. UNCHANGED <<about, local, kept, aurora, published, tx>>
    BY <1>1 DEF vars, control, queue
  <2>2. AllSound' /\ Locked'
    BY <2>1 DEF Inv, AllSound, Locked
  <2> QED BY <1>1, <2>2, TypeStep DEF Inv
<1>2. CASE Next
  BY <1>2, TypeStep, SoundStep, LockedStep DEF Inv
<1> QED BY <1>1, <1>2

LEMMA Invariant == Spec => []Inv
<1>1. Init => Inv
  BY InvInit
<1>2. Inv /\ [Next]_vars => Inv'
  BY InvStep
<1> QED BY <1>1, <1>2, PTL DEF Spec

\* Every variable keeps its type: the fences, the signed facts and what the
\* workers of promote-evidence keep of them are well formed throughout.
THEOREM TypeCorrect == Spec => []TypeOK
<1>1. Inv => TypeOK
  BY DEF Inv
<1> QED BY <1>1, Invariant, PTL

-----------------------------------------------------------------------------
(* Custody.                                                                 *)

Published == {v \in Version : published[v] # None}

LEMMA NotInCustody ==
    ASSUME UNCHANGED <<sources, kept, published>>, aurora'.facts = aurora.facts
    PROVE  UNCHANGED Custody!vars
BY DEF Custody!vars, SourceOf

LEMMA CustodyWork ==
    ASSUME Inv, NEW m \in Message, Put(m) \/ Commit(m) \/ Complete(m) \/ Recover(m) \/ Delete(m)
    PROVE  Custody!Next \/ UNCHANGED Custody!vars
<1>0. about[m] \in Version
  BY LocalsOf
<1>1. CASE Put(m)
  <2>1. [source |-> about[m], fence |-> local[m].fence] \in Copies
    BY <1>1, LocalsOf DEF Put, At, Sound, Leasing, Copies
  <2>2. kept = None /\ kept' # None /\ kept'.source = about[m]
    BY <1>1, <2>1, NoneAssumption DEF Put, Vacant
  <2>3. \E v \in Version : Custody!Keep(v)
    BY <1>0, <1>1, <2>2 DEF Put, Present, control, Custody!Keep, SourceOf
  <2> QED BY <2>3 DEF Custody!Next
<1>2. CASE Commit(m)
  <2>1. /\ aurora.facts = None /\ aurora'.facts # None /\ aurora'.facts.source = about[m]
        /\ kept # None /\ kept.source = about[m]
    BY <1>2, CommitFinds, NoneAssumption
  <2>2. Custody!Accept(about[m])
    BY <1>2, <2>1 DEF Commit, control, Custody!Accept, SourceOf
  <2> QED BY <1>0, <2>2 DEF Custody!Next
<1>3. CASE Complete(m) \/ Recover(m)
  <2>1. about[m] \notin Published /\ Published' = Published \union {about[m]}
    BY <1>0, <1>3, PublishAdds DEF Published, Inv, TypeOK
  <2>2. SourceOf(aurora.facts) = about[m] /\ UNCHANGED <<sources, kept, aurora>>
    BY <1>3, PublishAdds DEF SourceOf
  <2>3. \E v \in Version : Custody!Publish(v)
    BY <1>0, <2>1, <2>2 DEF Custody!Publish, Published, SourceOf
  <2> QED BY <2>3 DEF Custody!Next
<1>4. CASE Delete(m)
  <2>1. published[about[m]] # None
    BY <1>4, LocalsOf DEF Delete, At, Sound
  <2>2. sources' = sources \ {about[m]} /\ UNCHANGED <<kept, published, aurora>>
    BY <1>4 DEF Delete, control
  <2>3. CASE about[m] \in sources
    <3>1. Custody!Release(about[m])
      BY <1>0, <2>1, <2>2, <2>3 DEF Custody!Release, SourceOf
    <3> QED BY <1>0, <3>1 DEF Custody!Next
  <2>4. CASE about[m] \notin sources
    BY <2>2, <2>4, NotInCustody
  <2> QED BY <2>3, <2>4
<1> QED BY <1>1, <1>2, <1>3, <1>4

LEMMA CustodyStep == ASSUME Inv, [Next]_vars PROVE [Custody!Next]_(Custody!vars)
<1>0. aurora \in AuroraRows
  BY DEF Inv, TypeOK
<1>1. ASSUME NEW m \in Message, ClaimFence(m) PROVE UNCHANGED Custody!vars
  BY <1>0, <1>1, NotInCustody DEF ClaimFence, control, AuroraRows
<1>2. CASE Lapse \/ RejectCommit
  BY <1>0, <1>2, NotInCustody DEF Lapse, RejectCommit, control, AuroraRows
<1>3. CASE UNCHANGED <<sources, kept, published, aurora>>
  BY <1>3, NotInCustody
<1>4. CASE UNCHANGED vars
  BY <1>3, <1>4 DEF vars, control
<1> QED BY <1>1, <1>2, <1>3, <1>4, CustodyWork, ZenonT(30)
        DEF Next, Work, Prepare, Promote, Receive, ReadIntent, Verify, Scan, Reuse, LookUp, Claim,
            TakeOver, Validate, Renew, Find, Permit, Adopt, Record, Resolve, Execute, Refuse, Die,
            Deadline, Expire, Flag, RejectRead, RejectMark, RejectConfirm, RejectFail, control

\* The bytes of a version are somewhere at every moment, whichever workers
\* die, race or come too late: a version is kept before it is accepted, is
\* accepted once, and leaves the quarantine bucket only after the recovery
\* receipt is published (deleteExactSource, promote-evidence/index.mjs).
THEOREM PromotionKeepsCustody == Spec => IsEvidenceCustody
<1>1. Init => Custody!Init
  BY DEF Init, Custody!Init, SourceOf
<1>2. Inv /\ [Next]_vars => [Custody!Next]_(Custody!vars)
  BY CustodyStep
<1> QED BY <1>1, <1>2, Invariant, PTL DEF Spec, IsEvidenceCustody, Custody!Spec


-----------------------------------------------------------------------------
(* Maintenance actions.                                                     *)

\* A worker that took a lease resolved the action it had read, and an intent
\* that nobody leased was never flagged.
Unflagged(l) == l.pc \in Leasing => l.seen.flag = 0
FlagInv ==
    /\ FlagsMatchLedger
    /\ intent.status = "issued" => intent.flag = 0
    /\ \A m \in Message : Unflagged(local[m])

LEMMA GotoUnflagged ==
    ASSUME Inv, FlagInv, NEW m \in Message, NEW place, Goto(m, place),
           place \in Leasing => local[m].pc \in Leasing
    PROVE  \A n \in Message : Unflagged(local'[n])
<1> DEFINE l == [local[m] EXCEPT !.pc = place]
<1>1. l.pc = place /\ l.seen = local[m].seen
  BY LocalsOf DEF Locals
<1>2. Unflagged(l)
  BY <1>1 DEF FlagInv, Unflagged
<1>3. local' = [local EXCEPT ![m] = l] /\ local \in [Message -> Locals]
  BY DEF Goto, Inv, TypeOK
<1> HIDE DEF l
<1> QED BY <1>2, <1>3 DEF FlagInv

LEMMA WorkUnflagged ==
    ASSUME Inv, FlagInv, NEW m \in Message, Receive(m) \/ Work(m) \/ Die(m)
    PROVE  \A n \in Message : Unflagged(local'[n])
<1> DEFINE Good == \A n \in Message : Unflagged(local'[n])
<1>0. local[m] \in Locals /\ local \in [Message -> Locals]
  BY LocalsOf DEF Inv, TypeOK
<1>1. ASSUME NEW l, local' = [local EXCEPT ![m] = l], l.pc \in Leasing => l.seen.flag = 0
      PROVE  Good
  BY <1>0, <1>1 DEF FlagInv, Unflagged
<1>2. CASE Ack(m) \/ Fail(m)
  <2>1. Idle.pc \notin Leasing
    BY DEF Idle, Leasing
  <2>2. local' = [local EXCEPT ![m] = Idle]
    BY <1>2 DEF Ack, Fail
  <2> QED BY <1>1, <2>1, <2>2
<1>3. CASE ReadIntent(m)
  <2> DEFINE l == [local[m] EXCEPT !.pc = IF intent.status = "promoted" THEN "verify" ELSE "scan",
                                   !.seen = Seen(intent)]
  <2>1. l.pc \notin Leasing
    BY <1>0 DEF Locals, Leasing
  <2>2. local' = [local EXCEPT ![m] = l]
    BY <1>0, <1>3 DEF ReadIntent
  <2> HIDE DEF l
  <2> QED BY <1>1, <2>1, <2>2
<1>4. CASE Scanned(m)
  <2> DEFINE l == [local[m] EXCEPT !.pc = "lookup", !.seen = [local[m].seen EXCEPT !.scan = None]]
  <2>1. l.pc \notin Leasing
    BY <1>0 DEF Locals, Leasing
  <2>2. local' = [local EXCEPT ![m] = l]
    BY <1>0, <1>4 DEF Scanned
  <2> HIDE DEF l
  <2> QED BY <1>1, <2>1, <2>2
<1>5. CASE LookUp(m)
  <2> DEFINE l == [local[m] EXCEPT !.pc = IF aurora.facts = None THEN "claim" ELSE "recover",
                                   !.facts = aurora.facts]
  <2>1. l.pc \notin Leasing
    BY <1>0 DEF Locals, Leasing
  <2>2. local' = [local EXCEPT ![m] = l]
    BY <1>0, <1>5 DEF LookUp
  <2> HIDE DEF l
  <2> QED BY <1>1, <2>1, <2>2
<1>6. ASSUME NEW fence, NEW place, Leased(m, fence, place) PROVE Good
  <2> DEFINE l == [Idle EXCEPT !.pc = place, !.fence = fence, !.live = TRUE]
  <2>1. l.seen.flag = 0
    BY DEF Idle, Seen, Issued
  <2>2. local' = [local EXCEPT ![m] = l]
    BY <1>6 DEF Leased
  <2> HIDE DEF l
  <2> QED BY <1>1, <2>1, <2>2
<1>7. ASSUME NEW l, local' = [local EXCEPT ![m] = l], l.seen = local[m].seen, local[m].pc \in Leasing
      PROVE  Good
  BY <1>1, <1>7 DEF FlagInv, Unflagged
<1>8. CASE Renew(m)
  <2> DEFINE l == [local[m] EXCEPT !.pc = IF At(m, "renew") THEN "refence" ELSE "complete", !.live = TRUE]
  <2>1. l.seen = local[m].seen
    BY <1>0 DEF Locals
  <2>2. local' = [local EXCEPT ![m] = l]
    BY <1>0, <1>8 DEF Renew
  <2>3. local[m].pc \in Leasing
    BY <1>8 DEF Renew, At, Leasing
  <2> HIDE DEF l
  <2> QED BY <1>7, <2>1, <2>2, <2>3
<1>9. CASE UseCopy(m) /\ Adoptable(m) /\ local[m].pc \in Leasing
  <2> DEFINE l == [local[m] EXCEPT !.pc = "resolve", !.dest = kept.fence]
  <2>1. l.seen = local[m].seen
    BY <1>0 DEF Locals
  <2>2. local' = [local EXCEPT ![m] = l]
    BY <1>0, <1>9, CopyType
  <2>3. local[m].pc \in Leasing
    BY <1>9 DEF At, Leasing
  <2> HIDE DEF l
  <2> QED BY <1>7, <2>1, <2>2, <2>3
<1>10. CASE Record(m)
  <2> DEFINE l == [local[m] EXCEPT !.pc = "resolve", !.dest = local[m].fence]
  <2>1. l.seen = local[m].seen
    BY <1>0 DEF Locals
  <2>2. local' = [local EXCEPT ![m] = l]
    BY <1>0, <1>10, RecordType
  <2>3. local[m].pc \in Leasing
    BY <1>10 DEF Record, At, Leasing
  <2> HIDE DEF l
  <2> QED BY <1>7, <2>1, <2>2, <2>3
<1>11. CASE Execute(m)
  <2> DEFINE l == [local[m] EXCEPT !.pc = "commit", !.facts = Signing(m)]
  <2>1. l.seen = local[m].seen
    BY <1>0 DEF Locals
  <2>2. local' = [local EXCEPT ![m] = l]
    BY <1>0, <1>11, ExecuteType
  <2>3. local[m].pc \in Leasing
    BY <1>11 DEF Execute, At, Leasing
  <2> HIDE DEF l
  <2> QED BY <1>7, <2>1, <2>2, <2>3
<1>12. CASE UNCHANGED local
  BY <1>12 DEF FlagInv
<1>13. CASE Receive(m)
  BY <1>13, GotoUnflagged DEF Receive, Leasing
<1>14. CASE Validate(m) \/ Permit(m) \/ Put(m) \/ Commit(m)
  BY <1>14, GotoUnflagged DEF Validate, Permit, Put, Commit, At, Leasing
<1>15. CASE Complete(m) \/ Recover(m)
  BY <1>15, GotoUnflagged DEF Complete, Recover, Publish, Leasing
<1>16. CASE ClaimFence(m)
  BY <1>16, GotoUnflagged DEF ClaimFence, At, Leasing
<1>17. CASE Find(m)
  BY <1>9, <1>17, GotoUnflagged DEF Find, At, Leasing
<1>18. CASE Resolve(m)
  BY <1>12, <1>18, GotoUnflagged DEF Resolve, At, Leasing
<1>19. CASE Adopt(m)
  BY <1>9, <1>19 DEF Adopt, At, Leasing
<1> QED BY <1>2, <1>3, <1>4, <1>5, <1>6, <1>8, <1>10, <1>11, <1>13, <1>14, <1>15, <1>16, <1>17,
           <1>18, <1>19
        DEF Work, Prepare, Promote, Verify, Scan, Reuse, Claim, TakeOver, Delete, Refuse, Die


LEMMA LedgerStep ==
    ASSUME Inv, FlagInv, Next
    PROVE  FlagsMatchLedger' /\ (intent'.status = "issued" => intent'.flag = 0)
<1> DEFINE Good == FlagsMatchLedger' /\ (intent'.status = "issued" => intent'.flag = 0)
<1>0. /\ intent \in Intents /\ actions = {intent.flag} \ {0}
      /\ intent.status = "issued" => intent.flag = 0
  BY DEF Inv, TypeOK, FlagInv, FlagsMatchLedger
<1>1. CASE /\ intent'.flag = intent.flag /\ actions' = actions
           /\ intent'.status = "issued" => intent.status = "issued"
  BY <1>0, <1>1 DEF FlagsMatchLedger
<1>2. CASE intent'.flag = 0 /\ actions' \subseteq actions \ {intent.flag}
  BY <1>0, <1>2 DEF FlagsMatchLedger
<1>3. CASE UNCHANGED <<intent, actions>>
  BY <1>1, <1>3
<1>4. ASSUME NEW m \in Message, Receive(m) \/ Work(m) \/ Die(m) PROVE Good
  <2>1. CASE Receive(m) \/ Scan(m) \/ Validate(m) \/ Renew(m) \/ Permit(m)
    BY <1>0, <1>1, <2>1 DEF Receive, Scan, Validate, Renew, Permit, control, Intents
  <2>2. CASE Claim(m)
    BY <1>0, <1>2, <2>2 DEF Claim, Claimable, Lease, Intents
  <2>3. CASE TakeOver(m)
    BY <1>0, <1>2, <2>3 DEF TakeOver, ActionResolved, Lease, Intents
  <2>4. CASE Complete(m)
    <3>1. intent.flag = 0
      BY <2>4 DEF Complete, Completable, At, Leasing, FlagInv, Unflagged
    <3> QED BY <1>0, <1>2, <2>4, <3>1 DEF Complete, Publish, Intents
  <2>5. CASE Recover(m)
    BY <1>0, <1>2, <2>5 DEF Recover, ActionResolved, Publish, Intents
  <2> QED BY <1>3, <1>4, <2>1, <2>2, <2>3, <2>4, <2>5
          DEF Work, Prepare, Promote, ReadIntent, Verify, Reuse, LookUp, ClaimFence, Find, Put, Adopt,
              Record, Resolve, Execute, Commit, Delete, Refuse, Die, control
<1>5. CASE Lapse \/ Expire \/ RejectConfirm
  BY <1>0, <1>1, <1>5 DEF Lapse, Expire, RejectConfirm, control, Intents
<1>6. CASE Flag
  <2>1. faults' # 0 /\ intent.flag = 0 /\ intent.status # "issued"
    BY <1>6, FaultType DEF Flag, Orphaned, Inv
  <2>2. intent'.flag = faults' /\ intent'.status = intent.status /\ actions' = actions \union {faults'}
    BY <1>0, <1>6 DEF Flag, Intents
  <2>3. actions' = {faults'}
    BY <1>0, <2>1, <2>2
  <2> QED BY <2>1, <2>2, <2>3 DEF FlagsMatchLedger
<1>7. CASE RejectMark
  BY <1>0, <1>2, <1>7 DEF RejectMark, ActionResolved, Intents
<1> QED BY <1>3, <1>4, <1>5, <1>6, <1>7 DEF Next, Deadline, RejectRead, RejectCommit, RejectFail, control

LEMMA FlagStep == ASSUME Inv, FlagInv, [Next]_vars PROVE FlagInv'
<1>1. CASE UNCHANGED vars
  BY <1>1 DEF vars, control, FlagInv, FlagsMatchLedger
<1>2. CASE Next
  <2>1. \A n \in Message : Unflagged(local'[n])
    <3>1. ASSUME NEW m \in Message, Receive(m) \/ Work(m) \/ Die(m)
          PROVE  \A n \in Message : Unflagged(local'[n])
      BY <3>1, WorkUnflagged
    <3>2. CASE Lapse
      <4>1. ASSUME NEW n \in Message PROVE Unflagged(local'[n])
        <5>1. local'[n] = [local[n] EXCEPT !.live = FALSE]
          BY <3>2 DEF Lapse
        <5>2. local'[n].pc = local[n].pc /\ local'[n].seen = local[n].seen
          BY <5>1, LocalsOf DEF Locals
        <5> QED BY <5>2 DEF FlagInv, Unflagged
      <4> QED BY <4>1
    <3>3. CASE UNCHANGED local
      BY <3>3 DEF FlagInv
    <3> QED BY <1>2, <3>1, <3>2, <3>3 DEF Next, Deadline, Expire, Flag, RejectRead, RejectMark,
               RejectCommit, RejectConfirm, RejectFail
  <2> QED BY <1>2, <2>1, LedgerStep DEF FlagInv
<1> QED BY <1>1, <1>2

\* The maintenance action an upload intent names is the one that is
\* outstanding: whoever takes, completes or rejects a flagged intent resolves
\* the action in the same transaction (claimPromotion, completePromotion,
\* promote-evidence/index.mjs).
THEOREM FlagsCorrect == Spec => []FlagsMatchLedger
<1>1. Init => FlagInv
  BY DEF Init, FlagInv, FlagsMatchLedger, Issued, Idle, Unflagged, Leasing
<1>2. Inv /\ FlagInv /\ [Next]_vars => FlagInv'
  BY FlagStep
<1>3. FlagInv => FlagsMatchLedger
  BY DEF FlagInv
<1> QED BY <1>1, <1>2, <1>3, Invariant, PTL DEF Spec

-----------------------------------------------------------------------------
(* What stands between the stores once a version is claimed.                *)

Claimed == {"quarantined", "validated"}
Beyond == {"validated", "promoted", "rejected"}
Unscanned == {"idle", "read", "verify", "scan"}

\* The intent names the one version that is promoted, its row and receipt
\* follow its status, and only a promoted intent has let a message go.
IntentInv ==
    /\ intent.source = None => intent.status \in {"issued", "expired", "rejected"}
    /\ intent.status \in {"issued", "expired"} => intent.source = None
    /\ intent.status \in Claimed => rows[intent.source] = "copying"
    /\ \A v \in Version : published[v] # None => intent.status = "promoted" /\ intent.source = v
    /\ intent.status = "promoted" =>
        /\ aurora.facts # None /\ intent.facts = aurora.facts
        /\ published[intent.source] = aurora.facts
        /\ intent.scan = [source |-> intent.source, clean |-> TRUE]
    /\ \A m \in Message : done[m] = "acked" => intent.status = "promoted" /\ intent.source = about[m]
    /\ rejecter.pc = "mark" => rejecter.status \in Active

\* The object is the intent's and its attempt is on record; what Aurora
\* accepted is that object.
CopyInv ==
    /\ kept = None => \A f \in Fences : attempts[f] \in {"none", "permitted"}
    /\ kept # None => /\ kept.source = intent.source
                      /\ attempts[kept.fence] \in {"permitted", "copied", "reconciled"}
    /\ \A f \in Fences : attempts[f] = "reconciled" => intent.status = "promoted"
    /\ aurora.facts # None =>
        /\ kept = [source |-> aurora.facts.source, fence |-> aurora.facts.copy]
        /\ attempts[kept.fence] \in {"copied", "reconciled"}
        /\ intent.status \in Beyond

\* What a worker's place says of the intent i, the object k and the attempts t.
Standing(l, v, i, k, t) ==
    /\ l.pc \in Leasing => i.source = v
    /\ l.pc \in Leasing \ {"validate"} => i.status \in Beyond
    /\ l.pc = "put" => t[l.fence] # "none"
    /\ l.pc = "record" => k = [source |-> v, fence |-> l.fence]
    /\ l.pc \in Destined => k = [source |-> v, fence |-> l.dest]
    /\ l.pc = "commit" => k = [source |-> v, fence |-> l.facts.copy]
    /\ l.pc \in Destined \union {"commit"} => t[k.fence] \in {"copied", "reconciled"}
    /\ l.pc = "scan" /\ l.seen.scan # None => i.scan = l.seen.scan
    /\ l.pc \notin Unscanned => i.scan = [source |-> v, clean |-> TRUE]

AllStanding == \A m \in Message : Standing(local[m], about[m], intent, kept, attempts)

StoresAgree == IntentInv /\ CopyInv /\ AllStanding

-----------------------------------------------------------------------------
(* What does not change any more.                                           *)

Written == {"copied", "reconciled"}

IntentGrows ==
    /\ intent.source # None => intent'.source = intent.source
    /\ intent.status \in Beyond => intent'.status \in Beyond
    /\ intent.scan # None => intent'.scan = intent.scan
    /\ \A f \in Fences : attempts[f] # "none" => attempts'[f] # "none"
    /\ \A f \in Fences : attempts[f] \in Written => attempts'[f] \in Written

\* What a step may do to the intent without moving it on.
SameIntent ==
    /\ intent'.source = intent.source /\ intent'.status = intent.status
    /\ intent'.facts = intent.facts /\ intent'.scan = intent.scan

\* Steps that only take, renew, flag or lose a lease.
LEMMA LeaseOnly ==
    ASSUME Inv, IntentInv,
           \/ \E m \in Message : Receive(m) \/ TakeOver(m) \/ Renew(m) \/ Permit(m)
           \/ Lapse \/ Flag \/ RejectConfirm \/ UNCHANGED intent
    PROVE  SameIntent
<1>0. intent \in Intents
  BY DEF Inv, TypeOK
<1>1. ASSUME NEW m \in Message, Receive(m) \/ Renew(m) \/ Permit(m) PROVE SameIntent
  BY <1>0, <1>1 DEF Receive, Renew, Permit, SameIntent, Intents
<1>2. ASSUME NEW m \in Message, TakeOver(m) PROVE SameIntent
  BY <1>0, <1>2 DEF TakeOver, Takeable, Lease, SameIntent, Intents
<1>3. CASE Lapse \/ Flag \/ RejectConfirm
  BY <1>0, <1>3 DEF Lapse, Flag, RejectConfirm, SameIntent, Intents
<1> QED BY <1>1, <1>2, <1>3 DEF SameIntent

\* What the steps that move the intent on do to it.
LEMMA IntentMoves ==
    ASSUME Inv, IntentInv, NEW m \in Message
    PROVE  /\ Scan(m) => /\ intent.scan = None
                         /\ intent'.source = intent.source /\ intent'.status = intent.status
                         /\ intent'.facts = intent.facts /\ intent.status \in Active
                         /\ \E clean \in BOOLEAN : intent'.scan = [source |-> about[m], clean |-> clean]
           /\ Claim(m) => /\ intent.status = "issued" /\ intent.source = None
                          /\ intent'.status = "quarantined" /\ intent'.source = about[m]
                          /\ intent'.facts = intent.facts /\ intent'.scan = intent.scan
           /\ Validate(m) => /\ intent.status = "quarantined" /\ intent'.status = "validated"
                             /\ intent'.source = intent.source
                             /\ intent'.facts = intent.facts /\ intent'.scan = intent.scan
           /\ Complete(m) \/ Recover(m) =>
                /\ intent.status = "validated" /\ intent.source = about[m]
                /\ intent'.status = "promoted" /\ intent'.source = intent.source
                /\ intent'.facts = local[m].facts /\ intent'.scan = intent.scan
<1>0. intent \in Intents
  BY DEF Inv, TypeOK
<1>1. ASSUME Scan(m)
      PROVE  /\ intent.scan = None
             /\ intent'.source = intent.source /\ intent'.status = intent.status
             /\ intent'.facts = intent.facts /\ intent.status \in Active
             /\ \E clean \in BOOLEAN : intent'.scan = [source |-> about[m], clean |-> clean]
  BY <1>0, <1>1 DEF Scan, Intents
<1>2. ASSUME Claim(m)
      PROVE  /\ intent.status = "issued" /\ intent.source = None
             /\ intent'.status = "quarantined" /\ intent'.source = about[m]
             /\ intent'.facts = intent.facts /\ intent'.scan = intent.scan
  BY <1>0, <1>2 DEF Claim, Claimable, Lease, Intents, IntentInv
<1>3. ASSUME Validate(m)
      PROVE  /\ intent.status = "quarantined" /\ intent'.status = "validated"
             /\ intent'.source = intent.source
             /\ intent'.facts = intent.facts /\ intent'.scan = intent.scan
  BY <1>0, <1>3 DEF Validate, Intents
<1>4. ASSUME Complete(m) \/ Recover(m)
      PROVE  /\ intent.status = "validated" /\ intent.source = about[m]
             /\ intent'.status = "promoted" /\ intent'.source = intent.source
             /\ intent'.facts = local[m].facts /\ intent'.scan = intent.scan
  BY <1>0, <1>4 DEF Complete, Recover, Completable, Publish, Intents
<1> QED BY <1>1, <1>2, <1>3, <1>4

LEMMA SweepMoves ==
    ASSUME Inv, IntentInv, Expire \/ RejectMark
    PROVE  /\ intent'.source = intent.source
           /\ intent'.facts = intent.facts /\ intent'.scan = intent.scan
           /\ \/ intent.status = "issued" /\ intent'.status = "expired"
              \/ intent.status \in Active /\ intent'.status = "rejected"
<1>0. intent \in Intents
  BY DEF Inv, TypeOK
<1>1. CASE Expire
  BY <1>0, <1>1 DEF Expire, Intents
<1>2. CASE RejectMark
  BY <1>0, <1>2 DEF RejectMark, RejecterAt, Unchanged, Intents, IntentInv
<1> QED BY <1>1, <1>2

\* An attempt is permitted once; copied or adopted while it is permitted; and
\* reconciled by the promotion that names it.
LEMMA AttemptsMove ==
    ASSUME Inv, CopyInv, AllStanding, Next
    PROVE  /\ \A f \in Fences : attempts[f] # "none" => attempts'[f] # "none"
           /\ \A f \in Fences : attempts[f] \in Written => attempts'[f] \in Written
<1>0. attempts \in [Fences -> {"none", "permitted", "copied", "adopted", "reconciled"}]
  BY DEF Inv, TypeOK
<1>1. CASE UNCHANGED attempts
  BY <1>0, <1>1
<1>2. ASSUME NEW f \in Fences, NEW t \in {"permitted", "copied", "adopted", "reconciled"},
             attempts' = [attempts EXCEPT ![f] = t],
             attempts[f] \in Written => t \in Written
      PROVE  /\ \A g \in Fences : attempts[g] # "none" => attempts'[g] # "none"
             /\ \A g \in Fences : attempts[g] \in Written => attempts'[g] \in Written
  BY <1>0, <1>2 DEF Written
<1>3. ASSUME NEW f \in Fences, Copied(f)
      PROVE  /\ \A g \in Fences : attempts[g] # "none" => attempts'[g] # "none"
             /\ \A g \in Fences : attempts[g] \in Written => attempts'[g] \in Written
  BY <1>1, <1>2, <1>3 DEF Copied, Written
<1>4. ASSUME NEW m \in Message, Find(m) \/ Adopt(m)
      PROVE  UNCHANGED attempts \/ \E f \in Fences : Copied(f)
  BY <1>4, CopyType DEF Find, Adopt, UseCopy
<1>5. ASSUME NEW m \in Message, Record(m) PROVE \E f \in Fences : Copied(f)
  BY <1>5, LocalsOf DEF Record, At, Sound, Leasing
<1>6. ASSUME NEW m \in Message, Permit(m)
      PROVE  /\ local[m].fence \in Fences /\ attempts[local[m].fence] = "none"
             /\ attempts' = [attempts EXCEPT ![local[m].fence] = "permitted"]
  BY <1>6, LocalsOf DEF Permit, PermitCopy, At, Sound, Leasing
<1>7. ASSUME NEW m \in Message, Resolve(m)
      PROVE  \/ UNCHANGED attempts
             \/ \E f \in Fences : /\ attempts[f] = "permitted"
                                  /\ attempts' = [attempts EXCEPT ![f] = "adopted"]
  BY <1>7 DEF Resolve, Orphans
<1>8. ASSUME NEW m \in Message, Complete(m) \/ Recover(m)
      PROVE  \E f \in Fences : attempts' = [attempts EXCEPT ![f] = "reconciled"]
  <2>1. local[m].facts.copy \in Fences
    BY <1>8, PublishAdds DEF Facts
  <2> QED BY <1>8, <2>1 DEF Complete, Recover, Publish
<1>9. CASE \E m \in Message : Permit(m)
  BY <1>2, <1>6, <1>9 DEF Written
<1>10. CASE \E m \in Message : Resolve(m)
  BY <1>1, <1>2, <1>7, <1>10 DEF Written
<1>11. CASE \E m \in Message : Complete(m) \/ Recover(m)
  BY <1>2, <1>8, <1>11 DEF Written
<1>12. CASE \E m \in Message : Find(m) \/ Adopt(m) \/ Record(m)
  BY <1>1, <1>3, <1>4, <1>5, <1>12
<1> QED BY <1>1, <1>9, <1>10, <1>11, <1>12, ZenonT(30)
        DEF Next, Work, Prepare, Promote, Receive, ReadIntent, Verify, Scan, Reuse, LookUp, Claim,
            TakeOver, Validate, ClaimFence, Renew, Put, Execute, Commit, Delete, Refuse, Die, Lapse,
            Deadline, Expire, Flag, RejectRead, RejectMark, RejectCommit, RejectConfirm, RejectFail,
            control

LEMMA IntentGrowing ==
    ASSUME Inv, StoresAgree, Next PROVE IntentGrows
<1>0. IntentInv /\ CopyInv /\ AllStanding
  BY DEF StoresAgree
<1> DEFINE Good == /\ intent.source # None => intent'.source = intent.source
                   /\ intent.status \in Beyond => intent'.status \in Beyond
                   /\ intent.scan # None => intent'.scan = intent.scan
<1>1. ASSUME SameIntent PROVE Good
  BY <1>1 DEF SameIntent
<1>2. ASSUME NEW m \in Message, Scan(m) \/ Claim(m) \/ Validate(m) \/ Complete(m) \/ Recover(m)
      PROVE  Good
  BY <1>0, <1>2, IntentMoves DEF Beyond
<1>3. ASSUME Expire \/ RejectMark PROVE Good
  BY <1>0, <1>3, SweepMoves DEF Beyond, Active
<1>4. Good
  BY <1>0, <1>1, <1>2, <1>3, LeaseOnly
     DEF Next, Work, Prepare, Promote, ReadIntent, Verify, Reuse, LookUp, ClaimFence, Find, Put,
         Adopt, Record, Resolve, Execute, Commit, Delete, Refuse, Die, Deadline, RejectRead,
         RejectCommit, RejectFail
<1> QED BY <1>0, <1>4, AttemptsMove DEF IntentGrows

-----------------------------------------------------------------------------
(* A worker's standing.                                                     *)

\* The parts of the step every lemma below starts from.
Advancing == Inv /\ StoresAgree /\ StoresGrow /\ IntentGrows

\* What holds of a worker's place goes on holding while others step.
LEMMA StillStanding ==
    ASSUME StoresGrow, IntentGrows, NEW l, NEW v \in Version, NEW a, NEW p,
           Sound(l, v, kept, a, p), Standing(l, v, intent, kept, attempts)
    PROVE  Standing(l, v, intent', kept', attempts')
<1>1. \A f \in Fences : [source |-> v, fence |-> f] # None /\ [source |-> v, fence |-> f].fence = f
  BY NoneAssumption DEF Copies
<1>2. [source |-> v, clean |-> TRUE] # None /\ v # None
  <2>1. [source |-> v, clean |-> TRUE] \in Scans
    BY DEF Scans
  <2> QED BY <2>1, NoneAssumption
<1>3. /\ l.pc \in Leasing => intent'.source = v
      /\ l.pc \in Leasing \ {"validate"} => intent'.status \in Beyond
      /\ l.pc = "scan" /\ l.seen.scan # None => intent'.scan = l.seen.scan
      /\ l.pc \notin Unscanned => intent'.scan = [source |-> v, clean |-> TRUE]
  BY <1>2 DEF Standing, IntentGrows
<1>4. l.pc = "put" => attempts'[l.fence] # "none"
  BY DEF Standing, Sound, Leasing, IntentGrows
<1>5. /\ l.pc = "record" => l.fence \in Fences
      /\ l.pc \in Destined => l.dest \in Fences
      /\ l.pc = "commit" => l.facts.copy \in Fences
  BY DEF Sound, Leasing, Accepted, Facts
<1>6. l.pc \in {"record", "commit"} \union Destined =>
        /\ kept' = kept
        /\ kept.fence \in Fences
  BY <1>1, <1>5 DEF Standing, StoresGrow
<1>7. l.pc \in Destined \union {"commit"} => attempts'[kept'.fence] \in {"copied", "reconciled"}
  BY <1>6 DEF Standing, IntentGrows, Written
<1> QED BY <1>3, <1>4, <1>6, <1>7 DEF Standing

LEMMA NobodyStirred == ASSUME Advancing, UNCHANGED local PROVE AllStanding'
<1>1. ASSUME NEW m \in Message
      PROVE  Standing(local'[m], about'[m], intent', kept', attempts')
  BY LocalsOf, StillStanding DEF Advancing, StoresAgree, AllStanding, StoresGrow
<1> QED BY <1>1 DEF AllStanding

LEMMA WasStanding ==
    ASSUME Advancing, NEW m \in Message
    PROVE  /\ Standing(local[m], about[m], intent, kept, attempts)
           /\ Standing(local[m], about[m], intent', kept', attempts')
BY LocalsOf, StillStanding DEF Advancing, StoresAgree, AllStanding

LEMMA OneStirred ==
    ASSUME Advancing, NEW m \in Message, NEW l, local' = [local EXCEPT ![m] = l],
           Standing(l, about[m], intent', kept', attempts')
    PROVE  AllStanding'
<1>1. about' = about /\ local \in [Message -> Locals]
  BY DEF Advancing, StoresGrow, Inv, TypeOK
<1>2. ASSUME NEW n \in Message
      PROVE  Standing(local'[n], about'[n], intent', kept', attempts')
  <2>1. CASE n = m
    BY <1>1, <2>1
  <2>2. CASE n # m
    <3>1. local'[n] = local[n]
      BY <1>1, <2>2
    <3> QED BY <1>1, <3>1, WasStanding
  <2> QED BY <2>1, <2>2
<1> QED BY <1>2 DEF AllStanding

\* A worker that has scanned nothing yet, or starts over.
LEMMA Unstanding ==
    ASSUME Advancing, NEW m \in Message, NEW l, local' = [local EXCEPT ![m] = l],
           l.pc \in Unscanned \ {"scan"}
    PROVE  AllStanding'
<1>1. Standing(l, about[m], intent', kept', attempts')
  BY DEF Standing, Unscanned, Leasing, Destined
<1> QED BY <1>1, OneStirred

LEMMA IdleStanding ==
    ASSUME Advancing, NEW m \in Message, Ack(m) \/ Fail(m) PROVE AllStanding'
<1>1. Idle.pc \in Unscanned \ {"scan"}
  BY DEF Idle, Unscanned
<1> QED BY <1>1, IdleAgain, Unstanding DEF Advancing, Inv

\* A worker goes on, and nothing more has to hold where it goes.
LEMMA GoesOn ==
    ASSUME Advancing, NEW m \in Message, NEW l, local' = [local EXCEPT ![m] = l],
           l.dest = local[m].dest,
           l.pc \notin {"put", "record", "commit", "scan"},
           l.pc \in Leasing => local[m].pc \in Leasing,
           l.pc \in Leasing \ {"validate"} => local[m].pc \in Leasing \ {"validate"},
           l.pc \in Destined => local[m].pc \in Destined,
           l.pc \notin Unscanned => local[m].pc \notin Unscanned
    PROVE  AllStanding'
<1>1. Standing(l, about[m], intent', kept', attempts')
  BY WasStanding DEF Standing
<1> QED BY <1>1, OneStirred

LEMMA GoesTo ==
    ASSUME Advancing, NEW m \in Message, NEW place, Goto(m, place),
           place \notin {"put", "record", "commit", "scan"},
           place \in Leasing => local[m].pc \in Leasing,
           place \in Leasing \ {"validate"} => local[m].pc \in Leasing \ {"validate"},
           place \in Destined => local[m].pc \in Destined,
           place \notin Unscanned => local[m].pc \notin Unscanned
    PROVE  AllStanding'
<1> DEFINE l == [local[m] EXCEPT !.pc = place]
<1>1. l.pc = place /\ l.dest = local[m].dest
  BY LocalsOf DEF Locals, Advancing
<1>2. local' = [local EXCEPT ![m] = l]
  BY DEF Goto, Advancing, Inv, TypeOK
<1> HIDE DEF l
<1> QED BY <1>1, <1>2, GoesOn

LEMMA PrepareStanding ==
    ASSUME Advancing, NEW m \in Message, Prepare(m)
    PROVE  AllStanding'
<1>0. /\ local[m] \in Locals /\ about[m] \in Version /\ local \in [Message -> Locals]
      /\ intent \in Intents /\ IntentInv /\ Inv
      /\ about[m] # None
  BY LocalsOf, NoneAssumption DEF Advancing, Inv, TypeOK, StoresAgree
<1>1. CASE ReadIntent(m)
  <2> DEFINE l == [local[m] EXCEPT !.pc = IF intent.status = "promoted" THEN "verify" ELSE "scan",
                                   !.seen = Seen(intent)]
  <2>1. l.pc \in {"verify", "scan"} /\ l.seen.scan = intent.scan
    BY <1>0 DEF Locals, Seen
  <2>2. local' = [local EXCEPT ![m] = l]
    BY <1>0, <1>1 DEF ReadIntent
  <2> HIDE DEF l
  <2>3. Standing(l, about[m], intent', kept', attempts')
    BY <1>1, <2>1 DEF Standing, ReadIntent, Unscanned, Leasing, Destined
  <2> QED BY <2>2, <2>3, OneStirred
<1>2. ASSUME Scanned(m), intent'.scan = CleanScan(m) PROVE AllStanding'
  <2> DEFINE l == [local[m] EXCEPT !.pc = "lookup", !.seen = [local[m].seen EXCEPT !.scan = None]]
  <2>1. l.pc = "lookup"
    BY <1>0 DEF Locals
  <2>2. local' = [local EXCEPT ![m] = l]
    BY <1>0, <1>2 DEF Scanned
  <2> HIDE DEF l
  <2>3. Standing(l, about[m], intent', kept', attempts')
    BY <1>2, <2>1 DEF Standing, CleanScan, Leasing, Destined
  <2> QED BY <2>2, <2>3, OneStirred
<1>3. CASE Scan(m)
  <2>1. PICK clean \in BOOLEAN :
          /\ intent' = [intent EXCEPT !.scan = [source |-> about[m], clean |-> clean]]
          /\ IF clean THEN Scanned(m) /\ UNCHANGED <<tx, queue>> ELSE Fail(m)
    BY <1>3 DEF Scan
  <2>2. CASE clean
    <3>1. intent'.scan = CleanScan(m)
      BY <1>0, <2>1, <2>2 DEF CleanScan, Intents
    <3> QED BY <1>2, <2>1, <2>2, <3>1
  <2>3. CASE ~clean
    BY <2>1, <2>3, IdleStanding
  <2> QED BY <2>2, <2>3
<1>4. CASE Reuse(m)
  <2>1. CleanScan(m) # None
    <3>1. CleanScan(m) \in Scans
      BY <1>0 DEF CleanScan, Scans
    <3> QED BY <3>1, NoneAssumption
  <2>2. intent.scan = CleanScan(m) /\ intent' = intent
    BY <1>4, <2>1, WasStanding DEF Reuse, Reusable, Standing, At
  <2> QED BY <1>2, <1>4, <2>2 DEF Reuse
<1>5. CASE LookUp(m)
  <2> DEFINE l == [local[m] EXCEPT !.pc = IF aurora.facts = None THEN "claim" ELSE "recover",
                                   !.facts = aurora.facts]
  <2>1. l.pc \in {"claim", "recover"} /\ l.dest = local[m].dest
    BY <1>0 DEF Locals
  <2>2. local' = [local EXCEPT ![m] = l]
    BY <1>0, <1>5 DEF LookUp
  <2>3. local[m].pc = "lookup"
    BY <1>5 DEF LookUp, At
  <2> HIDE DEF l
  <2> QED BY <2>1, <2>2, <2>3, GoesOn DEF Leasing, Destined, Unscanned
<1>6. ASSUME NEW fence, NEW place \in {"validate", "fence"}, Leased(m, fence, place), At(m, "claim"),
             intent'.source = about[m], place = "fence" => intent'.status \in Beyond
      PROVE  AllStanding'
  <2> DEFINE l == [Idle EXCEPT !.pc = place, !.fence = fence, !.live = TRUE]
  <2>1. l.pc = place
    BY DEF Idle
  <2>2. local' = [local EXCEPT ![m] = l]
    BY <1>6 DEF Leased
  <2> HIDE DEF l
  <2>3. intent'.scan = [source |-> about[m], clean |-> TRUE]
    BY <1>6, WasStanding DEF At, Standing, Unscanned
  <2>4. Standing(l, about[m], intent', kept', attempts')
    BY <1>6, <2>1, <2>3 DEF Standing, Leasing, Destined
  <2> QED BY <2>2, <2>4, OneStirred
<1>7. CASE Claim(m)
  BY <1>0, <1>6, <1>7, IntentMoves DEF Claim
<1>8. CASE TakeOver(m)
  <2>1. intent.source = about[m] /\ intent'.source = intent.source /\ intent'.status = intent.status
    BY <1>0, <1>8, LeaseOnly DEF TakeOver, Takeable, SameIntent
  <2>2. intent.status \notin {"issued", "expired"}
    BY <1>0, <2>1 DEF IntentInv
  <2>3. intent.status # "quarantined" => intent.status \in Beyond
    BY <1>0, <2>2 DEF Intents, Statuses, Active, Beyond
  <2> QED BY <1>6, <1>8, <2>1, <2>3 DEF TakeOver
<1>9. CASE Validate(m)
  <2> DEFINE l == [local[m] EXCEPT !.pc = "fence"]
  <2>1. l.pc = "fence"
    BY <1>0 DEF Locals
  <2>2. local' = [local EXCEPT ![m] = l] /\ local[m].pc = "validate"
    BY <1>0, <1>9 DEF Validate, Goto, At
  <2> HIDE DEF l
  <2>3. intent'.status = "validated"
    BY <1>0, <1>9, IntentMoves
  <2>4. Standing(l, about[m], intent', kept', attempts')
    BY <2>1, <2>2, <2>3, WasStanding DEF Standing, Leasing, Destined, Unscanned, Beyond
  <2> QED BY <2>2, <2>4, OneStirred
<1>10. CASE ClaimFence(m)
  <2>1. CASE At(m, "fence")
    BY <1>10, <2>1, GoesTo DEF ClaimFence, At, Leasing, Destined, Unscanned
  <2>2. CASE ~At(m, "fence") /\ At(m, "refence")
    BY <1>10, <2>2, GoesTo DEF ClaimFence, At, Leasing, Destined, Unscanned
  <2> QED BY <1>10, <2>1, <2>2 DEF ClaimFence
<1>11. CASE Renew(m)
  <2> DEFINE l == [local[m] EXCEPT !.pc = IF At(m, "renew") THEN "refence" ELSE "complete", !.live = TRUE]
  <2>1. local' = [local EXCEPT ![m] = l]
    BY <1>0, <1>11 DEF Renew
  <2>2. l.pc = (IF At(m, "renew") THEN "refence" ELSE "complete") /\ l.dest = local[m].dest
    BY <1>0 DEF Locals
  <2>3. At(m, "renew") \/ At(m, "renewAgain")
    BY <1>11 DEF Renew
  <2> HIDE DEF l
  <2> QED BY <2>1, <2>2, <2>3, GoesOn DEF At, Leasing, Destined, Unscanned
<1>12. CASE Verify(m)
  BY <1>12, IdleStanding DEF Verify
<1> QED BY <1>1, <1>3, <1>4, <1>5, <1>7, <1>8, <1>9, <1>10, <1>11, <1>12 DEF Prepare

LEMMA PromoteStanding ==
    ASSUME Advancing, NEW m \in Message, Promote(m)
    PROVE  AllStanding'
<1>0. /\ local[m] \in Locals /\ about[m] \in Version /\ local \in [Message -> Locals]
      /\ intent \in Intents /\ IntentInv /\ CopyInv /\ Inv /\ kept \in Copies \union {None}
      /\ attempts \in [Fences -> {"none", "permitted", "copied", "adopted", "reconciled"}]
  BY LocalsOf DEF Advancing, Inv, TypeOK, StoresAgree
<1>1. CASE Adoptable(m) /\ UseCopy(m) /\ kept' = kept /\ local[m].pc \in {"find", "put"}
  <2> DEFINE l == [local[m] EXCEPT !.pc = "resolve", !.dest = kept.fence]
  <2>1. l.pc = "resolve" /\ l.dest = kept.fence
    BY <1>0 DEF Locals
  <2>2. local' = [local EXCEPT ![m] = l] /\ kept.fence \in Fences
    BY <1>0, <1>1, CopyType
  <2>3. kept = [source |-> about[m], fence |-> kept.fence]
    BY <1>0, <1>1 DEF Adoptable, Copies
  <2>4. attempts'[kept.fence] \in {"copied", "reconciled"}
    BY <1>0, <1>1, <2>2 DEF Adoptable, Tracked, UseCopy, Copied
  <2> HIDE DEF l
  <2>5. Standing(l, about[m], intent', kept', attempts')
    BY <1>1, <2>1, <2>3, <2>4, WasStanding DEF Standing, Leasing, Destined, Unscanned
  <2> QED BY <2>2, <2>5, OneStirred
<1>2. CASE Find(m)
  <2>1. CASE Goto(m, "permit")
    BY <1>2, <2>1, GoesTo DEF Find, At, Leasing, Destined, Unscanned
  <2> QED BY <1>1, <1>2, <2>1 DEF Find, At
<1>3. CASE Permit(m)
  <2> DEFINE l == [local[m] EXCEPT !.pc = "put"]
  <2>1. l.pc = "put" /\ l.fence = local[m].fence
    BY <1>0 DEF Locals
  <2>2. local' = [local EXCEPT ![m] = l] /\ local[m].pc = "permit"
    BY <1>0, <1>3 DEF Permit, Goto, At
  <2>3. attempts'[local[m].fence] # "none"
    BY <1>0, <1>3, <2>2, LocalsOf DEF Permit, PermitCopy, Sound, Leasing
  <2> HIDE DEF l
  <2>4. Standing(l, about[m], intent', kept', attempts')
    BY <2>1, <2>2, <2>3, WasStanding DEF Standing, Leasing, Destined, Unscanned
  <2> QED BY <2>2, <2>4, OneStirred
<1>4. CASE Put(m)
  <2> DEFINE l == [local[m] EXCEPT !.pc = "record"]
  <2>1. l.pc = "record" /\ l.fence = local[m].fence
    BY <1>0 DEF Locals
  <2>2. local' = [local EXCEPT ![m] = l] /\ local[m].pc = "put"
    BY <1>0, <1>4 DEF Put, Goto, At
  <2>3. kept' = [source |-> about[m], fence |-> local[m].fence]
    BY <1>4 DEF Put
  <2> HIDE DEF l
  <2>4. Standing(l, about[m], intent', kept', attempts')
    BY <2>1, <2>2, <2>3, WasStanding DEF Standing, Leasing, Destined, Unscanned
  <2> QED BY <2>2, <2>4, OneStirred
<1>5. CASE Adopt(m)
  BY <1>1, <1>5 DEF Adopt, At
<1>6. CASE Record(m)
  <2> DEFINE l == [local[m] EXCEPT !.pc = "resolve", !.dest = local[m].fence]
  <2>1. l.pc = "resolve" /\ l.dest = local[m].fence
    BY <1>0 DEF Locals
  <2>2. local' = [local EXCEPT ![m] = l] /\ local[m].pc = "record" /\ kept' = kept
    BY <1>0, <1>6, RecordType DEF Record, At
  <2>3. local[m].fence \in Fences /\ kept = [source |-> about[m], fence |-> local[m].fence]
    BY <2>2, LocalsOf, WasStanding DEF Standing, Sound, Leasing, Advancing
  <2>4. kept'.fence = local[m].fence /\ attempts'[local[m].fence] \in {"copied", "reconciled"}
    BY <1>0, <1>6, <2>2, <2>3 DEF Record, Tracked, Copied
  <2> HIDE DEF l
  <2>5. Standing(l, about[m], intent', kept', attempts')
    BY <2>1, <2>2, <2>3, <2>4, WasStanding DEF Standing, Leasing, Destined, Unscanned
  <2> QED BY <2>2, <2>5, OneStirred
<1>7. CASE Resolve(m)
  <2>1. CASE UNCHANGED local
    BY <2>1, NobodyStirred
  <2>2. CASE Goto(m, "renew")
    BY <1>7, <2>2, GoesTo DEF Resolve, At, Leasing, Destined, Unscanned
  <2> QED BY <1>7, <2>1, <2>2 DEF Resolve
<1>8. CASE Execute(m)
  <2> DEFINE l == [local[m] EXCEPT !.pc = "commit", !.facts = Signing(m)]
  <2>1. local' = [local EXCEPT ![m] = l] /\ local[m].pc = "execute"
    BY <1>0, <1>8, ExecuteType DEF Execute, At
  <2>2. l.pc = "commit" /\ l.facts.copy = local[m].dest
    BY <1>0 DEF Locals, Signing
  <2> HIDE DEF l
  <2>3. Standing(l, about[m], intent', kept', attempts')
    BY <2>1, <2>2, WasStanding DEF Standing, Leasing, Destined, Unscanned
  <2> QED BY <2>1, <2>3, OneStirred
<1>9. CASE Commit(m)
  BY <1>9, GoesTo DEF Commit, At, Leasing, Destined, Unscanned
<1>10. CASE Complete(m) \/ Recover(m)
  BY <1>10, GoesTo DEF Complete, Recover, Publish, At, Leasing, Destined, Unscanned
<1>11. CASE Delete(m)
  BY <1>11, IdleStanding DEF Delete
<1> QED BY <1>2, <1>3, <1>4, <1>5, <1>6, <1>7, <1>8, <1>9, <1>10, <1>11 DEF Promote

LEMMA StandingStep == ASSUME Inv, StoresAgree, Next PROVE AllStanding'
<1>0. Advancing
  BY Growing, IntentGrowing DEF Advancing
<1>1. ASSUME NEW m \in Message, Receive(m) \/ Work(m) \/ Die(m)
      PROVE  AllStanding'
  <2>1. CASE Receive(m)
    BY <1>0, <2>1, GoesTo DEF Receive, Leasing, Destined, Unscanned
  <2>2. CASE Refuse(m) \/ Die(m)
    BY <1>0, <2>2, IdleStanding DEF Refuse, Die
  <2> QED BY <1>0, <1>1, <2>1, <2>2, PrepareStanding, PromoteStanding DEF Work
<1>2. CASE Lapse
  <2>1. ASSUME NEW m \in Message
        PROVE  Standing(local'[m], about'[m], intent', kept', attempts')
    <3>1. local'[m] = [local[m] EXCEPT !.live = FALSE]
      BY <1>2 DEF Lapse
    <3>2. /\ local'[m].pc = local[m].pc /\ local'[m].fence = local[m].fence
          /\ local'[m].dest = local[m].dest /\ local'[m].facts = local[m].facts
          /\ local'[m].seen = local[m].seen
      BY <3>1, LocalsOf DEF Locals
    <3> QED BY <1>0, <3>2, WasStanding DEF Standing, StoresGrow, Advancing
  <2> QED BY <2>1 DEF AllStanding
<1>3. CASE UNCHANGED local
  BY <1>0, <1>3, NobodyStirred
<1> QED BY <1>1, <1>2, <1>3 DEF Next, Deadline, Expire, Flag, RejectRead, RejectMark, RejectCommit,
           RejectConfirm, RejectFail

-----------------------------------------------------------------------------
(* The intent and the stores that follow it.                                *)

\* A step that does not move the intent on, and acknowledges no message too soon.
LEMMA IntentQuiet ==
    ASSUME Inv, IntentInv, StoresGrow, SameIntent, UNCHANGED <<rows, published>>,
           \A m \in Message : done'[m] = "acked" =>
               done[m] = "acked" \/ (intent.status = "promoted" /\ intent.source = about[m]),
           rejecter'.pc = "mark" => rejecter'.status \in Active
    PROVE  IntentInv'
<1>1. about' = about /\ (intent.status = "promoted" => aurora'.facts = aurora.facts)
  BY DEF StoresGrow, IntentInv
<1> QED BY <1>1 DEF SameIntent, IntentInv

\* A message whose handler throws is not acknowledged.
LEMMA FailedNotAcked ==
    ASSUME Inv, NEW m \in Message, Fail(m)
    PROVE  \A n \in Message : done'[n] = "acked" => done[n] = "acked"
BY DEF Inv, TypeOK, Fail

\* A message is acknowledged by whom the published receipt was found.
LEMMA AckedIsPublished ==
    ASSUME Inv, IntentInv, NEW m \in Message, Ack(m), published[about[m]] # None
    PROVE  \A n \in Message : done'[n] = "acked" =>
               done[n] = "acked" \/ (intent.status = "promoted" /\ intent.source = about[n])
BY LocalsOf DEF Inv, TypeOK, Ack, IntentInv

LEMMA IntentStep ==
    ASSUME Inv, StoresAgree, Next
    PROVE  IntentInv'
<1>0. /\ IntentInv /\ CopyInv /\ StoresGrow /\ intent \in Intents
      /\ rows \in [Version -> {"none", "copying", "complete"}]
      /\ published \in [Version -> Facts \union {None}]
      /\ about' = about
  BY Growing DEF StoresAgree, Inv, TypeOK, StoresGrow
<1>1. /\ (rejecter.pc = "mark" => rejecter.status \in Active)
      /\ \A m \in Message : done[m] = "acked" => intent.status = "promoted" /\ intent.source = about[m]
  BY <1>0 DEF IntentInv
<1>2. ASSUME NEW m \in Message, Receive(m) \/ Work(m) \/ Die(m)
      PROVE  IntentInv'
  <2>0. about[m] \in Version /\ about[m] # None
    BY LocalsOf, NoneAssumption
  <2>1. CASE \/ Receive(m) \/ ReadIntent(m) \/ Reuse(m) \/ LookUp(m) \/ TakeOver(m) \/ ClaimFence(m)
             \/ Renew(m) \/ Find(m) \/ Permit(m) \/ Put(m) \/ Adopt(m) \/ Record(m) \/ Resolve(m)
             \/ Execute(m) \/ Commit(m)
    <3>1. SameIntent
      BY <1>0, <2>1, LeaseOnly DEF ReadIntent, Reuse, LookUp, ClaimFence, Find, Put, Adopt, Record,
            Resolve, Execute, Commit
    <3>2. UNCHANGED <<rows, published, done, rejecter>>
      BY <2>1 DEF Receive, ReadIntent, Reuse, LookUp, TakeOver, ClaimFence, Renew, Find, Permit, Put,
            Adopt, Record, Resolve, Execute, Commit, control, queue, world
    <3> QED BY <1>0, <1>1, <3>1, <3>2, IntentQuiet
  <2>2. CASE Refuse(m) \/ Die(m)
    <3>1. SameIntent /\ UNCHANGED <<rows, published, rejecter>> /\ Fail(m)
      BY <2>2 DEF Refuse, Die, control, world, SameIntent
    <3> QED BY <1>0, <1>1, <3>1, FailedNotAcked, IntentQuiet
  <2>3. CASE Verify(m)
    <3>1. SameIntent /\ UNCHANGED <<rows, published, rejecter>> /\ Ack(m)
      BY <2>3 DEF Verify, control, world, SameIntent
    <3>2. published[about[m]] # None
      BY <2>3 DEF Verify, Verified
    <3> QED BY <1>0, <1>1, <3>1, <3>2, AckedIsPublished, IntentQuiet
  <2>4. CASE Delete(m)
    <3>1. SameIntent /\ UNCHANGED <<rows, published, rejecter>> /\ Ack(m)
      BY <2>4 DEF Delete, control, world, SameIntent
    <3>2. published[about[m]] # None
      BY <2>4, LocalsOf DEF Delete, At, Sound
    <3> QED BY <1>0, <1>1, <3>1, <3>2, AckedIsPublished, IntentQuiet
  <2>5. CASE Scan(m)
    <3>1. /\ intent'.source = intent.source /\ intent'.status = intent.status
          /\ intent.status # "promoted"
      BY <1>0, <2>5, IntentMoves DEF Active
    <3>2. UNCHANGED <<rows, published, rejecter>> /\ (UNCHANGED done \/ Fail(m))
      BY <2>5 DEF Scan, control, world, queue
    <3>3. \A n \in Message : done'[n] # "acked"
      BY <1>1, <3>1, <3>2, FailedNotAcked
    <3> QED BY <1>0, <3>1, <3>2, <3>3 DEF IntentInv
  <2>6. CASE Claim(m)
    <3>1. /\ intent.status = "issued" /\ intent'.status = "quarantined" /\ intent'.source = about[m]
      BY <1>0, <2>6, IntentMoves
    <3>2. UNCHANGED <<published, rejecter, done>> /\ rows'[about[m]] = "copying"
      BY <1>0, <2>0, <2>6 DEF Claim, queue, world
    <3> QED BY <1>0, <2>0, <3>1, <3>2 DEF IntentInv
  <2>7. CASE Validate(m)
    <3>1. /\ intent.status = "quarantined" /\ intent'.status = "validated"
          /\ intent'.source = intent.source
      BY <1>0, <2>7, IntentMoves
    <3>2. UNCHANGED <<rows, published, rejecter, done>>
      BY <2>7 DEF Validate, control, queue, world
    <3> QED BY <1>0, <3>1, <3>2 DEF IntentInv, Claimed
  <2>8. CASE Complete(m) \/ Recover(m)
    <3>1. /\ intent.status = "validated" /\ intent.source = about[m]
          /\ intent'.status = "promoted" /\ intent'.source = intent.source
          /\ intent'.facts = local[m].facts /\ intent'.scan = intent.scan
      BY <1>0, <2>8, IntentMoves
    <3>2. UNCHANGED <<rejecter, done>>
      BY <2>8 DEF Complete, Recover, Publish, queue, world
    <3>3. /\ local[m].facts # None /\ aurora.facts = local[m].facts /\ aurora' = aurora
          /\ published' = [published EXCEPT ![about[m]] = local[m].facts]
      BY <2>8, PublishAdds
    <3>4. intent.scan = [source |-> about[m], clean |-> TRUE]
      BY <2>8 DEF StoresAgree, AllStanding, Standing, Complete, Recover, At, Unscanned
    <3> QED BY <1>0, <2>0, <3>1, <3>2, <3>3, <3>4 DEF IntentInv, Claimed
  <2> QED BY <1>2, <2>1, <2>2, <2>3, <2>4, <2>5, <2>6, <2>7, <2>8 DEF Work, Prepare, Promote
<1>3. CASE \/ Lapse \/ Deadline \/ Flag \/ RejectCommit \/ RejectConfirm \/ RejectFail
           \/ \E v \in Threat : RejectRead(v)
  <2>1. SameIntent
    BY <1>0, <1>3, LeaseOnly DEF Deadline, RejectCommit, RejectFail, RejectRead
  <2>2. UNCHANGED <<rows, published, done>>
    BY <1>3 DEF Lapse, Deadline, Flag, RejectCommit, RejectConfirm, RejectFail, RejectRead, control, queue
  <2>3. rejecter'.pc = "mark" => rejecter'.status \in Active
    <3>1. CASE Lapse \/ Deadline \/ Flag
      BY <1>1, <3>1 DEF Lapse, Deadline, Flag
    <3>2. CASE RejectCommit
      <4>1. rejecter'.pc # "mark"
        BY <3>2 DEF RejectCommit, Inv, TypeOK, Rejecters
      <4> QED BY <4>1
    <3>3. CASE RejectConfirm \/ RejectFail
      BY <3>3 DEF RejectConfirm, RejectFail, Rest, Resting
    <3>4. CASE \E v \in Threat : RejectRead(v)
      BY <3>4 DEF RejectRead
    <3> QED BY <1>3, <3>1, <3>2, <3>3, <3>4
  <2> QED BY <1>0, <1>1, <2>1, <2>2, <2>3, IntentQuiet
<1>4. CASE Expire \/ RejectMark
  <2>1. /\ intent'.source = intent.source /\ intent.status # "promoted"
        /\ intent'.status \in {"expired", "rejected"}
        /\ intent'.status = "expired" => intent.status = "issued"
    BY <1>0, <1>4, SweepMoves DEF Active
  <2>2. UNCHANGED <<rows, published, done>>
    BY <1>4 DEF Expire, RejectMark, control, queue
  <2>3. rejecter'.pc = "mark" => rejecter'.status \in Active
    <3>1. CASE Expire
      BY <1>1, <3>1 DEF Expire, world
    <3>2. CASE RejectMark
      <4>1. rejecter'.pc # "mark"
        BY <3>2 DEF RejectMark, Inv, TypeOK, Rejecters
      <4> QED BY <4>1
    <3> QED BY <1>4, <3>1, <3>2
  <2> QED BY <1>0, <2>1, <2>2, <2>3 DEF IntentInv, Claimed
<1> QED BY <1>2, <1>3, <1>4 DEF Next

-----------------------------------------------------------------------------
(* The object, its attempts and what Aurora accepted.                       *)

\* A step that touches neither.
LEMMA CopyQuiet ==
    ASSUME CopyInv, UNCHANGED <<attempts, kept>>, aurora'.facts = aurora.facts,
           kept # None => intent'.source = intent.source,
           aurora.facts # None /\ intent.status \in Beyond => intent'.status \in Beyond,
           intent.status = "promoted" => intent'.status = "promoted"
    PROVE  CopyInv'
BY DEF CopyInv

\* The attempt of the object, or a new one, moves on while the object stays.
LEMMA AttemptMoves ==
    ASSUME Inv, CopyInv, SameIntent, UNCHANGED <<kept, aurora>>,
           NEW f \in Fences, NEW t \in {"permitted", "copied", "adopted"},
           attempts' = [attempts EXCEPT ![f] = t],
           attempts[f] \in {"none", "permitted"},
           kept = None => t = "permitted",
           kept # None => f # kept.fence \/ t = "copied"
    PROVE  CopyInv'
<1>1. attempts \in [Fences -> {"none", "permitted", "copied", "adopted", "reconciled"}]
  BY DEF Inv, TypeOK
<1>2. attempts'[f] = t /\ \A g \in Fences : g # f => attempts'[g] = attempts[g]
  BY <1>1
<1>3. kept # None => kept.fence \in Fences
  BY DEF Inv, TypeOK, Copies
<1> QED BY <1>1, <1>2, <1>3 DEF CopyInv, SameIntent

LEMMA CopyStep ==
    ASSUME Inv, StoresAgree, Next
    PROVE  CopyInv'
<1>0. /\ IntentInv /\ CopyInv /\ intent \in Intents /\ aurora \in AuroraRows
      /\ attempts \in [Fences -> {"none", "permitted", "copied", "adopted", "reconciled"}]
      /\ kept \in Copies \union {None}
  BY DEF StoresAgree, Inv, TypeOK
<1>1. ASSUME SameIntent, UNCHANGED <<attempts, kept>>, aurora'.facts = aurora.facts
      PROVE  CopyInv'
  BY <1>0, <1>1, CopyQuiet DEF SameIntent
<1>2. ASSUME NEW m \in Message, Receive(m) \/ Work(m) \/ Die(m)
      PROVE  CopyInv'
  <2>0. /\ about[m] \in Version /\ about[m] # None
        /\ Sound(local[m], about[m], kept, aurora.facts, published[about[m]])
        /\ Standing(local[m], about[m], intent, kept, attempts)
    BY LocalsOf, NoneAssumption DEF StoresAgree, AllStanding
  <2>1. CASE \/ Receive(m) \/ ReadIntent(m) \/ Verify(m) \/ Reuse(m) \/ LookUp(m) \/ TakeOver(m)
             \/ ClaimFence(m) \/ Renew(m) \/ Execute(m) \/ Delete(m) \/ Refuse(m) \/ Die(m)
    <3>1. SameIntent
      BY <1>0, <2>1, LeaseOnly DEF ReadIntent, Verify, Reuse, LookUp, ClaimFence, Execute, Delete,
            Refuse, Die
    <3>2. UNCHANGED <<attempts, kept>> /\ aurora'.facts = aurora.facts
      BY <1>0, <2>1 DEF Receive, ReadIntent, Verify, Reuse, LookUp, TakeOver, ClaimFence, Renew, Execute,
            Delete, Refuse, Die, control, AuroraRows
    <3> QED BY <1>1, <3>1, <3>2
  <2>2. CASE Scan(m)
    BY <1>0, <2>2, IntentMoves, CopyQuiet DEF Scan, control
  <2>3. CASE Claim(m)
    <3>1. intent.status = "issued" /\ intent.source = None
      BY <1>0, <2>3, IntentMoves
    <3>2. kept = None /\ aurora.facts = None
      <4>1. kept # None => kept.source \in Version
        BY <1>0 DEF Copies
      <4> QED BY <1>0, <3>1, <4>1, NoneAssumption DEF CopyInv, Beyond
    <3> QED BY <1>0, <2>3, <3>1, <3>2, CopyQuiet DEF Claim
  <2>4. CASE Validate(m)
    BY <1>0, <2>4, IntentMoves, CopyQuiet DEF Validate, control, Beyond
  <2>5. CASE Permit(m)
    <3>1. /\ local[m].fence \in Fences /\ attempts[local[m].fence] = "none"
          /\ attempts' = [attempts EXCEPT ![local[m].fence] = "permitted"]
          /\ UNCHANGED <<kept, aurora>>
      BY <2>0, <2>5 DEF Permit, PermitCopy, At, Sound, Leasing
    <3>2. SameIntent
      BY <1>0, <2>5, LeaseOnly
    <3>3. kept # None => local[m].fence # kept.fence
      BY <1>0, <3>1 DEF CopyInv
    <3> QED BY <1>0, <3>1, <3>2, <3>3, AttemptMoves
  <2>6. CASE Find(m) \/ Adopt(m) \/ Record(m)
    <3>1. SameIntent /\ UNCHANGED <<kept, aurora>>
      BY <2>6 DEF Find, Adopt, Record, SameIntent
    <3>2. UNCHANGED attempts \/ (kept # None /\ kept.fence \in Fences /\ Copied(kept.fence))
      <4>1. CASE Find(m) \/ Adopt(m)
        BY <4>1, CopyType DEF Find, Adopt, UseCopy, Adoptable
      <4>2. CASE Record(m)
        <5>1. /\ kept = [source |-> about[m], fence |-> local[m].fence] /\ local[m].fence \in Fences
              /\ kept # None
          BY <2>0, <4>2 DEF Record, At, Standing, Sound, Leasing, Holding
        <5> QED BY <4>2, <5>1 DEF Record
      <4> QED BY <2>6, <4>1, <4>2
    <3>3. CASE UNCHANGED attempts
      BY <1>1, <3>1, <3>3
    <3>4. CASE kept # None /\ kept.fence \in Fences /\ Copied(kept.fence)
      BY <1>0, <1>1, <3>1, <3>4, AttemptMoves DEF Copied
    <3> QED BY <3>2, <3>3, <3>4
  <2>7. CASE Put(m)
    <3>1. /\ kept = None /\ kept' = [source |-> about[m], fence |-> local[m].fence]
          /\ UNCHANGED <<intent, attempts, aurora>> /\ local[m].pc = "put"
      BY <2>7 DEF Put, Vacant, control, At
    <3>2. intent.source = about[m] /\ local[m].fence \in Fences /\ attempts[local[m].fence] # "none"
      BY <2>0, <3>1 DEF Standing, Sound, Leasing
    <3>3. attempts[local[m].fence] = "permitted"
      BY <1>0, <3>1, <3>2 DEF CopyInv
    <3>4. kept' # None /\ kept'.source = about[m] /\ kept'.fence = local[m].fence
      <4>1. [source |-> about[m], fence |-> local[m].fence] \in Copies
        BY <2>0, <3>2 DEF Copies
      <4> QED BY <3>1, <4>1, NoneAssumption
    <3>5. aurora.facts = None
      <4>1. ASSUME aurora.facts # None PROVE FALSE
        <5>1. aurora.facts \in Facts
          BY <1>0, <4>1 DEF AuroraRows
        <5>2. [source |-> aurora.facts.source, fence |-> aurora.facts.copy] \in Copies
          BY <5>1 DEF Facts, Copies
        <5> QED BY <1>0, <3>1, <4>1, <5>2, NoneAssumption DEF CopyInv
      <4> QED BY <4>1
    <3> QED BY <1>0, <3>1, <3>2, <3>3, <3>4, <3>5 DEF CopyInv
  <2>8. CASE Resolve(m)
    <3>1. SameIntent /\ UNCHANGED <<kept, aurora>> /\ local[m].pc = "resolve"
      BY <2>8 DEF Resolve, SameIntent, At
    <3>2. kept = [source |-> about[m], fence |-> local[m].dest] /\ kept # None
      BY <2>0, <3>1 DEF Standing, Sound, Destined, Holding
    <3>3. CASE UNCHANGED attempts
      BY <1>1, <3>1, <3>3
    <3>4. ASSUME NEW f \in Orphans(m), attempts' = [attempts EXCEPT ![f] = "adopted"]
          PROVE  CopyInv'
      <4>1. f \in Fences /\ attempts[f] = "permitted" /\ f # kept.fence
        BY <3>2, <3>4 DEF Orphans
      <4> QED BY <1>0, <3>1, <3>2, <3>4, <4>1, AttemptMoves
    <3> QED BY <2>8, <3>3, <3>4 DEF Resolve
  <2>9. CASE Commit(m)
    <3>1. /\ aurora'.facts = local[m].facts /\ local[m].facts \in Facts
          /\ local[m].facts.source = about[m] /\ UNCHANGED <<intent, attempts, kept>>
          /\ local[m].pc = "commit"
      BY <2>9, CommitFinds DEF Commit, control, At
    <3>2. /\ kept = [source |-> about[m], fence |-> local[m].facts.copy]
          /\ attempts[kept.fence] \in {"copied", "reconciled"}
          /\ intent.status \in Beyond
      BY <2>0, <3>1 DEF Standing, Leasing
    <3> QED BY <1>0, <3>1, <3>2 DEF CopyInv
  <2>10. CASE Complete(m) \/ Recover(m)
    <3>1. /\ local[m].facts \in Facts /\ aurora.facts = local[m].facts /\ UNCHANGED <<kept, aurora>>
          /\ local[m].facts # None
      BY <2>10, PublishAdds
    <3>2. attempts' = [attempts EXCEPT ![local[m].facts.copy] = "reconciled"]
      BY <2>10 DEF Complete, Recover, Publish
    <3>3. intent'.status = "promoted" /\ intent'.source = intent.source
      BY <1>0, <2>10, IntentMoves
    <3>4. /\ local[m].facts.copy \in Fences
          /\ kept = [source |-> local[m].facts.source, fence |-> local[m].facts.copy]
      BY <1>0, <3>1 DEF CopyInv, Facts
    <3>5. kept # None
      <4>1. kept \in Copies
        BY <3>1, <3>4 DEF Copies, Facts
      <4> QED BY <4>1, NoneAssumption
    <3>6. attempts'[kept.fence] = "reconciled" /\ kept.fence = local[m].facts.copy
      BY <1>0, <3>2, <3>4
    <3> QED BY <1>0, <3>1, <3>3, <3>4, <3>5, <3>6 DEF CopyInv, Beyond
  <2> QED BY <1>2, <2>1, <2>2, <2>3, <2>4, <2>5, <2>6, <2>7, <2>8, <2>9, <2>10
          DEF Work, Prepare, Promote
<1>3. CASE \/ Lapse \/ Deadline \/ Flag \/ RejectCommit \/ RejectConfirm \/ RejectFail
           \/ \E v \in Threat : RejectRead(v)
  <2>1. SameIntent
    BY <1>0, <1>3, LeaseOnly DEF Deadline, RejectCommit, RejectFail, RejectRead
  <2>2. UNCHANGED <<attempts, kept>> /\ aurora'.facts = aurora.facts
    BY <1>0, <1>3 DEF Lapse, Deadline, Flag, RejectCommit, RejectConfirm, RejectFail, RejectRead, control,
          AuroraRows
  <2> QED BY <1>1, <2>1, <2>2
<1>4. CASE Expire \/ RejectMark
  <2>1. UNCHANGED <<attempts, kept, aurora>>
    BY <1>4 DEF Expire, RejectMark, control
  <2> QED BY <1>0, <1>4, <2>1, SweepMoves, CopyQuiet DEF Beyond, Active
<1> QED BY <1>2, <1>3, <1>4 DEF Next

-----------------------------------------------------------------------------
(* What the promotion guarantees.                                           *)

LEMMA Agreement == Spec => []StoresAgree
<1>1. Init => StoresAgree
  <2> SUFFICES ASSUME Init PROVE StoresAgree
    OBVIOUS
  <2>1. IntentInv
    BY DEF Init, IntentInv, Issued, Claimed, Resting
  <2>2. CopyInv
    BY DEF Init, CopyInv
  <2>3. AllStanding
    BY DEF Init, AllStanding, Standing, Idle, Leasing, Destined, Unscanned
  <2> QED BY <2>1, <2>2, <2>3 DEF StoresAgree
<1>2. Inv /\ StoresAgree /\ [Next]_vars => StoresAgree'
  <2>1. ASSUME StoresAgree, UNCHANGED vars PROVE StoresAgree'
    BY <2>1 DEF StoresAgree, IntentInv, CopyInv, AllStanding, vars, control, queue, world
  <2> QED BY <2>1, IntentStep, CopyStep, StandingStep DEF StoresAgree
<1> QED BY <1>1, <1>2, Invariant, PTL DEF Spec

\* For any number of messages, deliveries and faults: a promoted intent, its
\* recovery receipt, Aurora's signed row and the locked object agree, the
\* version passed both scans, and no message is deleted before that
\* (promote-evidence/index.mjs, handler).
THEOREM PublishedCorrect == Spec => []PublishedIsAccepted
<1>1. Inv /\ StoresAgree => PublishedIsAccepted
  <2> SUFFICES ASSUME Inv, StoresAgree, intent.status = "promoted"
               PROVE  /\ aurora.facts.source = intent.source
                      /\ kept = [source |-> intent.source, fence |-> aurora.facts.copy]
    BY DEF PublishedIsAccepted, StoresAgree, IntentInv
  <2>1. aurora.facts \in Facts /\ kept = [source |-> aurora.facts.source, fence |-> aurora.facts.copy]
    BY DEF StoresAgree, IntentInv, CopyInv, Inv, TypeOK, AuroraRows
  <2>2. kept # None /\ kept.source = aurora.facts.source
    <3>1. kept \in Copies
      BY <2>1 DEF Copies, Facts
    <3> QED BY <2>1, <3>1, NoneAssumption
  <2> QED BY <2>1, <2>2 DEF StoresAgree, CopyInv
<1> QED BY <1>1, Invariant, Agreement, PTL

\* What Aurora accepted can always be completed in DynamoDB, however many
\* workers died in between, unless a rejection was recorded there
\* (recoverCommittedPromotion, promote-evidence/index.mjs).
THEOREM CompletionPossible == Spec => []AcceptedCanComplete
<1>1. Inv /\ StoresAgree => AcceptedCanComplete
  <2> SUFFICES ASSUME Inv, StoresAgree, aurora.facts # None,
                      intent.status \notin {"rejected", "promoted"}
               PROVE  /\ intent.status = "validated" /\ intent.source = aurora.facts.source
                      /\ kept = [source |-> aurora.facts.source, fence |-> aurora.facts.copy]
                      /\ rows[aurora.facts.source] = "copying"
                      /\ published[aurora.facts.source] = None
                      /\ attempts[aurora.facts.copy] = "copied"
    BY DEF AcceptedCanComplete
  <2>1. /\ aurora.facts \in Facts /\ kept = [source |-> aurora.facts.source, fence |-> aurora.facts.copy]
        /\ intent.status = "validated" /\ attempts[kept.fence] \in {"copied", "reconciled"}
    BY DEF StoresAgree, CopyInv, Inv, TypeOK, AuroraRows, Beyond
  <2>2. /\ kept # None /\ kept.source = aurora.facts.source /\ kept.fence = aurora.facts.copy
        /\ kept.fence \in Fences /\ kept.source \in Version
    <3>1. kept \in Copies
      BY <2>1 DEF Copies, Facts
    <3> QED BY <2>1, <3>1, NoneAssumption DEF Copies
  <2>3. intent.source = aurora.facts.source
    BY <2>2 DEF StoresAgree, CopyInv
  <2> QED BY <2>1, <2>2, <2>3 DEF StoresAgree, CopyInv, IntentInv, Claimed
<1> QED BY <1>1, Invariant, Agreement, PTL

-----------------------------------------------------------------------------
(* Fences.                                                                  *)

\* A worker is not ahead of the intent's fence, and one whose lease has not
\* lapsed is its holder.
Fenced(l, m, i) ==
    /\ l.fence <= i.fence
    /\ l.live => l.fence > 0 /\ i.holder = m /\ i.fence = l.fence /\ i.lease # "expired"
    /\ l.pc \notin Leasing \union {"delete"} => l.fence = 0

\* Aurora's fence is one that was claimed, and a transaction that holds the row
\* lock is not older than it.
FenceInv ==
    /\ \A m \in Message : Fenced(local[m], m, intent)
    /\ aurora.fence <= intent.fence
    /\ tx # None => local[tx].pc = "commit" /\ aurora.fence <= local[tx].fence

\* Fences are never taken back, and a lease is taken over only when no worker
\* counts on it any more.
LEMMA FenceGrows ==
    ASSUME Inv, FenceInv, Next
    PROVE  /\ intent.fence <= intent'.fence
           /\ \A n \in Message : local[n].live =>
                \/ Lapse
                \/ /\ intent'.holder = intent.holder /\ intent'.fence = intent.fence
                   /\ intent'.lease # "expired"
<1> DEFINE Kept == /\ intent.fence <= intent'.fence
                   /\ \A n \in Message : local[n].live =>
                        \/ Lapse
                        \/ /\ intent'.holder = intent.holder /\ intent'.fence = intent.fence
                           /\ intent'.lease # "expired"
<1>0. /\ intent \in Intents /\ intent.fence \in Nat /\ \A n \in Message : local[n].fence \in Nat
      /\ \A n \in Message : local[n].live =>
            local[n].fence > 0 /\ intent.fence = local[n].fence /\ intent.lease # "expired"
  <2>1. intent \in Intents /\ \A n \in Message : local[n] \in Locals
    BY DEF Inv, TypeOK
  <2> QED BY <2>1 DEF Intents, Locals, FenceInv, Fenced
<1>1. ASSUME intent'.fence = intent.fence, intent'.holder = intent.holder,
             intent'.lease = "expired" => intent.lease = "expired" \/ Lapse
      PROVE  Kept
  BY <1>0, <1>1
<1>2. ASSUME NEW m \in Message, Receive(m) \/ Work(m) \/ Die(m) PROVE Kept
  <2>1. CASE Receive(m) \/ Scan(m) \/ Validate(m) \/ Permit(m) \/ Renew(m)
    BY <1>0, <1>1, <2>1 DEF Receive, Scan, Validate, Permit, Renew, Intents
  <2>2. CASE Complete(m) \/ Recover(m)
    BY <1>0, <1>1, <2>2 DEF Complete, Recover, Publish, Intents
  <2>3. CASE Claim(m)
    <3>1. intent.fence = 0 /\ intent'.fence = 1
      BY <1>0, <2>3 DEF Claim, Claimable, Lease, Intents
    <3> QED BY <1>0, <3>1
  <2>4. CASE TakeOver(m)
    <3>1. intent.lease = "expired" /\ intent'.fence = intent.fence + 1
      BY <1>0, <2>4 DEF TakeOver, Takeable, Lease, Intents
    <3> QED BY <1>0, <3>1
  <2>5. CASE UNCHANGED intent
    BY <1>1, <2>5
  <2> QED BY <1>2, <2>1, <2>2, <2>3, <2>4, <2>5
          DEF Work, Prepare, Promote, ReadIntent, Verify, Reuse, LookUp, ClaimFence, Find, Put, Adopt,
              Record, Resolve, Execute, Commit, Delete, Refuse, Die
<1>3. CASE Lapse \/ Expire \/ Flag \/ RejectMark \/ RejectConfirm
  BY <1>0, <1>1, <1>3 DEF Lapse, Expire, Flag, RejectMark, RejectConfirm, Intents
<1>4. CASE UNCHANGED intent
  BY <1>1, <1>4
<1> QED BY <1>2, <1>3, <1>4 DEF Next, Deadline, RejectRead, RejectCommit, RejectFail

\* Others step, and time does not run out for this worker.
LEMMA StillFenced ==
    ASSUME Inv, FenceInv, Next, ~Lapse, NEW n \in Message
    PROVE  Fenced(local[n], n, intent')
<1>1. intent' \in Intents /\ intent \in Intents /\ local[n] \in Locals
  BY IntentType DEF Inv, TypeOK
<1>2. intent.fence \in Nat /\ intent'.fence \in Nat /\ local[n].fence \in Nat /\ local[n].live \in BOOLEAN
  BY <1>1 DEF Intents, Locals
<1> QED BY <1>2, FenceGrows DEF FenceInv, Fenced

\* One worker moves: it must be fenced where it goes, and give up its transaction.
LEMMA OneFenced ==
    ASSUME Inv, FenceInv, Next, ~Lapse, NEW m \in Message, NEW l,
           local' = [local EXCEPT ![m] = l], Fenced(l, m, intent')
    PROVE  /\ \A n \in Message : Fenced(local'[n], n, intent')
           /\ \A n \in Message \ {m} : local'[n] = local[n]
           /\ local'[m] = l
<1>1. local \in [Message -> Locals]
  BY DEF Inv, TypeOK
<1> QED BY <1>1, StillFenced

LEMMA WorkerFenced ==
    ASSUME Inv, StoresAgree, FenceInv, Next, ~Lapse, NEW m \in Message,
           Receive(m) \/ Work(m) \/ Die(m)
    PROVE  /\ \A n \in Message : Fenced(local'[n], n, intent')
           /\ \A n \in Message \ {m} : local'[n] = local[n]
<1> DEFINE Good == /\ \A n \in Message : Fenced(local'[n], n, intent')
                   /\ \A n \in Message \ {m} : local'[n] = local[n]
<1>0. /\ local[m] \in Locals /\ local \in [Message -> Locals] /\ intent \in Intents
      /\ intent' \in Intents /\ intent'.fence \in Nat
      /\ Fenced(local[m], m, intent')
  <2>1. intent' \in Intents
    BY IntentType
  <2> QED BY <2>1, StillFenced DEF Inv, TypeOK, Intents
<1>1. ASSUME NEW l, local' = [local EXCEPT ![m] = l], l.fence = local[m].fence, l.live = local[m].live,
             l.pc \notin Leasing \union {"delete"} => local[m].pc \notin Leasing \union {"delete"}
      PROVE  Good
  BY <1>0, <1>1, OneFenced DEF Fenced
<1>2. ASSUME NEW place, Goto(m, place),
             place \notin Leasing \union {"delete"} => local[m].pc \notin Leasing \union {"delete"}
      PROVE  Good
  <2> DEFINE l == [local[m] EXCEPT !.pc = place]
  <2>1. l.pc = place /\ l.fence = local[m].fence /\ l.live = local[m].live
    BY <1>0 DEF Locals
  <2>2. local' = [local EXCEPT ![m] = l]
    BY <1>0, <1>2 DEF Goto
  <2> HIDE DEF l
  <2> QED BY <1>1, <1>2, <2>1, <2>2
<1>3. CASE Ack(m) \/ Fail(m)
  <2>1. Idle.fence = 0 /\ Idle.live = FALSE
    BY DEF Idle
  <2>2. Fenced(Idle, m, intent')
    BY <1>0, <2>1 DEF Fenced
  <2> QED BY <1>3, <2>2, IdleAgain, OneFenced DEF Inv
<1>4. CASE ReadIntent(m)
  <2> DEFINE l == [local[m] EXCEPT !.pc = IF intent.status = "promoted" THEN "verify" ELSE "scan",
                                   !.seen = Seen(intent)]
  <2>1. l.fence = local[m].fence /\ l.live = local[m].live
    BY <1>0 DEF Locals
  <2>2. local' = [local EXCEPT ![m] = l] /\ local[m].pc = "read"
    BY <1>0, <1>4 DEF ReadIntent, At
  <2> HIDE DEF l
  <2> QED BY <1>1, <2>1, <2>2 DEF Leasing
<1>5. CASE Scanned(m) /\ At(m, "scan")
  <2> DEFINE l == [local[m] EXCEPT !.pc = "lookup", !.seen = [local[m].seen EXCEPT !.scan = None]]
  <2>1. l.fence = local[m].fence /\ l.live = local[m].live
    BY <1>0 DEF Locals
  <2>2. local' = [local EXCEPT ![m] = l] /\ local[m].pc = "scan"
    BY <1>0, <1>5 DEF Scanned, At
  <2> HIDE DEF l
  <2> QED BY <1>1, <2>1, <2>2 DEF Leasing
<1>6. CASE LookUp(m)
  <2> DEFINE l == [local[m] EXCEPT !.pc = IF aurora.facts = None THEN "claim" ELSE "recover",
                                   !.facts = aurora.facts]
  <2>1. l.fence = local[m].fence /\ l.live = local[m].live
    BY <1>0 DEF Locals
  <2>2. local' = [local EXCEPT ![m] = l] /\ local[m].pc = "lookup"
    BY <1>0, <1>6 DEF LookUp, At
  <2> HIDE DEF l
  <2> QED BY <1>1, <2>1, <2>2 DEF Leasing
<1>7. CASE Claim(m) \/ TakeOver(m)
  <2>1. PICK fence \in Fences, place \in {"validate", "fence"} :
          /\ Leased(m, fence, place)
          /\ intent'.fence = fence /\ intent'.holder = m /\ intent'.lease = "live"
    <3>1. CASE Claim(m)
      BY <1>0, <3>1, Bounds DEF Claim, Lease, Intents
    <3>2. CASE TakeOver(m)
      <4>1. intent.fence + 1 \in Fences
        BY <1>0, <3>2, Bounds DEF TakeOver, Intents, Fences
      <4> QED BY <1>0, <3>2, <4>1 DEF TakeOver, Lease, Intents
    <3> QED BY <1>7, <3>1, <3>2
  <2> DEFINE l == [Idle EXCEPT !.pc = place, !.fence = fence, !.live = TRUE]
  <2>2. l.pc = place /\ l.fence = fence /\ l.live = TRUE
    BY DEF Idle
  <2>3. local' = [local EXCEPT ![m] = l]
    BY <2>1 DEF Leased
  <2> HIDE DEF l
  <2>4. Fenced(l, m, intent')
    BY <2>1, <2>2, Bounds DEF Fenced, Fences, Leasing
  <2> QED BY <2>3, <2>4, OneFenced
<1>8. CASE Renew(m)
  <2> DEFINE l == [local[m] EXCEPT !.pc = IF At(m, "renew") THEN "refence" ELSE "complete", !.live = TRUE]
  <2>1. local' = [local EXCEPT ![m] = l]
    BY <1>0, <1>8 DEF Renew
  <2>2. l.pc \in {"refence", "complete"} /\ l.fence = local[m].fence /\ l.live = TRUE
    BY <1>0 DEF Locals
  <2>3. local[m].fence \in Fences /\ local[m].fence > 0
    BY <1>8, LocalsOf, Bounds DEF Renew, At, Sound, Leasing, Fences
  <2>4. intent'.fence = local[m].fence /\ intent'.holder = m /\ intent'.lease = "live"
    BY <1>0, <1>8 DEF Renew, ActiveLease, Holds, Intents
  <2> HIDE DEF l
  <2>5. Fenced(l, m, intent')
    BY <2>2, <2>3, <2>4, Bounds DEF Fenced, Leasing, Fences
  <2> QED BY <2>1, <2>5, OneFenced
<1>9. CASE UseCopy(m) /\ Adoptable(m)
  <2> DEFINE l == [local[m] EXCEPT !.pc = "resolve", !.dest = kept.fence]
  <2>1. l.pc = "resolve" /\ l.fence = local[m].fence /\ l.live = local[m].live
    BY <1>0 DEF Locals
  <2>2. local' = [local EXCEPT ![m] = l]
    BY <1>0, <1>9, CopyType
  <2> HIDE DEF l
  <2> QED BY <1>1, <2>1, <2>2 DEF Leasing
<1>10. CASE Record(m)
  <2> DEFINE l == [local[m] EXCEPT !.pc = "resolve", !.dest = local[m].fence]
  <2>1. l.pc = "resolve" /\ l.fence = local[m].fence /\ l.live = local[m].live
    BY <1>0 DEF Locals
  <2>2. local' = [local EXCEPT ![m] = l]
    BY <1>0, <1>10, RecordType
  <2> HIDE DEF l
  <2> QED BY <1>1, <2>1, <2>2 DEF Leasing
<1>11. CASE Execute(m)
  <2> DEFINE l == [local[m] EXCEPT !.pc = "commit", !.facts = Signing(m)]
  <2>1. l.pc = "commit" /\ l.fence = local[m].fence /\ l.live = local[m].live
    BY <1>0 DEF Locals
  <2>2. local' = [local EXCEPT ![m] = l]
    BY <1>0, <1>11, ExecuteType
  <2> HIDE DEF l
  <2> QED BY <1>1, <2>1, <2>2 DEF Leasing
<1>12. CASE UNCHANGED local
  BY <1>0, <1>12, StillFenced
<1>13. CASE Receive(m)
  BY <1>2, <1>13 DEF Receive, At, Leasing
<1>14. CASE Validate(m) \/ Permit(m) \/ Put(m) \/ Commit(m) \/ ClaimFence(m)
  BY <1>2, <1>14 DEF Validate, Permit, Put, Commit, ClaimFence, Leasing
<1>15. CASE Complete(m) \/ Recover(m)
  BY <1>2, <1>15 DEF Complete, Recover, Publish
<1>16. CASE Find(m)
  BY <1>2, <1>9, <1>16 DEF Find, Leasing
<1>17. CASE Resolve(m)
  BY <1>2, <1>12, <1>17 DEF Resolve, Leasing
<1>18. CASE Adopt(m)
  BY <1>9, <1>18 DEF Adopt
<1> QED BY <1>3, <1>4, <1>5, <1>6, <1>7, <1>8, <1>10, <1>11, <1>13, <1>14, <1>15, <1>16, <1>17, <1>18
        DEF Work, Prepare, Promote, Verify, Scan, Reuse, Delete, Refuse, Die

LEMMA FenceStep ==
    ASSUME Inv, StoresAgree, FenceInv, Next
    PROVE  FenceInv'
<1>0. /\ aurora \in AuroraRows /\ tx \in Message \union {None} /\ local \in [Message -> Locals]
      /\ intent.fence <= intent'.fence /\ intent.fence \in Nat /\ intent'.fence \in Nat
      /\ aurora.fence \in Nat /\ \A n \in Message : local[n].fence \in Nat
  <2>1. intent' \in Intents
    BY IntentType
  <2> QED BY <2>1, FenceGrows DEF Inv, TypeOK, Intents, AuroraRows, Locals
<1>1. aurora.fence <= intent.fence /\ (tx # None => local[tx].pc = "commit" /\ aurora.fence <= local[tx].fence)
  BY DEF FenceInv
<1>2. ASSUME NEW m \in Message, Receive(m) \/ Work(m) \/ Die(m), ~Lapse
      PROVE  FenceInv'
  <2>1. /\ \A n \in Message : Fenced(local'[n], n, intent')
        /\ \A n \in Message \ {m} : local'[n] = local[n]
    BY <1>2, WorkerFenced
  <2>2. m # None
    BY NoneAssumption
  <2>3. CASE UNCHANGED aurora /\ Fail(m)
    BY <1>0, <1>1, <2>1, <2>2, <2>3 DEF Fail, FenceInv
  <2>4. CASE UNCHANGED <<aurora, tx>> /\ local[m].pc # "commit"
    BY <1>0, <1>1, <2>1, <2>4 DEF FenceInv
  <2>5. CASE ClaimFence(m)
    <3>1. local[m].fence <= intent.fence
      BY DEF FenceInv, Fenced
    <3>2. tx' = None /\ aurora'.fence = local[m].fence
      BY <1>0, <2>5 DEF ClaimFence, AuroraRows
    <3> QED BY <1>0, <2>1, <3>1, <3>2 DEF FenceInv
  <2>6. CASE Execute(m)
    <3>1. tx' = m /\ aurora' = aurora /\ aurora.fence <= local[m].fence
      BY <1>0, <2>6 DEF Execute, FenceOpen
    <3>2. local'[m].pc = "commit" /\ local'[m].fence = local[m].fence
      <4>1. local'[m] = [local[m] EXCEPT !.pc = "commit", !.facts = Signing(m)]
        BY <1>0, <2>6, ExecuteType
      <4> QED BY <4>1, LocalsOf DEF Locals
    <3> QED BY <1>0, <1>1, <2>1, <3>1, <3>2 DEF FenceInv
  <2>7. CASE Commit(m)
    <3>1. tx' = None /\ aurora'.fence = aurora.fence
      BY <1>0, <2>7 DEF Commit, AuroraRows
    <3> QED BY <1>0, <1>1, <2>1, <3>1 DEF FenceInv
  <2>8. CASE Receive(m) \/ Prepare(m)
    BY <1>0, <1>1, <2>3, <2>4, <2>5, <2>8
       DEF Receive, Prepare, ReadIntent, Verify, Scan, Reuse, LookUp, Claim, TakeOver, Validate, Renew, At
  <2>9. CASE Promote(m)
    BY <1>0, <1>1, <2>4, <2>6, <2>7, <2>9
       DEF Promote, Find, Permit, Put, Adopt, Record, Resolve, Complete, Recover, Publish, Delete, At
  <2>10. CASE Refuse(m) \/ Die(m)
    BY <2>3, <2>10 DEF Refuse, Die
  <2> QED BY <1>2, <2>8, <2>9, <2>10 DEF Work
<1>3. CASE Lapse
  <2>1. ASSUME NEW n \in Message
        PROVE  /\ Fenced(local'[n], n, intent')
               /\ local'[n].pc = local[n].pc /\ local'[n].fence = local[n].fence
    <3>1. local'[n] = [local[n] EXCEPT !.live = FALSE] /\ local[n] \in Locals
      BY <1>0, <1>3 DEF Lapse
    <3>2. /\ local'[n].pc = local[n].pc /\ local'[n].fence = local[n].fence /\ local'[n].live = FALSE
      BY <3>1 DEF Locals
    <3> QED BY <1>0, <3>2 DEF FenceInv, Fenced
  <2>2. tx' = tx /\ aurora'.fence = aurora.fence
    BY <1>0, <1>3 DEF Lapse, AuroraRows
  <2> QED BY <1>0, <1>1, <2>1, <2>2 DEF FenceInv
<1>4. CASE UNCHANGED <<local, tx>> /\ aurora'.fence = aurora.fence /\ ~Lapse
  BY <1>0, <1>1, <1>4, StillFenced DEF FenceInv
<1>5. CASE Deadline \/ Expire \/ Flag \/ RejectMark \/ RejectConfirm \/ RejectFail
           \/ \E v \in Threat : RejectRead(v)
  BY <1>3, <1>4, <1>5 DEF Deadline, Expire, Flag, RejectMark, RejectConfirm, RejectFail, RejectRead
<1>6. CASE RejectCommit
  BY <1>0, <1>3, <1>4, <1>6 DEF RejectCommit, AuroraRows
<1> QED BY <1>2, <1>3, <1>5, <1>6 DEF Next

\* A superseded worker finds every door closed: the intent is not its own, and
\* Aurora takes no older fence.
LEMMA Powerless ==
    ASSUME Inv, StoresAgree, FenceInv, [Next]_vars, NEW m \in Message,
           local[m].fence \in 1..(aurora.fence - 1), local'[m] # local[m], local'[m].pc # "idle"
    PROVE  UNCHANGED <<aurora, rows, published>> /\ intent'.status = intent.status
<1>0. /\ local \in [Message -> Locals] /\ intent \in Intents /\ aurora \in AuroraRows
      /\ aurora.fence \in Nat /\ local[m].fence \in Nat /\ intent.fence \in Nat
  BY DEF Inv, TypeOK, Intents, AuroraRows, Locals
<1>1. local[m].fence < aurora.fence /\ local[m].fence > 0
  BY <1>0
<1>2. local[m].fence < intent.fence
  BY <1>0, <1>1 DEF FenceInv
<1>3. /\ ~Holds(m) /\ ~FenceOpen(m) /\ ~local[m].live /\ tx # m
      /\ local[m].pc \in Leasing \union {"delete"}
  <2>1. ~Holds(m) /\ ~FenceOpen(m)
    BY <1>0, <1>1, <1>2 DEF Holds, FenceOpen
  <2>2. ~local[m].live /\ local[m].pc \in Leasing \union {"delete"}
    BY <1>0, <1>1, <1>2 DEF FenceInv, Fenced
  <2>3. tx # m
    BY <1>0, <1>1, NoneAssumption DEF FenceInv
  <2> QED BY <2>1, <2>2, <2>3
<1>4. CASE UNCHANGED local
  BY <1>4
<1>5. CASE Lapse
  <2>1. local'[m] = [local[m] EXCEPT !.live = FALSE] /\ local[m].live = FALSE
    BY <1>0, <1>3, <1>5 DEF Lapse, Locals
  <2>2. local'[m] = local[m]
    BY <1>0, <2>1 DEF Locals
  <2> QED BY <2>2
<1>6. ASSUME NEW n \in Message, Receive(n) \/ Work(n) \/ Die(n)
      PROVE  UNCHANGED <<aurora, rows, published>> /\ intent'.status = intent.status
  <2>1. CASE n # m /\ ~Lapse
    BY <1>6, <2>1, WorkerFenced DEF Next
  <2>2. CASE n = m
    <3>1. CASE \/ Receive(m) \/ ReadIntent(m) \/ Scan(m) \/ Reuse(m) \/ LookUp(m) \/ Claim(m)
               \/ TakeOver(m) \/ Recover(m)
      BY <1>3, <3>1 DEF Receive, ReadIntent, Scan, Reuse, LookUp, Claim, TakeOver, Recover, At, Leasing
    <3>2. CASE Validate(m) \/ ClaimFence(m) \/ Renew(m) \/ Permit(m) \/ Commit(m) \/ Complete(m)
      BY <1>3, <3>2 DEF Validate, ClaimFence, Renew, Permit, Commit, Complete, ActiveLease
    <3>3. CASE Find(m) \/ Put(m) \/ Adopt(m) \/ Record(m) \/ Resolve(m) \/ Execute(m)
      BY <3>3 DEF Find, Put, Adopt, Record, Resolve, Execute, control
    <3>4. CASE Ack(m) \/ Fail(m)
      BY <1>0, <3>4 DEF Ack, Fail, Idle
    <3> QED BY <1>6, <2>2, <3>1, <3>2, <3>3, <3>4
            DEF Work, Prepare, Promote, Verify, Delete, Refuse, Die
  <2> QED BY <1>5, <2>1, <2>2
<1> QED BY <1>4, <1>5, <1>6 DEF Next, vars, Deadline, Expire, Flag, RejectRead, RejectMark, RejectCommit,
           RejectConfirm, RejectFail

LEMMA Fencing == Spec => []FenceInv
<1>1. Init => FenceInv
  <2> SUFFICES ASSUME Init PROVE FenceInv
    OBVIOUS
  <2> QED BY DEF Init, FenceInv, Fenced, Idle, Issued
<1>2. Inv /\ StoresAgree /\ FenceInv /\ [Next]_vars => FenceInv'
  <2>1. ASSUME FenceInv, UNCHANGED vars PROVE FenceInv'
    BY <2>1 DEF FenceInv, Fenced, vars
  <2> QED BY <2>1, FenceStep
<1> QED BY <1>1, <1>2, Invariant, Agreement, PTL DEF Spec

\* A worker whose fence Aurora has seen superseded changes neither store, for
\* any number of workers, fences and early expiries (claim_promotion_fence and
\* the lease conditions of promote-evidence/index.mjs).
THEOREM SupersededCorrect == Spec => SupersededIsPowerless
<1>1. Inv /\ StoresAgree /\ FenceInv /\ [Next]_vars =>
        [\A m \in Message :
           local[m].fence \in 1..(aurora.fence - 1) /\ local'[m] # local[m] /\ local'[m].pc # "idle"
             => UNCHANGED <<aurora, rows, published>> /\ intent'.status = intent.status]_vars
  BY Powerless
<1> QED BY <1>1, Invariant, Agreement, Fencing, PTL DEF Spec, SupersededIsPowerless

-----------------------------------------------------------------------------
(* One fault.  What an intent that is not settled is like after at most one *)
(* fault.                                                                   *)

Undecided == ~Settled /\ faults <= 1

\* Nothing has been deleted, rejected or flagged, and every lease is somebody's.
Untouched ==
    /\ sources = Version
    /\ aurora.status # "rejected" /\ (aurora.status = "promoted" => aurora.facts # None)
    /\ rejecter.pc \notin {"commit", "confirm"}
    /\ intent.flag = 0 /\ \A m \in Message : local[m].seen.flag = 0
    /\ intent.status = "issued" => intent.fence = 0 /\ \A v \in Version : rows[v] = "none"
    /\ intent.status \in Claimed =>
        /\ intent.holder \in Message /\ intent.fence > 0 /\ about[intent.holder] = intent.source
        /\ intent.lease \in {"live", "aging", "expired"}
        /\ intent.scan = [source |-> intent.source, clean |-> TRUE]

\* Aurora's fence is in force only while the lease of its holder is, and a
\* message that left the queue has no worker.
AuroraLease ==
    aurora.live => aurora.fence = intent.fence /\ aurora.fence > 0 /\ intent.lease # "expired"
Delivered == \A m \in Message : done[m] # "open" => local[m].pc = "idle"

\* Until the intent is claimed, a message about the version that was scanned
\* is refused nowhere.
Candidate(m) == intent.scan = None \/ intent.scan.source = about[m]
Unrefused(m) ==
    /\ done[m] = "open"
    /\ sent[m] <= faults + (IF local[m].pc = "idle" THEN 0 ELSE 1)
    /\ local[m].pc \in {"idle", "read", "scan", "lookup", "claim"}
    /\ local[m].pc \in {"scan", "lookup", "claim"} => local[m].seen.status = "issued"
Contested == (\E m \in Message : Candidate(m)) /\ \A m \in Message : Candidate(m) => Unrefused(m)

\* Before the fault every worker with a fence has its lease, and a lease that
\* lapsed under its holder did so at the first delivery.
Leaseholder(m) ==
    local[m].fence > 0 =>
        /\ local[m].live \/ sent[m] <= 1
        /\ faults = 0 => local[m].live /\ sent[m] <= 1
        /\ local[m].live /\ local[m].pc = "validate" => intent.status = "quarantined"
Leaseholders == \A m \in Message : Leaseholder(m)

\* The holder is at work, or will find its lease lapsed at the third delivery
\* at the latest.
Ready(m) ==
    \/ local[m].pc = "read"
    \/ /\ local[m].pc \in {"scan", "lookup", "claim"}
       /\ local[m].seen.status = intent.status /\ local[m].seen.fence = intent.fence
       /\ local[m].seen.source = intent.source
Waits(m) ==
    /\ done[m] = "open" /\ sent[m] <= 3
    /\ intent.lease = "live" => sent[m] <= 1
    /\ intent.lease = "aging" => sent[m] <= 2
    /\ sent[m] = 3 => Ready(m)

\* What Aurora accepted is being completed, or will be at the next delivery.
Finishing(m) == local[m].live /\ local[m].pc \in {"renewAgain", "complete"}
Recovers(m) ==
    /\ about[m] = intent.source /\ done[m] = "open" /\ sent[m] <= 2
    /\ sent[m] = 2 => \/ local[m].pc = "read"
                      \/ /\ local[m].pc \in {"scan", "lookup", "recover"}
                         /\ local[m].seen.status = "validated"

ClaimSurvives ==
    /\ faults = 0 => local[intent.holder].live
    /\ aurora.facts = None => local[intent.holder].live \/ Waits(intent.holder)
    /\ aurora.facts # None =>
        \/ \E m \in Message : Finishing(m)
        \/ faults = 1 /\ \E m \in Message : Recovers(m)

Surviving ==
    /\ intent.status = "issued" => Contested
    /\ intent.status \in Claimed => ClaimSurvives

SurvivalInv ==
    AuroraLease /\ Delivered /\ (Undecided => Untouched /\ Leaseholders /\ Surviving)

-----------------------------------------------------------------------------
(* What a step does to the locals.                                          *)

Others(m) == \A n \in Message \ {m} : local'[n] = local[n]
SameLease(m) == local'[m].fence = local[m].fence /\ local'[m].live = local[m].live
Moves(m, place) ==
    /\ Others(m) /\ local'[m].pc = place /\ SameLease(m)
    /\ local'[m].seen.status = local[m].seen.status /\ local'[m].seen.fence = local[m].seen.fence
    /\ local'[m].seen.source = local[m].seen.source /\ local'[m].seen.flag = local[m].seen.flag
Ends(m) == Others(m) /\ local'[m] = Idle
TakesLease(m, place) ==
    /\ Others(m) /\ local'[m].pc = place /\ local'[m].live /\ local'[m].seen.flag = 0
    /\ local'[m].fence = intent'.fence

LEMMA IdleIs == Idle.pc = "idle" /\ Idle.fence = 0 /\ Idle.live = FALSE /\ Idle.seen.flag = 0
BY DEF Idle, Seen, Issued

LEMMA OneMoves ==
    ASSUME Inv, NEW m \in Message, NEW l, local' = [local EXCEPT ![m] = l]
    PROVE  Others(m) /\ local'[m] = l
BY DEF Inv, TypeOK, Others

LEMMA GotoMoves ==
    ASSUME Inv, NEW m \in Message, NEW place, Goto(m, place)
    PROVE  Moves(m, place)
<1> DEFINE l == [local[m] EXCEPT !.pc = place]
<1>1. /\ l.pc = place /\ l.fence = local[m].fence /\ l.live = local[m].live /\ l.seen = local[m].seen
  BY LocalsOf DEF Locals
<1>2. local' = [local EXCEPT ![m] = l]
  BY DEF Goto, Inv, TypeOK
<1> HIDE DEF l
<1> QED BY <1>1, <1>2, OneMoves DEF Moves, SameLease

LEMMA EndsAre ==
    ASSUME Inv, NEW m \in Message, Ack(m) \/ Fail(m)
    PROVE  Ends(m)
BY OneMoves DEF Ack, Fail, Ends

LEMMA PrepareMoves ==
    ASSUME Inv, NEW m \in Message
    PROVE  /\ Receive(m) => Moves(m, "read")
           /\ ReadIntent(m) =>
                /\ Others(m) /\ SameLease(m) /\ local'[m].seen = Seen(intent)
                /\ local'[m].pc = IF intent.status = "promoted" THEN "verify" ELSE "scan"
           /\ Scanned(m) => Moves(m, "lookup")
           /\ LookUp(m) => Moves(m, IF aurora.facts = None THEN "claim" ELSE "recover")
           /\ Claim(m) => TakesLease(m, "validate")
           /\ TakeOver(m) => TakesLease(m, IF intent.status = "quarantined" THEN "validate" ELSE "fence")
           /\ Validate(m) => Moves(m, "fence")
           /\ ClaimFence(m) => Moves(m, IF At(m, "fence") THEN "find" ELSE "execute")
           /\ Renew(m) =>
                /\ Others(m) /\ local'[m].fence = local[m].fence /\ local'[m].live
                /\ local'[m].seen = local[m].seen
                /\ local'[m].pc = IF At(m, "renew") THEN "refence" ELSE "complete"
<1>0. local[m] \in Locals /\ intent \in Intents
  BY LocalsOf DEF Inv, TypeOK
<1>1. Receive(m) => Moves(m, "read")
  BY GotoMoves DEF Receive
<1>2. ASSUME ReadIntent(m)
      PROVE  /\ Others(m) /\ SameLease(m) /\ local'[m].seen = Seen(intent)
             /\ local'[m].pc = IF intent.status = "promoted" THEN "verify" ELSE "scan"
  <2> DEFINE l == [local[m] EXCEPT !.pc = IF intent.status = "promoted" THEN "verify" ELSE "scan",
                                   !.seen = Seen(intent)]
  <2>1. /\ l.pc = IF intent.status = "promoted" THEN "verify" ELSE "scan"
        /\ l.seen = Seen(intent) /\ l.fence = local[m].fence /\ l.live = local[m].live
    BY <1>0 DEF Locals
  <2>2. local' = [local EXCEPT ![m] = l]
    BY <1>2 DEF ReadIntent, Inv, TypeOK
  <2> HIDE DEF l
  <2> QED BY <2>1, <2>2, OneMoves DEF SameLease
<1>3. ASSUME Scanned(m) PROVE Moves(m, "lookup")
  <2> DEFINE seen == [local[m].seen EXCEPT !.scan = None]
             l == [local[m] EXCEPT !.pc = "lookup", !.seen = seen]
  <2>1. /\ seen.status = local[m].seen.status /\ seen.fence = local[m].seen.fence
        /\ seen.source = local[m].seen.source /\ seen.flag = local[m].seen.flag
    BY <1>0 DEF Locals, Views
  <2>2. local' = [local EXCEPT ![m] = l]
    BY <1>3 DEF Scanned, Inv, TypeOK
  <2> HIDE DEF seen
  <2>3. l.pc = "lookup" /\ l.fence = local[m].fence /\ l.live = local[m].live /\ l.seen = seen
    BY <1>0 DEF Locals
  <2> HIDE DEF l
  <2> QED BY <2>1, <2>2, <2>3, OneMoves DEF Moves, SameLease
<1>4. ASSUME LookUp(m) PROVE Moves(m, IF aurora.facts = None THEN "claim" ELSE "recover")
  <2> DEFINE l == [local[m] EXCEPT !.pc = IF aurora.facts = None THEN "claim" ELSE "recover",
                                   !.facts = aurora.facts]
  <2>1. /\ l.pc = IF aurora.facts = None THEN "claim" ELSE "recover"
        /\ l.seen = local[m].seen /\ l.fence = local[m].fence /\ l.live = local[m].live
    BY <1>0 DEF Locals
  <2>2. local' = [local EXCEPT ![m] = l]
    BY <1>4 DEF LookUp, Inv, TypeOK
  <2> HIDE DEF l
  <2> QED BY <2>1, <2>2, OneMoves DEF Moves, SameLease
<1>5. ASSUME NEW fence, NEW place, Leased(m, fence, place), intent'.fence = fence
      PROVE  TakesLease(m, place)
  <2> DEFINE l == [Idle EXCEPT !.pc = place, !.fence = fence, !.live = TRUE]
  <2>1. l.pc = place /\ l.fence = fence /\ l.live = TRUE /\ l.seen.flag = 0
    BY DEF Idle, Seen, Issued
  <2>2. local' = [local EXCEPT ![m] = l]
    BY <1>5 DEF Leased
  <2> HIDE DEF l
  <2> QED BY <1>5, <2>1, <2>2, OneMoves DEF TakesLease
<1>6. Claim(m) => TakesLease(m, "validate")
  BY <1>0, <1>5 DEF Claim, Lease, Intents
<1>7. TakeOver(m) => TakesLease(m, IF intent.status = "quarantined" THEN "validate" ELSE "fence")
  BY <1>0, <1>5 DEF TakeOver, Lease, Intents
<1>8. Validate(m) => Moves(m, "fence")
  BY GotoMoves DEF Validate
<1>9. ClaimFence(m) => Moves(m, IF At(m, "fence") THEN "find" ELSE "execute")
  BY GotoMoves DEF ClaimFence
<1>10. ASSUME Renew(m)
       PROVE  /\ Others(m) /\ local'[m].fence = local[m].fence /\ local'[m].live
              /\ local'[m].seen = local[m].seen
              /\ local'[m].pc = IF At(m, "renew") THEN "refence" ELSE "complete"
  <2> DEFINE l == [local[m] EXCEPT !.pc = IF At(m, "renew") THEN "refence" ELSE "complete", !.live = TRUE]
  <2>1. /\ l.pc = IF At(m, "renew") THEN "refence" ELSE "complete"
        /\ l.seen = local[m].seen /\ l.fence = local[m].fence /\ l.live = TRUE
    BY <1>0 DEF Locals
  <2>2. local' = [local EXCEPT ![m] = l]
    BY <1>10 DEF Renew, Inv, TypeOK
  <2> HIDE DEF l
  <2> QED BY <2>1, <2>2, OneMoves
<1> QED BY <1>1, <1>2, <1>3, <1>4, <1>6, <1>7, <1>8, <1>9, <1>10

LEMMA PromoteMoves ==
    ASSUME Inv, NEW m \in Message
    PROVE  /\ Find(m) => Moves(m, "permit") \/ Moves(m, "resolve")
           /\ Permit(m) => Moves(m, "put")
           /\ Put(m) => Moves(m, "record")
           /\ Adopt(m) \/ Record(m) => Moves(m, "resolve")
           /\ Resolve(m) => Moves(m, "resolve") \/ Moves(m, "renew")
           /\ Execute(m) => Moves(m, "commit")
           /\ Commit(m) => Moves(m, "renewAgain")
           /\ Complete(m) \/ Recover(m) => Moves(m, "delete")
<1>0. local[m] \in Locals /\ local \in [Message -> Locals]
  BY LocalsOf DEF Inv, TypeOK
<1>1. ASSUME NEW dest, local' = [local EXCEPT ![m] = [local[m] EXCEPT !.pc = "resolve", !.dest = dest]]
      PROVE  Moves(m, "resolve")
  <2> DEFINE l == [local[m] EXCEPT !.pc = "resolve", !.dest = dest]
  <2>1. l.pc = "resolve" /\ l.seen = local[m].seen /\ l.fence = local[m].fence /\ l.live = local[m].live
    BY <1>0 DEF Locals
  <2>2. local' = [local EXCEPT ![m] = l]
    BY <1>1
  <2> HIDE DEF l
  <2> QED BY <2>1, <2>2, OneMoves DEF Moves, SameLease
<1>2. ASSUME Execute(m) PROVE Moves(m, "commit")
  <2> DEFINE l == [local[m] EXCEPT !.pc = "commit", !.facts = Signing(m)]
  <2>1. l.pc = "commit" /\ l.seen = local[m].seen /\ l.fence = local[m].fence /\ l.live = local[m].live
    BY <1>0 DEF Locals
  <2>2. local' = [local EXCEPT ![m] = l]
    BY <1>2, ExecuteType
  <2> HIDE DEF l
  <2> QED BY <2>1, <2>2, OneMoves DEF Moves, SameLease
<1>3. Find(m) => Moves(m, "permit") \/ Moves(m, "resolve")
  BY <1>1, CopyType, GotoMoves DEF Find
<1>4. Adopt(m) \/ Record(m) => Moves(m, "resolve")
  BY <1>1, CopyType, RecordType DEF Adopt
<1>5. ASSUME Resolve(m) PROVE Moves(m, "resolve") \/ Moves(m, "renew")
  BY <1>5, GotoMoves DEF Resolve, At, Moves, Others, SameLease
<1>6. /\ Permit(m) => Moves(m, "put")
      /\ Put(m) => Moves(m, "record")
      /\ Commit(m) => Moves(m, "renewAgain")
      /\ Complete(m) \/ Recover(m) => Moves(m, "delete")
  BY GotoMoves DEF Permit, Put, Commit, Complete, Recover, Publish
<1> QED BY <1>2, <1>3, <1>4, <1>5, <1>6

-----------------------------------------------------------------------------
(* What a step does to the lease, and what is settled for good.             *)

Basis == Inv /\ StoresAgree /\ FenceInv

SameHolder == intent'.holder = intent.holder /\ intent'.fence = intent.fence
Releases(m, lease) == SameHolder /\ intent'.flag = intent.flag /\ intent'.lease = lease

LEMMA LeaseMoves ==
    ASSUME Inv, NEW m \in Message
    PROVE  /\ Receive(m) =>
                Releases(m, IF intent.holder = m /\ intent.lease = "live" THEN "aging" ELSE intent.lease)
           /\ Scan(m) \/ Validate(m) => Releases(m, intent.lease)
           /\ Renew(m) \/ Permit(m) => Releases(m, "live")
           /\ Claim(m) => /\ intent'.holder = m /\ intent'.fence = 1 /\ intent'.lease = "live"
                          /\ intent'.flag = 0
           /\ TakeOver(m) => /\ intent'.holder = m /\ intent'.fence = intent.fence + 1
                             /\ intent'.lease = "live" /\ intent'.flag = 0
<1>0. intent \in Intents
  BY DEF Inv, TypeOK
<1>1. Receive(m) =>
        Releases(m, IF intent.holder = m /\ intent.lease = "live" THEN "aging" ELSE intent.lease)
  BY <1>0 DEF Receive, Intents, Releases, SameHolder
<1>2. Scan(m) \/ Validate(m) => Releases(m, intent.lease)
  BY <1>0 DEF Scan, Validate, Intents, Releases, SameHolder
<1>3. Renew(m) \/ Permit(m) => Releases(m, "live")
  BY <1>0 DEF Renew, Permit, Intents, Releases, SameHolder
<1>4. Claim(m) \/ TakeOver(m) =>
        /\ intent'.holder = m /\ intent'.lease = "live" /\ intent'.flag = 0
        /\ intent'.fence = IF Claim(m) THEN 1 ELSE intent.fence + 1
  BY <1>0 DEF Claim, TakeOver, Lease, Intents
<1>5. TakeOver(m) => ~Claim(m)
  BY DEF TakeOver, Claim
<1> QED BY <1>1, <1>2, <1>3, <1>4, <1>5

\* The steps that leave the intent as it is.
LEMMA IntentStays ==
    ASSUME NEW m \in Message,
           \/ ReadIntent(m) \/ Verify(m) \/ Reuse(m) \/ LookUp(m) \/ ClaimFence(m)
           \/ Find(m) \/ Put(m) \/ Adopt(m) \/ Record(m) \/ Resolve(m) \/ Execute(m)
           \/ Commit(m) \/ Delete(m) \/ Refuse(m) \/ Die(m)
    PROVE  intent' = intent
BY DEF ReadIntent, Verify, Reuse, LookUp, ClaimFence, Find, Put, Adopt, Record, Resolve, Execute,
       Commit, Delete, Refuse, Die

\* Only the first fence and a lease that lapsed are superseded; a step of the
\* clock apart, nothing ends a lease but its completion or a rejection.
LEMMA LeaseKept ==
    ASSUME Inv, Next, ~Lapse, intent.lease # "expired", intent.fence > 0
    PROVE  SameHolder /\ intent'.lease # "expired"
<1>0. intent \in Intents
  BY DEF Inv, TypeOK
<1>1. ASSUME NEW m \in Message, Receive(m) \/ Work(m) \/ Die(m)
      PROVE  SameHolder /\ intent'.lease # "expired"
  <2>1. ~Claim(m) /\ ~TakeOver(m)
    BY <1>0 DEF Claim, Claimable, TakeOver, Takeable, Intents
  <2>2. CASE Complete(m) \/ Recover(m)
    BY <1>0, <2>2 DEF Complete, Recover, Publish, Intents, SameHolder
  <2> QED BY <1>1, <2>1, <2>2, LeaseMoves, IntentStays DEF Work, Prepare, Promote, Releases, SameHolder
<1>2. CASE Expire \/ Flag \/ RejectMark \/ RejectConfirm
  BY <1>0, <1>2 DEF Expire, Flag, RejectMark, RejectConfirm, Intents, SameHolder
<1> QED BY <1>1, <1>2 DEF Next, Deadline, RejectRead, RejectCommit, RejectFail, SameHolder

\* Of the world, Aurora and the quarantine a worker changes only this.
LEMMA WorkTouches ==
    ASSUME NEW m \in Message, Receive(m) \/ Work(m) \/ Die(m)
    PROVE  /\ UNCHANGED <<late, rejecter>> /\ (UNCHANGED faults \/ Fault)
           /\ UNCHANGED aurora \/ ClaimFence(m) \/ Commit(m)
           /\ UNCHANGED sources \/ Delete(m)
<1>1. CASE Receive(m) \/ Refuse(m) \/ Die(m)
  BY <1>1 DEF Receive, Refuse, Die, world
<1>2. CASE ReadIntent(m) \/ Verify(m) \/ Scan(m) \/ Reuse(m) \/ LookUp(m)
  BY <1>2 DEF ReadIntent, Verify, Scan, Reuse, LookUp, world
<1>3. CASE Claim(m) \/ TakeOver(m) \/ Validate(m) \/ ClaimFence(m) \/ Renew(m)
  BY <1>3 DEF Claim, TakeOver, Validate, ClaimFence, Renew, world
<1>4. CASE Find(m) \/ Permit(m) \/ Put(m) \/ Adopt(m) \/ Record(m) \/ Resolve(m)
  BY <1>4 DEF Find, Permit, Put, Adopt, Record, Resolve, world
<1>5. CASE Execute(m) \/ Commit(m) \/ Complete(m) \/ Recover(m) \/ Delete(m)
  BY <1>5 DEF Execute, Commit, Complete, Recover, Publish, Delete, world
<1> QED BY <1>1, <1>2, <1>3, <1>4, <1>5 DEF Work, Prepare, Promote

LEMMA FaultsGrow ==
    ASSUME TypeOK, Next PROVE faults \in Nat /\ faults' \in Nat /\ faults <= faults'
<1>1. faults \in Nat
  BY Bounds DEF TypeOK, Flags
<1>2. UNCHANGED faults \/ Fault
  BY WorkTouches DEF Next, Lapse, Deadline, Expire, Flag, RejectRead, RejectMark, RejectCommit,
     RejectConfirm, RejectFail, world
<1> QED BY <1>1, <1>2 DEF Fault

\* The steps that do more to the intent than to take, renew, flag or lose a lease.
LEMMA IntentTouches ==
    ASSUME Inv, IntentInv, Next
    PROVE  \/ SameIntent \/ Expire \/ RejectMark
           \/ \E m \in Message : Scan(m) \/ Claim(m) \/ Validate(m) \/ Complete(m) \/ Recover(m)
<1>1. ASSUME NEW m \in Message, Receive(m) \/ Work(m) \/ Die(m)
      PROVE  SameIntent \/ Scan(m) \/ Claim(m) \/ Validate(m) \/ Complete(m) \/ Recover(m)
  <2>1. Receive(m) \/ TakeOver(m) \/ Renew(m) \/ Permit(m) \/ intent' = intent => SameIntent
    BY LeaseOnly
  <2> QED BY <1>1, <2>1, IntentStays DEF Work, Prepare, Promote
<1>2. CASE Lapse \/ Flag \/ RejectConfirm
  BY <1>2, LeaseOnly
<1>3. Deadline \/ RejectCommit \/ RejectFail \/ (\E v \in Threat : RejectRead(v)) => intent' = intent
  BY DEF Deadline, RejectRead, RejectCommit, RejectFail
<1>4. intent' = intent => SameIntent
  BY DEF SameIntent
<1> QED BY <1>1, <1>2, <1>3, <1>4 DEF Next

\* Only an active intent changes its status.
LEMMA StatusMoves ==
    ASSUME Inv, StoresAgree, Next
    PROVE  /\ intent.status \notin Active => intent'.status = intent.status
           /\ intent'.status = "issued" => intent.status = "issued"
           /\ intent'.status \in Claimed =>
                \/ intent.status \in Claimed
                \/ \E m \in Message : Claim(m)
<1>0. IntentInv
  BY DEF StoresAgree
<1> DEFINE Good ==
        /\ intent.status \notin Active => intent'.status = intent.status
        /\ intent'.status = "issued" => intent.status = "issued"
        /\ intent'.status \in Claimed =>
             \/ intent.status \in Claimed
             \/ \E m \in Message : Claim(m)
<1>1. ASSUME SameIntent PROVE Good
  BY <1>1 DEF SameIntent
<1>2. ASSUME NEW m \in Message, Scan(m) \/ Claim(m) \/ Validate(m) \/ Complete(m) \/ Recover(m)
      PROVE  Good
  BY <1>0, <1>2, IntentMoves DEF Active, Claimed
<1>3. ASSUME Expire \/ RejectMark PROVE Good
  BY <1>0, <1>3, SweepMoves DEF Active, Claimed
<1> QED BY <1>0, <1>1, <1>2, <1>3, IntentTouches

LEMMA StillUndecided ==
    ASSUME Basis, Next, Undecided'
    PROVE  /\ Undecided /\ intent.status \in Active /\ intent'.status \in Active
           /\ ~late /\ ~late'
           /\ faults \in Nat /\ faults' \in Nat /\ faults <= faults' /\ faults' <= 1
           /\ intent.scan # None => intent.scan.clean /\ intent'.scan = intent.scan
           /\ intent \in Intents /\ intent' \in Intents
           /\ Inv /\ StoresGrow /\ IntentGrows
<1>1. /\ intent \in Intents /\ intent' \in Intents /\ Inv /\ StoresGrow /\ IntentGrows
      /\ faults \in Nat /\ faults' \in Nat /\ faults <= faults' /\ faults' <= 1
  BY IntentType, Growing, IntentGrowing, FaultsGrow DEF Basis, Inv, TypeOK, Undecided
<1>2. intent'.status \in Active /\ ~late' /\ (intent'.scan # None => intent'.scan.clean)
  BY <1>1 DEF Undecided, Settled, Intents, Statuses
<1>3. intent.status \in Active
  BY <1>2, StatusMoves DEF Basis
<1>4. ~late
  BY <1>2, WorkTouches DEF Next, Lapse, Deadline, Expire, Flag, RejectRead, RejectMark, RejectCommit,
     RejectConfirm, RejectFail, world
<1>5. intent.scan # None => intent.scan.clean /\ intent'.scan = intent.scan
  BY <1>1, <1>2 DEF IntentGrows
<1>6. Undecided
  BY <1>1, <1>3, <1>4, <1>5 DEF Undecided, Settled, Active
<1> QED BY <1>1, <1>2, <1>3, <1>4, <1>5, <1>6

-----------------------------------------------------------------------------
(* Aurora's lease, deliveries, and what is untouched.                       *)

LEMMA AuroraLeaseStep ==
    ASSUME Basis, AuroraLease, Next PROVE AuroraLease'
<1>0. aurora \in AuroraRows /\ intent \in Intents /\ Inv /\ aurora.fence \in Nat /\ intent.fence \in Nat
  BY DEF Basis, Inv, TypeOK, AuroraRows, Intents
<1>1. CASE Lapse
  <2>1. aurora'.live = FALSE
    BY <1>0, <1>1 DEF Lapse, AuroraRows
  <2> QED BY <2>1 DEF AuroraLease
<1>2. ASSUME ~Lapse, aurora'.fence = aurora.fence, aurora'.live = aurora.live
      PROVE  AuroraLease'
  BY <1>0, <1>2, LeaseKept DEF AuroraLease, SameHolder
<1>3. ASSUME NEW m \in Message, ClaimFence(m) PROVE AuroraLease'
  <2>1. local[m].live /\ aurora'.fence = local[m].fence /\ intent' = intent
    BY <1>0, <1>3 DEF ClaimFence, FenceOpen, AuroraRows
  <2> QED BY <2>1 DEF AuroraLease, Basis, FenceInv, Fenced
<1>4. ASSUME NEW m \in Message, Commit(m) PROVE aurora'.fence = aurora.fence /\ aurora'.live = aurora.live
  BY <1>0, <1>4 DEF Commit, AuroraRows
<1>5. CASE RejectCommit
  BY <1>0, <1>5 DEF RejectCommit, AuroraRows, AuroraLease
<1>6. UNCHANGED aurora \/ Lapse \/ RejectCommit \/ \E m \in Message : ClaimFence(m) \/ Commit(m)
  BY WorkTouches DEF Next, Deadline, Expire, Flag, RejectRead, RejectMark, RejectConfirm, RejectFail
<1> QED BY <1>1, <1>2, <1>3, <1>4, <1>5, <1>6

\* A worker's turn: it was at work; it goes on, or is done and its message with it.
LEMMA Turns ==
    ASSUME Inv, NEW m \in Message, Work(m) \/ Die(m)
    PROVE  /\ local[m].pc # "idle" /\ Others(m) /\ sent' = sent
           /\ \/ Ends(m) /\ \A n \in Message \ {m} : done'[n] = done[n]
              \/ done' = done /\ (Prepare(m) \/ Promote(m))
<1>0. done \in [Message -> {"open", "acked", "dead"}]
  BY DEF Inv, TypeOK
<1>1. ASSUME Ack(m) \/ Fail(m)
      PROVE  Ends(m) /\ (\A n \in Message \ {m} : done'[n] = done[n]) /\ sent' = sent
  BY <1>0, <1>1, EndsAre DEF Ack, Fail
<1>2. CASE Verify(m) \/ Delete(m) \/ Refuse(m) \/ Die(m)
  BY <1>1, <1>2 DEF Verify, Delete, Refuse, Refused, Die, At, Ends
<1>3. CASE Scan(m)
  BY <1>1, <1>3, PrepareMoves DEF Scan, At, Ends, Moves, queue, Prepare
<1>4. CASE Reuse(m)
  BY <1>4, PrepareMoves DEF Reuse, At, Moves, queue, Prepare
<1>5. CASE ReadIntent(m) \/ LookUp(m) \/ Claim(m) \/ TakeOver(m) \/ Validate(m)
           \/ ClaimFence(m) \/ Renew(m)
  BY <1>5, PrepareMoves
     DEF ReadIntent, LookUp, Claim, TakeOver, Validate, ClaimFence, Renew, At, Moves, TakesLease,
         queue, Prepare
<1>6. CASE Find(m) \/ Permit(m) \/ Put(m) \/ Adopt(m) \/ Record(m) \/ Resolve(m) \/ Execute(m)
           \/ Commit(m) \/ Complete(m) \/ Recover(m)
  BY <1>6, PromoteMoves
     DEF Find, Permit, Put, Adopt, Record, Resolve, Execute, Commit, Complete, Recover, Publish,
         At, Moves, queue, Promote
<1> QED BY <1>2, <1>3, <1>4, <1>5, <1>6 DEF Work, Prepare, Promote

\* The steps of nobody's turn.
LEMMA NobodysTurn ==
    ASSUME Deadline \/ Expire \/ Flag \/ RejectMark \/ RejectCommit \/ RejectConfirm
           \/ RejectFail \/ \E v \in Threat : RejectRead(v)
    PROVE  UNCHANGED <<local, sent, done, about, rows, sources>>
BY DEF Deadline, Expire, Flag, RejectMark, RejectCommit, RejectConfirm, RejectFail, RejectRead,
       control, queue

LEMMA LapseMoves ==
    ASSUME Inv, Lapse, NEW n \in Message
    PROVE  /\ local'[n].pc = local[n].pc /\ local'[n].fence = local[n].fence
           /\ local'[n].live = FALSE /\ local'[n].seen = local[n].seen
           /\ UNCHANGED <<sent, done, about, rows, sources>>
<1>1. local'[n] = [local[n] EXCEPT !.live = FALSE] /\ local[n] \in Locals
  BY LocalsOf DEF Lapse
<1> QED BY <1>1 DEF Locals, Lapse, control, queue

LEMMA ReceiveMoves ==
    ASSUME Inv, NEW m \in Message, Receive(m)
    PROVE  /\ local[m].pc = "idle" /\ done[m] = "open" /\ done' = done
           /\ sent' = [sent EXCEPT ![m] = sent[m] + 1] /\ Moves(m, "read") /\ Waited(m)
BY PrepareMoves DEF Receive, At

LEMMA DeliveredStep ==
    ASSUME Inv, Delivered, Next PROVE Delivered'
<1>1. ASSUME NEW m \in Message, Receive(m) PROVE Delivered'
  BY <1>1, ReceiveMoves DEF Delivered, Moves, Others
<1>2. ASSUME NEW m \in Message, Work(m) \/ Die(m) PROVE Delivered'
  BY <1>2, Turns, IdleIs DEF Delivered, Others, Ends
<1>3. CASE Lapse
  BY <1>3, LapseMoves DEF Delivered
<1> QED BY <1>1, <1>2, <1>3, NobodysTurn DEF Next, Delivered

\* A quarantined version is deleted only when its receipt is published.
LEMMA SourcesStay ==
    ASSUME Basis, Next, Undecided', sources = Version PROVE sources' = Version
<1>1. ASSUME NEW m \in Message, Delete(m) PROVE FALSE
  <2>1. published[about[m]] # None /\ about[m] \in Version
    BY <1>1, LocalsOf DEF Delete, At, Sound, Basis
  <2> QED BY <2>1, StillUndecided DEF Basis, StoresAgree, IntentInv, Active
<1> QED BY <1>1, WorkTouches DEF Next, Lapse, Deadline, Expire, Flag, RejectRead, RejectMark, RejectCommit,
           RejectConfirm, RejectFail

LEMMA RejectionStays ==
    ASSUME Basis, Next, Undecided', Undecided => Untouched
    PROVE  /\ aurora'.status # "rejected" /\ (aurora'.status = "promoted" => aurora'.facts # None)
           /\ rejecter'.pc \notin {"commit", "confirm"}
<1>0. /\ aurora \in AuroraRows /\ Untouched /\ Inv /\ intent'.status \in Active /\ intent.status \in Active
      /\ intent \in Intents
  BY StillUndecided DEF Inv, TypeOK
<1>1. ~RejectMark /\ ~RejectCommit /\ ~RejectConfirm
  <2>1. RejectMark => intent'.status = "rejected"
    BY <1>0 DEF RejectMark, Intents
  <2> QED BY <1>0, <2>1 DEF RejectCommit, RejectConfirm, RejecterAt, Untouched, Active
<1>2. rejecter'.pc \notin {"commit", "confirm"}
  <2>1. ASSUME NEW v \in Threat, RejectRead(v) PROVE rejecter'.pc = "mark"
    BY <1>0, <2>1 DEF RejectRead, Active
  <2>2. CASE RejectFail
    BY <2>2 DEF RejectFail, Rest, Resting
  <2>3. UNCHANGED rejecter \/ RejectFail \/ \E v \in Threat : RejectRead(v)
    BY <1>1, WorkTouches DEF Next, Lapse, Deadline, Expire, Flag, world
  <2> QED BY <1>0, <2>1, <2>2, <2>3 DEF Untouched
<1>3. ASSUME NEW m \in Message, Commit(m)
      PROVE  aurora'.status = "promoted" /\ aurora'.facts # None
  <2>1. aurora'.facts \in Facts
    BY <1>0, <1>3, CommitFinds
  <2> QED BY <1>0, <1>3, <2>1, NoneAssumption DEF Commit, AuroraRows
<1>4. ASSUME NEW m \in Message, ClaimFence(m)
      PROVE  aurora'.status = aurora.status /\ aurora'.facts = aurora.facts
  BY <1>0, <1>4 DEF ClaimFence, AuroraRows
<1>5. CASE Lapse
  BY <1>0, <1>2, <1>5 DEF Lapse, AuroraRows, Untouched
<1>6. UNCHANGED aurora \/ Lapse \/ \E m \in Message : ClaimFence(m) \/ Commit(m)
  BY <1>1, WorkTouches DEF Next, Deadline, Expire, Flag, RejectRead, RejectFail
<1> QED BY <1>0, <1>2, <1>3, <1>4, <1>5, <1>6 DEF Untouched

LEMMA FlagsStay ==
    ASSUME Basis, Next, Undecided', Untouched, Surviving
    PROVE  intent'.flag = 0 /\ \A m \in Message : local'[m].seen.flag = 0
<1>0. /\ Inv /\ intent \in Intents /\ intent'.status \in Active /\ intent.status \in Active
      /\ faults \in Nat /\ faults' <= 1 /\ intent.flag = 0
      /\ \A m \in Message : local[m].seen.flag = 0
  BY StillUndecided DEF Untouched
<1>1. ~Flag
  <2> SUFFICES ASSUME Flag PROVE FALSE
    OBVIOUS
  <2>1. faults = 0 /\ intent.status \in Claimed /\ intent.lease = "expired"
    BY <1>0 DEF Flag, Fault, Orphaned, Claimed
  <2>2. local[intent.holder].live /\ intent.holder \in Message
    BY <2>1 DEF Surviving, ClaimSurvives, Untouched
  <2> QED BY <2>1, <2>2 DEF Basis, FenceInv, Fenced
<1>2. intent'.flag = 0
  <2>1. ASSUME NEW m \in Message, Receive(m) \/ Work(m) \/ Die(m) PROVE intent'.flag = 0
    <3>1. CASE Complete(m) \/ Recover(m)
      BY <1>0, <3>1 DEF Complete, Recover, Publish, Intents
    <3> QED BY <1>0, <2>1, <3>1, LeaseMoves, IntentStays DEF Work, Prepare, Promote, Releases
  <2>2. CASE Lapse \/ Expire \/ RejectMark \/ RejectConfirm
    BY <1>0, <2>2 DEF Lapse, Expire, RejectMark, RejectConfirm, Intents
  <2> QED BY <1>0, <1>1, <2>1, <2>2 DEF Next, Deadline, RejectRead, RejectCommit, RejectFail
<1>3. ASSUME NEW m \in Message, Receive(m) \/ Work(m) \/ Die(m)
      PROVE  \A n \in Message : local'[n].seen.flag = 0
  <2>1. CASE Ends(m)
    BY <1>0, <2>1, IdleIs DEF Ends, Others
  <2>2. ASSUME NEW place, Moves(m, place) PROVE \A n \in Message : local'[n].seen.flag = 0
    BY <1>0, <2>2 DEF Moves, Others
  <2>3. CASE ReadIntent(m)
    BY <1>0, <2>3, PrepareMoves DEF Others, Seen
  <2>4. CASE Renew(m) \/ Claim(m) \/ TakeOver(m)
    BY <1>0, <2>4, PrepareMoves DEF Others, TakesLease
  <2>5. CASE Receive(m) \/ Reuse(m) \/ LookUp(m) \/ Validate(m) \/ ClaimFence(m)
    BY <1>0, <2>2, <2>5, PrepareMoves DEF Reuse
  <2>6. CASE Promote(m)
    BY <1>0, <2>1, <2>2, <2>6, PromoteMoves, EndsAre DEF Promote, Delete
  <2>7. CASE Scan(m) \/ Verify(m) \/ Refuse(m) \/ Die(m)
    BY <1>0, <2>1, <2>2, <2>7, PrepareMoves, EndsAre DEF Scan, Verify, Refuse, Die
  <2> QED BY <1>3, <2>3, <2>4, <2>5, <2>6, <2>7 DEF Work, Prepare
<1>4. \A m \in Message : local'[m].seen.flag = 0
  BY <1>0, <1>3, LapseMoves, NobodysTurn DEF Next
<1> QED BY <1>2, <1>4

\* A step that changes the rows claims the intent or settles it.
LEMMA IssuedStays ==
    ASSUME Basis, Next, Undecided', Untouched, intent'.status = "issued"
    PROVE  intent'.fence = 0 /\ \A v \in Version : rows'[v] = "none"
<1>0. /\ Inv /\ intent \in Intents /\ intent.status = "issued"
      /\ intent.fence = 0 /\ \A v \in Version : rows[v] = "none"
  BY StillUndecided, StatusMoves DEF Untouched, Basis
<1>1. ASSUME NEW m \in Message, Receive(m) \/ Work(m) \/ Die(m)
      PROVE  intent'.fence = intent.fence /\ rows' = rows
  <2>1. ~Claim(m) /\ ~TakeOver(m) /\ ~Complete(m) /\ ~Recover(m)
    BY <1>0, IntentMoves DEF Basis, StoresAgree, TakeOver, Takeable
  <2>2. intent'.fence = intent.fence
    BY <1>1, <2>1, LeaseMoves, IntentStays, <1>0 DEF Work, Prepare, Promote, Releases, SameHolder
  <2>3. rows' = rows
    BY <1>1, <2>1 DEF Receive, Work, Prepare, ReadIntent, Verify, Scan, Reuse, LookUp,
         Validate, ClaimFence, Renew, Promote, Find, Permit, Put, Adopt, Record, Resolve, Execute,
         Commit, Delete, Refuse, Die, control
  <2> QED BY <2>2, <2>3
<1>2. CASE Lapse \/ Expire \/ Flag \/ RejectMark \/ RejectConfirm
  BY <1>0, <1>2 DEF Lapse, Expire, Flag, RejectMark, RejectConfirm, Intents, control
<1> QED BY <1>0, <1>1, <1>2 DEF Next, Deadline, RejectRead, RejectCommit, RejectFail, control

LEMMA ClaimedStays ==
    ASSUME Basis, Next, Undecided', Untouched, intent'.status \in Claimed
    PROVE  /\ intent'.holder \in Message /\ intent'.fence > 0 /\ about'[intent'.holder] = intent'.source
           /\ intent'.lease \in {"live", "aging", "expired"}
           /\ intent'.scan = [source |-> intent'.source, clean |-> TRUE]
<1>0. /\ Inv /\ intent \in Intents /\ about' = about /\ StoresGrow /\ IntentGrows /\ IntentInv
      /\ intent.fence \in Nat
  BY StillUndecided DEF StoresGrow, Basis, StoresAgree, Intents
<1>1. ASSUME NEW m \in Message, Claim(m)
      PROVE  /\ intent'.holder = m /\ intent'.fence > 0 /\ about[m] = intent'.source
             /\ intent'.lease = "live" /\ intent'.scan = [source |-> intent'.source, clean |-> TRUE]
  <2>1. intent.scan = [source |-> about[m], clean |-> TRUE]
    BY <1>1 DEF Basis, StoresAgree, AllStanding, Standing, Claim, At, Unscanned
  <2>2. intent'.holder = m /\ intent'.fence = 1 /\ intent'.lease = "live"
    BY <1>0, <1>1, LeaseMoves
  <2>3. intent'.source = about[m] /\ intent'.scan = intent.scan
    BY <1>0, <1>1, IntentMoves
  <2> QED BY <2>1, <2>2, <2>3
<1>2. ASSUME intent.status \in Claimed
      PROVE  /\ intent.holder \in Message /\ intent.fence > 0 /\ about[intent.holder] = intent.source
             /\ intent.lease \in {"live", "aging", "expired"} /\ intent.source # None
             /\ intent.scan = [source |-> intent.source, clean |-> TRUE]
             /\ intent'.source = intent.source /\ intent'.scan = intent.scan
  <2>1. /\ intent.holder \in Message /\ intent.fence > 0 /\ about[intent.holder] = intent.source
        /\ intent.lease \in {"live", "aging", "expired"}
        /\ intent.scan = [source |-> intent.source, clean |-> TRUE]
    BY <1>2 DEF Untouched
  <2>2. intent.source # None
    BY <1>0, <1>2 DEF IntentInv, Claimed
  <2>3. intent.scan # None
    <3>1. [source |-> intent.source, clean |-> TRUE] \in Scans
      BY <1>0, <2>2 DEF Scans, Intents
    <3> QED BY <2>1, <3>1, NoneAssumption
  <2> QED BY <1>0, <2>1, <2>2, <2>3 DEF IntentGrows
<1>3. ASSUME intent.status \in Claimed, SameHolder, intent'.lease \in {"live", "aging", "expired"}
      PROVE  /\ intent'.holder \in Message /\ intent'.fence > 0 /\ about'[intent'.holder] = intent'.source
             /\ intent'.lease \in {"live", "aging", "expired"}
             /\ intent'.scan = [source |-> intent'.source, clean |-> TRUE]
  BY <1>0, <1>2, <1>3 DEF SameHolder
<1>4. ASSUME NEW m \in Message, Receive(m) \/ Work(m) \/ Die(m), intent.status \in Claimed
      PROVE  \/ SameHolder /\ intent'.lease \in {"live", "aging", "expired"}
             \/ TakeOver(m)
  <2>1. ~Claim(m) /\ ~Complete(m) /\ ~Recover(m)
    <3>1. intent'.status # "promoted"
      BY StillUndecided DEF Active
    <3> QED BY <1>0, <1>4, <3>1, IntentMoves DEF Claimed
  <2> QED BY <1>0, <1>2, <1>4, <2>1, LeaseMoves, IntentStays
          DEF Work, Prepare, Promote, Releases, SameHolder
<1>5. ASSUME NEW m \in Message, TakeOver(m), intent.status \in Claimed
      PROVE  /\ intent'.holder = m /\ intent'.fence > 0 /\ about[m] = intent'.source
             /\ intent'.lease = "live" /\ intent'.scan = [source |-> intent'.source, clean |-> TRUE]
  <2>1. about[m] = intent.source
    BY <1>5 DEF TakeOver, Takeable
  <2>2. intent'.holder = m /\ intent'.fence = intent.fence + 1 /\ intent'.lease = "live"
    BY <1>0, <1>5, LeaseMoves
  <2>3. intent'.fence > 0
    BY <1>0, <2>2
  <2>4. /\ intent'.source = intent.source
        /\ intent'.scan = [source |-> intent.source, clean |-> TRUE]
    BY <1>2, <1>5
  <2> QED BY <2>1, <2>2, <2>3, <2>4
<1>6. CASE Lapse \/ Expire \/ Flag \/ RejectMark \/ RejectConfirm
  <2>1. intent'.status \notin {"expired", "rejected"}
    BY StillUndecided DEF Active
  <2>2. SameHolder /\ intent'.lease \in {intent.lease, "expired"} /\ intent.status \in Claimed
    BY <1>0, <1>6, <2>1 DEF Lapse, Expire, Flag, RejectMark, RejectConfirm, Intents, SameHolder, Claimed
  <2> QED BY <1>2, <1>3, <2>2
<1>7. CASE UNCHANGED intent
  BY <1>2, <1>3, <1>7 DEF SameHolder
<1>8. intent.status \in Claimed \/ \E m \in Message : Claim(m)
  BY StatusMoves DEF Basis
<1> QED BY <1>0, <1>1, <1>3, <1>4, <1>5, <1>6, <1>7, <1>8
        DEF Next, Deadline, RejectRead, RejectCommit, RejectFail

LEMMA UntouchedStep ==
    ASSUME Basis, Next, Undecided', Undecided => Untouched /\ Surviving
    PROVE  Untouched'
<1>1. Untouched /\ Surviving /\ Undecided
  BY StillUndecided
<1>2. sources' = Version
  BY <1>1, SourcesStay DEF Untouched
<1> QED BY <1>1, <1>2, RejectionStays, FlagsStay, IssuedStays, ClaimedStays DEF Untouched

-----------------------------------------------------------------------------
(* Lease holders.                                                           *)

\* A worker whose lease has not lapsed holds it.
LEMMA LiveHolds ==
    ASSUME Basis, Untouched, Undecided, NEW m \in Message, local[m].live
    PROVE  /\ local[m].fence > 0 /\ intent.holder = m /\ intent.fence = local[m].fence
           /\ intent.lease # "expired" /\ intent.status \in Claimed /\ Held /\ Holds(m)
           /\ local[m].pc \in Leasing \union {"delete"} /\ local[m].pc # "idle"
<1>0. local[m] \in Locals /\ intent \in Intents /\ m # None
  BY NoneAssumption DEF Basis, Inv, TypeOK
<1>1. /\ local[m].fence > 0 /\ intent.holder = m /\ intent.fence = local[m].fence
      /\ intent.lease # "expired" /\ local[m].pc \in Leasing \union {"delete"}
  BY DEF Basis, FenceInv, Fenced
<1>2. local[m].pc # "idle"
  BY <1>1 DEF Leasing
<1>3. intent.status \in Claimed
  BY <1>0, <1>1 DEF Untouched, Undecided, Settled, Claimed, Intents, Statuses, Active
<1> QED BY <1>0, <1>1, <1>2, <1>3 DEF Held, Holds

\* A worker without a lease has no fence.
LEMMA EarlyUnfenced ==
    ASSUME Basis, NEW m \in Message, local[m].pc \in Early \union {"recover"}
    PROVE  local[m].fence = 0
BY DEF Basis, FenceInv, Fenced, Early, Leasing

LEMMA QuarantineKept ==
    ASSUME Basis, Next, Undecided', intent.status = "quarantined"
    PROVE  intent'.status = "quarantined" \/ \E m \in Message : Validate(m)
<1>0. Inv /\ IntentInv /\ intent'.status \in Active
  BY StillUndecided DEF Basis, StoresAgree
<1> DEFINE Good == intent'.status = "quarantined" \/ \E m \in Message : Validate(m)
<1>1. ASSUME SameIntent PROVE Good
  BY <1>1 DEF SameIntent
<1>2. ASSUME NEW m \in Message, Scan(m) \/ Claim(m) \/ Validate(m) \/ Complete(m) \/ Recover(m)
      PROVE  Good
  BY <1>0, <1>2, IntentMoves
<1>3. ASSUME Expire \/ RejectMark PROVE Good
  BY <1>0, <1>3, SweepMoves DEF Active
<1> QED BY <1>0, <1>1, <1>2, <1>3, IntentTouches

\* A lease is taken over after the fault only.
LEMMA TakenAfterFault ==
    ASSUME Basis, Undecided, Untouched, Surviving, faults = 0, NEW m \in Message, TakeOver(m)
    PROVE  FALSE
<1>1. intent.status \in Active /\ intent.lease = "expired" /\ intent.source = about[m]
  BY DEF TakeOver, Takeable, Undecided, Settled, Basis, Inv, TypeOK, Intents, Statuses
<1>2. about[m] # None /\ intent.status # "issued"
  <2>1. about[m] \in Version
    BY LocalsOf DEF Basis
  <2> QED BY <1>1, <2>1, NoneAssumption DEF Basis, StoresAgree, IntentInv
<1>3. intent.status \in Claimed
  BY <1>1, <1>2 DEF Active, Claimed
<1>4. local[intent.holder].live /\ intent.holder \in Message
  BY <1>3 DEF Surviving, ClaimSurvives, Untouched
<1> QED BY <1>1, <1>4, LiveHolds

\* The worker that claims the intent does so at its first delivery, unless the
\* fault was there.
LEMMA ClaimsInTime ==
    ASSUME Basis, Undecided, Surviving, NEW m \in Message, Claim(m)
    PROVE  sent[m] <= faults + 1 /\ done[m] = "open"
<1>1. intent.scan = [source |-> about[m], clean |-> TRUE] /\ intent.status = "issued"
  BY DEF Basis, StoresAgree, AllStanding, Standing, Claim, Claimable, At, Unscanned
<1> QED BY <1>1 DEF Surviving, Contested, Candidate, Unrefused, Claim, At

LEMMA LeaseholdersStep ==
    ASSUME Basis, Next, Undecided', Untouched, Leaseholders, Surviving
    PROVE  Leaseholders'
<1>0. /\ Inv /\ intent \in Intents /\ intent' \in Intents /\ Undecided
      /\ faults \in Nat /\ faults' \in Nat /\ faults <= faults' /\ faults' <= 1
      /\ \A n \in Message : sent[n] \in Nat /\ Leaseholder(n)
      /\ sent \in [Message -> 0..MaxDeliveries]
  BY StillUndecided, Bounds DEF Inv, TypeOK, Leaseholders, Leaseholder
\* Whoever keeps its lease goes on as a leaseholder, but for what it validates.
<1>1. ASSUME NEW n \in Message, local'[n].fence = local[n].fence, local'[n].live = local[n].live,
             local'[n].pc = local[n].pc, sent'[n] = sent[n],
             \A m \in Message : Validate(m) => m # n
      PROVE  Leaseholder(n)'
  <2>1. CASE local[n].live /\ local[n].pc = "validate" /\ local[n].fence > 0
    <3>1. intent.status = "quarantined"
      BY <1>0, <2>1 DEF Leaseholder
    <3>2. ~\E m \in Message : Validate(m)
      BY <1>0, <1>1, <2>1, LiveHolds DEF Validate, Holds
    <3>3. intent'.status = "quarantined"
      BY <3>1, <3>2, QuarantineKept
    <3> QED BY <1>0, <1>1, <3>3 DEF Leaseholder
  <2> QED BY <1>0, <1>1, <2>1 DEF Leaseholder
<1>2. ASSUME NEW n \in Message, local'[n].fence = local[n].fence,
             local'[n].live = local[n].live \/ local'[n].live,
             local'[n].pc # "validate", sent'[n] = sent[n]
      PROVE  Leaseholder(n)'
  BY <1>0, <1>2 DEF Leaseholder
<1>3. ASSUME NEW m \in Message, Receive(m) \/ Work(m) \/ Die(m)
      PROVE  \A n \in Message \ {m} : Leaseholder(n)'
  <2> SUFFICES ASSUME NEW n \in Message \ {m} PROVE Leaseholder(n)'
    OBVIOUS
  <2>1. local'[n] = local[n] /\ sent'[n] = sent[n]
    BY <1>0, <1>3, Turns, ReceiveMoves DEF Others, Moves
  <2>2. \A k \in Message : Validate(k) => k = m
    <3> SUFFICES ASSUME NEW k \in Message, Validate(k), k # m PROVE FALSE
      OBVIOUS
    <3>1. local'[k] = local[k] /\ local[k].pc = "validate" /\ local'[k].pc = "fence"
      BY <1>0, <1>3, Turns, ReceiveMoves, PrepareMoves DEF Others, Moves, Validate, At
    <3> QED BY <3>1
  <2> QED BY <1>1, <2>1, <2>2
<1>4. ASSUME NEW m \in Message, Receive(m) \/ Work(m) \/ Die(m)
      PROVE  Leaseholder(m)'
  <2>1. CASE Ends(m)
    BY <2>1, IdleIs DEF Ends, Leaseholder
  <2>2. ASSUME NEW place \in Places \ {"validate"}, Moves(m, place), sent' = sent PROVE Leaseholder(m)'
    BY <1>2, <2>2 DEF Moves, SameLease
  <2>3. CASE Receive(m) \/ ReadIntent(m)
    <3>1. local[m].fence = 0
      BY <2>3, EarlyUnfenced, ReceiveMoves DEF ReadIntent, At, Early, Basis
    <3> QED BY <1>0, <2>3, <3>1, PrepareMoves DEF Moves, SameLease, Leaseholder
  <2>4. CASE Renew(m)
    <3>1. local'[m].fence = local[m].fence /\ local'[m].live /\ local'[m].pc # "validate"
      BY <1>0, <2>4, PrepareMoves
    <3>2. sent' = sent
      BY <2>4 DEF Renew, queue
    <3> QED BY <1>2, <3>1, <3>2
  <2>5. CASE Claim(m)
    <3>1. local'[m].live /\ sent' = sent
      BY <1>0, <2>5, PrepareMoves DEF TakesLease, Claim, queue
    <3>2. intent'.status = "quarantined"
      BY <1>0, <2>5, IntentMoves DEF Basis, StoresAgree
    <3> QED BY <1>0, <2>5, <3>1, <3>2, ClaimsInTime DEF Leaseholder
  <2>6. CASE TakeOver(m)
    <3>1. /\ local'[m].live
          /\ local'[m].pc = IF intent.status = "quarantined" THEN "validate" ELSE "fence"
      BY <1>0, <2>6, PrepareMoves DEF TakesLease
    <3>2. intent'.status = intent.status
      BY <1>0, <2>6, LeaseOnly DEF Basis, StoresAgree, SameIntent
    <3>3. faults' # 0
      BY <1>0, <2>6, TakenAfterFault
    <3> QED BY <3>1, <3>2, <3>3 DEF Leaseholder
  <2>7. CASE LookUp(m) \/ Validate(m) \/ ClaimFence(m)
    BY <1>0, <2>2, <2>7, PrepareMoves DEF LookUp, Validate, ClaimFence, queue, Places
  <2>8. CASE Promote(m)
    <3>1. Delete(m) => Ends(m)
      BY <1>0, EndsAre DEF Delete
    <3>2. sent' = sent
      BY <1>0, <2>8, Turns DEF Work
    <3> QED BY <1>0, <2>1, <2>2, <2>8, <3>1, <3>2, PromoteMoves DEF Promote, Places
  <2>9. CASE Scan(m) \/ Reuse(m) \/ Verify(m) \/ Refuse(m) \/ Die(m)
    <3>1. sent' = sent
      BY <1>0, <2>9, Turns DEF Work, Prepare
    <3> QED BY <1>0, <2>1, <2>2, <2>9, <3>1, PrepareMoves, EndsAre
            DEF Scan, Reuse, Verify, Refuse, Die, Places
  <2> QED BY <1>4, <2>3, <2>4, <2>5, <2>6, <2>7, <2>8, <2>9 DEF Work, Prepare
<1>5. ASSUME Lapse, NEW n \in Message PROVE Leaseholder(n)'
  <2>1. /\ local'[n].fence = local[n].fence /\ local'[n].live = FALSE /\ sent' = sent
    BY <1>0, <1>5, LapseMoves
  <2>2. Held => faults = 0 /\ faults' = 1
    BY <1>0, <1>5 DEF Lapse, Fault
  <2>3. local[n].live => Held
    BY <1>0, LiveHolds
  <2>4. faults = 0 /\ local[n].fence > 0 => Held
    BY <1>0, <2>3 DEF Leaseholder
  <2> QED BY <1>0, <2>1, <2>2, <2>3, <2>4 DEF Leaseholder
<1>6. CASE UNCHANGED <<local, sent>>
  <2>1. \A m \in Message : ~Validate(m)
    BY <1>0, <1>6, PrepareMoves DEF Validate, At, Moves
  <2> QED BY <1>1, <1>6, <2>1 DEF Leaseholders, Leaseholder
<1>7. \A n \in Message : Leaseholder(n)'
  <2>1. CASE \E m \in Message : Receive(m) \/ Work(m) \/ Die(m)
    BY <1>3, <1>4, <2>1
  <2>2. CASE UNCHANGED <<local, sent>>
    BY <1>6, <2>2 DEF Leaseholders, Leaseholder
  <2> QED BY <1>5, <2>1, <2>2, NobodysTurn DEF Next
<1> QED BY <1>7 DEF Leaseholders, Leaseholder

-----------------------------------------------------------------------------
(* Where nobody is refused.                                                 *)

\* What Aurora accepted can be completed by whoever has it in hand.
LEMMA CompletableIs ==
    ASSUME Basis, Undecided, Untouched, NEW m \in Message, local[m].pc \in {"complete", "recover"}
    PROVE  Completable(m)
<1>0. /\ IntentInv /\ CopyInv /\ intent \in Intents /\ aurora \in AuroraRows
      /\ attempts \in [Fences -> {"none", "permitted", "copied", "adopted", "reconciled"}]
      /\ intent.status \in Active /\ about[m] \in Version /\ intent.flag = 0 /\ local[m].seen.flag = 0
  BY LocalsOf DEF Basis, StoresAgree, Inv, TypeOK, Undecided, Settled, Intents, Statuses, Untouched
<1>1. /\ local[m].facts \in Facts /\ local[m].facts.source = about[m]
      /\ aurora.facts = local[m].facts
  BY LocalsOf DEF Basis, Sound, Accepted
<1>2. /\ aurora.facts # None /\ aurora.facts.copy \in Fences
  BY <1>1, NoneAssumption DEF Facts
<1>3. /\ kept = [source |-> about[m], fence |-> local[m].facts.copy] /\ intent.status = "validated"
  BY <1>0, <1>1, <1>2 DEF CopyInv, Beyond, Active
<1>4. kept # None
  <2>1. kept \in Copies
    BY <1>0, <1>1, <1>2, <1>3 DEF Copies
  <2> QED BY <2>1, NoneAssumption
<1>5. intent.source = about[m] /\ attempts[local[m].facts.copy] \in {"copied", "reconciled"}
  BY <1>0, <1>2, <1>3, <1>4 DEF CopyInv
<1>6. attempts[local[m].facts.copy] = "copied"
  BY <1>0, <1>1, <1>2, <1>3, <1>5 DEF CopyInv
<1>7. rows[about[m]] = "copying" /\ published[about[m]] = None
  BY <1>0, <1>3, <1>5 DEF IntentInv, Claimed
<1> QED BY <1>0, <1>3, <1>5, <1>6, <1>7 DEF Completable

LEMMA LiveUnrefused ==
    ASSUME Basis, AuroraLease, Undecided, Untouched, Leaseholders, NEW m \in Message, local[m].live,
           aurora.facts = None \/ local[m].pc \in {"renewAgain", "complete"}
    PROVE  ~Refused(m)
<1> SUFFICES ASSUME Refused(m) PROVE FALSE
  OBVIOUS
<1>0. /\ IntentInv /\ CopyInv /\ intent \in Intents /\ aurora \in AuroraRows
      /\ intent.status \in Active /\ about[m] \in Version
      /\ Standing(local[m], about[m], intent, kept, attempts)
      /\ Sound(local[m], about[m], kept, aurora.facts, published[about[m]])
  BY LocalsOf DEF Basis, StoresAgree, AllStanding, Inv, TypeOK, Undecided, Settled, Intents, Statuses
<1>1. /\ local[m].fence > 0 /\ intent.holder = m /\ intent.fence = local[m].fence
      /\ intent.lease # "expired" /\ Holds(m) /\ local[m].pc \in Leasing \union {"delete"}
  BY LiveHolds
<1>2. CASE local[m].pc = "validate"
  <2>1. intent.status = "quarantined"
    BY <1>1, <1>2 DEF Leaseholders, Leaseholder
  <2> QED BY <1>1, <1>2, <2>1 DEF Refused, At
<1>3. local[m].pc # "validate" => local[m].pc = "delete" \/ ActiveLease(m)
  <2>1. local[m].pc \in Leasing \ {"validate"} => intent.status = "validated"
    BY <1>0 DEF Standing, Beyond, Active
  <2> QED BY <1>0, <1>1, <2>1 DEF Standing, ActiveLease
<1>4. aurora.facts = None => FenceOpen(m)
  <2>1. aurora.facts = None => aurora.status = "issued"
    BY <1>0 DEF Untouched, AuroraRows
  <2>2. aurora.fence <= intent.fence
    BY DEF Basis, FenceInv
  <2>3. aurora.fence \in Nat /\ intent.fence \in Nat
    BY <1>0 DEF AuroraRows, Intents
  <2> QED BY <1>1, <2>1, <2>2, <2>3 DEF FenceOpen, AuroraLease
<1>5. local[m].pc \in Leasing /\ kept # None => Adoptable(m)
  BY <1>0 DEF Adoptable, Tracked, CopyInv, Standing
<1>6. local[m].pc = "record" => Tracked(local[m].fence)
  <2>1. local[m].pc = "record" => kept = [source |-> about[m], fence |-> local[m].fence] /\ kept # None
    BY <1>0 DEF Standing, Sound, Holding
  <2> QED BY <1>0, <2>1 DEF Tracked, CopyInv
<1>7. local[m].pc = "complete" => Completable(m)
  BY CompletableIs
<1>8. Present(m)
  BY <1>0 DEF Present, Untouched
<1> QED BY <1>1, <1>2, <1>3, <1>4, <1>5, <1>6, <1>7, <1>8 DEF Refused, At, Leasing

\* A message about the version that was scanned, or the first to scan one, is
\* not refused before it looks what Aurora accepted.
LEMMA ScanUnrefused ==
    ASSUME Basis, Undecided, Untouched, NEW m \in Message, Candidate(m),
           local[m].pc \in {"read", "scan"}
    PROVE  ~Refused(m)
<1>0. /\ intent \in Intents /\ intent.status \in Active /\ about[m] \in Version /\ ~late
      /\ (intent.scan # None => intent.scan.clean)
      /\ (local[m].pc = "scan" /\ local[m].seen.scan # None => intent.scan = local[m].seen.scan)
  BY LocalsOf DEF Basis, StoresAgree, AllStanding, Standing, Inv, TypeOK, Undecided, Settled, Intents, Statuses
<1>1. Parses /\ Readable(m) /\ Present(m)
  BY <1>0 DEF Parses, Readable, Present, Active, Untouched
<1>2. intent.scan # None => intent.scan = CleanScan(m)
  BY <1>0 DEF Candidate, CleanScan, Intents, Scans
<1>3. local[m].pc = "scan" => ~Unscannable(m)
  BY <1>0, <1>1, <1>2 DEF Unscannable, Reusable
<1> QED BY <1>1, <1>3 DEF Refused, At

LEMMA ScanMoves ==
    ASSUME Basis, Next
    PROVE  intent'.scan = intent.scan \/ \E m \in Message : Scan(m)
<1>0. Inv /\ IntentInv
  BY DEF Basis, StoresAgree
<1>1. SameIntent => intent'.scan = intent.scan
  BY DEF SameIntent
<1> QED BY <1>0, <1>1, IntentTouches, IntentMoves, SweepMoves

-----------------------------------------------------------------------------
(* Before the intent is claimed.                                            *)

LEMMA CandidatesStay ==
    ASSUME Basis, Next, Undecided', Contested
    PROVE  /\ \E m \in Message : Candidate(m)'
           /\ \A m \in Message : Candidate(m)' => Candidate(m)
<1>0. /\ about' = about /\ intent' \in Intents /\ intent \in Intents
      /\ (intent.scan # None => intent'.scan = intent.scan)
  BY StillUndecided DEF StoresGrow
<1>1. CASE intent'.scan = intent.scan
  BY <1>0, <1>1 DEF Contested, Candidate
<1>2. ASSUME NEW m \in Message, Scan(m) PROVE Candidate(m)' /\ intent.scan = None
  <2>1. \E clean \in BOOLEAN : intent'.scan = [source |-> about[m], clean |-> clean]
    BY <1>2, IntentMoves DEF Basis, StoresAgree
  <2>2. intent'.scan.source = about[m] /\ intent.scan = None
    BY <1>2, <2>1 DEF Scan
  <2> QED BY <1>0, <2>2 DEF Candidate
<1> QED BY <1>0, <1>1, <1>2, ScanMoves DEF Contested, Candidate

\* While the intent is issued a candidate is at one of its first places and
\* nothing refuses it there.
LEMMA CandidateUnrefused ==
    ASSUME Basis, Undecided, Untouched, intent.status = "issued", NEW m \in Message,
           Candidate(m), Unrefused(m)
    PROVE  ~Refused(m)
<1>0. /\ aurora.facts = None /\ intent.fence = 0 /\ about[m] \in Version
      /\ \A v \in Version : rows[v] = "none"
  BY LocalsOf DEF Basis, StoresAgree, CopyInv, Beyond, Untouched
<1>1. local[m].pc = "lookup" => ~Refused(m)
  BY <1>0 DEF Refused, At, Acceptable
<1>2. local[m].pc = "claim" => ~Refused(m)
  BY <1>0 DEF Refused, At, Claimable, Unrefused
<1>3. local[m].pc = "idle" => ~Refused(m)
  BY DEF Refused, At
<1> QED BY <1>1, <1>2, <1>3, ScanUnrefused DEF Unrefused

LEMMA ContestedStep ==
    ASSUME Basis, Next, Undecided', Untouched, Surviving, intent'.status = "issued",
           MaxDeliveries >= 3
    PROVE  Contested'
<1>0. /\ Inv /\ intent.status = "issued" /\ Undecided /\ Contested /\ aurora.facts = None
      /\ faults \in Nat /\ faults' \in Nat /\ faults <= faults' /\ faults' <= 1
      /\ \A n \in Message : sent[n] \in Nat
      /\ sent \in [Message -> 0..MaxDeliveries] /\ MaxDeliveries \in Nat
      /\ done \in [Message -> {"open", "acked", "dead"}]
  BY StillUndecided, StatusMoves, Bounds
     DEF Inv, TypeOK, Surviving, Basis, StoresAgree, CopyInv, Beyond
<1>1. ASSUME NEW n \in Message, Candidate(n), local'[n].pc = local[n].pc, local'[n].seen = local[n].seen,
             sent'[n] = sent[n], done'[n] = done[n]
      PROVE  Unrefused(n)'
  BY <1>0, <1>1 DEF Contested, Unrefused
<1>2. ASSUME NEW m \in Message, Receive(m) \/ Work(m) \/ Die(m), NEW n \in Message \ {m}, Candidate(n)
      PROVE  Unrefused(n)'
  <2>1. local'[n] = local[n] /\ sent'[n] = sent[n] /\ done'[n] = done[n]
    BY <1>0, <1>2, Turns, ReceiveMoves DEF Others, Moves
  <2> QED BY <1>1, <1>2, <2>1
<1>3. ASSUME NEW m \in Message, Receive(m) \/ Work(m) \/ Die(m), Candidate(m)
      PROVE  Unrefused(m)'
  <2>0. Unrefused(m)
    BY <1>0, <1>3 DEF Contested
  <2>1. ~Refuse(m)
    BY <1>0, <1>3, <2>0, CandidateUnrefused DEF Refuse
  <2>2. ASSUME NEW place \in {"lookup", "claim"}, Moves(m, place), sent' = sent, done' = done,
               local[m].pc \in {"scan", "lookup"}
        PROVE  Unrefused(m)'
    BY <1>0, <2>0, <2>2 DEF Unrefused, Moves
  <2>3. CASE Receive(m)
    <3>1. /\ local[m].pc = "idle" /\ done'[m] = "open" /\ sent'[m] = sent[m] + 1
          /\ local'[m].pc = "read"
      BY <1>0, <2>3, ReceiveMoves DEF Moves
    <3> QED BY <1>0, <2>0, <3>1 DEF Unrefused
  <2>4. CASE ReadIntent(m)
    <3>1. local[m].pc = "read" /\ sent' = sent /\ done' = done
      BY <2>4 DEF ReadIntent, At, queue
    <3>2. /\ local'[m].pc = IF intent.status = "promoted" THEN "verify" ELSE "scan"
          /\ local'[m].seen = Seen(intent)
      BY <1>0, <2>4, PrepareMoves
    <3>3. Seen(intent).status = intent.status
      BY DEF Seen
    <3>4. local'[m].pc = "scan" /\ local'[m].seen.status = "issued"
      BY <1>0, <3>2, <3>3
    <3> QED BY <1>0, <2>0, <3>1, <3>4 DEF Unrefused
  <2>5. CASE Scan(m)
    <3>1. PICK clean \in BOOLEAN :
            /\ intent' = [intent EXCEPT !.scan = [source |-> about[m], clean |-> clean]]
            /\ IF clean THEN Scanned(m) /\ UNCHANGED <<tx, queue>> ELSE Fail(m)
      BY <2>5 DEF Scan
    <3>2. clean
      <4>1. intent'.scan = [source |-> about[m], clean |-> clean]
        BY <1>0, <3>1 DEF Inv, TypeOK, Intents
      <4>2. intent'.scan # None
        <5>1. intent'.scan \in Scans
          BY <4>1, LocalsOf, <1>0 DEF Scans
        <5> QED BY <5>1, NoneAssumption
      <4> QED BY <4>1, <4>2 DEF Undecided, Settled
    <3> QED BY <1>0, <2>2, <2>5, <3>1, <3>2, PrepareMoves DEF Scan, At, queue
  <2>6. CASE Reuse(m)
    BY <1>0, <2>2, <2>6, PrepareMoves DEF Reuse, At, queue
  <2>7. CASE LookUp(m)
    BY <1>0, <2>2, <2>7, PrepareMoves DEF LookUp, At, queue
  <2>8. CASE Die(m)
    <3>1. faults = 0 /\ faults' = 1 /\ sent[m] <= 1 /\ local'[m].pc = "idle" /\ Fail(m)
      BY <1>0, <2>0, <2>8, IdleIs, IdleAgain DEF Die, Fault, Unrefused, Inv, TypeOK
    <3>2. done' = done /\ sent' = sent
      BY <1>0, <3>1 DEF Fail
    <3> QED BY <1>0, <2>0, <3>1, <3>2 DEF Unrefused
  <2>9. ~Claim(m)
    BY <1>0, IntentMoves DEF Basis, StoresAgree
  <2>10. ~TakeOver(m) /\ ~Verify(m) /\ ~Validate(m) /\ ~ClaimFence(m) /\ ~Renew(m) /\ ~Promote(m)
    BY <2>0 DEF Unrefused, TakeOver, Verify, Validate, ClaimFence, Renew, Promote, Find, Permit, Put,
           Adopt, Record, Resolve, Execute, Commit, Complete, Recover, Delete, At
  <2> QED BY <1>3, <2>1, <2>3, <2>4, <2>5, <2>6, <2>7, <2>8, <2>9, <2>10 DEF Work, Prepare
<1>4. ASSUME NEW n \in Message, Candidate(n) PROVE Unrefused(n)'
  <2>1. CASE Lapse
    BY <1>0, <1>1, <1>4, <2>1, LapseMoves
  <2>2. CASE UNCHANGED <<local, sent, done>>
    BY <1>1, <1>4, <2>2
  <2> QED BY <1>2, <1>3, <1>4, <2>1, <2>2, NobodysTurn DEF Next
<1> QED BY <1>0, <1>4, CandidatesStay DEF Contested

-----------------------------------------------------------------------------
(* Once it is claimed.                                                      *)

LEMMA DeletedIsSettled ==
    ASSUME Basis, Next, Undecided', NEW m \in Message
    PROVE  ~Delete(m) /\ ~Complete(m) /\ ~Recover(m) /\ ~(Verify(m) /\ Verified(m))
<1>0. Inv /\ IntentInv /\ about[m] \in Version
      /\ intent.status \in Active /\ intent'.status \in Active
  BY StillUndecided, LocalsOf DEF Basis, StoresAgree
<1>1. published[about[m]] = None
  BY <1>0 DEF IntentInv, Active
<1>2. ~Delete(m)
  BY <1>0, <1>1, LocalsOf DEF Delete, At, Sound
<1>3. ~Verified(m)
  BY <1>1 DEF Verified
<1> QED BY <1>0, <1>2, <1>3, IntentMoves DEF Active

\* Whoever has the lease goes on, but for the one fault.
LEMMA LiveStep ==
    ASSUME Basis, AuroraLease, Delivered, Next, Undecided', Untouched, Leaseholders,
           MaxDeliveries >= 3, NEW m \in Message, local[m].live,
           aurora.facts = None \/ local[m].pc \in {"renewAgain", "complete"}
    PROVE  /\ intent'.holder = m
           /\ \/ /\ local'[m].live
                 /\ local[m].pc \in {"renewAgain", "complete"} => local'[m].pc \in {"renewAgain", "complete"}
              \/ faults = 0 /\ faults' = 1 /\ sent'[m] <= 1 /\ done'[m] = "open"
<1> DEFINE Good ==
        \/ /\ local'[m].live
           /\ local[m].pc \in {"renewAgain", "complete"} => local'[m].pc \in {"renewAgain", "complete"}
        \/ faults = 0 /\ faults' = 1 /\ sent'[m] <= 1 /\ done'[m] = "open"
<1>0. /\ Inv /\ Undecided /\ faults \in Nat /\ faults' \in Nat /\ faults <= faults' /\ faults' <= 1
      /\ done \in [Message -> {"open", "acked", "dead"}] /\ MaxDeliveries \in Nat
      /\ intent \in Intents
  BY StillUndecided, Bounds DEF Inv, TypeOK
<1>1. /\ local[m].fence > 0 /\ intent.holder = m /\ intent.fence = local[m].fence /\ Held
      /\ intent.lease # "expired" /\ local[m].pc \in Leasing \union {"delete"} /\ local[m].pc # "idle"
  BY <1>0, LiveHolds
<1>2. intent'.holder = m
  <2>1. CASE Lapse
    BY <1>0, <1>1, <2>1 DEF Lapse, Intents
  <2>2. CASE ~Lapse
    BY <1>0, <1>1, <2>2, LeaseKept DEF SameHolder
  <2> QED BY <2>1, <2>2
<1> SUFFICES Good
  BY <1>2
<1>3. done[m] = "open" /\ (faults = 0 => sent[m] <= 1)
  BY <1>0, <1>1 DEF Delivered, Leaseholders, Leaseholder
<1>4. ASSUME NEW n \in Message \ {m}, Receive(n) \/ Work(n) \/ Die(n) PROVE Good
  <2>1. local'[m] = local[m]
    BY <1>0, <1>4, Turns, ReceiveMoves DEF Others, Moves
  <2> QED BY <2>1
<1>5. CASE Work(m)
  <2>1. ~Refuse(m)
    BY <1>0, LiveUnrefused DEF Refuse
  <2>2. ~Delete(m) /\ ~Complete(m) /\ ~Recover(m)
    BY DeletedIsSettled
  <2>3. ~ReadIntent(m) /\ ~Verify(m) /\ ~Scan(m) /\ ~Reuse(m) /\ ~LookUp(m) /\ ~Claim(m) /\ ~TakeOver(m)
    BY <1>1 DEF ReadIntent, Verify, Scan, Reuse, LookUp, Claim, TakeOver, At, Leasing
  <2>4. CASE Renew(m)
    <3>1. local[m].pc \in {"renew", "renewAgain"}
      BY <2>4 DEF Renew, At
    <3>2. local'[m].live /\ local'[m].pc = IF At(m, "renew") THEN "refence" ELSE "complete"
      BY <1>0, <2>4, PrepareMoves
    <3> QED BY <3>1, <3>2 DEF At
  <2>5. ASSUME NEW place, Moves(m, place), local[m].pc \notin {"renewAgain", "complete"} PROVE Good
    BY <2>5 DEF Moves, SameLease
  <2>6. CASE Validate(m) \/ ClaimFence(m)
    <3>1. local[m].pc \notin {"renewAgain", "complete"}
      BY <2>6 DEF Validate, ClaimFence, At
    <3>2. Moves(m, "fence") \/ Moves(m, IF At(m, "fence") THEN "find" ELSE "execute")
      BY <1>0, <2>6, PrepareMoves
    <3> QED BY <2>5, <3>1, <3>2
  <2>7. CASE Promote(m)
    <3>1. local[m].pc \notin {"renewAgain", "complete"}
      BY <2>2, <2>7 DEF Promote, Find, Permit, Put, Adopt, Record, Resolve, Execute, Commit, At
    <3>2. \E place \in Places : Moves(m, place)
      BY <1>0, <2>2, <2>7, PromoteMoves DEF Promote, Places
    <3> QED BY <2>5, <3>1, <3>2
  <2> QED BY <1>5, <2>1, <2>3, <2>4, <2>6, <2>7 DEF Work, Prepare
<1>6. CASE Die(m)
  <2>1. faults = 0 /\ faults' = 1 /\ Fail(m)
    BY <1>0, <1>6 DEF Die, Fault
  <2>2. done' = done /\ sent' = sent
    BY <1>0, <1>3, <2>1 DEF Fail
  <2>3. sent'[m] <= 1 /\ done'[m] = "open"
    BY <1>3, <2>1, <2>2
  <2> QED BY <2>1, <2>3
<1>7. CASE Lapse
  <2>1. Fault
    BY <1>1, <1>7 DEF Lapse
  <2>2. faults = 0 /\ faults' = 1
    BY <1>0, <2>1 DEF Fault
  <2>3. sent' = sent /\ done' = done
    BY <1>7 DEF Lapse, queue
  <2>4. sent'[m] <= 1 /\ done'[m] = "open"
    BY <1>3, <2>2, <2>3
  <2> QED BY <2>2, <2>4
<1>8. ~Receive(m)
  BY <1>0, <1>1, ReceiveMoves
<1> QED BY <1>4, <1>5, <1>6, <1>7, <1>8, NobodysTurn DEF Next

\* Unless the lease is taken over, the intent keeps its holder.
LEMMA HolderKept ==
    ASSUME Basis, Next, Undecided', Untouched, intent.status \in Claimed
    PROVE  SameHolder \/ \E m \in Message : TakeOver(m)
<1>0. Inv /\ intent \in Intents /\ IntentInv
  BY StillUndecided DEF Basis, StoresAgree
<1>1. ASSUME NEW m \in Message, Receive(m) \/ Work(m) \/ Die(m), ~TakeOver(m)
      PROVE  SameHolder
  <2>1. ~Claim(m) /\ ~Complete(m) /\ ~Recover(m)
    BY <1>0, IntentMoves, DeletedIsSettled DEF Claimed
  <2> QED BY <1>0, <1>1, <2>1, LeaseMoves, IntentStays DEF Work, Prepare, Promote, Releases, SameHolder
<1>2. CASE Lapse \/ Expire \/ Flag \/ RejectMark \/ RejectConfirm
  BY <1>0, <1>2 DEF Lapse, Expire, Flag, RejectMark, RejectConfirm, Intents, SameHolder
<1> QED BY <1>1, <1>2 DEF Next, Deadline, RejectRead, RejectCommit, RejectFail, SameHolder

\* A claim is worked on at once.
LEMMA TakenIsLive ==
    ASSUME Inv, NEW m \in Message, Claim(m) \/ TakeOver(m)
    PROVE  intent'.holder = m /\ local'[m].live
BY PrepareMoves, LeaseMoves DEF TakesLease

\* The message of the lease's holder is about the version that was scanned.
LEMMA SourceIsCandidate ==
    ASSUME Untouched, intent.status \in Claimed, NEW m \in Message, about[m] = intent.source
    PROVE  Candidate(m)
BY DEF Untouched, Candidate

\* At the third delivery nothing refuses the holder before it takes over.
LEMMA ReadyUnrefused ==
    ASSUME Basis, Undecided, Untouched, intent.status \in Claimed, aurora.facts = None,
           intent.lease = "expired", Ready(intent.holder)
    PROVE  ~Refused(intent.holder)
<1> DEFINE m == intent.holder
<1>0. /\ m \in Message /\ about[m] = intent.source /\ intent.flag = 0 /\ local[m].seen.flag = 0
      /\ rows[intent.source] = "copying" /\ Candidate(m)
  BY SourceIsCandidate DEF Untouched, Basis, StoresAgree, IntentInv
<1> HIDE DEF m
<1>1. local[m].pc \in {"read", "scan"} => ~Refused(m)
  BY <1>0, ScanUnrefused
<1>2. local[m].pc = "lookup" => ~Refused(m)
  BY DEF Refused, At, Acceptable
<1>3. local[m].pc = "claim" => ~Refused(m)
  BY <1>0 DEF Refused, At, Takeable, Ready, Claimed, m
<1> QED BY <1>1, <1>2, <1>3 DEF Ready, m

\* At the next delivery nothing refuses who recovers what Aurora accepted.
LEMMA RecovererUnrefused ==
    ASSUME Basis, Undecided, Untouched, intent.status \in Claimed, aurora.facts # None,
           NEW m \in Message, Recovers(m), sent[m] = 2
    PROVE  ~Refused(m)
<1>0. Candidate(m) /\ about[m] = intent.source /\ CopyInv /\ aurora \in AuroraRows
  BY SourceIsCandidate DEF Recovers, Basis, StoresAgree, Inv, TypeOK
<1>1. local[m].pc \in {"read", "scan"} => ~Refused(m)
  BY <1>0, ScanUnrefused
<1>2. Acceptable(m) \/ local[m].pc # "lookup"
  <2>1. aurora.facts \in Facts /\ kept = [source |-> aurora.facts.source, fence |-> aurora.facts.copy]
    BY <1>0 DEF CopyInv, AuroraRows
  <2>2. kept # None /\ kept.source = aurora.facts.source
    <3>1. kept \in Copies
      BY <2>1 DEF Copies, Facts
    <3> QED BY <2>1, <3>1, NoneAssumption
  <2>3. aurora.facts.source = about[m]
    BY <1>0, <2>2 DEF CopyInv
  <2> QED BY <2>1, <2>3 DEF Acceptable, Recovers
<1>3. local[m].pc = "recover" => Completable(m)
  BY CompletableIs
<1> QED BY <1>1, <1>2, <1>3 DEF Refused, At, Recovers

\* A version that is claimed was scanned.
LEMMA ScannedAlready ==
    ASSUME Basis, Untouched, intent.status \in Claimed
    PROVE  intent.scan # None /\ intent.source \in Version
<1>1. intent \in Intents /\ intent.source # None
  BY DEF Basis, Inv, TypeOK, StoresAgree, IntentInv, Claimed
<1>2. intent.source \in Version
  BY <1>1 DEF Intents
<1>3. intent.scan \in Scans
  <2>1. intent.scan = [source |-> intent.source, clean |-> TRUE]
    BY DEF Untouched
  <2> QED BY <1>2, <2>1 DEF Scans
<1> QED BY <1>2, <1>3, NoneAssumption

\* Before its last delivery a message that fails comes back.
LEMMA ComesBack ==
    ASSUME Inv, NEW m \in Message, Work(m) \/ Die(m), ~Verify(m), ~Delete(m),
           sent[m] # MaxDeliveries
    PROVE  done' = done /\ sent' = sent
<1>1. Refuse(m) \/ Die(m) => done' = done /\ sent' = sent
  BY DEF Refuse, Die, Fail
<1>2. Scan(m) => done' = done /\ sent' = sent
  BY DEF Scan, Fail, queue
<1>3. CASE ~Refuse(m) /\ ~Die(m) /\ ~Scan(m)
  BY <1>3 DEF Work, Prepare, Promote, ReadIntent, Reuse, LookUp, Claim, TakeOver, Validate, ClaimFence, Renew,
         Find, Permit, Put, Adopt, Record, Resolve, Execute, Commit, Complete, Recover, Publish, queue
<1> QED BY <1>1, <1>2, <1>3

\* What the last deliveries find of the intent.
SameClaim ==
    /\ SameHolder /\ intent'.lease = intent.lease
    /\ intent'.status = intent.status /\ intent'.source = intent.source

\* Of a holder that keeps the lease, only its own steps and the clock's move
\* the claim.
LEMMA ClaimKept ==
    ASSUME Basis, Next, Undecided', intent.status \in Claimed, SameHolder
    PROVE  \/ SameClaim
           \/ Receive(intent.holder) \/ Renew(intent.holder) \/ Permit(intent.holder)
           \/ Validate(intent.holder) \/ Lapse
<1>0. Inv /\ intent \in Intents /\ IntentInv /\ intent.fence \in Nat
  BY StillUndecided DEF Basis, StoresAgree, Intents
<1>1. ASSUME NEW m \in Message, Receive(m) \/ Work(m) \/ Die(m)
      PROVE  SameClaim \/ (m = intent.holder /\ (Receive(m) \/ Renew(m) \/ Permit(m) \/ Validate(m)))
  <2>1. ~Claim(m) /\ ~TakeOver(m) /\ ~Complete(m) /\ ~Recover(m)
    BY <1>0, IntentMoves, LeaseMoves, DeletedIsSettled DEF Claimed, SameHolder
  <2>2. Renew(m) \/ Permit(m) \/ Validate(m) => m = intent.holder
    BY DEF Renew, Permit, Validate, ActiveLease, Holds
  <2>3. CASE Receive(m) /\ m # intent.holder
    <3>1. intent' = intent
      BY <2>3 DEF Receive
    <3> QED BY <3>1 DEF SameClaim, SameHolder
  <2>4. CASE Scan(m)
    BY <1>0, <2>4, IntentMoves, LeaseMoves DEF Releases, SameClaim
  <2>5. CASE intent' = intent
    BY <2>5 DEF SameClaim, SameHolder
  <2> QED BY <1>1, <2>1, <2>2, <2>3, <2>4, <2>5, IntentStays DEF Work, Prepare, Promote
<1>2. ~RejectMark /\ ~Expire
  <2>1. RejectMark => intent'.status = "rejected"
    BY <1>0 DEF RejectMark, Intents
  <2> QED BY <2>1, StillUndecided DEF Expire, Claimed, Active
<1>3. CASE Flag \/ RejectConfirm
  BY <1>0, <1>3 DEF Flag, RejectConfirm, Intents, SameClaim, SameHolder
<1>4. CASE intent' = intent
  BY <1>4 DEF SameClaim, SameHolder
<1> QED BY <1>1, <1>2, <1>3, <1>4 DEF Next, Deadline, RejectRead, RejectCommit, RejectFail

\* These steps move their worker to another place.
LEMMA HolderMoves ==
    ASSUME Inv, NEW m \in Message, Receive(m) \/ Renew(m) \/ Permit(m) \/ Validate(m)
    PROVE  local'[m].pc # local[m].pc
<1>1. CASE Receive(m)
  BY <1>1, ReceiveMoves DEF Moves
<1>2. CASE Renew(m)
  <2>1. local[m].pc \in {"renew", "renewAgain"}
    BY <1>2 DEF Renew, At
  <2>2. local'[m].pc \in {"refence", "complete"}
    BY <1>2, PrepareMoves
  <2> QED BY <2>1, <2>2
<1>3. CASE Validate(m)
  BY <1>3, PrepareMoves DEF Validate, At, Moves
<1>4. CASE Permit(m)
  BY <1>4, PromoteMoves DEF Permit, At, Moves
<1> QED BY <1>1, <1>2, <1>3, <1>4

\* A holder without a lease waits for a delivery that finds the lease lapsed.
LEMMA WaitsStep ==
    ASSUME Basis, Next, Undecided', Untouched, Leaseholders, intent.status \in Claimed, faults = 1,
           aurora.facts = None, MaxDeliveries >= 3, SameHolder,
           NEW h \in Message, h = intent.holder, ~local[h].live, Waits(h)
    PROVE  Waits(h)'
<1>0. /\ Inv /\ Undecided /\ faults' = 1 /\ intent \in Intents /\ MaxDeliveries \in Nat
      /\ sent \in [Message -> 0..MaxDeliveries] /\ sent[h] \in Nat
      /\ done \in [Message -> {"open", "acked", "dead"}]
      /\ intent.lease \in {"live", "aging", "expired"}
  BY StillUndecided, Bounds DEF Inv, TypeOK, Untouched
<1>1. ASSUME SameClaim, local'[h].pc = local[h].pc, local'[h].seen = local[h].seen,
             sent'[h] = sent[h], done'[h] = done[h]
      PROVE  Waits(h)'
  BY <1>1 DEF Waits, Ready, SameClaim, SameHolder
<1>2. ASSUME sent'[h] <= 1, done'[h] = "open"
      PROVE  Waits(h)'
  <2>1. sent'[h] # 3 /\ sent'[h] <= 2 /\ sent'[h] <= 3
    BY <1>2, <1>0, TypeStep DEF TypeOK
  <2> QED BY <1>2, <2>1 DEF Waits
<1>3. CASE Lapse
  <2>1. /\ local'[h].pc = local[h].pc /\ local'[h].seen = local[h].seen /\ sent' = sent /\ done' = done
    BY <1>0, <1>3, LapseMoves
  <2>2. intent'.lease = "expired" /\ intent'.status = intent.status /\ intent'.source = intent.source
    BY <1>0, <1>3 DEF Lapse, Intents
  <2> QED BY <2>1, <2>2 DEF Waits, Ready, SameHolder
<1>4. CASE Receive(h)
  <2>1. local[h].pc = "idle" /\ done' = done /\ sent'[h] = sent[h] + 1 /\ local'[h].pc = "read" /\ Waited(h)
    BY <1>0, <1>4, ReceiveMoves DEF Moves
  <2>2. sent[h] <= 2 /\ intent.lease # "aging"
    BY <1>0, <2>1 DEF Waits, Ready, Waited
  <2>3. intent'.lease = IF intent.lease = "live" THEN "aging" ELSE intent.lease
    BY <1>0, <1>4, LeaseMoves DEF Releases
  <2>4. Ready(h)'
    BY <2>1 DEF Ready
  <2> QED BY <1>0, <2>1, <2>2, <2>3, <2>4 DEF Waits
<1>5. ~Die(h)
  BY <1>0 DEF Die, Fault
<1>6. ASSUME Work(h), sent[h] <= 2 PROVE Waits(h)'
  <2>1. done' = done /\ sent' = sent
    BY <1>0, <1>6, ComesBack, DeletedIsSettled DEF Verify
  <2>2. CASE Renew(h) \/ Permit(h) \/ Validate(h)
    <3>1. local[h].pc \in Leasing
      BY <2>2 DEF Renew, Permit, Validate, At, Leasing
    <3>2. local[h].fence > 0
      BY <1>0, <3>1, LocalsOf DEF Sound, Fences
    <3> QED BY <1>2, <2>1, <3>2 DEF Leaseholders, Leaseholder, Waits
  <2>3. CASE SameClaim
    BY <1>0, <1>6, <2>1, <2>3 DEF Waits, SameClaim
  <2>4. CASE Receive(h) \/ Lapse
    BY <1>3, <1>4, <2>4
  <2> QED BY <2>2, <2>3, <2>4, ClaimKept
<1>7. ASSUME Work(h), sent[h] = 3 PROVE Waits(h)'
  <2>1. Ready(h) /\ intent.lease = "expired"
    BY <1>0, <1>7 DEF Waits
  <2>2. ~Refuse(h)
    BY <1>0, <2>1, ReadyUnrefused DEF Refuse
  <2>3. local[h].pc \in {"read", "scan", "lookup", "claim"}
    BY <2>1 DEF Ready
  <2>4. ~Scan(h) /\ ~Claim(h) /\ ~TakeOver(h)
    BY <1>0, ScannedAlready, LeaseMoves DEF Scan, Claim, Claimable, Claimed, SameHolder, Intents
  <2>5. ReadIntent(h) \/ Reuse(h) \/ LookUp(h)
    BY <1>7, <2>2, <2>3, <2>4 DEF Work, Prepare, Verify, Validate, ClaimFence, Renew, Promote,
       Find, Permit, Put, Adopt, Record, Resolve, Execute, Commit, Complete, Recover, Delete, At
  <2>6. intent' = intent /\ done' = done /\ sent' = sent
    BY <2>5 DEF ReadIntent, Reuse, LookUp, queue
  <2>7. Ready(h)'
    <3>1. CASE ReadIntent(h)
      <4>1. local'[h].pc = "scan" /\ local'[h].seen = Seen(intent)
        BY <1>0, <3>1, PrepareMoves DEF Claimed
      <4> QED BY <2>6, <4>1 DEF Ready, Seen
    <3>2. CASE Reuse(h) \/ LookUp(h)
      <4>1. local[h].pc \in {"scan", "lookup"}
        BY <3>2 DEF Reuse, LookUp, At
      <4>2. Moves(h, "lookup") \/ Moves(h, "claim")
        BY <1>0, <3>2, PrepareMoves DEF Reuse
      <4> QED BY <2>1, <2>6, <4>1, <4>2 DEF Ready, Moves
    <3> QED BY <2>5, <3>1, <3>2
  <2> QED BY <2>6, <2>7 DEF Waits
<1>8. ASSUME NEW m \in Message \ {h}, Receive(m) \/ Work(m) \/ Die(m) PROVE Waits(h)'
  <2>1. local'[h] = local[h] /\ sent'[h] = sent[h] /\ done'[h] = done[h]
    BY <1>0, <1>8, Turns, ReceiveMoves DEF Others, Moves
  <2>2. ~Receive(h) /\ ~Renew(h) /\ ~Permit(h) /\ ~Validate(h)
    BY <1>0, <2>1, HolderMoves
  <2> QED BY <1>1, <1>3, <2>1, <2>2, ClaimKept
<1>9. CASE UNCHANGED <<local, sent, done>>
  <2>1. ~Receive(h) /\ ~Renew(h) /\ ~Permit(h) /\ ~Validate(h)
    BY <1>0, <1>9, HolderMoves
  <2> QED BY <1>1, <1>3, <1>9, <2>1, ClaimKept
<1>10. sent[h] <= 2 \/ sent[h] = 3
  BY <1>0 DEF Waits
<1> QED BY <1>3, <1>4, <1>5, <1>6, <1>7, <1>8, <1>9, <1>10, NobodysTurn DEF Next

\* Who recovers what Aurora accepted gets that far at the next delivery.
LEMMA RecoversStep ==
    ASSUME Basis, Next, Undecided', Untouched, faults = 1, aurora.facts # None, MaxDeliveries >= 3,
           NEW w \in Message, Recovers(w)
    PROVE  Recovers(w)'
<1>0. /\ Inv /\ Undecided /\ faults' = 1 /\ intent \in Intents /\ MaxDeliveries \in Nat
      /\ sent \in [Message -> 0..MaxDeliveries] /\ sent[w] \in Nat
      /\ intent.status = "validated" /\ intent.status \in Claimed
  BY StillUndecided, Bounds DEF Basis, StoresAgree, CopyInv, Beyond, Active, Claimed, Inv, TypeOK
<1>1. about' = about /\ intent'.source = intent.source
  BY <1>0, StillUndecided, ScannedAlready, NoneAssumption DEF StoresGrow, IntentGrows
<1>2. ASSUME local'[w].pc = local[w].pc, local'[w].seen = local[w].seen,
             sent'[w] = sent[w], done'[w] = done[w]
      PROVE  Recovers(w)'
  BY <1>1, <1>2 DEF Recovers
<1>3. CASE Receive(w)
  <2>1. local[w].pc = "idle" /\ done' = done /\ sent'[w] = sent[w] + 1 /\ local'[w].pc = "read"
    BY <1>0, <1>3, ReceiveMoves DEF Moves
  <2> QED BY <1>0, <1>1, <2>1 DEF Recovers
<1>4. ~Die(w)
  BY <1>0 DEF Die, Fault
<1>5. ASSUME Work(w) PROVE done' = done /\ sent' = sent
  BY <1>0, <1>5, ComesBack, DeletedIsSettled DEF Verify, Recovers
<1>6. ASSUME Work(w), sent[w] <= 1 PROVE Recovers(w)'
  BY <1>0, <1>1, <1>5, <1>6 DEF Recovers
<1>7. ASSUME Work(w), sent[w] = 2 PROVE Recovers(w)'
  <2>1. \/ local[w].pc = "read"
        \/ local[w].pc \in {"scan", "lookup", "recover"} /\ local[w].seen.status = "validated"
    BY <1>7 DEF Recovers
  <2>2. ~Refuse(w) /\ ~Recover(w)
    BY <1>0, <1>7, RecovererUnrefused, DeletedIsSettled DEF Refuse
  <2>3. ~Scan(w)
    BY <1>0, ScannedAlready DEF Scan
  <2>4. ReadIntent(w) \/ Reuse(w) \/ LookUp(w)
    BY <1>7, <2>1, <2>2, <2>3 DEF Work, Prepare, Verify, Claim, TakeOver, Validate, ClaimFence, Renew,
       Promote, Find, Permit, Put, Adopt, Record, Resolve, Execute, Commit, Complete, Delete, At
  <2>5. CASE ReadIntent(w)
    <3>1. local'[w].pc = "scan" /\ local'[w].seen = Seen(intent)
      BY <1>0, <2>5, PrepareMoves
    <3>2. local'[w].seen.status = "validated"
      BY <1>0, <3>1 DEF Seen
    <3> QED BY <1>1, <1>5, <1>7, <3>1, <3>2 DEF Recovers
  <2>6. CASE Reuse(w) \/ LookUp(w)
    <3>1. local[w].pc \in {"scan", "lookup"}
      BY <2>6 DEF Reuse, LookUp, At
    <3>2. Moves(w, "lookup") \/ Moves(w, "recover")
      BY <1>0, <2>6, PrepareMoves DEF Reuse
    <3>3. local'[w].pc \in {"lookup", "recover"} /\ local'[w].seen.status = "validated"
      BY <2>1, <3>1, <3>2 DEF Moves
    <3> QED BY <1>1, <1>5, <1>7, <3>3 DEF Recovers
  <2> QED BY <2>4, <2>5, <2>6
<1>8. ASSUME NEW m \in Message \ {w}, Receive(m) \/ Work(m) \/ Die(m) PROVE Recovers(w)'
  <2>1. local'[w] = local[w] /\ sent'[w] = sent[w] /\ done'[w] = done[w]
    BY <1>0, <1>8, Turns, ReceiveMoves DEF Others, Moves
  <2> QED BY <1>2, <2>1
<1>9. CASE Lapse
  BY <1>0, <1>2, <1>9, LapseMoves
<1>10. CASE UNCHANGED <<local, sent, done>>
  BY <1>2, <1>10
<1>11. sent[w] <= 1 \/ sent[w] = 2
  BY <1>0 DEF Recovers
<1> QED BY <1>3, <1>4, <1>6, <1>7, <1>8, <1>9, <1>10, <1>11, NobodysTurn DEF Next

\* A holder at work is at its message's version, which stays the intent's.
LEMMA AtItsSource ==
    ASSUME Basis, Next, Undecided', NEW m \in Message, local[m].pc \in Leasing
    PROVE  about'[m] = intent'.source
<1>1. intent.source = about[m] /\ about[m] \in Version /\ about[m] # None
  BY LocalsOf, NoneAssumption DEF Basis, StoresAgree, AllStanding, Standing
<1>2. intent'.source = intent.source /\ about' = about
  BY <1>1, StillUndecided DEF StoresGrow, IntentGrows
<1> QED BY <1>1, <1>2

\* Whose transaction Aurora commits completes it, or comes back for it.
LEMMA CommitSurvives ==
    ASSUME Basis, Delivered, Next, Undecided', Leaseholders, NEW m \in Message, Commit(m)
    PROVE  Finishing(m)' \/ (faults' = 1 /\ Recovers(m)')
<1>0. /\ Inv /\ faults \in Nat /\ faults' \in Nat /\ faults <= faults' /\ faults' <= 1
      /\ sent[m] \in Nat
  BY StillUndecided DEF Inv, TypeOK
<1>1. local[m].pc = "commit" /\ local[m].pc \in Leasing /\ sent' = sent /\ done' = done
  BY <1>0 DEF Commit, At, Leasing, queue
<1>2. local'[m].live = local[m].live /\ local'[m].pc = "renewAgain"
  BY <1>0, PromoteMoves DEF Moves, SameLease
<1>3. local[m].fence > 0 /\ done[m] = "open" /\ about'[m] = intent'.source
  BY <1>0, <1>1, LocalsOf, AtItsSource DEF Sound, Fences, Delivered
<1>4. ~local[m].live => faults = 1 /\ sent[m] <= 1
  BY <1>0, <1>3 DEF Leaseholders, Leaseholder
<1>5. local[m].live => Finishing(m)'
  BY <1>2 DEF Finishing
<1>6. ~local[m].live => faults' = 1 /\ Recovers(m)'
  BY <1>0, <1>1, <1>3, <1>4 DEF Recovers
<1> QED BY <1>5, <1>6

LEMMA CommitFirst ==
    ASSUME Inv, Next, aurora.facts = None, aurora'.facts # None
    PROVE  \E m \in Message : Commit(m)
<1>0. aurora \in AuroraRows
  BY DEF Inv, TypeOK
<1>1. ASSUME NEW m \in Message, ClaimFence(m) PROVE aurora'.facts = aurora.facts
  BY <1>0, <1>1 DEF ClaimFence, AuroraRows
<1>2. RejectCommit \/ Lapse => aurora'.facts = aurora.facts
  BY <1>0 DEF RejectCommit, Lapse, AuroraRows
<1> QED BY <1>1, <1>2, WorkTouches
        DEF Next, Deadline, Expire, Flag, RejectRead, RejectMark, RejectConfirm, RejectFail

LEMMA ClaimSurvivesStep ==
    ASSUME Basis, AuroraLease, Delivered, Next, Undecided', Untouched, Leaseholders, Surviving,
           intent'.status \in Claimed, MaxDeliveries >= 3
    PROVE  ClaimSurvives'
<1>0. /\ Inv /\ Undecided /\ StoresGrow /\ CopyInv /\ intent.status \in Active
      /\ faults \in Nat /\ faults' \in Nat /\ faults <= faults' /\ faults' <= 1
      /\ intent'.holder \in Message
  BY StillUndecided, ClaimedStays DEF Basis, StoresAgree
\* A claim is worked on at once.
<1>1. ASSUME NEW m \in Message, Claim(m) \/ TakeOver(m) PROVE local'[intent'.holder].live
  BY <1>0, <1>1, TakenIsLive
<1>2. intent.status \in Claimed \/ \E m \in Message : Claim(m)
  BY StatusMoves DEF Basis
<1>3. intent.status \in Claimed => ClaimSurvives /\ intent.holder \in Message
  BY DEF Surviving, Untouched
\* Before the fault the holder goes on.
<1>4. ASSUME faults' = 0 PROVE local'[intent'.holder].live
  <2>1. CASE intent.status \in Claimed
    <3> DEFINE h == intent.holder
    <3>1. h \in Message /\ local[h].live /\ faults = 0
      BY <1>0, <1>3, <1>4, <2>1 DEF ClaimSurvives
    <3>2. aurora.facts = None \/ local[h].pc \in {"renewAgain", "complete"}
      <4>1. ASSUME NEW n \in Message, Finishing(n) PROVE n = h
        BY <1>0, <4>1, LiveHolds DEF Finishing
      <4> QED BY <1>3, <2>1, <3>1, <4>1 DEF ClaimSurvives, Finishing
    <3> HIDE DEF h
    <3> QED BY <1>4, <3>1, <3>2, LiveStep
  <2> QED BY <1>1, <1>2, <2>1
\* Until Aurora accepts, it goes on or waits.
<1>5. ASSUME aurora'.facts = None
      PROVE  local'[intent'.holder].live \/ Waits(intent.holder)'
  <2>1. aurora.facts = None
    BY <1>0, <1>5 DEF StoresGrow
  <2>2. ASSUME intent.status \in Claimed, SameHolder
        PROVE  local'[intent'.holder].live \/ Waits(intent.holder)'
    <3>1. PICK h \in Message : h = intent.holder /\ h = intent'.holder
      BY <1>3, <2>2 DEF SameHolder
    <3>2. local[h].live \/ (faults = 1 /\ Waits(h))
      BY <1>0, <1>3, <2>1, <2>2, <3>1 DEF ClaimSurvives
    <3>3. ASSUME local[h].live PROVE local'[h].live \/ Waits(h)'
      <4>1. local'[h].live \/ (sent'[h] <= 1 /\ done'[h] = "open")
        BY <2>1, <3>3, LiveStep
      <4>2. sent'[h] \in Nat
        BY <1>0, Bounds, TypeStep DEF TypeOK
      <4>3. sent'[h] <= 1 /\ done'[h] = "open" => Waits(h)'
        BY <4>2 DEF Waits
      <4> QED BY <4>1, <4>3
    <3>4. ASSUME ~local[h].live PROVE Waits(h)'
      BY <2>1, <2>2, <3>1, <3>2, <3>4, WaitsStep
    <3>5. Waits(h)' => Waits(intent.holder)'
      BY <3>1 DEF Waits, Ready
    <3> QED BY <3>1, <3>2, <3>3, <3>4, <3>5
  <2> QED BY <1>1, <1>2, <2>2, HolderKept
\* What it accepted is completed, or recovered.
<1>6. ASSUME aurora'.facts # None
      PROVE  \/ \E m \in Message : Finishing(m)'
             \/ faults' = 1 /\ \E m \in Message : Recovers(m)'
  <2>1. CASE aurora.facts = None
    BY <1>0, <1>6, <2>1, CommitFirst, CommitSurvives
  <2>2. ASSUME NEW n \in Message, Finishing(n)
        PROVE  Finishing(n)' \/ (faults' = 1 /\ Recovers(n)')
    <3>1. \/ local'[n].live /\ local'[n].pc \in {"renewAgain", "complete"}
          \/ faults' = 1 /\ sent'[n] <= 1 /\ done'[n] = "open"
      BY <2>2, LiveStep DEF Finishing
    <3>2. about'[n] = intent'.source
      BY <2>2, AtItsSource DEF Finishing, Leasing
    <3>3. sent'[n] \in Nat
      BY <1>0, Bounds, TypeStep DEF TypeOK
    <3>4. faults' = 1 /\ sent'[n] <= 1 /\ done'[n] = "open" => faults' = 1 /\ Recovers(n)'
      BY <3>2, <3>3 DEF Recovers
    <3> QED BY <3>1, <3>4 DEF Finishing
  <2>3. ASSUME aurora.facts # None, faults = 1, NEW w \in Message, Recovers(w)
        PROVE  faults' = 1 /\ Recovers(w)'
    BY <1>0, <2>3, RecoversStep
  <2>4. aurora.facts # None => ClaimSurvives
    BY <1>0, <1>3 DEF CopyInv, Beyond, Active, Claimed
  <2> QED BY <2>1, <2>2, <2>3, <2>4 DEF ClaimSurvives
<1> QED BY <1>4, <1>5, <1>6 DEF ClaimSurvives

-----------------------------------------------------------------------------

LEMMA SurvivalInit == ASSUME Init, Message # {} PROVE SurvivalInv
<1>1. /\ intent.status = "issued" /\ intent.fence = 0 /\ intent.flag = 0 /\ intent.scan = None
      /\ aurora.live = FALSE /\ aurora.status = "issued" /\ rejecter.pc = "idle"
      /\ sources = Version /\ faults = 0
      /\ \A v \in Version : rows[v] = "none"
  BY DEF Init, Issued, Resting
<1>2. \A m \in Message :
        /\ local[m].pc = "idle" /\ local[m].fence = 0 /\ local[m].seen.flag = 0
        /\ sent[m] = 0 /\ done[m] = "open"
  BY IdleIs DEF Init
<1>3. AuroraLease /\ Delivered /\ Untouched
  BY <1>1, <1>2 DEF AuroraLease, Delivered, Untouched, Claimed
<1>4. Leaseholders
  BY <1>2 DEF Leaseholders, Leaseholder
<1>5. Contested
  BY <1>1, <1>2 DEF Contested, Candidate, Unrefused
<1> QED BY <1>1, <1>3, <1>4, <1>5 DEF SurvivalInv, Surviving, Claimed

LEMMA SurvivalStep ==
    ASSUME Basis, SurvivalInv, [Next]_vars, MaxDeliveries >= 3
    PROVE  SurvivalInv'
<1>1. CASE UNCHANGED vars
  BY <1>1 DEF SurvivalInv, AuroraLease, Delivered, Undecided, Settled, Untouched, Leaseholders,
     Leaseholder, Surviving, Contested, Candidate, Unrefused, ClaimSurvives, Waits, Ready, Finishing, Recovers, vars, queue,
     control, world
<1>2. CASE Next
  <2>1. AuroraLease' /\ Delivered'
    BY <1>2, AuroraLeaseStep, DeliveredStep DEF SurvivalInv, Basis
  <2>2. ASSUME Undecided' PROVE Untouched' /\ Leaseholders' /\ Surviving'
    <3>1. Undecided /\ Untouched /\ Leaseholders /\ Surviving /\ AuroraLease /\ Delivered
      BY <1>2, <2>2, StillUndecided DEF SurvivalInv
    <3> QED BY <1>2, <2>2, <3>1, UntouchedStep, LeaseholdersStep, ContestedStep, ClaimSurvivesStep
            DEF Surviving
  <2> QED BY <2>1, <2>2 DEF SurvivalInv
<1> QED BY <1>1, <1>2

\* A message is open as long as the intent is undecided.
LEMMA SomeoneIsOpen ==
    ASSUME Basis, SurvivalInv, Undecided
    PROVE  \E m \in Message : done[m] = "open"
<1>0. /\ Delivered /\ Untouched /\ Surviving /\ Inv
      /\ done \in [Message -> {"open", "acked", "dead"}]
      /\ intent.status = "issued" \/ intent.status \in Claimed
  BY DEF SurvivalInv, Basis, Inv, TypeOK, Undecided, Settled, Intents, Statuses, Active, Claimed
<1>1. ASSUME NEW m \in Message, local[m].live PROVE done[m] = "open"
  BY <1>0, <1>1, LiveHolds DEF Delivered
<1>2. CASE intent.status = "issued"
  BY <1>0, <1>2 DEF Surviving, Contested, Unrefused
<1>3. CASE intent.status \in Claimed
  <2>1. ClaimSurvives /\ intent.holder \in Message
    BY <1>0, <1>3 DEF Surviving, Untouched
  <2> QED BY <1>1, <2>1 DEF ClaimSurvives, Waits, Finishing, Recovers
<1> QED BY <1>0, <1>2, <1>3

\* One dead invocation, one lapse, one flag or one late deadline is survived: as
\* long as nothing has settled the intent of a clean version, not all of its
\* messages are in the dead-letter queue, for any number of messages, versions and
\* fences (the handler of promote-evidence/index.mjs).  The queue of clean scans
\* has a maxReceiveCount of 3 (lib/tenant-stack.ts): with two deliveries the second
\* could still find the dead holder's lease.
THEOREM SurvivalCorrect == Message # {} /\ MaxDeliveries >= 3 => (Spec => []OneFaultIsSurvived)
<1> SUFFICES ASSUME Message # {}, MaxDeliveries >= 3 PROVE Spec => []OneFaultIsSurvived
  OBVIOUS
<1>1. Init => SurvivalInv
  BY SurvivalInit
<1>2. Inv /\ StoresAgree /\ FenceInv /\ SurvivalInv /\ [Next]_vars => SurvivalInv'
  BY SurvivalStep DEF Basis
<1>3. Inv /\ StoresAgree /\ FenceInv /\ SurvivalInv => OneFaultIsSurvived
  <2> SUFFICES ASSUME Basis, SurvivalInv, ~Settled, ~(faults >= 2)
               PROVE  \E m \in Message : done[m] # "dead"
    BY DEF Basis, OneFaultIsSurvived
  <2>1. Undecided
    BY Bounds DEF Undecided, Basis, Inv, TypeOK, Flags
  <2> QED BY <2>1, SomeoneIsOpen
<1> QED BY <1>1, <1>2, <1>3, Invariant, Agreement, Fencing, PTL DEF Spec

=============================================================================
