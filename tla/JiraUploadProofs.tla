--------------------------- MODULE JiraUploadProofs ---------------------------
(* Theorems about JiraUpload, for any number of overlapping requests, codes *)
(* and tokens, encryption keys and mishaps.                                 *)
(*                                                                          *)
(* The invariant has three parts that do not need each other.  UploadInv    *)
(* follows an attachment from its claim to its outcome; FreshInv says that  *)
(* a code or a token nobody stored yet is known to its owner only; RaceInv, *)
(* which uses FreshInv, says who may write the stored token.                *)
EXTENDS JiraUpload, TLAPS

-----------------------------------------------------------------------------
(* The inductive invariant.                                                *)

TokenSteps == {"token", "claimToken", "reread", "exchange", "store", "yield", "deny"}
UploadSteps == {"prior", "lookup", "reserve", "operation", "expire", "claim", "attach",
                "settle", "commit"}

\* The operation is claimed and nothing was sent yet; or its outcome is not
\* recorded yet.
Sending(w) == At(w, "attach") \/ (local[w].pc \in TokenSteps /\ local[w].next = "attach")
Working(w) == Sending(w) \/ local[w].pc \in {"settle", "commit"}
HasTarget(w) ==
    local[w].pc \in UploadSteps \/ (local[w].pc \in TokenSteps /\ local[w].next # "test")

TargetInv == \A w \in Worker : HasTarget(w) => local[w].target \in Ids
\* The claim of a request is its own until it is taken for lost, and then it
\* is nobody's.
ClaimInv ==
    \A w \in Worker : Working(w) =>
        \/ Op(w).status = "unknown"
        \/ Op(w).status = "uploading" /\ Op(w).lease = w
SentInv ==
    \A w \in Worker :
        /\ Sending(w) \/ (At(w, "settle") /\ local[w].as = "failed") => attached[local[w].target] = 0
        /\ At(w, "commit") => attached[local[w].target] = 1
AloneInv ==
    \A v, w \in Worker : v # w /\ Working(v) /\ Working(w) => local[v].target # local[w].target
UploadInv == TargetInv /\ ClaimInv /\ SentInv /\ AloneInv /\ RetryIsSafe /\ OneAttachmentSet

Known ==
    /\ codes \subseteq 1..issued /\ live \subseteq 1..issued
    /\ conn.id <= issued /\ conn.token <= issued /\ asked <= issued
    /\ \A w \in Worker :
          local[w].id <= issued /\ local[w].token <= issued /\ local[w].code <= issued

\* A token that was issued to the request and is not stored yet.
Owned(w) ==
    IF At(w, "store") THEN {local[w].token}
    ELSE IF local[w].pc \in {"existing", "connect"} THEN {local[w].code} ELSE {}

Unused(t) == t # conn.token /\ t # conn.id
Unseen(w, t) == t # local[w].token /\ t # local[w].id

CodesInv == \A t \in codes : t \notin live /\ Unused(t) /\ \A w \in Worker : Unseen(w, t)
OwnedInv ==
    \A w \in Worker : \A t \in Owned(w) :
        /\ t \in live /\ t \notin codes /\ Unused(t)
        /\ \A v \in Worker \ {w} : Unseen(v, t) /\ t \notin Owned(v)
FreshInv == Known /\ CodesInv /\ OwnedInv

Refresh == {"exchange", "store", "yield", "deny"}
\* Who holds the lease is refreshing the version that is stored.
LeaseInv ==
    /\ ~conn.lapsed
    /\ \A w \in Worker : conn.lease = w => local[w].pc \in Refresh /\ Refreshing(w)
\* A copy of the row is as old as its version says.
CopyInv ==
    \A w \in Worker : local[w].pc \in {"claimToken", "exchange", "rekey"} /\ Mine(w) =>
        /\ local[w].version <= conn.version
        /\ local[w].version = conn.version => local[w].token = conn.token
\* Only the owner of the lease is about to use the stored token up.
ExchangeInv ==
    \A w \in Worker : At(w, "exchange") /\ conn.id # None =>
        Refreshing(w) \/ local[w].token # conn.token
LiveInv ==
    conn.id # None /\ conn.token \notin live => \E w \in Worker : conn.lease = w /\ At(w, "store")
RaceInv == mishaps = 0 => LeaseInv /\ CopyInv /\ ExchangeInv /\ LiveInv

-----------------------------------------------------------------------------
(* Types.                                                                   *)

\* The places of a request.
Steps == {"idle", "prior", "token", "claimToken", "reread", "exchange", "store", "yield",
          "deny", "lookup", "reserve", "operation", "expire", "claim", "attach",
          "settle", "commit", "reject", "test", "tested", "code", "existing", "connect",
          "disconnect", "rekey"}

\* The requests but w are left alone, and w keeps the shape of a request.
OthersStay(w) ==
    /\ local' \in [Worker -> Locals]
    /\ \A v \in Worker \ {w} : local'[v] = local[v]

\* The request that does nothing and the row that is not there are well formed.
LEMMA IdleIs == JiraAssumption => Idle \in Locals /\ NoConnection \in Connections
BY DEF JiraAssumption, Idle, Locals, NoConnection, Connections, Ids, None, MaybeWorker

\* Records of the shape that Proceed and Leave make.
LEMMA ProceedShape ==
    ASSUME NEW i \in Locals, NEW place \in {"lookup", "attach", "test"}, NEW id \in Ids \union {None},
           NEW target \in Ids \union {None}, NEW request \in Requests \union {None}
    PROVE  [i EXCEPT !.pc = place, !.id = id, !.target = target, !.request = request] \in Locals
BY DEF Locals

LEMMA LeaveShape ==
    ASSUME NEW i \in Locals, NEW target \in Ids \union {None}, NEW as \in {"failed", "unknown"}
    PROVE  [i EXCEPT !.pc = "settle", !.target = target, !.as = as] \in Locals
BY DEF Locals

\* What the helpers that move a request make of it.
LEMMA GotoIs ==
    ASSUME TypeOK, NEW w \in Worker, NEW place \in Steps, Goto(w, place)
    PROVE  /\ OthersStay(w)
           /\ local'[w].pc = place /\ local'[w].next = local[w].next
           /\ local'[w].target = local[w].target /\ local'[w].as = local[w].as
           /\ local'[w].id = local[w].id /\ local'[w].token = local[w].token
           /\ local'[w].code = local[w].code /\ local'[w].version = local[w].version
BY DEF TypeOK, Goto, OthersStay, Locals, Steps

\* A request that has ended.
LEMMA DoneIs ==
    ASSUME JiraAssumption, TypeOK, NEW w \in Worker, Done(w)
    PROVE  /\ OthersStay(w)
           /\ local'[w].pc = "idle" /\ local'[w].id = 0 /\ local'[w].token = 0
           /\ local'[w].code = 0
<1>1. OthersStay(w) /\ local'[w] = Idle
  BY IdleIs DEF TypeOK, Done, OthersStay
<1> QED BY <1>1 DEF Idle, None

\* A request that was put at another place.
LEMMA PutIs ==
    ASSUME TypeOK, NEW w \in Worker, NEW l \in Locals, local' = [local EXCEPT ![w] = l]
    PROVE  OthersStay(w) /\ local'[w] = l
BY DEF TypeOK, OthersStay

\* The access token is there.
LEMMA ProceedIs ==
    ASSUME JiraAssumption, TypeOK, NEW w \in Worker, Proceed(w)
    PROVE  /\ OthersStay(w)
           /\ local'[w].pc = local[w].next /\ local'[w].target = local[w].target
           /\ local'[w].id = local[w].id /\ local'[w].token = 0 /\ local'[w].code = 0
<1> DEFINE l == [Idle EXCEPT !.pc = local[w].next, !.id = local[w].id,
                             !.target = local[w].target, !.request = local[w].request]
<1>1. /\ local[w].next \in {"lookup", "attach", "test"} /\ local[w].id \in Ids \union {None}
      /\ local[w].target \in Ids \union {None} /\ local[w].request \in Requests \union {None}
  BY DEF TypeOK, Locals
<1>2. l \in Locals
  BY <1>1, IdleIs, ProceedShape
<1>3. l.pc = local[w].next /\ l.target = local[w].target /\ l.id = local[w].id /\ l.token = 0 /\ l.code = 0
  BY DEF Idle
<1>4. local' = [local EXCEPT ![w] = l]
  BY DEF Proceed
<1> HIDE DEF l
<1> QED BY <1>2, <1>3, <1>4, PutIs

\* It is not.
LEMMA LeaveIs ==
    ASSUME JiraAssumption, TypeOK, NEW w \in Worker, NEW refused \in BOOLEAN, Leave(w, refused)
    PROVE  /\ OthersStay(w)
           /\ local'[w].id = 0 /\ local'[w].token = 0 /\ local'[w].code = 0
           /\ local[w].next # "attach" => local'[w].pc = "idle"
           /\ local[w].next = "attach" =>
                 local'[w].pc = "settle" /\ local'[w].target = local[w].target
<1>1. CASE local[w].next = "attach"
  <2> DEFINE as == IF refused THEN "failed" ELSE "unknown"
  <2> DEFINE l == [Idle EXCEPT !.pc = "settle", !.target = local[w].target, !.as = as]
  <2>1. local[w].target \in Ids \union {None} /\ as \in {"failed", "unknown"}
    BY DEF TypeOK, Locals
  <2>2. local' = [local EXCEPT ![w] = l]
    BY <1>1 DEF Leave
  <2> HIDE DEF as
  <2>3. l \in Locals
    BY <2>1, IdleIs, LeaveShape
  <2>4. l.pc = "settle" /\ l.target = local[w].target /\ l.id = 0 /\ l.token = 0 /\ l.code = 0
    BY DEF Idle, None
  <2> HIDE DEF l
  <2> QED BY <1>1, <2>2, <2>3, <2>4, PutIs
<1>2. CASE local[w].next # "attach"
  BY <1>2, DoneIs DEF Leave
<1> QED BY <1>1, <1>2

\* Records of the shapes that the actions make themselves.
LEMMA BeginShape ==
    ASSUME NEW i \in Locals, NEW target \in Ids \union {None},
           NEW request \in Requests \union {None}
    PROVE  [i EXCEPT !.pc = "prior", !.target = target, !.request = request] \in Locals
BY DEF Locals

LEMMA ClaimShape ==
    ASSUME NEW i \in Locals, NEW version \in Nat, NEW token \in 0..MaxTokens,
           NEW aad \in Ids \union {None}
    PROVE  [i EXCEPT !.pc = "claimToken", !.version = version, !.token = token,
                     !.aad = aad] \in Locals
BY DEF Locals

LEMMA StoreShape ==
    ASSUME NEW i \in Locals, NEW token \in 0..MaxTokens, NEW key \in 1..MaxEpoch
    PROVE  [i EXCEPT !.pc = "store", !.token = token, !.key = key] \in Locals
BY DEF Locals

LEMMA NeedShape ==
    ASSUME NEW i \in Locals, NEW next \in {"lookup", "attach", "test"}, NEW id \in Ids \union {None}
    PROVE  [i EXCEPT !.pc = "token", !.next = next, !.id = id] \in Locals
BY DEF Locals

LEMMA AttachShape ==
    ASSUME NEW i \in Locals
    PROVE  [i EXCEPT !.pc = "token", !.next = "attach"] \in Locals
BY DEF Locals

LEMMA SettleShape ==
    ASSUME NEW i \in Locals, NEW as \in {"failed", "unknown"}, NEW denied \in BOOLEAN
    PROVE  [i EXCEPT !.pc = "settle", !.as = as, !.denied = denied] \in Locals
BY DEF Locals

LEMMA PlaceShape ==
    ASSUME NEW i \in Locals, NEW place \in {"operation", "disconnect"}, NEW id \in Ids \union {None}
    PROVE  [i EXCEPT !.pc = place, !.id = id] \in Locals
BY DEF Locals

LEMMA CodeShape ==
    ASSUME NEW i \in Locals, NEW code \in 0..MaxTokens
    PROVE  [i EXCEPT !.pc = "code", !.code = code] \in Locals
BY DEF Locals

LEMMA ConnectShape ==
    ASSUME NEW i \in Locals, NEW key \in 1..MaxEpoch, NEW id \in Ids \union {None}
    PROVE  [i EXCEPT !.pc = "connect", !.key = key, !.id = id] \in Locals
BY DEF Locals

LEMMA RekeyShape ==
    ASSUME NEW i \in Locals, NEW id \in Ids \union {None}, NEW key \in 1..MaxEpoch,
           NEW from \in 1..MaxEpoch, NEW version \in Nat, NEW token \in 0..MaxTokens
    PROVE  [i EXCEPT !.pc = "rekey", !.id = id, !.key = key, !.from = from,
                     !.version = version, !.token = token] \in Locals
BY DEF Locals

\* What the rows and the requests hold.
LEMMA Typed ==
    ASSUME TypeOK, NEW w \in Worker
    PROVE  /\ conn.id \in Ids \union {None} /\ conn.version \in Nat /\ conn.token \in 0..MaxTokens
           /\ conn.aad \in Ids \union {None} /\ conn.key \in 1..MaxEpoch
           /\ active \in 1..MaxEpoch /\ asked \in 0..MaxTokens /\ issued \in 0..MaxTokens
           /\ local[w] \in Locals /\ local[w].next \in {"lookup", "attach", "test"}
           /\ local[w].id \in Ids \union {None} /\ local[w].target \in Ids \union {None}
           /\ local[w].request \in Requests \union {None} /\ local[w].code \in 0..MaxTokens
           /\ local[w].version \in Nat /\ local[w].token \in 0..MaxTokens
           /\ local[w].as \in {"failed", "unknown"} /\ local[w].denied \in BOOLEAN
BY DEF TypeOK, Connections, Locals

\* Every step of a request is its own.
LEMMA TokenMoves ==
    ASSUME JiraAssumption, TypeOK, NEW w \in Worker, Token(w)
    PROVE  OthersStay(w)
<1> USE DEF Steps
<1>1. CASE ReadToken(w)
  <2>1. CASE Leave(w, TRUE) \/ Leave(w, FALSE) \/ Proceed(w)
    BY <2>1, LeaveIs, ProceedIs
  <2>2. CASE local' = [local EXCEPT ![w] = [local[w] EXCEPT !.pc = "claimToken",
                          !.version = conn.version, !.token = conn.token, !.aad = conn.aad]]
    BY <2>2, Typed, ClaimShape, PutIs
  <2> QED BY <1>1, <2>1, <2>2 DEF ReadToken
<1>2. CASE ClaimToken(w)
  BY <1>2, GotoIs, LeaveIs DEF ClaimToken
<1>3. CASE RereadToken(w)
  BY <1>3, ProceedIs, LeaveIs DEF RereadToken
<1>4. CASE Exchange(w)
  <2>1. CASE Goto(w, "yield") \/ Goto(w, "deny")
    BY <2>1, GotoIs
  <2>2. CASE /\ issued < MaxTokens
             /\ local' = [local EXCEPT ![w] = [local[w] EXCEPT
                             !.pc = "store", !.token = issued + 1, !.key = active]]
    <3>1. issued + 1 \in 0..MaxTokens
      BY <2>2, Typed DEF JiraAssumption
    <3> QED BY <2>2, <3>1, Typed, StoreShape, PutIs
  <2> QED BY <1>4, <2>1, <2>2 DEF Exchange
<1>5. CASE StoreToken(w)
  BY <1>5, GotoIs, ProceedIs, LeaveIs DEF StoreToken
<1>6. CASE YieldToken(w) \/ DenyToken(w)
  BY <1>6, LeaveIs DEF YieldToken, DenyToken, EndRefresh
<1>7. CASE Reject(w)
  BY <1>7, DoneIs DEF Reject
<1> QED BY <1>1, <1>2, <1>3, <1>4, <1>5, <1>6, <1>7 DEF Token

\* The steps of an upload.
LEMMA AttachmentMoves ==
    ASSUME JiraAssumption, TypeOK, NEW w \in Worker, Attachment(w)
    PROVE  OthersStay(w)
<1> USE DEF Steps
<1>1. CASE BeginUpload(w)
  <2>1. PICK r \in Requests :
          local' = [local EXCEPT ![w] = [Idle EXCEPT !.pc = "prior", !.target = conn.id,
                                                     !.request = r]]
    BY <1>1 DEF BeginUpload
  <2> QED BY <2>1, Typed, IdleIs, BeginShape, PutIs
<1>2. CASE FindReceipt(w)
  <2>1. CASE NeedToken(w, "lookup")
    BY <2>1, Typed, NeedShape, PutIs DEF NeedToken
  <2> QED BY <1>2, <2>1, DoneIs DEF FindReceipt
<1>3. CASE LookUpIssue(w) \/ ReadOperation(w) \/ ExpireOperation(w)
  BY <1>3, GotoIs, DoneIs DEF LookUpIssue, ReadOperation, ExpireOperation
<1>4. CASE Reserve(w)
  <2>1. CASE local' = [local EXCEPT ![w] = [local[w] EXCEPT !.pc = "operation", !.id = conn.id]]
    BY <2>1, Typed, PlaceShape, PutIs
  <2> QED BY <1>4, <2>1, DoneIs DEF Reserve
<1>5. CASE ClaimOperation(w)
  <2>1. CASE local' = [local EXCEPT ![w] = [local[w] EXCEPT !.pc = "token", !.next = "attach"]]
    BY <2>1, Typed, AttachShape, PutIs
  <2> QED BY <1>5, <2>1, DoneIs DEF ClaimOperation
<1>6. CASE AttachEvidence(w)
  <2>1. CASE Goto(w, "commit")
    BY <2>1, GotoIs
  <2>2. ASSUME NEW answer \in Answers,
               local' = [local EXCEPT ![w] = [local[w] EXCEPT !.pc = "settle",
                           !.as = Outcome(answer), !.denied = (answer = "unauthorized")]]
        PROVE  OthersStay(w)
    <3>1. Outcome(answer) \in {"failed", "unknown"} /\ (answer = "unauthorized") \in BOOLEAN
      BY DEF Outcome
    <3> QED BY <2>2, <3>1, Typed, SettleShape, PutIs
  <2> QED BY <1>6, <2>1, <2>2 DEF AttachEvidence
<1>7. CASE SettleUpload(w) \/ CommitReceipt(w)
  BY <1>7, GotoIs, DoneIs DEF SettleUpload, CommitReceipt
<1> QED BY <1>1, <1>2, <1>3, <1>4, <1>5, <1>6, <1>7 DEF Attachment

\* The steps of tests, connections and rotation.
LEMMA ConnectionMoves ==
    ASSUME JiraAssumption, TypeOK, NEW w \in Worker, Connection(w)
    PROVE  OthersStay(w)
<1> USE DEF Steps
<1>1. CASE BeginTest(w)
  BY <1>1, Typed, IdleIs, NeedShape, PutIs DEF BeginTest
<1>2. CASE TestSite(w) \/ RecordTest(w) \/ Disconnect(w) \/ ExchangeCode(w) \/ Connect(w) \/ Rekey(w)
  BY <1>2, GotoIs, DoneIs DEF TestSite, RecordTest, Disconnect, ExchangeCode, Connect, Rekey
<1>3. CASE BeginDisconnect(w)
  BY <1>3, Typed, IdleIs, PlaceShape, PutIs DEF BeginDisconnect
<1>4. CASE BeginOAuth(w)
  BY <1>4, Typed, IdleIs, CodeShape, PutIs DEF BeginOAuth
<1>5. CASE FindExisting(w)
  <2> DEFINE id == IF conn.id = None THEN local[w].code ELSE conn.id
  <2>1. id \in Ids \union {None}
    BY Typed DEF Ids, None, JiraAssumption
  <2>2. local' = [local EXCEPT ![w] = [local[w] EXCEPT !.pc = "connect", !.key = active, !.id = id]]
    BY <1>5 DEF FindExisting
  <2> HIDE DEF id
  <2> QED BY <2>1, <2>2, Typed, ConnectShape, PutIs
<1>6. CASE SelectRotation(w)
  BY <1>6, Typed, IdleIs, RekeyShape, PutIs DEF SelectRotation
<1> QED BY <1>1, <1>2, <1>3, <1>4, <1>5, <1>6 DEF Connection

\* Rows of the shapes that the actions store.
LEMMA StoredShape ==
    ASSUME NEW c \in Connections, NEW token \in 0..MaxTokens, NEW key \in 1..MaxEpoch,
           NEW version \in Nat
    PROVE  [c EXCEPT !.token = token, !.fresh = TRUE, !.key = key, !.status = "active",
                     !.version = version, !.lease = NoWorker, !.lapsed = FALSE] \in Connections
BY DEF Connections, MaybeWorker

LEMMA EndedShape ==
    ASSUME NEW c \in Connections, NEW status \in {"active", "reauthorization_required"}
    PROVE  [c EXCEPT !.status = status, !.lease = NoWorker, !.lapsed = FALSE] \in Connections
BY DEF Connections, MaybeWorker

LEMMA RekeyedShape ==
    ASSUME NEW c \in Connections, NEW token \in 0..MaxTokens, NEW key \in 1..MaxEpoch,
           NEW version \in Nat
    PROVE  [c EXCEPT !.token = token, !.key = key, !.version = version] \in Connections
BY DEF Connections

\* The step of a request keeps the rows well formed.
LEMMA RequestTypes ==
    ASSUME JiraAssumption, TypeOK, TargetInv, NEW w \in Worker,
           Token(w) \/ Attachment(w) \/ Connection(w) \/ Die(w)
    PROVE  TypeOK' /\ OthersStay(w)
<1>1. OthersStay(w)
  BY TokenMoves, AttachmentMoves, ConnectionMoves, DoneIs DEF Die
<1>2. local' \in [Worker -> Locals]
  BY <1>1 DEF OthersStay
<1>3. mishaps' \in 0..MaxMishaps
  <2>1. Mishap \/ Fine => mishaps' \in 0..MaxMishaps
    BY DEF Mishap, Fine, TypeOK, JiraAssumption
  <2>2. CASE Token(w)
    BY <2>1, <2>2 DEF Token, ReadToken, ClaimToken, RereadToken, Exchange, StoreToken, YieldToken,
                      DenyToken, EndRefresh, Reject, Fine
  <2>3. CASE Attachment(w)
    BY <2>1, <2>3 DEF Attachment, BeginUpload, FindReceipt, LookUpIssue, Reserve, ReadOperation,
                      ExpireOperation, ClaimOperation, AttachEvidence, SettleUpload, CommitReceipt, Fine
  <2>4. CASE Connection(w)
    BY <2>1, <2>4 DEF Connection, BeginTest, TestSite, RecordTest, BeginDisconnect, Disconnect,
                      BeginOAuth, ExchangeCode, FindExisting, Connect, SelectRotation, Rekey, Fine
  <2> QED BY <2>1, <2>2, <2>3, <2>4 DEF Die
<1>4. conn' \in Connections
  <2> USE DEF TypeOK
  <2>1. /\ local[w].token \in 0..MaxTokens /\ local[w].key \in 1..MaxEpoch
        /\ conn.version + 1 \in Nat /\ conn.status \in {"active", "reauthorization_required"}
    BY DEF Locals, Connections
  <2>2. CASE ClaimToken(w)
    BY <2>2 DEF ClaimToken, Connections, MaybeWorker
  <2>3. CASE StoreToken(w)
    <3> DEFINE stored == [conn EXCEPT !.token = local[w].token, !.fresh = TRUE,
                             !.key = local[w].key, !.status = "active",
                             !.version = conn.version + 1, !.lease = NoWorker, !.lapsed = FALSE]
    <3>1. conn' \in {conn, stored}
      BY <2>3 DEF StoreToken
    <3>2. stored \in Connections
      BY <2>1, StoredShape
    <3> HIDE DEF stored
    <3> QED BY <3>1, <3>2
  <2>4. CASE YieldToken(w) \/ DenyToken(w) \/ Reject(w)
    BY <2>1, <2>4, EndedShape DEF YieldToken, DenyToken, EndRefresh, Reject
  <2>5. CASE RecordTest(w)
    BY <2>5 DEF RecordTest, Connections
  <2>6. CASE Disconnect(w)
    BY <2>6, IdleIs DEF Disconnect
  <2>7. CASE Connect(w)
    BY <2>7, Typed DEF Connect, Connections, Locals, MaybeWorker
  <2>8. CASE Rekey(w)
    BY <2>1, <2>8, RekeyedShape DEF Rekey
  <2>9. CASE UNCHANGED conn
    BY <2>9
  <2> QED
    BY <2>2, <2>3, <2>4, <2>5, <2>6, <2>7, <2>8, <2>9
    DEF Token, ReadToken, RereadToken, Exchange, Attachment, BeginUpload, FindReceipt, LookUpIssue,
        Reserve, ReadOperation, ExpireOperation, ClaimOperation, AttachEvidence, SettleUpload,
        CommitReceipt, Connection, BeginTest, TestSite, BeginDisconnect, BeginOAuth, ExchangeCode,
        FindExisting, SelectRotation, Die
<1>5. ops' \in [Ids -> Operations]
  <2> USE DEF TypeOK
  <2>1. ASSUME NEW op, SetOp(w, op), local[w].target \in Ids => op \in Operations
        PROVE  ops' \in [Ids -> Operations]
    BY <2>1 DEF SetOp
  <2>2. /\ local[w].request \in Requests \union {None} /\ local[w].as \in {"failed", "unknown"}
        /\ local[w].target \in Ids => Op(w) \in Operations
    BY DEF Op, Operations, Locals
  <2>3. CASE Reserve(w)
    <3> DEFINE reserved == IF Op(w).status = "absent"
                   THEN [NoOperation EXCEPT !.status = "reserved", !.request = local[w].request]
                   ELSE Op(w)
    <3>1. SetOp(w, reserved) \/ UNCHANGED ops
      BY <2>3 DEF Reserve
    <3>2. local[w].target \in Ids => reserved \in Operations
      BY <2>2 DEF NoOperation, Operations, MaybeWorker, Statuses
    <3> HIDE DEF reserved
    <3> QED BY <2>1, <3>1, <3>2
  <2>4. CASE ExpireOperation(w)
    <3> DEFINE expired == [Op(w) EXCEPT !.status = "unknown", !.lease = NoWorker, !.lapsed = FALSE]
    <3>1. SetOp(w, expired) \/ UNCHANGED ops
      BY <2>4 DEF ExpireOperation
    <3>2. local[w].target \in Ids => expired \in Operations
      BY <2>2 DEF Operations, MaybeWorker, Statuses
    <3> HIDE DEF expired
    <3> QED BY <2>1, <3>1, <3>2
  <2>5. CASE ClaimOperation(w)
    <3> DEFINE claimed == [Op(w) EXCEPT !.status = "uploading", !.lease = w, !.lapsed = FALSE]
    <3>1. SetOp(w, claimed) \/ UNCHANGED ops
      BY <2>5 DEF ClaimOperation, SetOp
    <3>2. local[w].target \in Ids => claimed \in Operations
      BY <2>2 DEF Operations, MaybeWorker, Statuses
    <3> HIDE DEF claimed
    <3> QED BY <2>1, <3>1, <3>2
  <2>6. CASE SettleUpload(w)
    <3> DEFINE settled == IF Op(w).lease = w
                   THEN [Op(w) EXCEPT !.status = local[w].as, !.lease = NoWorker, !.lapsed = FALSE]
                   ELSE Op(w)
    <3>1. SetOp(w, settled) \/ UNCHANGED ops
      BY <2>6 DEF SettleUpload
    <3>2. local[w].target \in Ids => settled \in Operations
      BY <2>2 DEF Operations, MaybeWorker, Statuses
    <3> HIDE DEF settled
    <3> QED BY <2>1, <3>1, <3>2
  <2>7. CASE CommitReceipt(w)
    <3> DEFINE op == IF Op(w).lease = w /\ Op(w).status = "uploading"
              THEN [Op(w) EXCEPT !.status = "succeeded", !.lease = NoWorker, !.lapsed = FALSE]
              ELSE Op(w)
    <3>1. SetOp(w, op) \/ UNCHANGED ops
      BY <2>7 DEF CommitReceipt
    <3>2. local[w].target \in Ids => op \in Operations
      BY <2>2 DEF Operations, MaybeWorker, Statuses
    <3> HIDE DEF op
    <3> QED BY <2>1, <3>1, <3>2
  <2>8. CASE UNCHANGED ops
    BY <2>8
  <2> QED
    BY <2>3, <2>4, <2>5, <2>6, <2>7, <2>8
    DEF Token, ReadToken, ClaimToken, RereadToken, Exchange, StoreToken, YieldToken, DenyToken,
        EndRefresh, Reject, Attachment, BeginUpload, FindReceipt, LookUpIssue, ReadOperation,
        AttachEvidence, Connection, BeginTest, TestSite, RecordTest, BeginDisconnect, Disconnect,
        BeginOAuth, ExchangeCode, FindExisting, Connect, SelectRotation, Rekey, Die, Upload
<1>6. receipts' \subseteq Ids /\ attached' \in [Ids -> Nat]
  <2> USE DEF TypeOK
  <2>1. CASE CommitReceipt(w)
    BY <2>1 DEF CommitReceipt, TargetInv, HasTarget, At, UploadSteps
  <2>2. CASE AttachEvidence(w)
    <3>1. attached' \in {attached, [attached EXCEPT ![local[w].target] = attached[local[w].target] + 1]}
      BY <2>2 DEF AttachEvidence
    <3>2. receipts' = receipts
      BY <2>2 DEF AttachEvidence
    <3> QED BY <3>1, <3>2
  <2>3. CASE UNCHANGED <<receipts, attached>>
    BY <2>3
  <2> QED
    BY <2>1, <2>2, <2>3
    DEF Token, ReadToken, ClaimToken, RereadToken, Exchange, StoreToken, YieldToken, DenyToken,
        EndRefresh, Reject, Attachment, BeginUpload, FindReceipt, LookUpIssue, ReadOperation,
        Reserve, ExpireOperation, ClaimOperation, SettleUpload, Connection, BeginTest, TestSite,
        RecordTest, BeginDisconnect, Disconnect, BeginOAuth, ExchangeCode, FindExisting, Connect,
        SelectRotation, Rekey, Die, Upload
<1>7. /\ asked' \in 0..MaxTokens /\ codes' \subseteq 1..MaxTokens /\ live' \subseteq 1..MaxTokens
      /\ issued' \in 0..MaxTokens /\ active' \in 1..MaxEpoch
  <2> USE DEF TypeOK
  <2>1. CASE Exchange(w)
    BY <2>1 DEF Exchange, JiraAssumption
  <2>2. CASE ExchangeCode(w)
    BY <2>2 DEF ExchangeCode
  <2>3. CASE Connect(w)
    BY <2>3 DEF Connect, JiraAssumption
  <2>4. CASE UNCHANGED <<asked, codes, live, issued, active>>
    BY <2>4
  <2> QED
    BY <2>1, <2>2, <2>3, <2>4
    DEF Token, ReadToken, ClaimToken, RereadToken, StoreToken, YieldToken, DenyToken,
        EndRefresh, Reject, Attachment, BeginUpload, FindReceipt, LookUpIssue, ReadOperation,
        Reserve, ExpireOperation, ClaimOperation, AttachEvidence, SettleUpload, CommitReceipt,
        Connection, BeginTest, TestSite, RecordTest, BeginDisconnect, Disconnect, BeginOAuth,
        FindExisting, SelectRotation, Rekey, Die, Atlassian
<1> QED BY <1>1, <1>2, <1>3, <1>4, <1>5, <1>6, <1>7 DEF TypeOK

\* So do the steps of the environment.
LEMMA EnvironmentTypes ==
    ASSUME JiraAssumption, TypeOK,
           \/ StartOAuth \/ ExpireToken \/ NewKey \/ LapseRefresh
           \/ \E c \in Ids : LapseUpload(c)
           \/ UNCHANGED vars
    PROVE  TypeOK' /\ UNCHANGED local
<1> USE DEF TypeOK, JiraAssumption
<1>1. CASE StartOAuth
  BY <1>1 DEF StartOAuth, Upload
<1>2. CASE ExpireToken
  BY <1>2 DEF ExpireToken, Connections, Atlassian, Upload
<1>3. CASE NewKey
  BY <1>3 DEF NewKey, Atlassian, Upload
<1>4. CASE LapseRefresh
  <2>1. conn' \in Connections
    BY <1>4 DEF LapseRefresh, Connections
  <2>2. mishaps' \in 0..MaxMishaps
    BY <1>4 DEF LapseRefresh, Mishap, Fine
  <2> QED BY <1>4, <2>1, <2>2 DEF LapseRefresh, Atlassian, Upload
<1>5. ASSUME NEW c \in Ids, LapseUpload(c) PROVE TypeOK' /\ UNCHANGED local
  <2>1. ops' \in [Ids -> Operations]
    BY <1>5 DEF LapseUpload, Operations
  <2>2. mishaps' \in 0..MaxMishaps
    BY <1>5 DEF LapseUpload, Mishap, Fine
  <2> QED BY <1>5, <2>1, <2>2 DEF LapseUpload, Atlassian
<1>6. CASE UNCHANGED vars
  BY <1>6 DEF vars
<1> QED BY <1>1, <1>2, <1>3, <1>4, <1>5, <1>6

-----------------------------------------------------------------------------
(* Attachments.                                                             *)

\* A step that leaves the operations alone keeps UploadInv if the request
\* works on what it worked on, and has not sent what it had not.
UploadKept(w) ==
    /\ OthersStay(w) /\ UNCHANGED Upload
    /\ HasTarget(w)' => local'[w].target \in Ids
    /\ Working(w)' => Working(w) /\ local'[w].target = local[w].target
    /\ Sending(w)' => Sending(w)
    /\ At(w, "settle")' /\ local'[w].as = "failed" =>
          Sending(w) \/ (At(w, "settle") /\ local[w].as = "failed")
    /\ At(w, "commit")' => At(w, "commit")

\* Such a step keeps what is said of the attachments.
LEMMA UploadFrame ==
    ASSUME UploadInv, TypeOK', NEW w \in Worker, UploadKept(w)
    PROVE  UploadInv'
<1>1. \A v \in Worker \ {w} : /\ Working(v)' = Working(v) /\ Sending(v)' = Sending(v)
                              /\ HasTarget(v)' = HasTarget(v) /\ local'[v] = local[v]
  BY DEF UploadKept, OthersStay, Working, Sending, HasTarget, At
<1>2. ops' = ops /\ receipts' = receipts /\ attached' = attached
  BY DEF UploadKept, Upload
<1>3. TargetInv'
  BY <1>1 DEF UploadInv, TargetInv, UploadKept
<1>4. ClaimInv'
  BY <1>1, <1>2 DEF UploadInv, ClaimInv, UploadKept, Op
<1>5. SentInv'
  BY <1>1, <1>2 DEF UploadInv, SentInv, UploadKept, At, Working
<1>6. AloneInv'
  BY <1>1 DEF UploadInv, AloneInv, UploadKept
<1>7. RetryIsSafe' /\ OneAttachmentSet'
  BY <1>2 DEF UploadInv, RetryIsSafe, OneAttachmentSet
<1> QED BY <1>3, <1>4, <1>5, <1>6, <1>7 DEF UploadInv

\* So do the steps of the environment that leave the operations alone.
LEMMA UploadStill ==
    ASSUME UploadInv, TypeOK', UNCHANGED <<Upload, local>>
    PROVE  UploadInv'
BY DEF UploadInv, Upload, TargetInv, ClaimInv, SentInv, AloneInv, RetryIsSafe, OneAttachmentSet,
       HasTarget, Working, Sending, At, Op

\* A request whose token is there, or not, keeps its claim.
LEMMA ProceedUpload ==
    ASSUME JiraAssumption, TypeOK, TargetInv, NEW w \in Worker, local[w].pc \in TokenSteps,
           UNCHANGED Upload, Proceed(w) \/ Leave(w, TRUE) \/ Leave(w, FALSE)
    PROVE  UploadKept(w)
<1> USE DEF UploadKept, HasTarget, Working, Sending, At, TokenSteps, UploadSteps
<1>1. local[w].next \in {"lookup", "attach", "test"}
  BY Typed
<1>2. CASE Proceed(w)
  BY <1>1, <1>2, ProceedIs DEF TargetInv
<1>3. CASE Leave(w, TRUE) \/ Leave(w, FALSE)
  BY <1>1, <1>3, LeaveIs DEF TargetInv
<1> QED BY <1>2, <1>3

\* accessToken and the marking of a rejected token.
LEMMA TokenUpload ==
    ASSUME JiraAssumption, TypeOK, TargetInv, NEW w \in Worker, OthersStay(w), Token(w)
    PROVE  UploadKept(w)
<1> USE DEF UploadKept, HasTarget, Working, Sending, At, TokenSteps, UploadSteps
<1>1. local[w] \in Locals /\ local \in [Worker -> Locals]
  BY DEF TypeOK
<1>2. CASE ReadToken(w)
  <2>1. CASE local' = [local EXCEPT ![w] = [local[w] EXCEPT !.pc = "claimToken",
                          !.version = conn.version, !.token = conn.token, !.aad = conn.aad]]
    <3>1. /\ local'[w].pc = "claimToken" /\ local'[w].next = local[w].next
          /\ local'[w].target = local[w].target
      BY <1>1, <2>1 DEF Locals
    <3> QED BY <1>2, <3>1 DEF TargetInv, ReadToken
  <2> QED BY <1>2, <2>1, ProceedUpload DEF ReadToken
<1>3. CASE ClaimToken(w)
  <2>1. CASE Goto(w, "exchange") \/ Goto(w, "reread")
    BY <1>3, <2>1, GotoIs DEF TargetInv, ClaimToken, Steps
  <2> QED BY <1>3, <2>1, ProceedUpload DEF ClaimToken
<1>4. CASE RereadToken(w)
  BY <1>4, ProceedUpload DEF RereadToken
<1>5. CASE Exchange(w)
  <2>1. CASE local' = [local EXCEPT ![w] = [local[w] EXCEPT
                             !.pc = "store", !.token = issued + 1, !.key = active]]
    <3>1. /\ local'[w].pc = "store" /\ local'[w].next = local[w].next
          /\ local'[w].target = local[w].target
      BY <1>1, <2>1 DEF Locals
    <3> QED BY <1>5, <3>1 DEF TargetInv, Exchange
  <2>2. CASE Goto(w, "yield") \/ Goto(w, "deny")
    BY <1>5, <2>2, GotoIs DEF TargetInv, Exchange, Steps
  <2> QED BY <1>5, <2>1, <2>2 DEF Exchange
<1>6. CASE StoreToken(w)
  <2>1. CASE Goto(w, "deny")
    BY <1>6, <2>1, GotoIs DEF TargetInv, StoreToken, Steps
  <2> QED BY <1>6, <2>1, ProceedUpload DEF StoreToken
<1>7. CASE YieldToken(w) \/ DenyToken(w)
  BY <1>7, ProceedUpload DEF YieldToken, DenyToken, EndRefresh
<1>8. CASE Reject(w)
  BY <1>8, DoneIs DEF Reject
<1> QED BY <1>2, <1>3, <1>4, <1>5, <1>6, <1>7, <1>8 DEF Token

\* Tests, connections, rotation and death of a request.
LEMMA ConnectionUpload ==
    ASSUME JiraAssumption, TypeOK, TargetInv, NEW w \in Worker, OthersStay(w), Connection(w) \/ Die(w)
    PROVE  UploadKept(w)
<1> USE DEF UploadKept, HasTarget, Working, Sending, At, TokenSteps, UploadSteps
<1>1. local[w] \in Locals /\ local \in [Worker -> Locals]
  BY DEF TypeOK
<1>2. CASE BeginTest(w)
  BY <1>1, <1>2 DEF BeginTest, Idle
<1>3. CASE TestSite(w) \/ RecordTest(w) \/ Disconnect(w) \/ ExchangeCode(w) \/ Connect(w) \/ Rekey(w) \/ Die(w)
  BY <1>3, GotoIs, DoneIs
     DEF TestSite, RecordTest, Disconnect, ExchangeCode, Connect, Rekey, Die, Steps
<1>4. CASE BeginDisconnect(w) \/ BeginOAuth(w) \/ SelectRotation(w)
  <2>1. local'[w].pc \in {"disconnect", "code", "rekey"}
    <3>1. CASE BeginDisconnect(w)
      BY <1>1, <3>1 DEF BeginDisconnect, Idle
    <3>2. CASE BeginOAuth(w)
      BY <1>1, <3>2 DEF BeginOAuth, Idle
    <3>3. CASE SelectRotation(w)
      BY <1>1, <3>3 DEF SelectRotation, Idle
    <3> QED BY <1>4, <3>1, <3>2, <3>3
  <2> QED BY <1>4, <2>1 DEF BeginDisconnect, BeginOAuth, SelectRotation
<1>5. CASE FindExisting(w)
  <2>1. local'[w].pc = "connect"
    BY <1>1, <1>5 DEF FindExisting, Locals
  <2> QED BY <1>5, <2>1 DEF FindExisting
<1> QED BY <1>2, <1>3, <1>4, <1>5 DEF Connection

\* The steps of an upload: those that leave the operation alone first.
LEMMA QuietUpload ==
    ASSUME JiraAssumption, TypeOK, TargetInv, NEW w \in Worker, OthersStay(w),
           \/ BeginUpload(w) \/ FindReceipt(w) \/ LookUpIssue(w) \/ ReadOperation(w)
           \/ UNCHANGED Upload /\ Done(w)
    PROVE  UploadKept(w)
<1> USE DEF UploadKept, HasTarget, Working, Sending, At, TokenSteps, UploadSteps
<1>1. local[w] \in Locals /\ local \in [Worker -> Locals]
  BY DEF TypeOK
<1>2. CASE BeginUpload(w)
  <2>1. local'[w].pc = "prior" /\ local'[w].target = conn.id
    BY <1>1, <1>2 DEF BeginUpload, Idle
  <2>2. conn.id \in Ids
    BY <1>2, Typed DEF BeginUpload, None
  <2> QED BY <1>2, <2>1, <2>2 DEF BeginUpload
<1>3. CASE FindReceipt(w)
  <2>1. CASE NeedToken(w, "lookup")
    <3>1. local'[w].pc = "token" /\ local'[w].next = "lookup" /\ local'[w].target = local[w].target
      BY <1>1, <2>1 DEF NeedToken, Locals
    <3> QED BY <1>3, <3>1 DEF FindReceipt, TargetInv
  <2>2. CASE Done(w)
    BY <1>3, <2>2, DoneIs DEF FindReceipt
  <2> QED BY <1>3, <2>1, <2>2 DEF FindReceipt
<1>4. CASE LookUpIssue(w) \/ ReadOperation(w)
  BY <1>4, GotoIs, DoneIs DEF LookUpIssue, ReadOperation, TargetInv, Steps
<1>5. CASE UNCHANGED Upload /\ Done(w)
  BY <1>5, DoneIs
<1> QED BY <1>2, <1>3, <1>4, <1>5

\* A step that changes the operation of the request only: the claims of the
\* other requests are for others, or of no one.
LEMMA OperationStep ==
    ASSUME UploadInv, TypeOK', NEW w \in Worker, OthersStay(w), NEW op,
           local[w].target \in Ids, SetOp(w, op), UNCHANGED <<receipts, attached>>,
           op.status \in {"absent", "reserved", "failed"} => attached[local[w].target] = 0,
           op.status = "succeeded" => local[w].target \in receipts,
           \A v \in Worker \ {w} : Working(v) /\ local[v].target = local[w].target =>
              op.status = "unknown" \/ (op.status = "uploading" /\ op.lease = v),
           HasTarget(w)' => local'[w].target \in Ids,
           Working(w)' => /\ local'[w].target = local[w].target /\ op.status = "uploading" /\ op.lease = w
                          /\ attached[local[w].target] = 0 /\ Sending(w)'
                          /\ \A v \in Worker \ {w} : Working(v) => local[v].target # local[w].target
    PROVE  UploadInv'
<1> DEFINE t == local[w].target
<1>1. \A v \in Worker \ {w} : /\ Working(v)' = Working(v) /\ Sending(v)' = Sending(v)
                              /\ HasTarget(v)' = HasTarget(v) /\ local'[v] = local[v]
  BY DEF OthersStay, Working, Sending, HasTarget, At
<1>2. ops' = [ops EXCEPT ![t] = op] /\ ops \in [Ids -> Operations]
  BY DEF SetOp, UploadInv, OneAttachmentSet, TypeOK
<1>3. ops'[t] = op /\ \A c \in Ids \ {t} : ops'[c] = ops[c]
  BY <1>2
<1>4. TargetInv'
  BY <1>1 DEF UploadInv, TargetInv
<1>5. ClaimInv'
  BY <1>1, <1>3, <1>4 DEF UploadInv, ClaimInv, TargetInv, Op, Working, Sending, HasTarget, At, TokenSteps, UploadSteps
<1>6. SentInv'
  BY <1>1 DEF UploadInv, SentInv, At, Working, Sending, TokenSteps
<1>7. AloneInv'
  BY <1>1 DEF UploadInv, AloneInv
<1>8. RetryIsSafe' /\ OneAttachmentSet'
  BY <1>3 DEF UploadInv, RetryIsSafe, OneAttachmentSet
<1> QED BY <1>4, <1>5, <1>6, <1>7, <1>8 DEF UploadInv

\* An operation is reserved where there was none.
LEMMA ReserveUpload ==
    ASSUME JiraAssumption, TypeOK, TypeOK', UploadInv, NEW w \in Worker, OthersStay(w), Reserve(w)
    PROVE  UploadInv'
<1> DEFINE reserved == IF Op(w).status = "absent"
               THEN [NoOperation EXCEPT !.status = "reserved", !.request = local[w].request]
               ELSE Op(w)
<1>1. local[w] \in Locals /\ local[w].target \in Ids /\ At(w, "reserve")
  BY DEF UploadInv, TargetInv, HasTarget, UploadSteps, TypeOK, At, Reserve
<1>2. CASE SetOp(w, reserved)
  <2>1. /\ Op(w).status = "absent" => reserved.status = "reserved"
        /\ Op(w).status # "absent" => reserved = Op(w)
    BY DEF NoOperation
  <2>2. Op(w) = ops[local[w].target]
    BY DEF Op
  <2>3. local'[w].pc \in {"idle", "operation"} /\ (local'[w].pc = "operation" => local'[w].target = local[w].target)
    <3>1. CASE local' = [local EXCEPT ![w] = [local[w] EXCEPT !.pc = "operation", !.id = conn.id]]
      BY <1>1, <3>1 DEF Locals, TypeOK
    <3> QED BY <3>1, DoneIs DEF Reserve
  <2>4. ~Working(w)' /\ (HasTarget(w)' => local'[w].target \in Ids)
    BY <1>1, <2>3 DEF Working, Sending, HasTarget, At, TokenSteps, UploadSteps
  <2>5. \A v \in Worker \ {w} : Working(v) /\ local[v].target = local[w].target =>
           reserved.status = "unknown" \/ (reserved.status = "uploading" /\ reserved.lease = v)
    BY <2>1, <2>2 DEF UploadInv, ClaimInv, Op
  <2>6. /\ reserved.status \in {"absent", "reserved", "failed"} => attached[local[w].target] = 0
        /\ reserved.status = "succeeded" => local[w].target \in receipts
    BY <1>1, <2>1, <2>2 DEF UploadInv, RetryIsSafe, OneAttachmentSet
  <2>7. UNCHANGED <<receipts, attached>>
    BY DEF Reserve
  <2> HIDE DEF reserved
  <2> QED BY <1>1, <1>2, <2>4, <2>5, <2>6, <2>7, OperationStep
<1>3. CASE UNCHANGED Upload /\ Done(w)
  BY <1>3, QuietUpload, UploadFrame DEF UploadInv
<1> QED BY <1>2, <1>3 DEF Reserve, Upload

\* An upload that is taken for lost is never tried again.
LEMMA ExpireUpload ==
    ASSUME JiraAssumption, TypeOK, TypeOK', UploadInv, NEW w \in Worker, OthersStay(w),
           ExpireOperation(w)
    PROVE  UploadInv'
<1> DEFINE expired == [Op(w) EXCEPT !.status = "unknown", !.lease = NoWorker, !.lapsed = FALSE]
<1>1. local[w].target \in Ids
  BY DEF UploadInv, TargetInv, HasTarget, UploadSteps, At, ExpireOperation
<1>2. CASE SetOp(w, expired)
  <2>1. expired.status = "unknown"
    BY <1>1 DEF Op, TypeOK, Operations
  <2>2. ~Working(w)' /\ ~HasTarget(w)'
    BY DoneIs DEF ExpireOperation, Working, Sending, HasTarget, At, TokenSteps, UploadSteps
  <2>3. UNCHANGED <<receipts, attached>>
    BY DEF ExpireOperation
  <2> HIDE DEF expired
  <2> QED BY <1>1, <1>2, <2>1, <2>2, <2>3, OperationStep
<1>3. CASE UNCHANGED Upload /\ Done(w)
  BY <1>3, QuietUpload, UploadFrame DEF UploadInv
<1> QED BY <1>2, <1>3 DEF ExpireOperation, Upload

\* A claim is of an operation of which nothing was sent.
LEMMA ClaimUpload ==
    ASSUME JiraAssumption, TypeOK, TypeOK', UploadInv, NEW w \in Worker, OthersStay(w),
           ClaimOperation(w)
    PROVE  UploadInv'
<1> DEFINE claimed == [Op(w) EXCEPT !.status = "uploading", !.lease = w, !.lapsed = FALSE]
<1>1. local[w] \in Locals /\ local[w].target \in Ids
  BY DEF UploadInv, TargetInv, HasTarget, UploadSteps, TypeOK, At, ClaimOperation
<1>2. CASE ClaimableOp(w) /\ SetOp(w, claimed)
  <2>1. claimed.status = "uploading" /\ claimed.lease = w
    BY <1>1 DEF Op, TypeOK, Operations
  <2>2. \A v \in Worker \ {w} : Working(v) => local[v].target # local[w].target
    BY <1>2 DEF ClaimableOp, UploadInv, ClaimInv, Op
  <2>3. attached[local[w].target] = 0
    BY <1>1, <1>2 DEF ClaimableOp, Op, UploadInv, RetryIsSafe
  <2>4. \/ local'[w].pc = "idle"
        \/ local'[w].pc = "token" /\ local'[w].next = "attach" /\ local'[w].target = local[w].target
    <3>1. CASE local' = [local EXCEPT ![w] = [local[w] EXCEPT !.pc = "token", !.next = "attach"]]
      BY <1>1, <3>1 DEF Locals, TypeOK
    <3> QED BY <3>1, DoneIs DEF ClaimOperation
  <2>5. /\ HasTarget(w)' => local'[w].target \in Ids
        /\ Working(w)' => local'[w].target = local[w].target /\ Sending(w)'
    BY <1>1, <2>4 DEF Working, Sending, HasTarget, At, TokenSteps, UploadSteps
  <2>6. UNCHANGED <<receipts, attached>>
    BY DEF ClaimOperation
  <2> HIDE DEF claimed
  <2> QED BY <1>1, <1>2, <2>1, <2>2, <2>3, <2>5, <2>6, OperationStep
<1>3. CASE UNCHANGED Upload /\ Done(w)
  BY <1>3, QuietUpload, UploadFrame DEF UploadInv
<1> QED BY <1>2, <1>3 DEF ClaimOperation, Upload, SetOp

\* Only what was not attached is recorded as failed.
LEMMA SettleUploadStep ==
    ASSUME JiraAssumption, TypeOK, TypeOK', UploadInv, NEW w \in Worker, OthersStay(w),
           SettleUpload(w)
    PROVE  UploadInv'
<1> DEFINE settled == IF Op(w).lease = w
               THEN [Op(w) EXCEPT !.status = local[w].as, !.lease = NoWorker, !.lapsed = FALSE]
               ELSE Op(w)
<1>1. local[w].target \in Ids /\ Working(w) /\ At(w, "settle")
  BY DEF UploadInv, TargetInv, HasTarget, UploadSteps, At, SettleUpload, Working
<1>2. local'[w].pc \in {"idle", "reject"}
  BY GotoIs, DoneIs DEF SettleUpload, Steps
<1>3. ~Working(w)' /\ ~HasTarget(w)'
  BY <1>2 DEF Working, Sending, HasTarget, At, TokenSteps, UploadSteps
<1>4. CASE SetOp(w, settled)
  <2>1. /\ Op(w).lease = w => settled.status = local[w].as
        /\ Op(w).lease # w => settled = Op(w)
    BY <1>1 DEF Op, TypeOK, Operations
  <2>2. Op(w) = ops[local[w].target] /\ local[w].as \in {"failed", "unknown"}
    BY Typed DEF Op
  <2>3. \A v \in Worker \ {w} : Working(v) => local[v].target # local[w].target
    BY <1>1 DEF UploadInv, AloneInv
  <2>4. settled.status \in {"absent", "reserved", "failed"} => attached[local[w].target] = 0
    BY <1>1, <2>1, <2>2 DEF UploadInv, SentInv, RetryIsSafe
  <2>5. settled.status = "succeeded" => local[w].target \in receipts
    BY <1>1, <2>1, <2>2 DEF UploadInv, OneAttachmentSet
  <2>6. UNCHANGED <<receipts, attached>>
    BY DEF SettleUpload
  <2> HIDE DEF settled
  <2> QED BY <1>1, <1>3, <1>4, <2>3, <2>4, <2>5, <2>6, OperationStep
<1>5. CASE UNCHANGED Upload /\ Done(w)
  BY <1>5, QuietUpload, UploadFrame DEF UploadInv
<1> QED BY <1>4, <1>5 DEF SettleUpload, Upload

\* A receipt is given for what Jira took.
LEMMA CommitUpload ==
    ASSUME JiraAssumption, TypeOK, TypeOK', UploadInv, NEW w \in Worker, OthersStay(w),
           CommitReceipt(w)
    PROVE  UploadInv'
<1> DEFINE t == local[w].target
           op == IF Op(w).lease = w /\ Op(w).status = "uploading"
                 THEN [Op(w) EXCEPT !.status = "succeeded", !.lease = NoWorker, !.lapsed = FALSE]
                 ELSE Op(w)
<1>1. t \in Ids /\ Working(w) /\ At(w, "commit") /\ Done(w)
  BY DEF UploadInv, TargetInv, HasTarget, UploadSteps, At, CommitReceipt, Working
<1>2. CASE receipts' = receipts \union {t} /\ SetOp(w, op) /\ attached' = attached
  <2>1. /\ Op(w).lease = w /\ Op(w).status = "uploading" => op.status = "succeeded"
        /\ ~(Op(w).lease = w /\ Op(w).status = "uploading") => op = Op(w)
    BY <1>1 DEF Op, TypeOK, Operations
  <2>2. op.status \in {"unknown", "succeeded"} /\ attached[t] = 1
    BY <1>1, <2>1 DEF UploadInv, ClaimInv, SentInv
  <2> HIDE DEF op
  <2>3. ops' = [ops EXCEPT ![t] = op] /\ ops \in [Ids -> Operations]
    BY <1>2 DEF SetOp, TypeOK
  <2>4. ops'[t] = op /\ \A c \in Ids \ {t} : ops'[c] = ops[c]
    BY <1>1, <2>3
  <2>5. local'[w].pc = "idle"
    BY <1>1, DoneIs
  <2>6. ~Working(w)' /\ ~HasTarget(w)' /\ ~Sending(w)' /\ ~At(w, "settle")' /\ ~At(w, "commit")'
    BY <2>5 DEF Working, Sending, HasTarget, At, TokenSteps, UploadSteps
  <2>7. \A v \in Worker \ {w} : /\ Working(v)' = Working(v) /\ Sending(v)' = Sending(v)
                                /\ HasTarget(v)' = HasTarget(v) /\ local'[v] = local[v]
    BY DEF OthersStay, Working, Sending, HasTarget, At
  <2>8. \A v \in Worker \ {w} : Working(v) => local[v].target # t
    BY <1>1 DEF UploadInv, AloneInv
  <2>9. TargetInv' /\ AloneInv'
    BY <2>6, <2>7 DEF UploadInv, TargetInv, AloneInv
  <2>10. ClaimInv'
    BY <2>4, <2>6, <2>7, <2>8, <2>9
       DEF UploadInv, ClaimInv, TargetInv, Op, Working, Sending, HasTarget, At, TokenSteps, UploadSteps
  <2>11. SentInv'
    BY <1>2, <2>6, <2>7 DEF UploadInv, SentInv, At
  <2>12. RetryIsSafe' /\ OneAttachmentSet'
    BY <1>2, <2>2, <2>4 DEF UploadInv, RetryIsSafe, OneAttachmentSet
  <2> QED BY <2>9, <2>10, <2>11, <2>12 DEF UploadInv
<1>3. CASE UNCHANGED Upload
  BY <1>1, <1>3, QuietUpload, UploadFrame DEF UploadInv
<1> QED BY <1>2, <1>3 DEF CommitReceipt, Upload

\* The request that attaches is the only one that may.
LEMMA AttachUpload ==
    ASSUME JiraAssumption, TypeOK, TypeOK', UploadInv, NEW w \in Worker, OthersStay(w),
           AttachEvidence(w)
    PROVE  UploadInv'
<1> DEFINE t == local[w].target
<1>1. t \in Ids /\ Working(w) /\ Sending(w) /\ attached[t] = 0
  BY DEF UploadInv, TargetInv, HasTarget, UploadSteps, At, AttachEvidence, Working, Sending, SentInv
<1>2. PICK answer \in Answers, effect \in BOOLEAN :
        /\ effect => answer = "accepted" \/ MayAttach(answer)
        /\ answer = "accepted" => effect
        /\ attached' = IF effect THEN [attached EXCEPT ![t] = attached[t] + 1] ELSE attached
        /\ IF answer = "accepted" THEN Goto(w, "commit")
           ELSE local' = [local EXCEPT ![w] =
                   [local[w] EXCEPT !.pc = "settle", !.as = Outcome(answer),
                                    !.denied = (answer = "unauthorized")]]
  BY DEF AttachEvidence
<1>3. UNCHANGED <<ops, receipts>>
  BY DEF AttachEvidence
<1>4. /\ attached'[t] = (IF effect THEN 1 ELSE 0)
      /\ \A c \in Ids \ {t} : attached'[c] = attached[c]
  BY <1>1, <1>2 DEF TypeOK
<1>5. /\ local'[w].target = t
      /\ \/ local'[w].pc = "commit" /\ effect
         \/ local'[w].pc = "settle" /\ local'[w].as = Outcome(answer) /\ answer # "accepted"
  <2>1. CASE answer = "accepted"
    BY <1>2, <2>1, GotoIs DEF Steps
  <2>2. CASE answer # "accepted"
    <3>1. local' = [local EXCEPT ![w] = [local[w] EXCEPT !.pc = "settle", !.as = Outcome(answer),
                                           !.denied = (answer = "unauthorized")]]
      BY <1>2, <2>2
    <3>2. local \in [Worker -> Locals] /\ local[w] \in Locals
      BY DEF TypeOK
    <3> QED BY <2>2, <3>1, <3>2 DEF Locals
  <2> QED BY <2>1, <2>2
<1>6. local'[w].pc = "settle" /\ local'[w].as = "failed" => ~effect
  BY <1>2, <1>5 DEF Outcome, MayAttach
<1>7. ~Sending(w)' /\ HasTarget(w)'
  BY <1>5 DEF Sending, HasTarget, At, TokenSteps, UploadSteps
<1>8. \A v \in Worker \ {w} : /\ Working(v)' = Working(v) /\ Sending(v)' = Sending(v)
                              /\ HasTarget(v)' = HasTarget(v) /\ local'[v] = local[v]
  BY DEF OthersStay, Working, Sending, HasTarget, At
<1>9. \A v \in Worker \ {w} : Working(v) => local[v].target # t /\ local[v].target \in Ids
  BY <1>1 DEF UploadInv, AloneInv, TargetInv, Working, Sending, HasTarget, At, TokenSteps, UploadSteps
<1>10. TargetInv' /\ AloneInv'
  BY <1>1, <1>5, <1>8, <1>9 DEF UploadInv, TargetInv, AloneInv
<1>11. ClaimInv'
  BY <1>1, <1>3, <1>5, <1>8 DEF UploadInv, ClaimInv, Op
<1>12. SentInv'
  BY <1>4, <1>5, <1>6, <1>7, <1>8, <1>9 DEF UploadInv, SentInv, At, Working
<1>13. ops[t].status \in {"unknown", "uploading"} /\ t \notin receipts
  BY <1>1 DEF UploadInv, ClaimInv, Op, OneAttachmentSet
<1>14. RetryIsSafe' /\ OneAttachmentSet'
  BY <1>3, <1>4, <1>13 DEF UploadInv, RetryIsSafe, OneAttachmentSet
<1> QED BY <1>10, <1>11, <1>12, <1>14 DEF UploadInv

\* An expired lease alone changes no claim.
LEMMA LapseUploadStep ==
    ASSUME UploadInv, TypeOK', NEW c \in Ids, LapseUpload(c), UNCHANGED local
    PROVE  UploadInv'
<1>1. /\ ops'[c].status = ops[c].status /\ ops'[c].lease = ops[c].lease
      /\ \A d \in Ids \ {c} : ops'[d] = ops[d]
  BY DEF LapseUpload, UploadInv, OneAttachmentSet, TypeOK, Operations
<1>2. UNCHANGED <<receipts, attached>>
  BY DEF LapseUpload
<1>3. TargetInv' /\ SentInv' /\ AloneInv'
  BY <1>2 DEF UploadInv, TargetInv, SentInv, AloneInv, HasTarget, Working, Sending, At
<1>4. ClaimInv'
  BY <1>1 DEF UploadInv, TargetInv, ClaimInv, Op, Working, Sending, HasTarget, At, TokenSteps, UploadSteps
<1>5. RetryIsSafe' /\ OneAttachmentSet'
  BY <1>1, <1>2 DEF UploadInv, RetryIsSafe, OneAttachmentSet
<1> QED BY <1>3, <1>4, <1>5 DEF UploadInv

\* Every step keeps what is said of the attachments.
LEMMA UploadStep ==
    ASSUME JiraAssumption, UploadInv, [Next]_vars
    PROVE  UploadInv' /\ TypeOK'
<1>1. TypeOK /\ TargetInv
  BY DEF UploadInv, OneAttachmentSet
<1>2. ASSUME NEW w \in Worker, Token(w) \/ Attachment(w) \/ Connection(w) \/ Die(w)
      PROVE  UploadInv' /\ TypeOK'
  <2>1. TypeOK' /\ OthersStay(w)
    BY <1>1, <1>2, RequestTypes
  <2>2. CASE Token(w) \/ Connection(w) \/ Die(w)
    BY <1>1, <2>1, <2>2, TokenUpload, ConnectionUpload, UploadFrame
  <2>3. CASE Attachment(w)
    <3>1. CASE BeginUpload(w) \/ FindReceipt(w) \/ LookUpIssue(w) \/ ReadOperation(w)
      BY <1>1, <2>1, <3>1, QuietUpload, UploadFrame
    <3> QED
      BY <1>1, <2>1, <2>3, <3>1, ReserveUpload, ExpireUpload, ClaimUpload, SettleUploadStep,
         CommitUpload, AttachUpload
      DEF Attachment
  <2> QED BY <1>2, <2>1, <2>2, <2>3
<1>3. ASSUME NEW c \in Ids, LapseUpload(c)
      PROVE  UploadInv' /\ TypeOK'
  <2>1. TypeOK' /\ UNCHANGED local
    BY <1>1, <1>3, EnvironmentTypes
  <2> QED BY <1>3, <2>1, LapseUploadStep
<1>4. CASE StartOAuth \/ ExpireToken \/ NewKey \/ LapseRefresh \/ UNCHANGED vars
  <2>1. TypeOK' /\ UNCHANGED local
    BY <1>1, <1>4, EnvironmentTypes
  <2>2. UNCHANGED Upload
    BY <1>4 DEF StartOAuth, ExpireToken, NewKey, LapseRefresh, vars, Upload
  <2> QED BY <2>1, <2>2, UploadStill
<1> QED BY <1>2, <1>3, <1>4 DEF Next

-----------------------------------------------------------------------------
(* Tokens.                                                                  *)

\* A step that copies only what it may: what is owned elsewhere, and the
\* codes, stay out of the row and of the request.
FreshKept(w) ==
    /\ OthersStay(w) /\ UNCHANGED <<codes, live, issued>> /\ asked' \in {0, asked}
    /\ conn'.token \in {0, conn.token, local[w].token} \union Owned(w)
    /\ conn'.id \in {0, conn.id, local[w].id}
    /\ local'[w].token \in {0, conn.token, local[w].token}
    /\ local'[w].id \in {0, conn.id, local[w].id}
    /\ local'[w].code \in {0, asked, local[w].code}
    /\ Owned(w)' = {}

\* What does not change of the requests but w.
LEMMA OwnedElsewhere ==
    ASSUME NEW w \in Worker, OthersStay(w)
    PROVE  \A v \in Worker \ {w} : /\ Owned(v)' = Owned(v) /\ local'[v] = local[v]
                                   /\ \A t : Unseen(v, t)' = Unseen(v, t)
BY DEF OthersStay, Owned, Unseen, At

\* Such a step keeps what is said of codes and of tokens not yet stored.
LEMMA FreshFrame ==
    ASSUME TypeOK, FreshInv, NEW w \in Worker, FreshKept(w)
    PROVE  FreshInv'
<1>1. /\ codes' = codes /\ live' = live /\ issued' = issued /\ issued \in Nat
      /\ codes \subseteq 1..issued /\ live \subseteq 1..issued
  BY DEF FreshKept, FreshInv, Known, TypeOK
<1>2. \A t \in Owned(w) : t \in live
  BY DEF FreshInv, OwnedInv
<1>3. Known'
  <2>1. \A t \in Owned(w) \union {0} : t <= issued
    <3>1. \A t \in Owned(w) : t \in 1..issued
      BY <1>1, <1>2
    <3> QED BY <1>1, <3>1
  <2>2. /\ conn.id <= issued /\ conn.token <= issued /\ asked <= issued
        /\ \A v \in Worker :
              local[v].id <= issued /\ local[v].token <= issued /\ local[v].code <= issued
    BY DEF FreshInv, Known
  <2>3. conn'.id <= issued /\ conn'.token <= issued /\ asked' <= issued
    BY <2>1, <2>2 DEF FreshKept
  <2>4. local'[w].id <= issued /\ local'[w].token <= issued /\ local'[w].code <= issued
    BY <2>1, <2>2 DEF FreshKept
  <2>5. \A v \in Worker :
           local'[v].id <= issued /\ local'[v].token <= issued /\ local'[v].code <= issued
    BY <2>2, <2>4, OwnedElsewhere DEF FreshKept
  <2> QED BY <1>1, <2>3, <2>5 DEF Known
<1>4. CodesInv'
  <2>1. \A t \in codes : t # 0 /\ t \notin Owned(w)
    BY <1>1 DEF FreshInv, OwnedInv
  <2> QED BY <1>1, <2>1, OwnedElsewhere DEF FreshKept, FreshInv, CodesInv, Unused, Unseen
<1>5. OwnedInv'
  <2> SUFFICES ASSUME NEW v \in Worker \ {w}, NEW t \in Owned(v)
               PROVE  /\ t \in live /\ t \notin codes /\ Unused(t)'
                      /\ \A u \in Worker \ {v} : Unseen(u, t)' /\ t \notin Owned(u)'
    BY <1>1, OwnedElsewhere DEF OwnedInv, FreshKept
  <2>1. /\ t \in live /\ t \notin codes /\ Unused(t) /\ t # 0
        /\ \A u \in Worker \ {v} : Unseen(u, t) /\ t \notin Owned(u)
    BY <1>1 DEF FreshInv, OwnedInv
  <2>2. Unused(t)' /\ Unseen(w, t)'
    BY <2>1 DEF FreshKept, Unused, Unseen
  <2> QED BY <2>1, <2>2, OwnedElsewhere DEF FreshKept
<1> QED BY <1>3, <1>4, <1>5 DEF FreshInv

\* A step after which everything is as it was for the race: the row has the
\* same version, token and lease, and no lease holder moves.
RaceKept(w) ==
    /\ OthersStay(w) /\ live \subseteq live' /\ mishaps' >= mishaps
    /\ conn'.id = conn.id /\ conn'.version = conn.version /\ conn'.token = conn.token
    /\ conn'.lease = conn.lease /\ conn'.lapsed = conn.lapsed
    /\ mishaps = 0 => conn.lease # w
    /\ local'[w].pc \notin Refresh
    /\ local'[w].pc \in {"claimToken", "rekey"} =>
          local'[w].version = conn.version /\ local'[w].token = conn.token

\* What the race is about does not change for the requests but w.
LEMMA RaceElsewhere ==
    ASSUME NEW w \in Worker, OthersStay(w)
    PROVE  \A v \in Worker \ {w} : /\ local'[v] = local[v]
                                   /\ At(v, "store")' = At(v, "store")
                                   /\ At(v, "exchange")' = At(v, "exchange")
BY DEF OthersStay, At

\* Such a step keeps what is said of the race.
LEMMA RaceFrame ==
    ASSUME TypeOK, RaceInv, NEW w \in Worker, RaceKept(w)
    PROVE  RaceInv'
<1> SUFFICES ASSUME mishaps' = 0
             PROVE  (LeaseInv /\ CopyInv /\ ExchangeInv /\ LiveInv)'
  BY DEF RaceInv
<1>1. mishaps = 0 /\ conn.lease # w
  BY DEF RaceKept, TypeOK
<1>2. LeaseInv /\ CopyInv /\ ExchangeInv /\ LiveInv
  BY <1>1 DEF RaceInv
<1>3. \A v \in Worker \ {w} : Mine(v)' = Mine(v) /\ Refreshing(v)' = Refreshing(v)
  BY RaceElsewhere DEF RaceKept, Mine, Refreshing
<1>4. LeaseInv'
  BY <1>1, <1>2, <1>3, RaceElsewhere DEF LeaseInv, RaceKept
<1>5. CopyInv'
  <2>1. conn.version \in Nat
    BY DEF TypeOK, Connections
  <2> QED BY <1>2, <1>3, <2>1, RaceElsewhere DEF CopyInv, RaceKept, Refresh
<1>6. ExchangeInv'
  BY <1>2, <1>3, RaceElsewhere DEF ExchangeInv, RaceKept, Refresh, At
<1>7. LiveInv'
  BY <1>1, <1>2, RaceElsewhere DEF LiveInv, RaceKept
<1> QED BY <1>4, <1>5, <1>6, <1>7

\* A step that gives the lease back, and leaves a row whose token is live and
\* that no other request takes for the one it has a copy of.
LEMMA RaceFreed ==
    ASSUME TypeOK, JiraAssumption, NEW w \in Worker, OthersStay(w),
           local'[w].pc \notin Refresh \union {"claimToken", "rekey"},
           conn'.lease = NoWorker, conn'.lapsed = FALSE,
           conn'.id # None => conn'.token \in live',
           \A v \in Worker \ {w} :
              /\ local[v].pc \in {"claimToken", "exchange", "rekey"} /\ Mine(v)' =>
                    /\ local[v].version <= conn'.version
                    /\ local[v].version = conn'.version => local[v].token = conn'.token
              /\ At(v, "exchange") /\ conn'.id # None => local[v].token # conn'.token
    PROVE  RaceInv'
<1>1. LeaseInv'
  BY DEF LeaseInv, JiraAssumption
<1>2. CopyInv'
  BY RaceElsewhere DEF CopyInv, Refresh
<1>3. ExchangeInv'
  BY RaceElsewhere DEF ExchangeInv, Refresh, At
<1>4. LiveInv'
  BY DEF LiveInv
<1> QED BY <1>1, <1>2, <1>3, <1>4 DEF RaceInv

\* A step of a request that holds no lease and does not touch the row.
LEMMA Calm ==
    ASSUME TypeOK, RaceInv, NEW w \in Worker, OthersStay(w), UNCHANGED <<conn, Atlassian>>,
           Fine \/ Mishap, local[w].pc \notin Refresh,
           local'[w].pc \notin Refresh \union {"claimToken", "rekey", "existing", "connect"},
           local'[w].token \in {0, local[w].token}, local'[w].id \in {0, conn.id, local[w].id},
           local'[w].code \in {0, asked, local[w].code}
    PROVE  FreshKept(w) /\ RaceKept(w)
<1>1. mishaps = 0 => conn.lease # w
  BY DEF RaceInv, LeaseInv
<1>2. mishaps' >= mishaps
  BY DEF Fine, Mishap, TypeOK
<1> QED BY <1>1, <1>2 DEF FreshKept, RaceKept, Owned, At, Refresh, Atlassian

\* An upload holds no refresh lease and leaves the row alone.
LEMMA AttachmentCalm ==
    ASSUME JiraAssumption, TypeOK, RaceInv, NEW w \in Worker, OthersStay(w), Attachment(w)
    PROVE  FreshKept(w) /\ RaceKept(w)
<1> USE DEF Refresh, Steps, At
<1>1. local[w] \in Locals /\ local \in [Worker -> Locals]
  BY DEF TypeOK
<1>2. CASE Done(w)
  BY <1>2, Calm, DoneIs
     DEF Attachment, BeginUpload, FindReceipt, LookUpIssue, Reserve, ReadOperation, ExpireOperation,
         ClaimOperation, AttachEvidence, SettleUpload, CommitReceipt, Fine
<1>3. ASSUME NEW place \in Steps \ (Refresh \union {"claimToken", "rekey", "existing", "connect"}),
             Goto(w, place)
      PROVE  FreshKept(w) /\ RaceKept(w)
  BY <1>3, Calm, GotoIs
     DEF Attachment, BeginUpload, FindReceipt, LookUpIssue, Reserve, ReadOperation, ExpireOperation,
         ClaimOperation, AttachEvidence, SettleUpload, CommitReceipt, Fine
<1>4. CASE BeginUpload(w)
  <2>1. /\ local'[w].pc = "prior" /\ local'[w].id = 0 /\ local'[w].token = 0 /\ local'[w].code = 0
    BY <1>1, <1>4 DEF BeginUpload, Idle, None
  <2> QED BY <1>4, <2>1, Calm DEF BeginUpload, Fine
<1>5. CASE FindReceipt(w)
  <2>1. CASE NeedToken(w, "lookup")
    <3>1. /\ local'[w].pc = "token" /\ local'[w].id = conn.id /\ local'[w].token = local[w].token
          /\ local'[w].code = local[w].code
      BY <1>1, <2>1 DEF NeedToken, Locals
    <3> QED BY <1>5, <3>1, Calm DEF FindReceipt, Fine
  <2> QED BY <1>2, <1>5, <2>1 DEF FindReceipt
<1>6. CASE LookUpIssue(w) \/ ReadOperation(w) \/ ExpireOperation(w) \/ SettleUpload(w) \/ CommitReceipt(w)
  BY <1>2, <1>3, <1>6 DEF LookUpIssue, ReadOperation, ExpireOperation, SettleUpload, CommitReceipt
<1>7. CASE Reserve(w)
  <2>1. CASE local' = [local EXCEPT ![w] = [local[w] EXCEPT !.pc = "operation", !.id = conn.id]]
    <3>1. /\ local'[w].pc = "operation" /\ local'[w].id = conn.id /\ local'[w].token = local[w].token
          /\ local'[w].code = local[w].code
      BY <1>1, <2>1 DEF Locals
    <3> QED BY <1>7, <3>1, Calm DEF Reserve, Fine
  <2> QED BY <1>2, <1>7, <2>1 DEF Reserve
<1>8. CASE ClaimOperation(w)
  <2>1. CASE local' = [local EXCEPT ![w] = [local[w] EXCEPT !.pc = "token", !.next = "attach"]]
    <3>1. /\ local'[w].pc = "token" /\ local'[w].id = local[w].id /\ local'[w].token = local[w].token
          /\ local'[w].code = local[w].code
      BY <1>1, <2>1 DEF Locals
    <3> QED BY <1>8, <3>1, Calm DEF ClaimOperation, Fine
  <2> QED BY <1>2, <1>8, <2>1 DEF ClaimOperation
<1>9. CASE AttachEvidence(w)
  <2>1. CASE Goto(w, "commit")
    BY <1>3, <2>1
  <2>2. ASSUME NEW answer \in Answers,
               local' = [local EXCEPT ![w] = [local[w] EXCEPT !.pc = "settle",
                           !.as = Outcome(answer), !.denied = (answer = "unauthorized")]]
        PROVE  FreshKept(w) /\ RaceKept(w)
    <3>1. /\ local'[w].pc = "settle" /\ local'[w].id = local[w].id /\ local'[w].token = local[w].token
          /\ local'[w].code = local[w].code
      BY <1>1, <2>2 DEF Locals
    <3> QED BY <1>9, <3>1, Calm DEF AttachEvidence, Fine
  <2> QED BY <1>9, <2>1, <2>2 DEF AttachEvidence
<1> QED BY <1>4, <1>5, <1>6, <1>7, <1>8, <1>9 DEF Attachment

\* While no mishap has happened, who is not refreshing holds no lease, and an
\* idle lease means a live token.
LEMMA RaceFacts ==
    ASSUME RaceInv, mishaps = 0
    PROVE  /\ LeaseInv /\ CopyInv /\ ExchangeInv /\ LiveInv
           /\ \A w \in Worker : local[w].pc \notin Refresh => conn.lease # w
           /\ conn.id # None /\ (\A w \in Worker : conn.lease = w => ~At(w, "store")) =>
                 conn.token \in live
BY DEF RaceInv, LeaseInv, LiveInv

\* Tests, and the beginnings of other operations.
LEMMA TestSafe ==
    ASSUME JiraAssumption, TypeOK, FreshInv, RaceInv, NEW w \in Worker, OthersStay(w),
           BeginTest(w) \/ TestSite(w) \/ RecordTest(w) \/ BeginDisconnect(w) \/ BeginOAuth(w)
             \/ SelectRotation(w)
    PROVE  FreshKept(w) /\ RaceKept(w)
<1> USE DEF Refresh, Steps, At
<1>1. local[w] \in Locals /\ local \in [Worker -> Locals]
  BY DEF TypeOK
<1>2. CASE BeginTest(w)
  <2>1. local'[w].pc = "token" /\ local'[w].id = conn.id /\ local'[w].token = 0 /\ local'[w].code = 0
    BY <1>1, <1>2 DEF BeginTest, Idle
  <2> QED BY <1>2, <2>1, Calm DEF BeginTest, Fine
<1>3. CASE TestSite(w)
  BY <1>3, GotoIs, DoneIs, Calm DEF TestSite, Fine
<1>4. CASE BeginDisconnect(w)
  <2>1. /\ local'[w].pc = "disconnect" /\ local'[w].id = conn.id /\ local'[w].token = 0
        /\ local'[w].code = 0
    BY <1>1, <1>4 DEF BeginDisconnect, Idle
  <2> QED BY <1>4, <2>1, Calm DEF BeginDisconnect, Fine
<1>5. CASE BeginOAuth(w)
  <2>1. local'[w].pc = "code" /\ local'[w].id = 0 /\ local'[w].token = 0 /\ local'[w].code = asked
    BY <1>1, <1>5 DEF BeginOAuth, Idle, None
  <2> QED BY <1>5, <2>1, Calm DEF BeginOAuth, Fine
<1>6. CASE RecordTest(w)
  <2>1. /\ conn'.id = conn.id /\ conn'.version = conn.version /\ conn'.token = conn.token
        /\ conn'.lease = conn.lease /\ conn'.lapsed = conn.lapsed
    BY <1>6 DEF RecordTest, TypeOK, Connections
  <2>2. mishaps = 0 => conn.lease # w
    BY <1>6, RaceFacts DEF RecordTest
  <2>3. UNCHANGED <<Atlassian, mishaps>> /\ Done(w) /\ mishaps \in Nat
    BY <1>6 DEF RecordTest, TypeOK
  <2>4. FreshKept(w)
    BY <2>1, <2>3, DoneIs DEF FreshKept, Owned, Atlassian
  <2>5. RaceKept(w)
    BY <2>1, <2>2, <2>3, DoneIs DEF RaceKept, Atlassian
  <2> QED BY <2>4, <2>5
<1>7. CASE SelectRotation(w)
  <2>1. /\ local'[w].pc = "rekey" /\ local'[w].id = conn.id /\ local'[w].token = conn.token
        /\ local'[w].code = 0 /\ local'[w].version = conn.version
    BY <1>1, <1>7 DEF SelectRotation, Idle
  <2>2. mishaps = 0 => conn.lease # w
    BY <1>7, RaceFacts DEF SelectRotation
  <2>3. UNCHANGED <<conn, Atlassian, mishaps>> /\ mishaps \in Nat
    BY <1>7 DEF SelectRotation, TypeOK
  <2>4. FreshKept(w)
    BY <2>1, <2>3 DEF FreshKept, Owned, Atlassian
  <2>5. RaceKept(w)
    BY <2>1, <2>2, <2>3 DEF RaceKept, Atlassian
  <2> QED BY <2>4, <2>5
<1> QED BY <1>2, <1>3, <1>4, <1>5, <1>6, <1>7

\* A row that is deleted is nobody's.
LEMMA DisconnectSafe ==
    ASSUME JiraAssumption, TypeOK, FreshInv, RaceInv, NEW w \in Worker, OthersStay(w), Disconnect(w)
    PROVE  FreshInv' /\ RaceInv'
<1>1. UNCHANGED <<Atlassian, mishaps>> /\ mishaps \in Nat /\ Done(w) /\ At(w, "disconnect")
  BY DEF Disconnect, TypeOK
<1>2. CASE conn' = NoConnection
  <2>1. FreshKept(w)
    BY <1>1, <1>2, DoneIs DEF FreshKept, Owned, At, Atlassian, NoConnection, None
  <2>2. RaceInv'
    BY <1>1, <1>2, DoneIs, RaceFreed DEF NoConnection, Mine, Refresh
  <2> QED BY <2>1, <2>2, FreshFrame
<1>3. CASE conn' = conn
  BY <1>1, <1>3, Calm, DoneIs, FreshFrame, RaceFrame DEF Refresh, At, Fine
<1> QED BY <1>2, <1>3 DEF Disconnect

\* A reauthorization stores a token that only it knew, as a version that nobody read.
LEMMA ConnectSafe ==
    ASSUME JiraAssumption, TypeOK, FreshInv, RaceInv, NEW w \in Worker, OthersStay(w), Connect(w)
    PROVE  FreshInv' /\ RaceInv'
<1> DEFINE code == local[w].code
<1>1. At(w, "connect") /\ Done(w) /\ Owned(w) = {code}
  BY DEF Connect, Owned, At
<1>2. /\ conn'.id = (IF conn.id = None THEN local[w].id ELSE conn.id)
      /\ conn'.version = conn.version + 1 /\ conn'.token = code
      /\ conn'.lease = NoWorker /\ conn'.lapsed = FALSE
      /\ UNCHANGED <<codes, live, issued>> /\ asked' \in {0, asked}
  BY DEF Connect
<1>3. FreshKept(w)
  BY <1>1, <1>2, DoneIs DEF FreshKept, Owned, At
<1>4. ASSUME mishaps' = 0 PROVE RaceInv'
  <2>1. mishaps = 0 /\ (conn.id = None => local[w].id = code)
    BY <1>4 DEF Connect, Mishap, TypeOK, Fine
  <2>2. code \in live /\ \A v \in Worker \ {w} : Unseen(v, code)
    BY <1>1 DEF FreshInv, OwnedInv
  <2>3. \A v \in Worker : conn.version \in Nat /\ local[v].version \in Nat
    BY Typed
  <2>4. \A v \in Worker \ {w} :
           local[v].pc \in {"claimToken", "exchange", "rekey"} /\ Mine(v)' =>
               local[v].version < conn'.version
    <3>1. CASE conn.id = None
      BY <1>2, <2>1, <2>2, <3>1, RaceElsewhere DEF Mine, Unseen
    <3>2. CASE conn.id # None
      BY <1>2, <2>1, <2>3, <3>2, RaceFacts, RaceElsewhere DEF Mine, CopyInv
    <3> QED BY <3>1, <3>2
  <2>5. \A v \in Worker \ {w} : local[v].token # conn'.token
    BY <1>2, <2>2 DEF Unseen
  <2>6. local'[w].pc \notin Refresh \union {"claimToken", "rekey"}
    BY <1>1, DoneIs DEF Refresh
  <2>7. \A v \in Worker \ {w} :
           local[v].pc \in {"claimToken", "exchange", "rekey"} /\ Mine(v)' =>
               /\ local[v].version <= conn'.version
               /\ local[v].version = conn'.version => local[v].token = conn'.token
    BY <1>2, <2>3, <2>4
  <2> QED BY <1>2, <2>2, <2>5, <2>6, <2>7, RaceFreed
<1> QED BY <1>3, <1>4, FreshFrame DEF RaceInv

\* A rotation writes back the token it read: the version says it is the same.
LEMMA RekeySafe ==
    ASSUME JiraAssumption, TypeOK, FreshInv, RaceInv, NEW w \in Worker, OthersStay(w), Rekey(w)
    PROVE  FreshInv' /\ RaceInv'
<1>1. At(w, "rekey") /\ Done(w) /\ UNCHANGED <<Atlassian, mishaps>> /\ mishaps \in Nat
  BY DEF Rekey, TypeOK
<1>2. CASE Rekeyable(w)
  <2>1. /\ conn'.id = conn.id /\ conn'.version = conn.version + 1 /\ conn'.token = local[w].token
        /\ conn'.lease = NoWorker /\ conn'.lapsed = conn.lapsed
    BY <1>2 DEF Rekey, Rekeyable, TypeOK, Connections
  <2>2. FreshKept(w)
    BY <1>1, <2>1, DoneIs DEF FreshKept, Owned, At, Atlassian
  <2>3. ASSUME mishaps' = 0 PROVE RaceInv'
    <3>1. mishaps = 0 /\ conn.lease = NoWorker /\ conn.id # None
      BY <1>1, <1>2, <2>3 DEF Rekeyable, Mine
    <3>2. local[w].token = conn.token /\ conn.token \in live /\ ~conn.lapsed
      BY <1>1, <1>2, <3>1, RaceFacts DEF CopyInv, LeaseInv, Rekeyable, At, JiraAssumption
    <3>3. conn'.token = conn.token /\ conn'.lapsed = FALSE
      BY <2>1, <3>2 DEF TypeOK, Connections
    <3>4. \A v \in Worker : conn.version \in Nat /\ local[v].version \in Nat
      BY Typed
    <3>5. \A v \in Worker \ {w} :
             /\ local[v].pc \in {"claimToken", "exchange", "rekey"} /\ Mine(v)' =>
                   local[v].version <= conn.version
             /\ At(v, "exchange") /\ conn'.id # None => local[v].token # conn'.token
      <4> SUFFICES ASSUME NEW v \in Worker \ {w}
                   PROVE  /\ local[v].pc \in {"claimToken", "exchange", "rekey"} /\ Mine(v)' =>
                                local[v].version <= conn.version
                          /\ At(v, "exchange") => local[v].token # conn.token
        BY <3>3
      <4>1. ~Refreshing(v) /\ (Mine(v)' => Mine(v))
        BY <2>1, <3>1, RaceElsewhere DEF Refreshing, Mine, JiraAssumption
      <4> QED BY <3>1, <4>1, RaceFacts DEF CopyInv, ExchangeInv
    <3>6. \A v \in Worker \ {w} :
             /\ local[v].pc \in {"claimToken", "exchange", "rekey"} /\ Mine(v)' =>
                   /\ local[v].version <= conn'.version
                   /\ local[v].version = conn'.version => local[v].token = conn'.token
             /\ At(v, "exchange") /\ conn'.id # None => local[v].token # conn'.token
      <4>1. \A v \in Worker \ {w} :
               /\ local[v].version <= conn.version => local[v].version < conn'.version
               /\ local[v].version < conn'.version =>
                     local[v].version <= conn'.version /\ local[v].version # conn'.version
        BY <2>1, <3>4
      <4> QED BY <3>5, <4>1
    <3>7. local'[w].pc \notin Refresh \union {"claimToken", "rekey"} /\ live' = live
      BY <1>1, DoneIs DEF Refresh, Atlassian
    <3> QED BY <2>1, <3>2, <3>3, <3>6, <3>7, RaceFreed
  <2> QED BY <2>2, <2>3, FreshFrame DEF RaceInv
<1>3. CASE ~Rekeyable(w)
  <2>1. UNCHANGED conn
    BY <1>3 DEF Rekey
  <2> QED BY <1>1, <2>1, Calm, DoneIs, FreshFrame, RaceFrame DEF Refresh, At, Fine
<1> QED BY <1>2, <1>3

\* The code becomes a token that only its owner knows.
LEMMA ExchangeCodeSafe ==
    ASSUME JiraAssumption, TypeOK, FreshInv, RaceInv, NEW w \in Worker, OthersStay(w), ExchangeCode(w)
    PROVE  FreshInv' /\ RaceInv'
<1> DEFINE code == local[w].code
<1>1. /\ At(w, "code") /\ UNCHANGED <<conn, asked, issued, mishaps>> /\ codes' = codes \ {code}
      /\ Owned(w) = {}
  BY DEF ExchangeCode, Owned, At
<1>2. /\ local'[w].pc \in {"existing", "idle"}
      /\ local'[w].id \in {0, local[w].id} /\ local'[w].token \in {0, local[w].token}
      /\ local'[w].code \in {0, code}
  BY GotoIs, DoneIs DEF ExchangeCode, Steps
<1>3. \/ code \in codes /\ live' = live \union {code} /\ local'[w].pc = "existing" /\ local'[w].code = code
      \/ live' = live /\ local'[w].pc = "idle"
  BY GotoIs, DoneIs DEF ExchangeCode, Steps
<1>4. RaceInv'
  <2>1. mishaps = 0 => conn.lease # w
    BY <1>1, RaceFacts DEF At, Refresh
  <2>2. mishaps' >= mishaps
    BY <1>1 DEF TypeOK
  <2> QED BY <1>1, <1>2, <1>3, <2>1, <2>2, RaceFrame DEF RaceKept, Refresh
<1>5. /\ issued \in Nat /\ codes \subseteq 1..issued /\ live \subseteq 1..issued
      /\ conn.id <= issued /\ conn.token <= issued /\ asked <= issued
      /\ \A v \in Worker :
            local[v].id <= issued /\ local[v].token <= issued /\ local[v].code <= issued
  BY DEF FreshInv, Known, TypeOK
<1>6. Known'
  <2>1. local'[w].id <= issued /\ local'[w].token <= issued /\ local'[w].code <= issued
    BY <1>2, <1>5
  <2>2. \A v \in Worker :
           local'[v].id <= issued /\ local'[v].token <= issued /\ local'[v].code <= issued
    BY <1>5, <2>1, OwnedElsewhere
  <2>3. live' \subseteq 1..issued /\ codes' \subseteq 1..issued
    BY <1>1, <1>3, <1>5
  <2> QED BY <1>1, <1>5, <2>2, <2>3 DEF Known
<1>7. CodesInv'
  <2>1. \A t \in codes' : t # 0 /\ t \in codes /\ t # code
    BY <1>1, <1>5
  <2> QED BY <1>1, <1>2, <1>3, <2>1, OwnedElsewhere DEF FreshInv, CodesInv, Unused, Unseen
<1>8. \A t : Unused(t)' = Unused(t)
  BY <1>1 DEF Unused
<1>9. Owned(w)' = IF local'[w].pc = "existing" THEN {code} ELSE {}
  BY <1>2, <1>3 DEF Owned, At
<1>10. OwnedInv'
  <2>1. ASSUME NEW v \in Worker \ {w}, NEW t \in Owned(v)
        PROVE  /\ t \in live' /\ t \notin codes' /\ Unused(t)'
               /\ \A u \in Worker \ {v} : Unseen(u, t)' /\ t \notin Owned(u)'
    <3>1. /\ t \in live /\ t \notin codes /\ Unused(t) /\ t # 0
          /\ \A u \in Worker \ {v} : Unseen(u, t) /\ t \notin Owned(u)
      BY <1>5 DEF FreshInv, OwnedInv
    <3>2. Unseen(w, t)' /\ t \notin Owned(w)'
      BY <1>2, <1>3, <1>9, <3>1 DEF Unseen
    <3> QED BY <1>1, <1>3, <1>8, <3>1, <3>2, OwnedElsewhere
  <2>2. ASSUME NEW t \in Owned(w)'
        PROVE  /\ t \in live' /\ t \notin codes' /\ Unused(t)'
               /\ \A u \in Worker \ {w} : Unseen(u, t)' /\ t \notin Owned(u)'
    <3>1. t = code /\ code \in codes /\ live' = live \union {code}
      BY <1>3, <1>9
    <3>2. Unused(code) /\ \A u \in Worker : Unseen(u, code) /\ code \notin Owned(u)
      BY <3>1 DEF FreshInv, CodesInv, OwnedInv
    <3> QED BY <1>1, <1>8, <3>1, <3>2, OwnedElsewhere
  <2> QED BY <2>1, <2>2, OwnedElsewhere DEF OwnedInv
<1> QED BY <1>4, <1>6, <1>7, <1>10 DEF FreshInv

\* The tokens are bound to the connection that is found.
LEMMA FindExistingSafe ==
    ASSUME JiraAssumption, TypeOK, FreshInv, RaceInv, NEW w \in Worker, OthersStay(w), FindExisting(w)
    PROVE  FreshInv' /\ RaceInv'
<1> DEFINE code == local[w].code
<1>1. /\ At(w, "existing") /\ UNCHANGED <<conn, asked, codes, live, issued, mishaps>>
      /\ Owned(w) = {code}
  BY DEF FindExisting, Owned, At, Atlassian
<1>2. /\ local'[w].pc = "connect" /\ local'[w].code = code /\ local'[w].token = local[w].token
      /\ local'[w].id \in {code, conn.id}
  <2>1. local[w] \in Locals /\ local \in [Worker -> Locals]
    BY DEF TypeOK
  <2> QED BY <2>1 DEF FindExisting, Locals
<1>3. RaceInv'
  <2>1. mishaps = 0 => conn.lease # w
    BY <1>1, RaceFacts DEF At, Refresh
  <2>2. mishaps' >= mishaps
    BY <1>1 DEF TypeOK
  <2> QED BY <1>1, <1>2, <2>1, <2>2, RaceFrame DEF RaceKept, Refresh
<1>4. Owned(w)' = {code}
  BY <1>2 DEF Owned, At
<1>5. Known'
  <2>1. local'[w].id <= issued /\ local'[w].token <= issued /\ local'[w].code <= issued
    BY <1>2 DEF FreshInv, Known
  <2> QED BY <1>1, <2>1, OwnedElsewhere DEF FreshInv, Known
<1>6. CodesInv'
  <2>1. \A t \in codes : t # code
    BY <1>1 DEF FreshInv, OwnedInv
  <2> QED BY <1>1, <1>2, <2>1, OwnedElsewhere DEF FreshInv, CodesInv, Unused, Unseen
<1>7. \A t : Unused(t)' = Unused(t)
  BY <1>1 DEF Unused
<1>8. OwnedInv'
  <2>1. ASSUME NEW v \in Worker \ {w}, NEW t \in Owned(v)
        PROVE  /\ t \in live' /\ t \notin codes' /\ Unused(t)'
               /\ \A u \in Worker \ {v} : Unseen(u, t)' /\ t \notin Owned(u)'
    <3>1. /\ t \in live /\ t \notin codes /\ Unused(t)
          /\ \A u \in Worker \ {v} : Unseen(u, t) /\ t \notin Owned(u)
      BY DEF FreshInv, OwnedInv
    <3>2. Unseen(w, t)' /\ t \notin Owned(w)'
      BY <1>1, <1>2, <1>4, <3>1 DEF Unseen, Unused
    <3> QED BY <1>1, <1>7, <3>1, <3>2, OwnedElsewhere
  <2>2. ASSUME NEW t \in Owned(w)'
        PROVE  /\ t \in live' /\ t \notin codes' /\ Unused(t)'
               /\ \A u \in Worker \ {w} : Unseen(u, t)' /\ t \notin Owned(u)'
    BY <1>1, <1>4, <1>7, OwnedElsewhere DEF FreshInv, OwnedInv
  <2> QED BY <2>1, <2>2, OwnedElsewhere DEF OwnedInv
<1> QED BY <1>3, <1>5, <1>6, <1>8 DEF FreshInv

\* A mishap ends what is said of the race.
LEMMA RaceLost ==
    ASSUME TypeOK, Mishap
    PROVE  RaceInv'
BY DEF TypeOK, Mishap, RaceInv

\* A request that goes on with its token, or without, has copies of nothing new.
LEMMA LeaveCopies ==
    ASSUME JiraAssumption, TypeOK, NEW w \in Worker,
           Done(w) \/ Proceed(w) \/ Leave(w, TRUE) \/ Leave(w, FALSE)
    PROVE  /\ local'[w].pc \in {"idle", "lookup", "attach", "test", "settle"}
           /\ local'[w].token = 0 /\ local'[w].code = 0 /\ local'[w].id \in {0, local[w].id}
<1>1. local[w].next \in {"lookup", "attach", "test"}
  BY Typed
<1>2. CASE Done(w)
  BY <1>2, DoneIs
<1>3. CASE Proceed(w)
  BY <1>1, <1>3, ProceedIs
<1>4. CASE Leave(w, TRUE) \/ Leave(w, FALSE)
  BY <1>4, LeaveIs
<1> QED BY <1>2, <1>3, <1>4

\* Reading the row copies it with its version.
LEMMA ReadSafe ==
    ASSUME JiraAssumption, TypeOK, FreshInv, RaceInv, NEW w \in Worker, OthersStay(w),
           ReadToken(w) \/ RereadToken(w)
    PROVE  FreshInv' /\ RaceInv'
<1>1. /\ UNCHANGED <<conn, Atlassian, mishaps>> /\ mishaps \in Nat
      /\ local[w].pc \in {"token", "reread"}
  <2>1. local[w].pc \in {"token", "reread"} /\ UNCHANGED <<conn, Atlassian, mishaps>>
    BY DEF ReadToken, RereadToken, At
  <2> QED BY <2>1 DEF TypeOK
<1>2. CASE Proceed(w) \/ Leave(w, TRUE) \/ Leave(w, FALSE)
  BY <1>1, <1>2, LeaveCopies, Calm, FreshFrame, RaceFrame DEF Refresh, Fine
<1>3. CASE local' = [local EXCEPT ![w] = [local[w] EXCEPT !.pc = "claimToken",
                        !.version = conn.version, !.token = conn.token, !.aad = conn.aad]]
  <2>1. local[w] \in Locals /\ local \in [Worker -> Locals]
    BY DEF TypeOK
  <2>2. /\ local'[w].pc = "claimToken" /\ local'[w].version = conn.version
        /\ local'[w].token = conn.token /\ local'[w].id = local[w].id /\ local'[w].code = local[w].code
    BY <1>3, <2>1 DEF Locals
  <2>3. mishaps = 0 => conn.lease # w
    BY <1>1, RaceFacts DEF Refresh
  <2>4. FreshKept(w)
    BY <1>1, <2>2 DEF FreshKept, Owned, At, Atlassian
  <2>5. RaceKept(w)
    BY <1>1, <2>2, <2>3 DEF RaceKept, Atlassian, Refresh
  <2> QED BY <2>4, <2>5, FreshFrame, RaceFrame
<1> QED BY <1>2, <1>3 DEF ReadToken, RereadToken

\* The lease is taken for the version that was read.
LEMMA ClaimSafe ==
    ASSUME JiraAssumption, TypeOK, FreshInv, RaceInv, NEW w \in Worker, OthersStay(w), ClaimToken(w)
    PROVE  FreshInv' /\ RaceInv'
<1>1. At(w, "claimToken") /\ UNCHANGED Atlassian
  BY DEF ClaimToken
<1>2. CASE ~Claimable(w)
  BY <1>1, <1>2, GotoIs, Calm, FreshFrame, RaceFrame DEF ClaimToken, Refresh, At, Steps
<1>3. CASE Claimable(w)
  <2>1. /\ conn'.id = conn.id /\ conn'.version = conn.version /\ conn'.token = conn.token
        /\ conn'.lease = w /\ conn'.lapsed = FALSE
    BY <1>3 DEF ClaimToken, TypeOK, Connections
  <2>2. /\ local'[w].pc \in {"exchange", "idle", "settle", "lookup", "attach", "test"}
        /\ local'[w].token \in {0, local[w].token} /\ local'[w].id \in {0, local[w].id}
        /\ local'[w].code \in {0, local[w].code}
    BY <1>3, GotoIs, LeaveCopies DEF ClaimToken, Steps
  <2>3. FreshKept(w)
    BY <1>1, <2>1, <2>2 DEF FreshKept, Owned, At, Atlassian
  <2>4. CASE Mishap
    BY <2>3, <2>4, FreshFrame, RaceLost
  <2>5. CASE Goto(w, "exchange") /\ Fine
    <3>1. /\ local'[w].pc = "exchange" /\ local'[w].id = local[w].id
          /\ local'[w].version = local[w].version /\ local'[w].token = local[w].token
      BY <2>5, GotoIs DEF Steps
    <3>2. ASSUME mishaps' = 0 PROVE (LeaseInv /\ CopyInv /\ ExchangeInv /\ LiveInv)'
      <4>1. mishaps = 0 /\ conn.lease = NoWorker /\ NoWorker \notin Worker
        BY <1>3, <2>5, <3>2, RaceFacts DEF Fine, Claimable, LeaseInv, JiraAssumption
      <4>2. Refreshing(w)' /\ local'[w].token = conn'.token
        BY <1>1, <1>3, <2>1, <3>1, <4>1, RaceFacts DEF Refreshing, Mine, Claimable, CopyInv, At
      <4>3. \A v \in Worker \ {w} : ~Refreshing(v) /\ Mine(v)' = Mine(v)
        BY <2>1, <4>1, RaceElsewhere DEF Refreshing, Mine
      <4>4. LeaseInv'
        BY <2>1, <3>1, <4>2 DEF LeaseInv, Refresh
      <4>5. CopyInv'
        <5>1. local'[w].version <= conn'.version
          BY <1>3, <2>1, <3>1, Typed DEF Claimable
        <5> QED BY <2>1, <4>1, <4>2, <4>3, <5>1, RaceFacts, RaceElsewhere DEF CopyInv
      <4>6. ExchangeInv'
        BY <2>1, <4>1, <4>2, <4>3, RaceFacts, RaceElsewhere DEF ExchangeInv
      <4>7. LiveInv'
        BY <1>1, <2>1, <4>1, RaceFacts DEF LiveInv, Atlassian
      <4> QED BY <4>4, <4>5, <4>6, <4>7
    <3> QED BY <2>3, <3>2, FreshFrame DEF RaceInv
  <2> QED BY <1>3, <2>4, <2>5 DEF ClaimToken
<1> QED BY <1>2, <1>3

\* The lease holder goes on to another place under its lease.
LEMMA RaceOnward ==
    ASSUME TypeOK, RaceInv, NEW w \in Worker, OthersStay(w), UNCHANGED conn, Fine,
           At(w, "exchange"), local'[w].pc \in {"yield", "deny", "store"},
           local'[w].id = local[w].id, local'[w].version = local[w].version,
           \/ live' = live
           \/ At(w, "store")' /\ live \subseteq live' \union {local[w].token}
    PROVE  RaceInv'
<1> SUFFICES ASSUME mishaps' = 0
             PROVE  (LeaseInv /\ CopyInv /\ ExchangeInv /\ LiveInv)'
  BY DEF RaceInv
<1>1. mishaps = 0 /\ LeaseInv /\ CopyInv /\ ExchangeInv /\ LiveInv
  BY RaceFacts DEF Fine
<1>2. \A v \in Worker : Mine(v)' = Mine(v) /\ Refreshing(v)' = Refreshing(v)
  BY RaceElsewhere DEF Mine, Refreshing
<1>3. LeaseInv'
  BY <1>1, <1>2, RaceElsewhere DEF LeaseInv, Refresh
<1>4. CopyInv' /\ ExchangeInv'
  BY <1>1, <1>2, RaceElsewhere DEF CopyInv, ExchangeInv, At
<1>5. LiveInv'
  <2> SUFFICES ASSUME conn.id # None, conn.token \notin live'
               PROVE  \E v \in Worker : conn.lease = v /\ At(v, "store")'
    BY DEF LiveInv
  <2>1. CASE conn.token \notin live
    <3>1. PICK v \in Worker : conn.lease = v /\ At(v, "store")
      BY <1>1, <2>1 DEF LiveInv
    <3>2. v # w
      BY <3>1 DEF At
    <3> QED BY <3>1, <3>2, RaceElsewhere
  <2>2. CASE conn.token \in live
    <3>1. At(w, "store")' /\ conn.token = local[w].token
      BY <2>2
    <3>2. conn.lease = w
      BY <1>1, <3>1 DEF ExchangeInv, Refreshing
    <3> QED BY <3>1, <3>2
  <2> QED BY <2>1, <2>2
<1> QED BY <1>3, <1>4, <1>5

\* A token is used up under the lease of its row, or it is not the row's.
LEMMA ExchangeSafe ==
    ASSUME JiraAssumption, TypeOK, FreshInv, RaceInv, NEW w \in Worker, OthersStay(w), Exchange(w)
    PROVE  FreshInv' /\ RaceInv'
<1> DEFINE old == local[w].token
           new == issued + 1
<1>1. At(w, "exchange") /\ UNCHANGED <<conn, asked, codes>> /\ Owned(w) = {}
  BY DEF Exchange, Owned, At
<1>2. CASE UNCHANGED <<issued, live>> /\ Fine /\ (Goto(w, "yield") \/ Goto(w, "deny"))
  <2>1. /\ local'[w].pc \in {"yield", "deny"} /\ local'[w].id = local[w].id
        /\ local'[w].token = old /\ local'[w].code = local[w].code
        /\ local'[w].version = local[w].version
    BY <1>2, GotoIs DEF Steps
  <2>2. FreshInv'
    BY <1>1, <1>2, <2>1, FreshFrame DEF FreshKept, Owned, At
  <2> QED BY <1>1, <1>2, <2>1, <2>2, RaceOnward
<1>3. CASE /\ old \in live /\ issued' = new /\ live' = (live \ {old}) \union {new}
           /\ \/ /\ local' = [local EXCEPT ![w] = [local[w] EXCEPT
                                !.pc = "store", !.token = issued + 1, !.key = active]]
                 /\ Fine
              \/ Goto(w, "yield") /\ Mishap
  <2>1. /\ local'[w].id = local[w].id /\ local'[w].code = local[w].code
        /\ local'[w].version = local[w].version
        /\ \/ local'[w].pc = "store" /\ local'[w].token = new /\ Fine
           \/ local'[w].pc = "yield" /\ local'[w].token = old /\ Mishap
    <3>1. local[w] \in Locals /\ local \in [Worker -> Locals]
      BY DEF TypeOK
    <3>2. CASE Goto(w, "yield") /\ Mishap
      BY <3>2, GotoIs DEF Steps
    <3>3. CASE Fine /\ local' = [local EXCEPT ![w] = [local[w] EXCEPT
                                   !.pc = "store", !.token = issued + 1, !.key = active]]
      BY <3>1, <3>3 DEF Locals
    <3> QED BY <1>3, <3>2, <3>3
  <2>2. /\ issued \in Nat /\ codes \subseteq 1..issued /\ live \subseteq 1..issued
        /\ conn.id <= issued /\ conn.token <= issued /\ asked <= issued
        /\ \A v \in Worker :
              local[v].id <= issued /\ local[v].token <= issued /\ local[v].code <= issued
    BY DEF FreshInv, Known, TypeOK
  <2>3. \A v \in Worker : /\ local[v].id \in Nat /\ local[v].token \in Nat /\ local[v].code \in Nat
                          /\ conn.id \in Nat /\ conn.token \in Nat /\ asked \in Nat
    BY Typed DEF Ids, None
  <2>4. /\ new \notin codes /\ new \notin live /\ Unused(new)
        /\ \A v \in Worker : Unseen(v, new) /\ local[v].code # new
    BY <2>2, <2>3 DEF Unused, Unseen
  <2>5. \A v \in Worker : \A t \in Owned(v) : t \in live /\ t # new
    BY <2>4 DEF FreshInv, OwnedInv
  <2>6. RaceInv'
    <3>1. CASE Fine
      <4>1. Mishap => FALSE
        BY <3>1 DEF Mishap, Fine, TypeOK
      <4>2. local'[w].pc = "store"
        BY <2>1, <4>1
      <4>3. live \subseteq live' \union {old}
        BY <1>3
      <4> HIDE DEF old, new
      <4>4. At(w, "store")' /\ live \subseteq live' \union {local[w].token}
        BY <4>2, <4>3 DEF At, old
      <4> QED BY <1>1, <2>1, <3>1, <4>2, <4>4, RaceOnward
    <3>2. CASE Mishap
      BY <3>2, RaceLost
    <3> QED BY <2>1, <3>1, <3>2
  <2>7. \A t : Unused(t)' = Unused(t)
    BY <1>1 DEF Unused
  <2>8. \A t : Unseen(w, t) /\ t # new => Unseen(w, t)'
    BY <2>1 DEF Unseen
  <2>9. Owned(w)' \subseteq {new} /\ (Owned(w)' # {} => local'[w].token = new)
    BY <2>1 DEF Owned, At
  <2>10. Known'
    <3>1. /\ conn.id <= new /\ conn.token <= new /\ asked <= new
          /\ \A v \in Worker : local[v].id <= new /\ local[v].token <= new /\ local[v].code <= new
      BY <2>2, <2>3
    <3>2. \A v \in Worker : local'[v].id <= new /\ local'[v].token <= new /\ local'[v].code <= new
      BY <2>1, <2>2, <3>1, OwnedElsewhere
    <3>3. codes' \subseteq 1..new /\ live' \subseteq 1..new
      BY <1>1, <1>3, <2>2
    <3> QED BY <1>1, <1>3, <3>1, <3>2, <3>3 DEF Known
  <2>11. CodesInv'
    <3>1. \A t \in codes : t # new
      BY <2>4
    <3> QED BY <1>1, <1>3, <2>7, <2>8, <3>1, OwnedElsewhere DEF FreshInv, CodesInv
  <2>12. OwnedInv'
    <3>1. ASSUME NEW v \in Worker \ {w}, NEW t \in Owned(v)
          PROVE  /\ t \in live' /\ t \notin codes' /\ Unused(t)'
                 /\ \A u \in Worker \ {v} : Unseen(u, t)' /\ t \notin Owned(u)'
      <4>1. /\ t \in live /\ t \notin codes /\ Unused(t) /\ t # new
            /\ \A u \in Worker \ {v} : Unseen(u, t) /\ t \notin Owned(u)
        BY <2>5 DEF FreshInv, OwnedInv
      <4>2. t # old
        BY <4>1 DEF Unseen
      <4>3. Unseen(w, t)' /\ t \notin Owned(w)'
        BY <2>8, <2>9, <4>1
      <4> QED BY <1>1, <1>3, <2>7, <4>1, <4>2, <4>3, OwnedElsewhere
    <3>2. ASSUME NEW t \in Owned(w)'
          PROVE  /\ t \in live' /\ t \notin codes' /\ Unused(t)'
                 /\ \A u \in Worker \ {w} : Unseen(u, t)' /\ t \notin Owned(u)'
      <4>1. t = new
        BY <2>9
      <4> QED BY <1>1, <1>3, <2>4, <2>5, <2>7, <4>1, OwnedElsewhere
    <3> QED BY <3>1, <3>2, OwnedElsewhere DEF OwnedInv
  <2> QED BY <2>6, <2>10, <2>11, <2>12 DEF FreshInv
<1> QED BY <1>2, <1>3 DEF Exchange

\* A new token is stored under the lease, as a version that nobody read.
LEMMA StoreSafe ==
    ASSUME JiraAssumption, TypeOK, FreshInv, RaceInv, NEW w \in Worker, OthersStay(w), StoreToken(w)
    PROVE  FreshInv' /\ RaceInv'
<1> DEFINE stored == [conn EXCEPT !.token = local[w].token, !.fresh = TRUE, !.key = local[w].key,
                         !.status = "active", !.version = conn.version + 1,
                         !.lease = NoWorker, !.lapsed = FALSE]
<1>1. At(w, "store") /\ UNCHANGED Atlassian /\ Owned(w) = {local[w].token} /\ mishaps \in Nat
  BY DEF StoreToken, Owned, At, TypeOK
<1>2. /\ stored.id = conn.id /\ stored.token = local[w].token /\ stored.version = conn.version + 1
      /\ stored.lease = NoWorker /\ stored.lapsed = FALSE
  BY DEF TypeOK, Connections
<1>3. \/ Refreshing(w) /\ conn' = stored /\ Proceed(w) /\ Fine
      \/ ~Refreshing(w) /\ Leave(w, TRUE) /\ UNCHANGED conn /\ Fine
      \/ conn' \in {conn, stored} /\ Goto(w, "deny") /\ Mishap
  BY DEF StoreToken
<1> HIDE DEF stored
<1>4. /\ local'[w].pc \in {"deny", "idle", "lookup", "attach", "test", "settle"}
      /\ local'[w].token \in {0, local[w].token} /\ local'[w].id \in {0, local[w].id}
      /\ local'[w].code \in {0, local[w].code}
  BY <1>3, GotoIs, LeaveCopies DEF Steps
<1>5. FreshKept(w)
  BY <1>1, <1>2, <1>3, <1>4 DEF FreshKept, Owned, At, Atlassian
<1>6. CASE Mishap
  BY <1>5, <1>6, FreshFrame, RaceLost
<1>7. CASE ~Refreshing(w) /\ Leave(w, TRUE) /\ UNCHANGED conn /\ Fine
  <2>1. mishaps = 0 => conn.lease # w
    BY <1>7, RaceFacts DEF LeaseInv
  <2>2. local'[w].pc \in {"idle", "lookup", "attach", "test", "settle"}
    BY <1>7, LeaveCopies
  <2>3. RaceKept(w)
    BY <1>1, <1>7, <2>1, <2>2 DEF RaceKept, Atlassian, Fine, Refresh
  <2> QED BY <1>5, <2>3, FreshFrame, RaceFrame
<1>8. CASE Refreshing(w) /\ conn' = stored /\ Proceed(w) /\ Fine
  <2>1. ASSUME mishaps' = 0 PROVE RaceInv'
    <3>1. mishaps = 0 /\ live' = live
      BY <1>1, <1>8, <2>1 DEF Fine, Atlassian
    <3>2. conn'.token \in live /\ \A v \in Worker \ {w} : local[v].token # conn'.token
      BY <1>1, <1>2, <1>8 DEF FreshInv, OwnedInv, Unseen
    <3>3. \A v \in Worker : conn.version \in Nat /\ local[v].version \in Nat
      BY Typed
    <3>4. \A v \in Worker \ {w} :
             local[v].pc \in {"claimToken", "exchange", "rekey"} /\ Mine(v)' =>
                 local[v].version <= conn.version
      BY <1>2, <1>8, <3>1, RaceFacts, RaceElsewhere DEF Mine, CopyInv
    <3>5. \A v \in Worker \ {w} :
             local[v].pc \in {"claimToken", "exchange", "rekey"} /\ Mine(v)' =>
                 /\ local[v].version <= conn'.version
                 /\ local[v].version = conn'.version => local[v].token = conn'.token
      <4>1. conn'.version = conn.version + 1
        BY <1>2, <1>8
      <4>2. \A v \in Worker \ {w} : local[v].version <= conn.version =>
               local[v].version <= conn'.version /\ local[v].version # conn'.version
        BY <3>3, <4>1
      <4> QED BY <3>4, <4>2
    <3>6. local'[w].pc \notin Refresh \union {"claimToken", "rekey"}
      BY <1>8, LeaveCopies DEF Refresh
    <3> QED BY <1>2, <1>8, <3>1, <3>2, <3>5, <3>6, RaceFreed
  <2> QED BY <1>5, <2>1, FreshFrame DEF RaceInv
<1> QED BY <1>3, <1>6, <1>7, <1>8

\* A lease is given back with the token it was taken for.
LEMMA EndSafe ==
    ASSUME JiraAssumption, TypeOK, FreshInv, RaceInv, NEW w \in Worker, OthersStay(w),
           YieldToken(w) \/ DenyToken(w)
    PROVE  FreshInv' /\ RaceInv'
<1>1. PICK status : \/ At(w, "yield") /\ EndRefresh(w, "yield", status)
                    \/ At(w, "deny") /\ EndRefresh(w, "deny", status)
  BY DEF YieldToken, DenyToken, EndRefresh
<1> DEFINE ended == [conn EXCEPT !.status = status, !.lease = NoWorker, !.lapsed = FALSE]
<1>2. ~At(w, "store") /\ Owned(w) = {} /\ UNCHANGED Atlassian /\ mishaps \in Nat
  <2>1. ~At(w, "store") /\ Owned(w) = {}
    BY <1>1 DEF Owned, At
  <2>2. UNCHANGED Atlassian
    BY <1>1 DEF EndRefresh
  <2> QED BY <2>1, <2>2 DEF TypeOK
<1>3. /\ ended.id = conn.id /\ ended.token = conn.token /\ ended.version = conn.version
      /\ ended.lease = NoWorker /\ ended.lapsed = FALSE
  BY DEF TypeOK, Connections
<1>4. /\ Leave(w, TRUE) \/ Leave(w, FALSE)
      /\ \/ conn' = (IF Refreshing(w) THEN ended ELSE conn) /\ Fine
         \/ conn' \in {conn, ended} /\ Mishap
  BY <1>1 DEF EndRefresh
<1> HIDE DEF ended
<1>5. /\ local'[w].pc \in {"idle", "lookup", "attach", "test", "settle"}
      /\ local'[w].token = 0 /\ local'[w].code = 0 /\ local'[w].id \in {0, local[w].id}
  BY <1>4, LeaveCopies
<1>6. FreshKept(w)
  BY <1>2, <1>3, <1>4, <1>5 DEF FreshKept, Owned, At, Atlassian
<1>7. CASE Mishap
  BY <1>6, <1>7, FreshFrame, RaceLost
<1>8. CASE Fine /\ ~Refreshing(w) /\ conn' = conn
  <2>1. mishaps = 0 => conn.lease # w
    BY <1>8, RaceFacts DEF LeaseInv
  <2>2. RaceKept(w)
    BY <1>2, <1>5, <1>8, <2>1 DEF RaceKept, Atlassian, Fine, Refresh
  <2> QED BY <1>6, <2>2, FreshFrame, RaceFrame
<1>9. CASE Fine /\ Refreshing(w) /\ conn' = ended
  <2>1. ASSUME mishaps' = 0 PROVE RaceInv'
    <3>1. mishaps = 0 /\ live' = live
      BY <1>2, <1>9, <2>1 DEF Fine, Atlassian
    <3>2. conn.id # None /\ conn.lease = w
      BY <1>9 DEF Refreshing, Mine
    <3>3. conn.token \in live
      BY <1>2, <3>1, <3>2, RaceFacts
    <3>4. \A v \in Worker \ {w} : ~Refreshing(v) /\ (Mine(v)' => Mine(v))
      BY <1>3, <1>9, <3>2, RaceElsewhere DEF Refreshing, Mine
    <3>5. \A v \in Worker \ {w} :
             /\ local[v].pc \in {"claimToken", "exchange", "rekey"} /\ Mine(v)' =>
                   /\ local[v].version <= conn'.version
                   /\ local[v].version = conn'.version => local[v].token = conn'.token
             /\ At(v, "exchange") /\ conn'.id # None => local[v].token # conn'.token
      BY <1>3, <1>9, <3>1, <3>4, RaceFacts DEF CopyInv, ExchangeInv
    <3>6. local'[w].pc \notin Refresh \union {"claimToken", "rekey"}
      BY <1>5 DEF Refresh
    <3> QED BY <1>3, <1>9, <3>1, <3>3, <3>5, <3>6, RaceFreed
  <2> QED BY <1>6, <2>1, FreshFrame DEF RaceInv
<1> QED BY <1>4, <1>7, <1>8, <1>9

\* Marking the row leaves the lease of a live request alone, or is a mishap.
LEMMA RejectSafe ==
    ASSUME JiraAssumption, TypeOK, FreshInv, RaceInv, NEW w \in Worker, OthersStay(w), Reject(w)
    PROVE  FreshInv' /\ RaceInv'
<1>1. /\ At(w, "reject") /\ Done(w) /\ UNCHANGED Atlassian /\ mishaps \in Nat
      /\ Fine \/ Mishap
  BY DEF Reject, TypeOK
<1>2. /\ conn'.id = conn.id /\ conn'.version = conn.version /\ conn'.token = conn.token
      /\ \/ conn'.lease = conn.lease /\ conn'.lapsed = conn.lapsed
         \/ conn'.lease = NoWorker /\ conn'.lapsed = FALSE /\ (Fine => ~Alive(conn.lease))
  <2>1. Fine => ~(Mine(w) /\ Alive(conn.lease))
    BY DEF Reject, Fine, Mishap, TypeOK
  <2>2. CASE Mine(w)
    <3>1. conn' = [conn EXCEPT !.status = "reauthorization_required",
                               !.lease = NoWorker, !.lapsed = FALSE]
      BY <2>2 DEF Reject
    <3> QED BY <2>1, <2>2, <3>1 DEF TypeOK, Connections
  <2>3. CASE ~Mine(w)
    BY <2>3 DEF Reject
  <2> QED BY <2>2, <2>3
<1>3. FreshKept(w)
  BY <1>1, <1>2, DoneIs DEF FreshKept, Owned, At, Atlassian
<1>4. CASE Mishap
  BY <1>3, <1>4, FreshFrame, RaceLost
<1>5. CASE Fine
  <2>1. ASSUME mishaps = 0
        PROVE  conn'.lease = conn.lease /\ conn'.lapsed = conn.lapsed /\ conn.lease # w
    <3>1. LeaseInv /\ conn.lease \in Worker \union {NoWorker} /\ conn.lapsed \in BOOLEAN
      BY <2>1, RaceFacts DEF TypeOK, Connections, MaybeWorker
    <3>2. conn.lease # NoWorker => Alive(conn.lease)
      BY <3>1 DEF Alive, LeaseInv, Refresh, At
    <3> QED BY <1>1, <1>2, <1>5, <3>1, <3>2 DEF LeaseInv, Refresh, At
  <2>2. mishaps = 0 => RaceKept(w)
    BY <1>1, <1>2, <1>5, <2>1, DoneIs DEF RaceKept, Atlassian, Fine, Refresh
  <2>3. RaceInv'
    BY <1>5, <2>2, RaceFrame DEF RaceInv, Fine
  <2> QED BY <1>3, <2>3, FreshFrame
<1> QED BY <1>1, <1>4, <1>5

\* A death is a mishap.
LEMMA DieSafe ==
    ASSUME JiraAssumption, TypeOK, FreshInv, RaceInv, NEW w \in Worker, OthersStay(w), Die(w)
    PROVE  FreshInv' /\ RaceInv'
<1>1. FreshKept(w)
  BY DoneIs DEF Die, FreshKept, Owned, At, Atlassian
<1> QED BY <1>1, FreshFrame, RaceLost DEF Die

\* Codes are issued, tokens age, keys change and leases expire.
LEMMA EnvironmentSafe ==
    ASSUME JiraAssumption, TypeOK, FreshInv, RaceInv, UNCHANGED local,
           \/ StartOAuth \/ ExpireToken \/ NewKey \/ LapseRefresh
           \/ \E c \in Ids : LapseUpload(c)
           \/ UNCHANGED vars
    PROVE  FreshInv' /\ RaceInv'
<1>1. /\ live' = live /\ conn'.id = conn.id /\ conn'.token = conn.token
      /\ conn'.version = conn.version /\ conn'.lease = conn.lease
  BY DEF StartOAuth, ExpireToken, NewKey, LapseRefresh, LapseUpload, vars, Atlassian, TypeOK, Connections
<1>2. mishaps' = mishaps \/ Mishap
  BY DEF StartOAuth, ExpireToken, NewKey, LapseRefresh, LapseUpload, vars, Fine
<1>3. mishaps' = 0 => conn'.lapsed = conn.lapsed
  <2>1. CASE LapseRefresh
    <3> SUFFICES ASSUME mishaps' = 0 PROVE FALSE
      OBVIOUS
    <3>1. mishaps = 0 /\ ~Alive(conn.lease) /\ conn.lease # NoWorker
      BY <2>1 DEF LapseRefresh, Mishap, Fine, TypeOK
    <3>2. conn.lease \in Worker
      BY <3>1 DEF TypeOK, Connections, MaybeWorker
    <3> QED BY <3>1, <3>2, RaceFacts DEF Alive, LeaseInv, Refresh, At
  <2>2. CASE ~LapseRefresh
    BY <2>2 DEF StartOAuth, ExpireToken, NewKey, LapseUpload, vars, TypeOK, Connections
  <2> QED BY <2>1, <2>2
<1>4. RaceInv'
  <2>1. CASE Mishap
    BY <2>1, RaceLost
  <2>2. CASE mishaps' = mishaps
    BY <1>1, <1>3, <2>2
    DEF RaceInv, LeaseInv, CopyInv, ExchangeInv, LiveInv, Refreshing, Mine, At
  <2> QED BY <1>2, <2>1, <2>2
<1>5. FreshInv'
  <2>1. CASE StartOAuth
    <3> DEFINE new == issued + 1
    <3>1. /\ issued' = new /\ asked' = new /\ codes' = codes \union {new} /\ conn' = conn
      BY <2>1 DEF StartOAuth
    <3>2. /\ issued \in Nat /\ codes \subseteq 1..issued /\ live \subseteq 1..issued
          /\ conn.id <= issued /\ conn.token <= issued
          /\ \A v \in Worker :
                local[v].id <= issued /\ local[v].token <= issued /\ local[v].code <= issued
      BY DEF FreshInv, Known, TypeOK
    <3>3. \A v \in Worker : /\ local[v].id \in Nat /\ local[v].token \in Nat
                            /\ local[v].code \in Nat /\ conn.id \in Nat /\ conn.token \in Nat
      BY Typed DEF Ids, None
    <3>4. conn.id \in Nat /\ conn.token \in Nat
      BY DEF TypeOK, Connections, Ids, None
    <3>5. new \notin live /\ Unused(new) /\ \A v \in Worker : Unseen(v, new)
      BY <3>2, <3>3, <3>4 DEF Unused, Unseen
    <3>6. Known'
      <4>1. \A v \in Worker :
               local[v].id <= new /\ local[v].token <= new /\ local[v].code <= new
        BY <3>2, <3>3
      <4>2. conn.id <= new /\ conn.token <= new /\ codes' \subseteq 1..new /\ live \subseteq 1..new
        <5>1. 1..issued \subseteq 1..new /\ new \in 1..new
          BY <3>2
        <5>2. codes' \subseteq 1..new /\ live \subseteq 1..new
          BY <3>1, <3>2, <5>1
        <5> QED BY <3>2, <3>4, <5>2
      <4> QED BY <1>1, <3>1, <3>2, <4>1, <4>2 DEF Known
    <3>7. \A v \in Worker : \A t \in Owned(v) : t # new
      BY <3>5 DEF FreshInv, OwnedInv
    <3>8. CodesInv'
      BY <1>1, <3>1, <3>5 DEF FreshInv, CodesInv, Unused, Unseen
    <3>9. OwnedInv'
      BY <1>1, <3>1, <3>7 DEF FreshInv, OwnedInv, Unused, Unseen, Owned, At
    <3> QED BY <3>6, <3>8, <3>9 DEF FreshInv
  <2>2. CASE ~StartOAuth
    <3>1. UNCHANGED <<codes, issued, asked>>
      BY <2>2 DEF ExpireToken, NewKey, LapseRefresh, LapseUpload, vars, Atlassian
    <3> QED
      BY <1>1, <3>1 DEF FreshInv, Known, CodesInv, OwnedInv, Unused, Unseen, Owned, At
  <2> QED BY <2>1, <2>2
<1> QED BY <1>4, <1>5

\* Every step keeps what is said of the tokens.
LEMMA TokenStep ==
    ASSUME JiraAssumption, UploadInv, FreshInv, RaceInv, [Next]_vars
    PROVE  FreshInv' /\ RaceInv'
<1>1. TypeOK /\ TargetInv
  BY DEF UploadInv, OneAttachmentSet
<1>2. ASSUME NEW w \in Worker, Token(w) \/ Attachment(w) \/ Connection(w) \/ Die(w)
      PROVE  FreshInv' /\ RaceInv'
  <2>1. OthersStay(w)
    BY <1>1, <1>2, RequestTypes
  <2>2. CASE Token(w)
    BY <1>1, <2>1, <2>2, ReadSafe, ClaimSafe, ExchangeSafe, StoreSafe, EndSafe, RejectSafe DEF Token
  <2>3. CASE Attachment(w)
    BY <1>1, <2>1, <2>3, AttachmentCalm, FreshFrame, RaceFrame
  <2>4. CASE Connection(w)
    <3>1. CASE BeginTest(w) \/ TestSite(w) \/ RecordTest(w) \/ BeginDisconnect(w)
                 \/ BeginOAuth(w) \/ SelectRotation(w)
      BY <1>1, <2>1, <3>1, TestSafe, FreshFrame, RaceFrame
    <3> QED
      BY <1>1, <2>1, <2>4, <3>1, DisconnectSafe, ConnectSafe, RekeySafe, ExchangeCodeSafe, FindExistingSafe
      DEF Connection
  <2> QED BY <1>1, <1>2, <2>1, <2>2, <2>3, <2>4, DieSafe
<1>3. CASE \/ StartOAuth \/ ExpireToken \/ NewKey \/ LapseRefresh
           \/ \E c \in Ids : LapseUpload(c)
           \/ UNCHANGED vars
  BY <1>1, <1>3, EnvironmentTypes, EnvironmentSafe
<1> QED BY <1>2, <1>3 DEF Next

-----------------------------------------------------------------------------
(* The theorems.                                                            *)

IInv == UploadInv /\ FreshInv /\ RaceInv

LEMMA InitInv == ASSUME JiraAssumption, Init PROVE IInv
<1>1. TypeOK
  BY IdleIs DEF Init, TypeOK, NoOperation, Operations, Statuses, MaybeWorker, JiraAssumption
<1>2. \A w \in Worker : local[w] = Idle
  BY DEF Init
<1>3. UploadInv
  BY <1>1, <1>2
  DEF Init, UploadInv, TargetInv, ClaimInv, SentInv, AloneInv, RetryIsSafe, OneAttachmentSet,
      HasTarget, Working, Sending, At, TokenSteps, UploadSteps, Idle, NoOperation
<1>4. FreshInv
  BY <1>2 DEF Init, FreshInv, Known, CodesInv, OwnedInv, Owned, At, Idle, NoConnection, None
<1>5. RaceInv
  BY <1>2 DEF Init, RaceInv, LeaseInv, CopyInv, ExchangeInv, LiveInv, At, Idle, NoConnection, None,
              JiraAssumption
<1> QED BY <1>3, <1>4, <1>5 DEF IInv

LEMMA InductiveInv == Spec => []IInv
<1>1. Init => IInv
  BY InitInv, JiraAssumption
<1>2. IInv /\ [Next]_vars => IInv'
  BY UploadStep, TokenStep, JiraAssumption DEF IInv
<1> QED BY <1>1, <1>2, PTL DEF Spec

\* An attachment request is repeated only if Jira has taken nothing of it
\* (uploadJiraEvidence), for any number of requests, lost answers, expired
\* leases and deaths.
THEOREM RetryCorrect == Spec => []RetryIsSafe
<1>1. IInv => RetryIsSafe
  BY DEF IInv, UploadInv
<1> QED BY <1>1, InductiveInv, PTL

\* Jira gets at most one attachment set per connection, and a receipt is
\* given only for what it got (uploadJiraEvidence).
THEOREM AttachmentsCorrect == Spec => []OneAttachmentSet
<1>1. IInv => OneAttachmentSet
  BY DEF IInv, UploadInv
<1> QED BY <1>1, InductiveInv, PTL

\* Refresh, reauthorization, disconnection and key rotation never leave an
\* active connection with a token that was used up, unless a mishap happened
\* (accessToken, completeJiraOAuth, rotateJiraToken).
THEOREM TokenCorrect == Spec => []StoredTokenLive
<1>1. IInv => StoredTokenLive
  BY JiraAssumption DEF IInv, RaceInv, LiveInv, StoredTokenLive, JiraAssumption
<1> QED BY <1>1, InductiveInv, PTL
=============================================================================
