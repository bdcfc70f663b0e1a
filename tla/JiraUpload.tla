----------------------------- MODULE JiraUpload -----------------------------
(* One user's Jira Cloud connection and the attachment of one approved     *)
(* evidence record to one issue (lib/server/jira.ts, and rotateJiraToken   *)
(* of lib/server/key-operations.ts).                                       *)
(*                                                                         *)
(* Requests of the user's devices and browser overlap with each other and  *)
(* with key rotation.  Jira and Atlassian's token endpoint are external:   *)
(* a refresh token is good for one exchange, which issues the next one,    *)
(* and an attachment request may take effect although its answer is an     *)
(* error, is unreadable or never arrives.  Tokens are numbers in the order *)
(* of their issue; what encrypted them is a connection id (the associated  *)
(* data) and a key epoch.                                                  *)
EXTENDS Naturals, FiniteSets

CONSTANTS
    Worker,           \* requests that overlap
    NoWorker,         \* null
    Requests,         \* attachment sets (request_sha256)
    MaxTokens,        \* bound on the codes and tokens issued
    MaxEpoch,         \* bound on the encryption keys
    MaxMishaps        \* bound on failed or unacknowledged calls, requests that
                      \* die or lose a lease they work under, and connections
                      \* that come back under an old id, together

ASSUME JiraAssumption ==
    /\ NoWorker \notin Worker
    /\ MaxTokens \in Nat /\ MaxEpoch \in Nat \ {0} /\ MaxMishaps \in Nat

VARIABLES
    conn,       \* the user's jira_connections row; id 0 when there is none
    asked,      \* the state of the last authorization request, 0 if used up
    codes,      \* authorization codes that were not exchanged yet
    live,       \* refresh tokens that Atlassian still accepts
    issued,     \* tokens issued so far
    active,     \* the active token encryption key
    ops,        \* jira_upload_operations, one row per connection
    receipts,   \* connections with a row in jira_upload_receipts
    attached,   \* attachment sets on the issue, by connection
    local,      \* what each request is doing
    mishaps

vars == <<conn, asked, codes, live, issued, active, ops, receipts, attached, local, mishaps>>

None == 0
Ids == 1..MaxTokens
MaybeWorker == Worker \union {NoWorker}

Connections == [id : Ids \union {None}, status : {"active", "reauthorization_required"},
                version : Nat, fresh : BOOLEAN, token : 0..MaxTokens,
                aad : Ids \union {None}, key : 1..MaxEpoch,
                lease : MaybeWorker, lapsed : BOOLEAN]
NoConnection == [id |-> None, status |-> "active", version |-> 0, fresh |-> FALSE, token |-> 0,
                 aad |-> None, key |-> 1, lease |-> NoWorker, lapsed |-> FALSE]

Statuses == {"absent", "reserved", "uploading", "failed", "unknown", "succeeded"}
Operations == [status : Statuses, request : Requests \union {None},
               lease : MaybeWorker, lapsed : BOOLEAN]
NoOperation == [status |-> "absent", request |-> None, lease |-> NoWorker, lapsed |-> FALSE]

Idle == [pc |-> "idle", next |-> "lookup", id |-> None, target |-> None, request |-> None, code |-> 0,
         version |-> 0, token |-> 0, aad |-> None, key |-> 1, from |-> 1, as |-> "failed",
         denied |-> FALSE]

\* target: the connection the upload is for; next: what the access token is
\* for; id, version, token, aad: the row as it was last read; key: what
\* encrypts the new token; from: what a rotation read it under; as, denied:
\* how the attachment request ended.
Locals == [pc : {"idle", "prior", "token", "claimToken", "reread", "exchange", "store", "yield",
                 "deny", "lookup", "reserve", "operation", "expire", "claim", "attach",
                 "settle", "commit", "reject", "test", "tested", "code", "existing", "connect",
                 "disconnect", "rekey"},
           next : {"lookup", "attach", "test"}, id : Ids \union {None},
           target : Ids \union {None}, request : Requests \union {None}, code : 0..MaxTokens, version : Nat,
           token : 0..MaxTokens, aad : Ids \union {None}, key : 1..MaxEpoch, from : 1..MaxEpoch,
           as : {"failed", "unknown"}, denied : BOOLEAN]

TypeOK ==
    /\ conn \in Connections
    /\ asked \in 0..MaxTokens /\ codes \subseteq 1..MaxTokens
    /\ live \subseteq 1..MaxTokens /\ issued \in 0..MaxTokens
    /\ active \in 1..MaxEpoch
    /\ ops \in [Ids -> Operations]
    /\ receipts \subseteq Ids /\ attached \in [Ids -> Nat]
    /\ local \in [Worker -> Locals]
    /\ mishaps \in 0..MaxMishaps

Init ==
    /\ conn = NoConnection
    /\ asked = 0 /\ codes = {} /\ live = {} /\ issued = 0 /\ active = 1
    /\ ops = [c \in Ids |-> NoOperation]
    /\ receipts = {} /\ attached = [c \in Ids |-> 0]
    /\ local = [w \in Worker |-> Idle]
    /\ mishaps = 0

-----------------------------------------------------------------------------

At(w, place) == local[w].pc = place
Goto(w, place) == local' = [local EXCEPT ![w].pc = place]
Done(w) == local' = [local EXCEPT ![w] = Idle]
Mishap == mishaps < MaxMishaps /\ mishaps' = mishaps + 1
Fine == UNCHANGED mishaps

Atlassian == <<asked, codes, live, issued>>
Upload == <<ops, receipts, attached>>

\* The row is the one this request read.
Mine(w) == conn.id # None /\ conn.id = local[w].id

\* The access token is there: on to what it is for.
Proceed(w) ==
    local' = [local EXCEPT ![w] =
        [Idle EXCEPT !.pc = local[w].next, !.id = local[w].id,
                     !.target = local[w].target, !.request = local[w].request]]

\* accessToken or the request that needed it has failed: an attachment whose
\* error is a refusal of Scopeproof's own was certainly not sent.
Leave(w, refused) ==
    IF local[w].next = "attach"
    THEN local' = [local EXCEPT ![w] =
                     [Idle EXCEPT !.pc = "settle", !.target = local[w].target,
                                  !.as = IF refused THEN "failed" ELSE "unknown"]]
    ELSE Done(w)

-----------------------------------------------------------------------------
(* accessToken: the row is read again, and refreshed under a lease if the   *)
(* access token is about to expire.                                         *)

NeedToken(w, next) ==
    local' = [local EXCEPT ![w] = [local[w] EXCEPT !.pc = "token", !.next = next, !.id = conn.id]]

\* A token that was encrypted for another connection id cannot be decrypted.
ReadToken(w) ==
    /\ At(w, "token")
    /\ \/ ~(Mine(w) /\ conn.status = "active") /\ Leave(w, TRUE)
       \/ /\ Mine(w) /\ conn.status = "active" /\ conn.fresh
          /\ IF conn.aad = conn.id THEN Proceed(w) ELSE Leave(w, FALSE)
       \/ /\ Mine(w) /\ conn.status = "active" /\ ~conn.fresh
          /\ local' = [local EXCEPT ![w] =
                [local[w] EXCEPT !.pc = "claimToken", !.version = conn.version,
                                 !.token = conn.token, !.aad = conn.aad]]
    /\ UNCHANGED <<conn, Atlassian, active, Upload, mishaps>>

Claimable(w) ==
    /\ Mine(w) /\ conn.status = "active" /\ conn.version = local[w].version
    /\ conn.lease = NoWorker \/ conn.lapsed

ClaimToken(w) ==
    /\ At(w, "claimToken")
    /\ \/ /\ Claimable(w)
          /\ conn' = [conn EXCEPT !.lease = w, !.lapsed = FALSE]
          /\ \/ Goto(w, "exchange") /\ Fine
             \/ Leave(w, FALSE) /\ Mishap
       \/ ~Claimable(w) /\ Goto(w, "reread") /\ UNCHANGED conn /\ Fine
    /\ UNCHANGED <<Atlassian, active, Upload>>

\* Another request holds the lease; it may have finished.
RereadToken(w) ==
    LET usable == Mine(w) /\ conn.status = "active" /\ conn.fresh
    IN  /\ At(w, "reread")
        /\ \/ usable /\ conn.aad = conn.id /\ Proceed(w)
           \/ usable /\ conn.aad # conn.id /\ Leave(w, FALSE)
           \/ ~usable /\ Leave(w, TRUE)
        /\ UNCHANGED <<conn, Atlassian, active, Upload, mishaps>>

\* Atlassian consumes the refresh token and issues the next, refuses it, or
\* fails for now; its answer may also be lost.
Exchange(w) ==
    LET old == local[w].token
        renews == local[w].aad = local[w].id /\ old \in live /\ issued < MaxTokens
    IN  /\ At(w, "exchange")
        /\ \/ /\ renews
              /\ issued' = issued + 1
              /\ live' = (live \ {old}) \union {issued + 1}
              /\ \/ /\ local' = [local EXCEPT ![w] = [local[w] EXCEPT
                                   !.pc = "store", !.token = issued + 1, !.key = active]]
                    /\ Fine
                 \/ Goto(w, "yield") /\ Mishap
           \/ /\ local[w].aad = local[w].id
              /\ Goto(w, "yield") /\ UNCHANGED <<issued, live>> /\ Fine
           \/ /\ local[w].aad # local[w].id \/ old \notin live
              /\ Goto(w, "deny") /\ UNCHANGED <<issued, live>> /\ Fine
        /\ UNCHANGED <<conn, asked, codes, active, Upload>>

Refreshing(w) == Mine(w) /\ conn.version = local[w].version /\ conn.lease = w

\* An error of the statement counts as a refusal by Atlassian.
StoreToken(w) ==
    LET stored == [conn EXCEPT !.token = local[w].token, !.fresh = TRUE, !.key = local[w].key,
                               !.status = "active", !.version = conn.version + 1,
                               !.lease = NoWorker, !.lapsed = FALSE]
    IN  /\ At(w, "store")
        /\ \/ Refreshing(w) /\ conn' = stored /\ Proceed(w) /\ Fine
           \/ ~Refreshing(w) /\ Leave(w, TRUE) /\ UNCHANGED conn /\ Fine
           \/ conn' \in {conn, IF Refreshing(w) THEN stored ELSE conn} /\ Goto(w, "deny") /\ Mishap
        /\ UNCHANGED <<Atlassian, active, Upload>>

\* The lease is given back: to try again, or never.
EndRefresh(w, place, status) ==
    LET ended == [conn EXCEPT !.status = status, !.lease = NoWorker, !.lapsed = FALSE]
    IN  /\ At(w, place)
        /\ \/ conn' = (IF Refreshing(w) THEN ended ELSE conn) /\ Leave(w, TRUE) /\ Fine
           \/ conn' \in {conn, IF Refreshing(w) THEN ended ELSE conn} /\ Leave(w, FALSE) /\ Mishap
        /\ UNCHANGED <<Atlassian, active, Upload>>

YieldToken(w) == EndRefresh(w, "yield", conn.status)
DenyToken(w) == EndRefresh(w, "deny", "reauthorization_required")

Alive(w) == w # NoWorker /\ ~At(w, "idle")

\* markReauthorizationRequired names only the connection: the lease of a
\* refresh under way goes with it.
Reject(w) ==
    /\ At(w, "reject")
    /\ conn' = IF Mine(w) THEN [conn EXCEPT !.status = "reauthorization_required",
                                           !.lease = NoWorker, !.lapsed = FALSE] ELSE conn
    /\ IF Mine(w) /\ Alive(conn.lease) THEN Mishap ELSE Fine
    /\ Done(w)
    /\ UNCHANGED <<Atlassian, active, Upload>>

-----------------------------------------------------------------------------
(* uploadJiraEvidence                                                       *)

BeginUpload(w) ==
    /\ At(w, "idle") /\ conn.id # None
    /\ \E r \in Requests :
        local' = [local EXCEPT ![w] = [Idle EXCEPT !.pc = "prior", !.target = conn.id, !.request = r]]
    /\ UNCHANGED <<conn, Atlassian, active, Upload, mishaps>>

\* A receipt ends the request; otherwise the issue is looked up first.
FindReceipt(w) ==
    /\ At(w, "prior")
    /\ \/ local[w].target \in receipts /\ Done(w)
       \/ local[w].target \notin receipts /\ conn.id # None /\ NeedToken(w, "lookup")
       \/ local[w].target \notin receipts /\ conn.id = None /\ Done(w)
    /\ UNCHANGED <<conn, Atlassian, active, Upload, mishaps>>

LookUpIssue(w) ==
    /\ At(w, "lookup")
    /\ Goto(w, "reserve") \/ Goto(w, "reject") \/ Done(w)
    /\ UNCHANGED <<conn, Atlassian, active, Upload, mishaps>>

Op(w) == ops[local[w].target]
SetOp(w, op) == ops' = [ops EXCEPT ![local[w].target] = op]

\* The connection must still be the one the upload is for; then INSERT OR
\* IGNORE, which does not depend on it.
Reserve(w) ==
    LET reserved == IF Op(w).status = "absent"
                    THEN [NoOperation EXCEPT !.status = "reserved", !.request = local[w].request]
                    ELSE Op(w)
    IN  /\ At(w, "reserve")
        /\ \/ conn.id # local[w].target /\ UNCHANGED ops /\ Done(w) /\ Fine
           \/ /\ conn.id = local[w].target /\ SetOp(w, reserved) /\ Fine
              /\ local' = [local EXCEPT ![w] = [local[w] EXCEPT !.pc = "operation", !.id = conn.id]]
           \/ /\ conn.id = local[w].target /\ (SetOp(w, reserved) \/ UNCHANGED ops)
              /\ Done(w) /\ Mishap
        /\ UNCHANGED <<conn, Atlassian, active, receipts, attached>>

\* An upload that is under way is left alone until its lease has expired;
\* one whose outcome is unknown, for ever.
ReadOperation(w) ==
    LET op == Op(w)
        over == op.request # local[w].request \/ op.status \in {"succeeded", "unknown"}
    IN  /\ At(w, "operation")
        /\ \/ over /\ Done(w)
           \/ ~over /\ op.status = "uploading" /\ op.lapsed /\ Goto(w, "expire")
           \/ ~over /\ ~(op.status = "uploading" /\ op.lapsed) /\ Goto(w, "claim")
        /\ UNCHANGED <<conn, Atlassian, active, Upload, mishaps>>

ExpireOperation(w) ==
    /\ At(w, "expire")
    /\ IF Op(w).status = "uploading" /\ Op(w).lapsed
       THEN SetOp(w, [Op(w) EXCEPT !.status = "unknown", !.lease = NoWorker, !.lapsed = FALSE])
       ELSE UNCHANGED ops
    /\ Done(w)
    /\ UNCHANGED <<conn, Atlassian, active, receipts, attached, mishaps>>

\* Mutant: an upload whose outcome is unknown is tried again.
ClaimableOpUnknown(w) ==
    Op(w).status \in {"reserved", "failed", "unknown"} /\ Op(w).request = local[w].request

ClaimableOp(w) ==
    Op(w).status \in {"reserved", "failed"} /\ Op(w).request = local[w].request

ClaimOperation(w) ==
    LET claimed == [Op(w) EXCEPT !.status = "uploading", !.lease = w, !.lapsed = FALSE]
    IN  /\ At(w, "claim")
        /\ \/ ClaimableOp(w) /\ SetOp(w, claimed) /\ Fine
             /\ local' = [local EXCEPT ![w] = [local[w] EXCEPT !.pc = "token", !.next = "attach"]]
           \/ ~ClaimableOp(w) /\ UNCHANGED ops /\ Done(w) /\ Fine
           \/ ops' \in {ops, IF ClaimableOp(w) THEN [ops EXCEPT ![local[w].target] = claimed]
                             ELSE ops}
              /\ Done(w) /\ Mishap
        /\ UNCHANGED <<conn, Atlassian, active, receipts, attached>>

\* The response of the attachment request, and whether it took effect.
Answers == {"accepted", "unreadable", "none", "server error", "refused", "unauthorized"}
MayAttach(answer) == answer \in {"unreadable", "none", "server error"}

\* Mutant: a server error is taken for a refusal.
OutcomeTrusting(answer) == IF answer \in {"unreadable", "none"} THEN "unknown" ELSE "failed"

Outcome(answer) == IF MayAttach(answer) THEN "unknown" ELSE "failed"

AttachEvidence(w) ==
    LET c == local[w].target IN
    /\ At(w, "attach")
    /\ \E answer \in Answers, effect \in BOOLEAN :
        /\ effect => answer = "accepted" \/ MayAttach(answer)
        /\ answer = "accepted" => effect
        /\ attached' = IF effect THEN [attached EXCEPT ![c] = attached[c] + 1] ELSE attached
        /\ IF answer = "accepted" THEN Goto(w, "commit")
           ELSE local' = [local EXCEPT ![w] =
                   [local[w] EXCEPT !.pc = "settle", !.as = Outcome(answer),
                                    !.denied = (answer = "unauthorized")]]
    /\ UNCHANGED <<conn, Atlassian, active, ops, receipts, mishaps>>

SettleUpload(w) ==
    LET settled == IF Op(w).lease = w
                   THEN [Op(w) EXCEPT !.status = local[w].as, !.lease = NoWorker, !.lapsed = FALSE]
                   ELSE Op(w)
    IN  /\ At(w, "settle")
        /\ \/ /\ SetOp(w, settled) /\ Fine
              /\ IF local[w].denied THEN Goto(w, "reject") ELSE Done(w)
           \/ (SetOp(w, settled) \/ UNCHANGED ops) /\ Done(w) /\ Mishap
        /\ UNCHANGED <<conn, Atlassian, active, receipts, attached>>

\* One audited batch without a condition: the receipt is inserted although
\* the lease may be gone and the operation no longer this upload's.
CommitReceipt(w) ==
    LET c == local[w].target
        op == IF Op(w).lease = w /\ Op(w).status = "uploading"
              THEN [Op(w) EXCEPT !.status = "succeeded", !.lease = NoWorker, !.lapsed = FALSE]
              ELSE Op(w)
    IN  /\ At(w, "commit")
        /\ \/ c \notin receipts /\ receipts' = receipts \union {c} /\ SetOp(w, op) /\ Fine
           \/ c \in receipts /\ UNCHANGED <<receipts, ops>> /\ Fine
           \/ c \notin receipts /\ receipts' = receipts \union {c} /\ SetOp(w, op) /\ Mishap
           \/ UNCHANGED <<receipts, ops>> /\ Mishap
        /\ Done(w)
        /\ UNCHANGED <<conn, Atlassian, active, attached>>

-----------------------------------------------------------------------------
(* testJiraConnection, disconnectJira                                       *)

BeginTest(w) ==
    /\ At(w, "idle") /\ conn.id # None
    /\ local' = [local EXCEPT ![w] = [Idle EXCEPT !.pc = "token", !.next = "test", !.id = conn.id]]
    /\ UNCHANGED <<conn, Atlassian, active, Upload, mishaps>>

TestSite(w) ==
    /\ At(w, "test")
    /\ Goto(w, "tested") \/ Goto(w, "reject") \/ Done(w)
    /\ UNCHANGED <<conn, Atlassian, active, Upload, mishaps>>

RecordTest(w) ==
    /\ At(w, "tested")
    /\ conn' = IF Mine(w) THEN [conn EXCEPT !.status = "active"] ELSE conn
    /\ Done(w)
    /\ UNCHANGED <<Atlassian, active, Upload, mishaps>>

BeginDisconnect(w) ==
    /\ At(w, "idle") /\ conn.id # None
    /\ local' = [local EXCEPT ![w] = [Idle EXCEPT !.pc = "disconnect", !.id = conn.id]]
    /\ UNCHANGED <<conn, Atlassian, active, Upload, mishaps>>

Disconnect(w) ==
    /\ At(w, "disconnect")
    /\ conn' = IF Mine(w) THEN NoConnection ELSE conn
    /\ Done(w)
    /\ UNCHANGED <<Atlassian, active, Upload, mishaps>>

-----------------------------------------------------------------------------
(* startJiraOAuth, completeJiraOAuth                                        *)

\* The user is sent to Atlassian and comes back with a code; an earlier
\* authorization request of the user is forgotten.
StartOAuth ==
    /\ issued < MaxTokens
    /\ issued' = issued + 1
    /\ asked' = issued + 1 /\ codes' = codes \union {issued + 1}
    /\ UNCHANGED <<conn, live, active, Upload, local, mishaps>>

BeginOAuth(w) ==
    /\ At(w, "idle") /\ asked # 0
    /\ local' = [local EXCEPT ![w] = [Idle EXCEPT !.pc = "code", !.code = asked]]
    /\ UNCHANGED <<conn, Atlassian, active, Upload, mishaps>>

\* A code can be exchanged once; an answer that is lost has used it up.
ExchangeCode(w) ==
    LET code == local[w].code IN
    /\ At(w, "code")
    /\ \/ code \in codes /\ live' = live \union {code} /\ Goto(w, "existing")
       \/ code \in codes /\ UNCHANGED live /\ Done(w)
       \/ code \notin codes /\ UNCHANGED live /\ Done(w)
    /\ codes' = codes \ {code}
    /\ UNCHANGED <<conn, asked, issued, active, Upload, mishaps>>

\* The new tokens are encrypted for the connection that exists, or for a
\* new one; the number of the code serves as its random id.
FindExisting(w) ==
    /\ At(w, "existing")
    /\ local' = [local EXCEPT ![w] =
          [local[w] EXCEPT !.pc = "connect", !.key = active,
                           !.id = IF conn.id = None THEN local[w].code ELSE conn.id]]
    /\ UNCHANGED <<conn, Atlassian, active, Upload, mishaps>>

\* ON CONFLICT(user_id) keeps the id of the row it meets; a row that was deleted
\* since it was found comes back under its id, at its first version.
Connect(w) ==
    /\ At(w, "connect")
    /\ conn' = [id |-> IF conn.id = None THEN local[w].id ELSE conn.id,
                status |-> "active",
                version |-> conn.version + 1, fresh |-> TRUE, token |-> local[w].code,
                aad |-> local[w].id, key |-> local[w].key, lease |-> NoWorker, lapsed |-> FALSE]
    /\ asked' = IF asked = local[w].code THEN 0 ELSE asked
    /\ IF conn.id = None /\ local[w].id # local[w].code THEN Mishap ELSE Fine
    /\ Done(w)
    /\ UNCHANGED <<codes, live, issued, active, Upload>>

-----------------------------------------------------------------------------
(* rotateJiraToken                                                          *)

SelectRotation(w) ==
    /\ At(w, "idle") /\ conn.id # None /\ conn.key # active /\ conn.lease = NoWorker
    /\ conn.aad = conn.id
    /\ local' = [local EXCEPT ![w] = [Idle EXCEPT !.pc = "rekey", !.id = conn.id, !.key = active,
                                         !.from = conn.key, !.version = conn.version,
                                         !.token = conn.token]]
    /\ UNCHANGED <<conn, Atlassian, active, Upload, mishaps>>

\* Mutant: the rotation does not ask whether the tokens have changed.
RekeyableUnversioned(w) == Mine(w) /\ conn.lease = NoWorker

Rekeyable(w) ==
    /\ Mine(w) /\ conn.version = local[w].version /\ conn.key = local[w].from
    /\ conn.lease = NoWorker

Rekey(w) ==
    /\ At(w, "rekey")
    /\ conn' = IF Rekeyable(w)
               THEN [conn EXCEPT !.token = local[w].token, !.key = local[w].key,
                                 !.version = conn.version + 1]
               ELSE conn
    /\ Done(w)
    /\ UNCHANGED <<Atlassian, active, Upload, mishaps>>

-----------------------------------------------------------------------------
(* Environment.                                                             *)

\* The access token comes within two minutes of its expiry.
ExpireToken ==
    /\ conn.fresh
    /\ conn' = [conn EXCEPT !.fresh = FALSE]
    /\ UNCHANGED <<Atlassian, active, Upload, local, mishaps>>

NewKey ==
    /\ active < MaxEpoch
    /\ active' = active + 1
    /\ UNCHANGED <<conn, Atlassian, Upload, local, mishaps>>

\* A lease expires: a mishap if its owner still works under it.
LapseRefresh ==
    /\ conn.lease # NoWorker /\ ~conn.lapsed
    /\ conn' = [conn EXCEPT !.lapsed = TRUE]
    /\ IF Alive(conn.lease) THEN Mishap ELSE Fine
    /\ UNCHANGED <<Atlassian, active, Upload, local>>

LapseUpload(c) ==
    /\ ops[c].status = "uploading" /\ ~ops[c].lapsed
    /\ ops' = [ops EXCEPT ![c] = [ops[c] EXCEPT !.lapsed = TRUE]]
    /\ IF Alive(ops[c].lease) THEN Mishap ELSE Fine
    /\ UNCHANGED <<conn, Atlassian, active, receipts, attached, local>>

\* The request dies.
Die(w) ==
    /\ ~At(w, "idle")
    /\ Done(w) /\ Mishap
    /\ UNCHANGED <<conn, Atlassian, active, Upload>>

-----------------------------------------------------------------------------

Token(w) ==
    \/ ReadToken(w) \/ ClaimToken(w) \/ RereadToken(w) \/ Exchange(w) \/ StoreToken(w)
    \/ YieldToken(w) \/ DenyToken(w) \/ Reject(w)

Attachment(w) ==
    \/ BeginUpload(w) \/ FindReceipt(w) \/ LookUpIssue(w) \/ Reserve(w)
    \/ ReadOperation(w) \/ ExpireOperation(w) \/ ClaimOperation(w) \/ AttachEvidence(w)
    \/ SettleUpload(w) \/ CommitReceipt(w)

Connection(w) ==
    \/ BeginTest(w) \/ TestSite(w) \/ RecordTest(w) \/ BeginDisconnect(w) \/ Disconnect(w)
    \/ BeginOAuth(w) \/ ExchangeCode(w) \/ FindExisting(w) \/ Connect(w)
    \/ SelectRotation(w) \/ Rekey(w)

Next ==
    \/ StartOAuth \/ ExpireToken \/ NewKey \/ LapseRefresh
    \/ \E c \in Ids : LapseUpload(c)
    \/ \E w \in Worker : Token(w) \/ Attachment(w) \/ Connection(w) \/ Die(w)

Spec == Init /\ [][Next]_vars

-----------------------------------------------------------------------------
(* Properties.                                                              *)

\* An attachment is sent again only when nothing of it has reached Jira: an
\* operation that is reserved, failed or not yet there has attached nothing,
\* whatever answers were lost and leases expired (uploadJiraEvidence, which
\* claims reserved and failed operations).
RetryIsSafe ==
    \A c \in Ids : ops[c].status \in {"absent", "reserved", "failed"} => attached[c] = 0

\* The rows are well formed; Jira gets the attachment set of an evidence
\* record at most once per connection, and a receipt, which is immutable, is
\* given only for one that it got.
OneAttachmentSet ==
    /\ TypeOK
    /\ \A c \in Ids :
        /\ attached[c] <= 1
        /\ c \in receipts => attached[c] = 1
        /\ ops[c].status = "succeeded" => c \in receipts

\* Refresh, reauthorization, disconnection and key rotation race for the
\* stored tokens; unless an answer was lost, a request died, a live request
\* lost its lease or an ended connection came back under its id, an active
\* connection holds the refresh token that Atlassian accepts, or someone is
\* about to store it.
StoredTokenLive ==
    mishaps = 0 /\ conn.id # None /\ conn.status = "active" /\ conn.token \notin live =>
        conn.lease # NoWorker
=============================================================================
