----------------------------- MODULE UploadIntents -----------------------------
(***************************************************************************)
(* Issuing upload intents (AWS runtime): a device's request for one upload *)
(* capability, made idempotent by the client's key.                        *)
(*                                                                         *)
(* The identifier of an intent is derived from a server secret and the     *)
(* client's key.  A request first looks under the previous secret, then    *)
(* reserves under the current one in a DynamoDB transaction, projects the  *)
(* reservation into Aurora in another, and only then signs a URL.  A       *)
(* client repeats a request that got no answer with the same manifest, and *)
(* two copies of it may run at once; the secret may be rotated between any *)
(* two steps.  A scheduled worker repeats the projection of reservations   *)
(* whose request died before Aurora.                                       *)
(***************************************************************************)
EXTENDS Integers, FiniteSets

CONSTANTS
    Keys,         \* bound: logical requests, numbered by their device sequence
    Manifest,     \* device manifests a client may sign for one key
    Request,      \* API invocations that may overlap
    Nil,
    Secrets,      \* bound: versions of the idempotency secret
    Window,       \* time a device signature is accepted (5 minutes)
    Validity,     \* time an intent is valid (5 minutes)
    DailyLimit,   \* new reservations per day
    Legacy,       \* intents the previous release may have reserved, still valid
    MaxTime,      \* bound: the clock
    MaxFaults     \* bound: invocations that die, answers that are lost

Key == 1 .. Keys
Intent == (1 .. Secrets) \X Key
Time == 0 .. MaxTime
SecretOf(i) == i[1]
KeyOf(i) == i[2]

ASSUME ConstantsAssumption ==
    /\ Keys \in Nat \ {0} /\ Secrets \in Nat \ {0} /\ MaxTime \in Nat /\ MaxFaults \in Nat
    /\ Window \in Nat /\ Validity \in Nat \ {0} /\ DailyLimit \in Nat
    /\ Manifest # {}
    /\ Legacy \subseteq {i \in Intent : SecretOf(i) = 1}

VARIABLES
    now,       \* the clock
    secret,    \* the AWSCURRENT secret; the one before it is AWSPREVIOUS
    signed,    \* [Key \X Manifest -> when the device signed it]
    rows,      \* DynamoDB: [Intent -> the lifecycle row]
    requestOf, \* DynamoDB: [Intent -> whether its request reservation has the new TTL]
    reserved,  \* DynamoDB: the tenant's daily counter
    intents,   \* Aurora: [Intent -> the upload_intents row]
    evidence,  \* Aurora: [Key -> the intent its evidence row belongs to]
    sequence,  \* Aurora: the device's last upload sequence
    request,   \* [Request -> progress of the invocation]
    overlaps,  \* history: keys reserved while another copy of the request ran
    granted,   \* capabilities that were signed
    faults

dynamo == <<rows, requestOf, reserved>>
aurora == <<intents, evidence, sequence>>
history == <<overlaps, granted>>
intentVars == <<now, secret, signed, dynamo, aurora, request, history, faults>>

\* indexed: the row has its maintenance index keys and the longer TTL.
Rows == [manifest : Manifest, expires : 1 .. MaxTime + Validity, indexed : BOOLEAN,
         status : {"issued", "taken"}]
AuroraRows == [manifest : Manifest, expires : 1 .. MaxTime + Validity,
               status : {"issued", "promoted"}]
Refusals == {"conflict", "limited", "rejected", "expired"}

\* step: the next call of the request.  again: a re-read that must not upgrade
\* a legacy row or reserve once more.
Requests == [step : {"idle", "previous", "find", "check", "upgrade",
                     "reserve", "project", "complete"},
             key : Key, manifest : Manifest, current : 1 .. Secrets, at : Time,
             id : Intent, row : Rows \cup {Nil}, again : {"no", "upgraded", "cancelled"},
             answer : Refusals \cup {Nil}]

ASSUME NilAssumption ==
    Nil \notin Rows /\ Nil \notin AuroraRows /\ Nil \notin Intent /\ Nil \notin Refusals

\* What is left of an invocation that has ended, with or without an answer.
Ended == [step |-> "idle", key |-> 1, manifest |-> CHOOSE m \in Manifest : TRUE,
          current |-> 1, at |-> 0, id |-> <<1, 1>>, row |-> Nil, again |-> "no",
          answer |-> Nil]

\* A time no clock of the model reaches: not signed yet.
Never == MaxTime + 1

IntentInit ==
    \E old \in SUBSET Legacy : LET m == Ended.manifest IN
    /\ now = 0 /\ secret = 1
    /\ signed = [s \in Key \X Manifest |->
                   IF s[2] = m /\ (\E i \in old : KeyOf(i) = s[1]) THEN 0 ELSE Never]
    /\ rows = [i \in Intent |->
                 IF i \in old
                 THEN [manifest |-> m, expires |-> Validity, indexed |-> FALSE,
                       status |-> "issued"]
                 ELSE Nil]
    /\ requestOf = [i \in Intent |-> FALSE]
    /\ reserved = 0
    /\ intents = [i \in Intent |-> Nil]
    /\ evidence = [k \in Key |-> Nil]
    /\ sequence = 0
    /\ request = [r \in Request |-> Ended]
    /\ overlaps = {}
    /\ granted = {}
    /\ faults = 0

----------------------------------------------------------------------------
(* A request                                                               *)

Doing(r, step) == request[r].step = step
Goes(r, step) == request' = [request EXCEPT ![r].step = step]
End(r) == request' = [request EXCEPT ![r] = Ended]
Refuse(r, why) ==
    request' = [request EXCEPT ![r] = [Ended EXCEPT !.key = request[r].key,
                                                    !.manifest = request[r].manifest,
                                                    !.answer = why]]

\* The device's signature is accepted for Window after it was made.
Fresh(k, m) == signed[<<k, m>>] # Never /\ now <= signed[<<k, m>>] + Window

\* The client sends a key for the first time or again; verifyDeviceUploadManifest
\* accepts only a recent signature over exactly this request.  Then the current
\* secret is read.
Ask(r) ==
    /\ Doing(r, "idle")
    /\ \E k \in Key, m \in Manifest :
         /\ signed' = [signed EXCEPT ![<<k, m>>] = IF @ = Never THEN now ELSE @]
         /\ signed[<<k, m>>] # Never => Fresh(k, m)
         /\ request' = [request EXCEPT ![r] =
              [@ EXCEPT !.step = "previous", !.key = k, !.manifest = m, !.current = secret,
                        !.answer = Nil]]
    /\ UNCHANGED <<now, secret, dynamo, aurora, history, faults>>

FirstOnlyCurrent(q) == q.current

\* The secret to look under first.
First(q) == IF secret > 1 /\ secret - 1 # q.current THEN secret - 1 ELSE q.current

\* The second read: a rotation in between makes the current secret the
\* previous one, which is then ignored as a duplicate.
LoadPrevious(r) ==
    /\ Doing(r, "previous")
    /\ LET q == request[r]
       IN  request' = [request EXCEPT ![r] =
             [q EXCEPT !.step = "find", !.id = <<First(q), q.key>>, !.at = now]]
    /\ UNCHANGED <<now, secret, signed, dynamo, aurora, history, faults>>

\* Nothing is reserved under this identifier.
Absent(r) ==
    LET q == request[r] IN
    IF SecretOf(q.id) # q.current
    THEN request' = [request EXCEPT ![r].id = <<q.current, q.key>>]
    ELSE IF q.again = "no" THEN Goes(r, "reserve")
    \* the transaction was cancelled by a counter and not by another copy
    ELSE Refuse(r, "limited")

ReadLifecycle(r) ==
    /\ Doing(r, "find")
    /\ IF rows[request[r].id] = Nil
       THEN Absent(r)
       ELSE request' = [request EXCEPT ![r].step = "check", ![r].row = rows[request[r].id]]
    /\ UNCHANGED <<now, secret, signed, dynamo, aurora, history, faults>>

\* The row says what the request says, and so does its request reservation,
\* which is read after it.
Exact(q) ==
    /\ q.row.manifest = q.manifest /\ q.row.status = "issued"
    /\ requestOf[q.id] = q.row.indexed

CheckReservations(r) ==
    LET q == request[r] IN
    /\ Doing(r, "check")
    /\ CASE ~Exact(q) -> Refuse(r, "conflict")
         [] Exact(q) /\ q.row.indexed -> Goes(r, "project")
         [] Exact(q) /\ ~q.row.indexed /\ q.again = "upgraded" -> Refuse(r, "conflict")
         [] OTHER -> Goes(r, "upgrade")
    /\ UNCHANGED <<now, secret, signed, dynamo, aurora, history, faults>>

\* One transaction gives a row of the previous release its maintenance index
\* and TTL; losing the race is settled by the read that follows.
UpgradeLegacy(r) ==
    LET i == request[r].id
        wins == rows[i].status = "issued" /\ ~rows[i].indexed
    IN  /\ Doing(r, "upgrade")
        /\ rows' = IF wins THEN [rows EXCEPT ![i].indexed = TRUE] ELSE rows
        /\ requestOf' = IF wins THEN [requestOf EXCEPT ![i] = TRUE] ELSE requestOf
        /\ request' = [request EXCEPT ![r].step = "find", ![r].again = "upgraded"]
        /\ UNCHANGED <<now, secret, signed, reserved, aurora, history, faults>>

\* The conditions of the reservation's transaction.
Reservable(i) == rows[i] = Nil /\ reserved < DailyLimit

\* The intent a request would issue: this manifest, valid from now on.
Candidate(q) == [manifest |-> q.manifest, expires |-> q.at + Validity, indexed |-> TRUE,
                 status |-> "issued"]

\* One transaction: lifecycle row, reservations and counters.  A cancelled one
\* is settled by reading again.
Reserve(r) ==
    LET q == request[r]
    IN  /\ Doing(r, "reserve")
        /\ IF Reservable(q.id)
           THEN /\ rows' = [rows EXCEPT ![q.id] = Candidate(q)]
                /\ requestOf' = [requestOf EXCEPT ![q.id] = TRUE]
                /\ reserved' = reserved + 1
                /\ request' = [request EXCEPT ![r].step = "project", ![r].row = Candidate(q)]
           ELSE /\ request' = [request EXCEPT ![r].step = "find", ![r].again = "cancelled"]
                /\ UNCHANGED dynamo
        /\ overlaps' = IF \E o \in Request \ {r} : ~Doing(o, "idle") /\ request[o].key = q.key
                       THEN overlaps \cup {q.key}
                       ELSE overlaps
        /\ UNCHANGED <<now, secret, signed, aurora, granted, faults>>

----------------------------------------------------------------------------
(* The projection into Aurora                                              *)

\* create_upload_intent finds the intent: it must be the same and untouched.
Same(i, row) ==
    /\ intents[i].manifest = row.manifest /\ intents[i].expires = row.expires
    /\ intents[i].status = "issued"

NewRepeated(i) == sequence <= KeyOf(i)

\* It does not find it: the device's sequence number and the evidence
\* identifier must both be unused.
New(i) == sequence < KeyOf(i) /\ evidence[KeyOf(i)] = Nil

\* The procedure checks the age of the device's signature first, whether the
\* intent exists or not.
Accepts(i, row) ==
    /\ Fresh(KeyOf(i), row.manifest)
    /\ IF intents[i] = Nil THEN New(i) ELSE Same(i, row)

ProjectRow(i, row) ==
    IF intents[i] # Nil
    THEN UNCHANGED aurora
    ELSE /\ intents' = [intents EXCEPT ![i] = [manifest |-> row.manifest,
                                               expires |-> row.expires, status |-> "issued"]]
         /\ evidence' = [evidence EXCEPT ![KeyOf(i)] = i]
         /\ sequence' = KeyOf(i)

Project(r) ==
    LET q == request[r] IN
    /\ Doing(r, "project")
    /\ IF Accepts(q.id, q.row)
       THEN ProjectRow(q.id, q.row) /\ Goes(r, "complete")
       ELSE UNCHANGED aurora /\ Refuse(r, "rejected")
    /\ UNCHANGED <<now, secret, signed, dynamo, history, faults>>

CapabilityOfRequest(q) == [id |-> q.id, manifest |-> q.manifest, until |-> q.at + Validity]

\* What the URL allows: one object, until the stored expiry of the intent.
Capability(q) == [id |-> q.id, manifest |-> q.manifest, until |-> q.row.expires]

\* Signing hands the URL out: from here on its holder may use it, whether or not
\* the answer arrives.
Presign(q) == granted' = granted \cup {Capability(q)}

\* An intent that has expired meanwhile is refused instead.
Complete(r) ==
    LET q == request[r] IN
    /\ Doing(r, "complete")
    /\ IF now < q.row.expires
       THEN End(r) /\ Presign(q)
       ELSE Refuse(r, "expired") /\ UNCHANGED granted
    /\ UNCHANGED <<now, secret, signed, dynamo, aurora, overlaps, faults>>

\* The invocation dies, or the answer to its last call or its own is lost.
Die(r) ==
    /\ ~Doing(r, "idle") /\ faults < MaxFaults
    /\ faults' = faults + 1
    /\ End(r)
    /\ UNCHANGED <<now, secret, signed, dynamo, aurora, history>>

----------------------------------------------------------------------------
(* The repair worker                                                       *)

\* Every five minutes it projects the rows that are not terminal, in the order
\* of their identifiers, which are hashes; a row that Aurora refuses ends the
\* run.  The mark it leaves on a row only spares the next run the call.
RepairRow(i) ==
    /\ rows[i] # Nil /\ Accepts(i, rows[i])
    /\ ProjectRow(i, rows[i])
    /\ UNCHANGED <<now, secret, signed, dynamo, request, history, faults>>

----------------------------------------------------------------------------
(* The environment                                                         *)

Tick ==
    /\ now < MaxTime
    /\ now' = now + 1
    /\ UNCHANGED <<secret, signed, dynamo, aurora, request, history, faults>>

Rotate ==
    /\ secret < Secrets
    /\ secret' = secret + 1
    /\ UNCHANGED <<now, signed, dynamo, aurora, request, history, faults>>

\* The device makes a later upload, which takes a place of the day's quota and,
\* once it is in Aurora, a higher sequence number.
OtherUpload ==
    /\ sequence <= Keys /\ reserved < DailyLimit
    /\ reserved' = reserved + 1
    /\ sequence' = Keys + 1
    /\ UNCHANGED <<now, secret, signed, rows, requestOf, intents, evidence, request, history, faults>>

\* The object has been uploaded and a promotion claims the intent ...
Take(i) ==
    /\ rows[i] # Nil /\ rows[i].status = "issued"
    /\ \E c \in granted : c.id = i
    /\ rows' = [rows EXCEPT ![i].status = "taken"]
    /\ UNCHANGED <<now, secret, signed, requestOf, reserved, aurora, request, history, faults>>

\* ... and is committed in Aurora.
Accept(i) ==
    /\ rows[i] # Nil /\ rows[i].status = "taken"
    /\ intents[i] # Nil /\ intents[i].status = "issued"
    /\ intents' = [intents EXCEPT ![i].status = "promoted"]
    /\ UNCHANGED <<now, secret, signed, dynamo, evidence, sequence, request, history, faults>>

Issuing(r) ==
    \/ LoadPrevious(r) \/ ReadLifecycle(r) \/ CheckReservations(r)
    \/ UpgradeLegacy(r) \/ Reserve(r) \/ Project(r) \/ Complete(r)

IntentNext ==
    \/ \E r \in Request : Ask(r) \/ Issuing(r) \/ Die(r)
    \/ \E i \in Intent : RepairRow(i) \/ Take(i) \/ Accept(i)
    \/ Tick \/ Rotate \/ OtherUpload

IntentSpec == IntentInit /\ [][IntentNext]_intentVars

----------------------------------------------------------------------------
(* Properties                                                              *)

IntentTypeOK ==
    /\ now \in Time /\ secret \in 1 .. Secrets
    /\ signed \in [Key \X Manifest -> 0 .. Never]
    /\ rows \in [Intent -> Rows \cup {Nil}]
    /\ requestOf \in [Intent -> BOOLEAN]
    /\ reserved \in 0 .. DailyLimit
    /\ intents \in [Intent -> AuroraRows \cup {Nil}]
    /\ evidence \in [Key -> Intent \cup {Nil}]
    /\ sequence \in 0 .. Keys + 1
    /\ request \in [Request -> Requests]
    /\ overlaps \subseteq Key
    /\ granted \subseteq [id : Intent, manifest : Manifest, until : 1 .. MaxTime + Validity]
    /\ faults \in 0 .. MaxFaults

\* The rows are well formed; whoever holds a URL holds it for an intent that both stores know alike: with
\* this manifest and this expiry, indexed for maintenance, and owning the
\* evidence row of its key.
CapabilityIsBacked ==
    /\ IntentTypeOK
    /\ \A c \in granted :
        /\ rows[c.id] # Nil /\ intents[c.id] # Nil
        /\ rows[c.id].manifest = c.manifest /\ intents[c.id].manifest = c.manifest
        /\ rows[c.id].expires = c.until /\ intents[c.id].expires = c.until
        /\ rows[c.id].indexed
        /\ evidence[KeyOf(c.id)] = c.id

\* However often a key is sent, and however the secret is rotated meanwhile,
\* all its capabilities are one: for one object, until one time.
OneCapabilityPerKey ==
    \A c, d \in granted : KeyOf(c.id) = KeyOf(d.id) => c = d

\* The intents of the request's key.
Own(q) == {i \in Intent : KeyOf(i) = q.key /\ rows[i] # Nil}

Others == IF sequence > Keys THEN 1 ELSE 0

\* A request is refused for a reason that its client or the operator gave: the
\* key was used with another manifest, its promotion has begun, another copy was
\* upgrading the same legacy row, as many reservations exist as a day allows, the
\* signature grew old, a later sequence number was used before this one, or a
\* rotation let two copies of the request reserve under two secrets.
RefusalsJustified ==
    \A r \in Request : LET q == request[r] IN
        /\ q.answer = "conflict" =>
             \E i \in Own(q) : \/ rows[i].manifest # q.manifest \/ rows[i].status # "issued"
                               \/ i \in Legacy
        /\ q.answer = "limited" =>
             Cardinality({i \in Intent : rows[i] # Nil}) + Others >= DailyLimit
        /\ q.answer = "rejected" =>
             \/ ~Fresh(q.key, q.manifest)
             \/ sequence > q.key
             \/ Cardinality(Own(q)) > 1 /\ q.key \in overlaps
             \/ \E i \in Own(q) : intents[i] # Nil /\ intents[i].status = "promoted"
        /\ q.answer = "expired" => now >= Validity
==============================================================================
