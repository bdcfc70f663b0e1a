---------------------------- MODULE JobLifecycle ----------------------------
(* What a collection job promises to whoever reads its row and the audit    *)
(* log (lib/server/jobs.ts, db/schema.ts): its status only changes together *)
(* with an event that names the new status, along the transitions below,    *)
(* and a job that has ended stays ended.                                    *)
EXTENDS Sequences

VARIABLES
    status,     \* of the collection_jobs row, "absent" before it is queued
    log         \* the collection.* audit events of the job, oldest first

Statuses == {"absent", "queued", "running", "retrying", "completed", "partial", "failed"}
Ended == {"completed", "partial", "failed"}

\* The event of every transition, the statuses it may leave and the one it enters.
Events == {"queued", "started", "retry_scheduled", "completed", "partial", "failed",
           "disabled", "authorization_revoked"}
From(e) ==
    IF e = "queued" THEN {"absent"}
    ELSE IF e \in {"started", "disabled", "authorization_revoked"} THEN {"queued", "running", "retrying"}
    ELSE {"running"}
To(e) ==
    IF e = "started" THEN "running"
    ELSE IF e = "retry_scheduled" THEN "retrying"
    ELSE IF e \in {"disabled", "authorization_revoked"} THEN "failed"
    ELSE e

Init == status = "absent" /\ log = <<>>

Change(e) ==
    /\ status \in From(e)
    /\ status' = To(e)
    /\ log' = Append(log, e)

\* A run that lost its job may still record a failure the job already has.
Echo(e) ==
    /\ e \in {"retry_scheduled", "failed"} /\ status = To(e)
    /\ UNCHANGED status
    /\ log' = Append(log, e)

Next == \E e \in Events : Change(e) \/ Echo(e)
Spec == Init /\ [][Next]_<<status, log>>
=============================================================================
