---------------------------- MODULE PackageObjects ----------------------------
(* One assessor package: its export_packages row and its objects in R2.    *)
(*                                                                         *)
(* buildAssessorPackage (lib/server/packages.ts) inserts a row, selects the *)
(* approved evidence, puts the encrypted package and publishes it, unless   *)
(* the selection has changed meanwhile.  A publication that is not answered *)
(* may have been made, may not, or may still be under way; the build then   *)
(* settles what happened before it deletes anything.  Published packages    *)
(* are rotated and reconciled by the statements evidence is rotated by      *)
(* (lib/server/key-operations.ts), over another table, and retention purges *)
(* them under a lease (lib/server/retention.ts).                            *)
EXTENDS EvidenceObjects

VARIABLES
    changed,    \* the assessment or its evidence changed since the selection
    late        \* a publication without an answer, still under way

pvars == <<vars, changed, late>>

NoLate == [key |-> None, epoch |-> 0, t |-> 0]

PackageInit == Init /\ changed = FALSE /\ late = NoLate

Unrelated == <<hold, closed, active, now, undone, stray, crashes>>

-----------------------------------------------------------------------------
(* buildAssessorPackage                                                    *)

\* The row is inserted before the work that may fail is guarded: when this
\* answer is lost, the row stays "building".
RequestPackage(w) ==
    /\ "package" \in tasks /\ At(w, "idle") /\ row.status = "absent"
    /\ \/ row' = [row EXCEPT !.status = "building"] /\ Goto(w, "select") /\ NoFault
       \/ row' \in {row, [row EXCEPT !.status = "building"]} /\ UNCHANGED local /\ Fault
    /\ UNCHANGED <<latest, objects, Unrelated, nextKey, changed, late>>

\* The evidence is counted, selected and read; a call that fails, or a
\* selection that changes between the two, ends the build before any object is
\* written.
SelectEvidence(w) ==
    /\ At(w, "select")
    /\ \/ KeyLeft
          /\ local' = [local EXCEPT ![w] = [Idle EXCEPT !.pc = "putPackage", !.key = nextKey]]
          /\ nextKey' = nextKey + 1 /\ NoFault
       \/ changed /\ Goto(w, "fail") /\ UNCHANGED nextKey /\ NoFault
       \/ Goto(w, "fail") /\ UNCHANGED nextKey /\ Fault
    /\ UNCHANGED <<Data, Unrelated, changed, late>>

\* The expiry is bound between this call and the publication.
PutPackage(w) ==
    /\ At(w, "putPackage")
    /\ \/ /\ objects' = With(local[w].key, active)
          /\ local' = [local EXCEPT ![w] = [@ EXCEPT !.pc = "publish", !.to = active, !.t = now]]
          /\ NoFault
       \/ objects' \in {objects, With(local[w].key, active)} /\ Goto(w, "fail") /\ Fault
    /\ UNCHANGED <<row, latest, Unrelated, nextKey, changed, late>>

\* The publication's conditions: nobody failed the row, and every occurrence
\* and the scope are as they were selected.
Publishable == row.status = "building" /\ ~changed

PublishRow(key, epoch, t) ==
    row' = [row EXCEPT !.status = "live", !.r2 = key, !.epoch = epoch, !.expires = t + Validity]

\* One that is not answered was refused, was made, or is under way, which is
\* not counted among the faults: a package is published once.
Publish(w) ==
    /\ At(w, "publish")
    /\ \/ /\ Publishable /\ PublishRow(local[w].key, local[w].to, local[w].t)
          /\ \/ Done(w) /\ NoFault
             \/ Goto(w, "fail") /\ Fault
          /\ UNCHANGED late
       \/ /\ UNCHANGED row /\ Goto(w, "fail")
          /\ \/ ~Publishable /\ NoFault /\ UNCHANGED late
             \/ Fault /\ UNCHANGED late
             \/ /\ NoFault
                /\ late' = [key |-> local[w].key, epoch |-> local[w].to, t |-> local[w].t]
    /\ UNCHANGED <<latest, objects, Unrelated, nextKey, changed>>

LatePublication ==
    /\ late # NoLate
    /\ IF Publishable THEN PublishRow(late.key, late.epoch, late.t) ELSE UNCHANGED row
    /\ late' = NoLate
    /\ UNCHANGED <<latest, objects, Unrelated, nextKey, local, faults, changed>>

\* Whatever went wrong, a row that is still "building" becomes "failed"; that
\* call's own failure is swallowed.
FailPackage(w) ==
    /\ At(w, "fail")
    /\ \/ /\ row' = IF row.status = "building" THEN [row EXCEPT !.status = "failed"] ELSE row
          /\ NoFault
       \/ row.status = "building" /\ UNCHANGED row /\ Fault
    /\ IF local[w].key = None THEN Done(w) ELSE Goto(w, "settle")
    /\ UNCHANGED <<latest, objects, Unrelated, nextKey, changed, late>>

\* classifyPackagePublication: the row is exactly the one this build expects, or
\* names its object, or does not.
Published(w) ==
    /\ local[w].to # 0 /\ Live
    /\ row.r2 = local[w].key /\ row.epoch = local[w].to /\ row.expires = local[w].t + Validity
Unreferenced(w) == ~Published(w) /\ row.r2 # local[w].key

\* authoritativePackagePublicationDisposition; an unavailable read proves
\* nothing, and neither does a row that names the object.
SettlePublication(w) ==
    /\ At(w, "settle")
    /\ \/ Unreferenced(w) /\ Goto(w, "prove") /\ NoFault
       \/ ~Unreferenced(w) /\ Done(w) /\ NoFault
       \/ Done(w) /\ Fault
    /\ UNCHANGED <<Data, Unrelated, nextKey, changed, late>>

\* Mutant: a row that does not name the object is proof enough.
TakeForProven(w) ==
    /\ At(w, "prove")
    /\ Goto(w, "discard")
    /\ UNCHANGED <<Data, Unrelated, nextKey, faults, changed, late>>

\* Only a row that has failed can no longer be published by a call under way.
ProveLoser(w) ==
    /\ At(w, "prove")
    /\ \/ row.status = "failed" /\ row.r2 # local[w].key /\ Goto(w, "discard") /\ NoFault
       \/ ~(row.status = "failed" /\ row.r2 # local[w].key) /\ Done(w) /\ NoFault
       \/ Done(w) /\ Fault
    /\ UNCHANGED <<Data, Unrelated, nextKey, changed, late>>

DiscardCandidate(w) ==
    /\ At(w, "discard")
    /\ \/ objects' = Without({local[w].key}) /\ NoFault
       \/ UNCHANGED objects /\ Fault
    /\ Done(w)
    /\ UNCHANGED <<row, latest, Unrelated, nextKey, changed, late>>

Build(w) ==
    \/ RequestPackage(w) \/ SelectEvidence(w) \/ PutPackage(w) \/ Publish(w) \/ FailPackage(w)
    \/ SettlePublication(w) \/ ProveLoser(w) \/ DiscardCandidate(w)

-----------------------------------------------------------------------------
(* rotatePackageObject and the packages' part of reconcileRotationGarbage: *)
(* step by step those of evidence, with "ready" for its live statuses.     *)

RotatePackage(w) == Rotate(w) /\ UNCHANGED <<changed, late>>
CleanUpPackage(w) == CleanUp(w) /\ UNCHANGED <<changed, late>>

-----------------------------------------------------------------------------
(* The packages' part of purgeExpiredEvidence                              *)

Purgeable(t) == Live /\ row.expires <= t /\ Unleased(t)

SelectExpiredPackage(w) ==
    /\ "retire" \in tasks /\ At(w, "idle") /\ Purgeable(now)
    /\ local' = [local EXCEPT ![w] = [Idle EXCEPT !.pc = "claimPurge", !.t = now,
                                         !.doomed = {row.r2, row.pending, row.previous} \ {None}]]
    /\ UNCHANGED <<Data, Setting, faults, changed, late>>

\* The lease keeps rotations and reconcilers away; what the row names is not
\* compared with what was selected.
ClaimPurge(w) ==
    /\ At(w, "claimPurge")
    /\ \/ /\ Purgeable(local[w].t)
          /\ row' = [row EXCEPT !.lease = <<w, None>>, !.until = local[w].t + LeaseTime]
          /\ \/ Goto(w, "shredPackage") /\ NoFault
             \/ Done(w) /\ Fault
       \/ ~Purgeable(local[w].t) /\ Done(w) /\ UNCHANGED row /\ NoFault
       \/ UNCHANGED row /\ Done(w) /\ Fault
    /\ UNCHANGED <<latest, objects, Setting, changed, late>>

PurgeLeased(w) == Live /\ row.lease = <<w, None>>

\* A delete that fails gives the lease back.
ShredPackage(w) ==
    /\ At(w, "shredPackage")
    /\ \/ \E k \in local[w].doomed :
            /\ objects' = Without({k})
            /\ local' = [local EXCEPT ![w] = [@ EXCEPT !.doomed = local[w].doomed \ {k}]]
            /\ NoFault
       \/ local[w].doomed = {} /\ Goto(w, "retire") /\ UNCHANGED objects /\ NoFault
       \/ local[w].doomed # {} /\ Goto(w, "unlock") /\ UNCHANGED objects /\ Fault
    /\ UNCHANGED <<row, latest, Setting, changed, late>>

UnlockPackage(w) ==
    /\ At(w, "unlock")
    /\ \/ /\ row' = IF PurgeLeased(w) THEN [row EXCEPT !.lease = Free, !.until = 0] ELSE row
          /\ NoFault
       \/ UNCHANGED row /\ Fault
    /\ Done(w)
    /\ UNCHANGED <<latest, objects, Setting, changed, late>>

RetirePackage(w) ==
    /\ At(w, "retire")
    /\ \/ /\ row' = IF PurgeLeased(w)
                    THEN [row EXCEPT !.status = "failed", !.r2 = None, !.pending = None,
                                     !.previous = None, !.lease = Free, !.until = 0]
                    ELSE row
          /\ NoFault
       \/ UNCHANGED row /\ Fault
    /\ Done(w)
    /\ UNCHANGED <<latest, objects, Setting, changed, late>>

Retire(w) ==
    \/ SelectExpiredPackage(w) \/ ClaimPurge(w) \/ ShredPackage(w) \/ UnlockPackage(w)
    \/ RetirePackage(w)

-----------------------------------------------------------------------------
\* The assessment or its evidence changes while the package is being built.
SelectionChanges ==
    /\ "package" \in tasks /\ ~changed /\ row.status = "building"
    /\ changed' = TRUE
    /\ UNCHANGED <<Data, Setting, local, faults, late>>

PackageStep(w) == Build(w) \/ RotatePackage(w) \/ CleanUpPackage(w) \/ Retire(w)

PackageNext ==
    \/ "package" \notin tasks /\ Next /\ UNCHANGED <<changed, late>>
    \/ /\ "package" \in tasks /\ UNCHANGED tasks
       /\ \/ SelectionChanges \/ LatePublication
          \/ \E w \in Worker : PackageStep(w)
          \/ World /\ UNCHANGED <<changed, late>>

\* Both kinds of artifact; which one a behaviour follows is chosen in tasks.
PackageSpec == PackageInit /\ [][PackageNext]_pvars
=============================================================================
