------------------------- MODULE MCEvidenceObjects --------------------------
(* Model-checking instances of EvidenceObjects: workers are                *)
(* interchangeable, and an object is evidence under rotation with its      *)
(* reconcilers, evidence under retention, or an assessor package.          *)
EXTENDS PackageObjects, TLC

Rotation == {"store", "renew", "review", "rotate", "reconcile"}
Retention == {"store", "rotate", "purge", "hold"}
Packages == {"package", "rotate", "reconcile", "retire"}
Settings == {Rotation, Retention, Packages}

Perms == Permutations(Worker)
=============================================================================
