-------------------------- MODULE MCCollectionJobs --------------------------
(* CollectionJobs for TLC: interchangeable invocations.                     *)
EXTENDS CollectionJobs, TLC
Perms == Permutations(Worker)
=============================================================================
