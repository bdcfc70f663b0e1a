---------------------------- MODULE MCJiraUpload ----------------------------
(* Model-checking instance of JiraUpload: requests are interchangeable.     *)
EXTENDS JiraUpload, TLC

Perms == Permutations(Worker)
=============================================================================
