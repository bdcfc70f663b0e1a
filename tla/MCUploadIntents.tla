---------------------------- MODULE MCUploadIntents ----------------------------
(* One key or two, sent with two manifests by two overlapping invocations    *)
(* while the secret is rotated once.                                         *)
EXTENDS UploadIntents, TLC

LegacyFirst == {<<1, 1>>}
NoLegacy == {}
Perms == Permutations(Request)
==============================================================================
