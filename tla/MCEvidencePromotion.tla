------------------------ MODULE MCEvidencePromotion ------------------------
(* Model-checking instance of EvidencePromotion: messages are              *)
(* interchangeable, and so are the versions that may be promoted.          *)
EXTENDS EvidencePromotion, TLC

Perms == {p @@ q : p \in Permutations(Message), q \in Permutations(Version \ Threat)}
=============================================================================
