--------------------------- MODULE EvidenceCustody ---------------------------
(* What the promotion of an upload promises of custody: the bytes of a      *)
(* version are somewhere at every moment.  At most one version is copied to *)
(* locked evidence, the copy stays, one acceptance is signed for it, and    *)
(* the quarantined version is given up only after the acceptance is         *)
(* published.                                                               *)
CONSTANTS Version, None

VARIABLES
    held,       \* quarantined versions
    copy,       \* the version that is locked evidence
    accepted,   \* the version whose promotion was accepted
    published   \* versions whose recovery receipt is published

vars == <<held, copy, accepted, published>>

Init == held = Version /\ copy = None /\ accepted = None /\ published = {}

Keep(v) ==
    /\ copy = None /\ v \in held
    /\ copy' = v
    /\ UNCHANGED <<held, accepted, published>>

Accept(v) ==
    /\ accepted = None /\ copy = v
    /\ accepted' = v
    /\ UNCHANGED <<held, copy, published>>

Publish(v) ==
    /\ accepted = v /\ v \notin published
    /\ published' = published \union {v}
    /\ UNCHANGED <<held, copy, accepted>>

Release(v) ==
    /\ v \in held \intersect published
    /\ held' = held \ {v}
    /\ UNCHANGED <<copy, accepted, published>>

Next == \E v \in Version : Keep(v) \/ Accept(v) \/ Publish(v) \/ Release(v)

Spec == Init /\ [][Next]_vars
=============================================================================
