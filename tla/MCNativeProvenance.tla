-------------------------- MODULE MCNativeProvenance --------------------------
EXTENDS NativeProvenance, TLC
CONSTANTS d1, d2, c1, c2, fork, other, k1, k2

ChainFacts ==
    c1 :> [device |-> d1, sequence |-> 1, previous |-> DeviceGenesis, key |-> k1]
    @@ c2 :> [device |-> d1, sequence |-> 2, previous |-> c1, key |-> k1]
    @@ fork :> [device |-> d1, sequence |-> 1, previous |-> DeviceGenesis, key |-> k1]
    @@ other :> [device |-> d2, sequence |-> 1, previous |-> DeviceGenesis, key |-> k2]

Scenario(captures, workers, count, limit, kinds, mishaps) ==
    [captures |-> captures, workers |-> workers, uploads |-> count,
     changes |-> limit, kinds |-> kinds, faults |-> mishaps, left |-> {}]

\* Two captures for the same link.
Rivals == Scenario({c1, fork}, {1, 2}, 2, 0, {}, 0)
\* Two attempts at one capture, one of which may fail.
Retried == Scenario({c1}, {1, 2}, 2, 0, {}, 1)
\* ... while the device is revoked,
Revoked == Scenario({c1}, {1, 2}, 2, 1, {"revoke"}, 0)
\* ... a reviewer returns and reopens what is not yet linked, or approves,
Reviewed == Scenario({c1}, {1, 2}, 2, 2, {"review"}, 0)
\* ... the owner is suspended, comes back, or is revoked for good,
Suspended == Scenario({c1}, {1, 2}, 2, 2, {"member"}, 0)
\* ... or the next assessment is opened.
Reassessed == Scenario({c1}, {1, 2}, 2, 1, {"assessment"}, 0)
\* The next capture follows while the first may still be under way.
Growing == Scenario({c1, c2}, {1, 2}, 2, 0, {}, 0)
Failing == Scenario({c1, c2}, {1}, 3, 0, {}, 1)
\* A capture stored for two assessments keeps its device's reservation.
Poisoned == [Scenario({c1, other}, {1}, 3, 0, {}, 1) EXCEPT !.left = {<<c1, 1>>, <<c1, 2>>}]
AllScenarios == {Rivals, Retried, Revoked, Reviewed, Suspended, Reassessed, Growing, Failing, Poisoned}
==============================================================================
