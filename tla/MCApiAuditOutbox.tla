--------------------------- MODULE MCApiAuditOutbox ---------------------------
(* Three audited operations, one of them a row the signer cannot parse, one  *)
(* event of the legal-hold worker and two signer invocations.                *)
EXTENDS ApiAuditOutbox, TLC

\* A row meets at most MaxFaults failures of its own and one conflict with each
\* other event of the chain: four attempts outlast them, as eight do in the code.
AttemptsOutlastFaults == MaxFaults + Cardinality((Key \ Poison) \cup Foreign) - 1 < MaxAttempts
ASSUME AttemptsOutlastFaults
==============================================================================
