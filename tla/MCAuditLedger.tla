--------------------------- MODULE MCAuditLedger ----------------------------
(* Model-checking instance of AuditVerification over AuditLedger: clients    *)
(* are interchangeable, and so are rows.  The ledger alone is explored to    *)
(* MaxAlone calls of every kind; beside checkpoints and verifications, which *)
(* only read the log, one client appends MaxVerified events.                 *)
EXTENDS AuditVerification, TLC

CONSTANTS MaxAlone, MaxVerified

Perms == Permutations(Client) \union Permutations(Row)
             \union Permutations(Verifier)

CallsMade == MapThenSumSet(LAMBDA c : call[c].number, Client)
Alone == /\ \A n \in Sequences : delivery[n] = "none"
         /\ \A v \in Verifier : at[v] = "idle" /\ answer[v] = NoVerdict
Appending == /\ faults = 0
             /\ \A c \in Client : call[c].kind = "plain" /\ call[c].want = {}
             /\ \E c \in Client : \A d \in Client \ {c} : call[d].number = 0
Bounded == \/ Alone /\ CallsMade <= MaxAlone
           \/ Appending /\ CallsMade <= MaxVerified
=============================================================================
