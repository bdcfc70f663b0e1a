------------------------------- MODULE Ledger -------------------------------
(* What executeAuditedBatch (lib/server/audit.ts) promises its callers: a  *)
(* serial journal in which every change of a row and the event describing  *)
(* it appear together, once per call.                                      *)
EXTENDS Sequences, Naturals

CONSTANTS
    Row,        \* database rows that audited mutations change
    Call,       \* calls of executeAuditedBatch
    Untouched   \* the writer of a row nobody has changed

VARIABLES
    journal,    \* committed events, oldest first
    writer      \* the call that last changed each row

Entry == [call : Call, rows : SUBSET Row]

Init ==
    /\ journal = <<>>
    /\ writer = [r \in Row |-> Untouched]

\* One call commits: its event and the rows it describes, in one step.
Commit(c, rows) ==
    /\ \A i \in DOMAIN journal : journal[i].call # c
    /\ journal' = Append(journal, [call |-> c, rows |-> rows])
    /\ writer' = [r \in Row |-> IF r \in rows THEN c ELSE writer[r]]

Next == /\ Len(journal') > Len(journal)
        /\ \E c \in Call, rows \in SUBSET Row : Commit(c, rows)
Spec == Init /\ [][Next]_<<journal, writer>>
=============================================================================
