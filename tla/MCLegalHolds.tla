----------------------------- MODULE MCLegalHolds -----------------------------
\* LegalHolds on a small instance: a hold set, released and set again.
EXTENDS LegalHolds
=============================================================================
