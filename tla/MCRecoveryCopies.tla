--------------------------- MODULE MCRecoveryCopies ---------------------------
\* RecoveryCopies on a small instance: one version from before replication, one
\* promoted while the reconciler runs, and hold changes on either.
EXTENDS RecoveryCopies
=============================================================================
