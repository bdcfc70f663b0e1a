------------------------ MODULE MCCheckpointDelivery ------------------------
\* CheckpointDelivery on a small instance: one checkpoint with a retry, and two
\* workers that crash and lose answers.
EXTENDS CheckpointDelivery
=============================================================================
