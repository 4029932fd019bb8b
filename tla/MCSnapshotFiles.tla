-------------------------- MODULE MCSnapshotFiles --------------------------
EXTENDS SnapshotFiles

MCSnapCounts == {0, 1, 2}
=============================================================================
