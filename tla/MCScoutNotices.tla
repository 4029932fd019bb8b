--------------------------- MODULE MCScoutNotices ---------------------------
EXTENDS ScoutNotices, TLC

Symmetric == Permutations(Pages)
=============================================================================
