---------------------------- MODULE MCSyncWorker ----------------------------
EXTENDS SyncWorker, TLC
Two == 1..2
Three == 1..3
Alike == Permutations(Workers) \cup Permutations(Jobs)
=============================================================================
