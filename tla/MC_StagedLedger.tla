-------------------------- MODULE MC_StagedLedger --------------------------
EXTENDS StagedLedger, TLC

CONSTANTS k1, k2, v1, v2

MCKeys == {k1, k2}
MCVals == {v1, v2}
\* The store holds one committed record when the block sequence starts.
MCInitDb == k1 :> v1
=============================================================================
