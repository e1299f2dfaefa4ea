-------------------------- MODULE MCWritePartition --------------------------
EXTENDS WritePartition

MCKeys == 0 .. 2
=============================================================================
