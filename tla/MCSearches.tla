----------------------------- MODULE MCSearches -----------------------------
EXTENDS Searches

MCKeys == 0 .. 3
=============================================================================
