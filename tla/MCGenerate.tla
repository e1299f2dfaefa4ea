----------------------------- MODULE MCGenerate -----------------------------
EXTENDS Generate

MCKeys == 0 .. 3
=============================================================================
