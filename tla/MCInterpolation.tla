--------------------------- MODULE MCInterpolation ---------------------------
EXTENDS InterpolationSearch

MCKeys == 0 .. KeyRange - 1
=============================================================================
