---------------------------- MODULE MCRangeWalk -----------------------------
\* Finite instances of RangeWalk.
EXTENDS RangeWalk

\* The masks there are; a /32 is 1.
PowersOfTwo == {1, 2, 4, 8, 16, 32, 64}
=============================================================================
