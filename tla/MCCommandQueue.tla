--------------------------- MODULE MCCommandQueue ----------------------------
\* Three generations, two concurrent stoppers, three commands through a
\* queue of two: a full queue, a stop with a command in hand, a restart while
\* the stopped generation still runs.
EXTENDS CommandQueue

CONSTANTS g1, g2, g3, none, p1, p2

ThreeGens == {g1, g2, g3}
MCStoppers == {p1, p2}
=============================================================================
