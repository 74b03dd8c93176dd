-------------------------------- MODULE MCHub --------------------------------
\* With one browser, two gateway goroutines that publish: one often enough to
\* fill the buffer and go on, one overlapping it.  With two browsers, what
\* their own handlers broadcast.
EXTENDS Hub

CONSTANTS w1, w2, g1, g2, none

TwoClients == {w1, w2}
TwoPublishers == {g1, g2}
ThreeAndOne == [p \in TwoPublishers |-> [n \in 0..2 |->
                    IF n = 2 THEN 0 ELSE IF p = g1 THEN 3 ELSE 1]]
=============================================================================
