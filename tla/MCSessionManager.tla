-------------------------- MODULE MCSessionManager ---------------------------
\* Two upstream connections and one or two concurrent calls.
EXTENDS SessionManager

CONSTANTS c1, c2, u1, u2, none

TwoConns == {c1, c2}
OneCaller == {u1}
TwoCallers == {u1, u2}
=============================================================================
