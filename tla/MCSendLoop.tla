----------------------------- MODULE MCSendLoop ------------------------------
\* Two buckets: a send within the same unit of the clock, and within one more.
EXTENDS SendLoop

TwoBounds == <<0, 1>>
=============================================================================
