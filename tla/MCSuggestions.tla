---------------------------- MODULE MCSuggestions ----------------------------
\* Two readers that overlap around a reconnect and one cancelling handler.
EXTENDS Suggestions

CONSTANTS r1, r2, h1

TwoFeeders == {r1, r2}
OneFeeder == {r1}
OneCanceller == {h1}
=============================================================================
