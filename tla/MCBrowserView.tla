---------------------------- MODULE MCBrowserView ----------------------------
\* A page, another client of the API, and two goroutines in a call.
EXTENDS BrowserView

CONSTANTS a1, a2

TwoCalls == {a1, a2}
=============================================================================
