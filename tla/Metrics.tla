------------------------------- MODULE Metrics -------------------------------
(***************************************************************************)
(* The counters of metrics.go that are related to each other.  Each is an  *)
(* atomic word: a goroutine adds to one after the other, and a scrape of   *)
(* /metrics loads one after the other, with everything else in between.    *)
(* The gauges, the latency sum and the other totals are compared with no   *)
(* other counter and are left out.                                         *)
(***************************************************************************)
EXTENDS Integers, Sequences

CONSTANT Bounds     \* upper bounds of the latency buckets, in units of the clock

ASSUME BoundsAssumption ==
    /\ Bounds \in Seq(Nat)
    /\ \A i, j \in DOMAIN Bounds : i < j => Bounds[i] < Bounds[j]

Buckets == DOMAIN Bounds
Le(i) == <<"le", i>>
Sent == <<"sent">>
Failed == <<"failed">>
Dropped == <<"dropped">>
Session == <<"session">>        \* the entry of droppedBySession
Count == <<"count">>
Counters == {Sent, Failed, Dropped, Session, Count} \union {Le(i) : i \in Buckets}

VARIABLES
    counter,    \* the atomic words
    loads,      \* what the scrape in progress has still to load
    page        \* what it has loaded; complete when nothing is left to load

EmptyPage == [c \in Counters |-> 0]

MetricsInit ==
    /\ counter = [c \in Counters |-> 0]
    /\ loads = {}
    /\ page = EmptyPage

\* The counters an observation has still to add to, and the order of its Adds.
AddRank(c) == CASE c \in {Count, Dropped} -> 0
                [] c = Session -> 1
                [] OTHER -> c[2]

NextAdd(c, adds) == c \in adds /\ \A d \in adds : AddRank(c) <= AddRank(d)

Perform(c, n) == counter' = [counter EXCEPT ![c] = @ + n]

\* Mutant of Observe: the bounds are exclusive.
ObserveBelow(elapsed) == {Count} \union {Le(i) : i \in {j \in Buckets : elapsed < Bounds[j]}}

\* ObserveQueueSendLatency: count, (sum,) then every bucket that covers elapsed.
Observe(elapsed) == {Count} \union {Le(i) : i \in {j \in Buckets : elapsed <= Bounds[j]}}

\* AddQueueDropped and AddQueueDroppedForSession, which ignores a zero.
CountDropped(n) == IF n > 0 THEN {Dropped, Session} ELSE {}
-----------------------------------------------------------------------------
\* Mutant of LoadRank: the histogram first.
LoadRankHistogramFirst(c) == CASE c = Count -> 0
                               [] c = Session -> 1 + Len(Bounds)
                               [] c = Sent -> 2 + Len(Bounds)
                               [] c = Failed -> 3 + Len(Bounds)
                               [] c = Dropped -> 4 + Len(Bounds)
                               [] OTHER -> c[2]

\* Snapshot loads the session map first and the histogram last.
LoadRank(c) == CASE c = Session -> 0
                 [] c = Sent -> 1
                 [] c = Failed -> 2
                 [] c = Dropped -> 3
                 [] c = Count -> 4 + Len(Bounds)
                 [] OTHER -> 3 + c[2]

ScrapeBegins ==
    /\ loads = {}
    /\ loads' = Counters
    /\ page' = EmptyPage
    /\ UNCHANGED counter

Load ==
    \E c \in loads :
        /\ \A d \in loads : LoadRank(c) <= LoadRank(d)
        /\ page' = [page EXCEPT ![c] = counter[c]]
        /\ loads' = loads \ {c}
        /\ UNCHANGED counter
==============================================================================
