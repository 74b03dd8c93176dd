------------------------------ MODULE SendLoop -------------------------------
(***************************************************************************)
(* The sender goroutine of queue.go against the clock, and what it and     *)
(* StopAndDrop tell the metrics.  CommandQueue has the queue's channels    *)
(* and the fate of each command; here commands are counted, the ticker     *)
(* ticks, sends take time, and a scrape reads the counters meanwhile.      *)
(*                                                                         *)
(* A ticker's channel buffers one tick and drops the rest.  A goroutine    *)
(* may be as late as the scheduler likes.                                  *)
(***************************************************************************)
EXTENDS Metrics, FiniteSets

CONSTANTS
    Interval,       \* the queue's interval, in units of the clock
    MaxDepth,       \* the queue's limit
    MaxGens,        \* bound of the model: senders ever started
    MaxCommands,    \* bound of the model: commands ever accepted
    MaxScrapeTime,  \* bound of the model: when scrapes may begin
    MaxTime,        \* bound of the model: the clock
    SlowScrapes     \* bound of the model: whether a scrape may outlast a unit

ASSUME SendLoopAssumption ==
    /\ Interval \in Nat \ {0}
    /\ MaxDepth \in Nat /\ MaxGens \in Nat /\ MaxCommands \in Nat
    /\ MaxScrapeTime \in Nat /\ MaxTime \in Nat
    /\ SlowScrapes \in BOOLEAN

Gens == 1..MaxGens
NotStarted == [at |-> "off", born |-> 0, next |-> 0, stopped |-> FALSE, ticked |-> FALSE,
               start |-> 0, adds |-> {}, writes |-> <<>>]

VARIABLES
    now,
    queued,     \* len(q.commands)
    running,    \* the sender that q.stopCh belongs to; 0 when q.running is false
    latest,     \* the number of senders started
    gen,        \* each sender: where it is, its ticker, its current send, the
                \* counters it has still to touch, and (history) when it wrote
    stopper,    \* for each sender, the StopAndDrop that stopped it: the counters
                \* it has still to touch, and how many commands it dropped
    accepted,   \* history: commands accepted
    uncounted,  \* history: commands dropped while no sender ran
    covered     \* history: for each bucket, the sends it should count

queueVars == <<queued, running, latest, stopper, accepted, uncounted>>
vars == <<counter, loads, page, now, gen, covered, queueVars>>

Init ==
    /\ MetricsInit
    /\ now = 0
    /\ queued = 0
    /\ running = 0
    /\ latest = 0
    /\ gen = [g \in Gens |-> NotStarted]
    /\ stopper = [g \in Gens |-> [adds |-> {}, n |-> 0]]
    /\ accepted = 0
    /\ uncounted = 0
    /\ covered = [i \in Buckets |-> 0]
-----------------------------------------------------------------------------
Enqueue ==
    /\ queued < MaxDepth /\ accepted < MaxCommands
    /\ queued' = queued + 1
    /\ accepted' = accepted + 1
    /\ UNCHANGED <<counter, loads, page, now, gen, covered, running, latest, stopper, uncounted>>

Start ==
    /\ running = 0 /\ latest < MaxGens
    /\ running' = latest + 1
    /\ latest' = latest + 1
    /\ gen' = [gen EXCEPT ![latest + 1].at = "waiting", ![latest + 1].born = now,
                          ![latest + 1].next = now + Interval]
    /\ UNCHANGED <<counter, loads, page, now, covered, queued, stopper, accepted, uncounted>>

\* Mutant of StopAndDrop: the dropped commands stay in the queue.
StopAndDropKeeps ==
    /\ running # 0
    /\ stopper' = [stopper EXCEPT ![running] = [adds |-> CountDropped(queued), n |-> queued]]
    /\ gen' = [gen EXCEPT ![running].stopped = TRUE]
    /\ running' = 0
    /\ UNCHANGED <<counter, loads, page, now, covered, queued, latest, accepted, uncounted>>

\* Under q.mu, up to the wait for doneCh.
StopAndDrop ==
    /\ running # 0
    /\ stopper' = [stopper EXCEPT ![running] = [adds |-> CountDropped(queued), n |-> queued]]
    /\ gen' = [gen EXCEPT ![running].stopped = TRUE]
    /\ running' = 0
    /\ queued' = 0
    /\ UNCHANGED <<counter, loads, page, now, covered, latest, accepted, uncounted>>

\* No sender: the early return, before the metrics.
StopAndDropReturnsEarly ==
    /\ running = 0 /\ queued > 0
    /\ queued' = 0
    /\ uncounted' = uncounted + queued
    /\ UNCHANGED <<counter, loads, page, now, gen, covered, running, latest, stopper, accepted>>

\* The StopAndDrop that stopped g goes on after <-doneCh; another one may have
\* stopped the next sender meanwhile.
StopperCounts(g) ==
    /\ gen[g].at = "done"
    /\ \E c \in stopper[g].adds :
        /\ NextAdd(c, stopper[g].adds)
        /\ Perform(c, stopper[g].n)
        /\ stopper' = [stopper EXCEPT ![g].adds = @ \ {c}]
    /\ UNCHANGED <<loads, page, now, gen, covered, queued, running, latest, accepted, uncounted>>
-----------------------------------------------------------------------------
\* case <-ticker.C: pop finds nothing, or a command whose send begins.
TickFindsNothing(g) ==
    /\ gen[g].at = "waiting" /\ gen[g].ticked
    /\ queued = 0
    /\ gen' = [gen EXCEPT ![g].ticked = FALSE]
    /\ UNCHANGED <<counter, loads, page, now, covered, queueVars>>

\* Mutant of TickSends: one tick empties the queue.
TickSendsAll(g) ==
    /\ gen[g].at = "waiting" /\ gen[g].ticked
    /\ queued > 0
    /\ queued' = queued - 1
    /\ gen' = [gen EXCEPT ![g].at = "sending", ![g].start = now]
    /\ UNCHANGED <<counter, loads, page, now, covered, running, latest, stopper, accepted, uncounted>>

TickSends(g) ==
    /\ gen[g].at = "waiting" /\ gen[g].ticked
    /\ queued > 0
    /\ queued' = queued - 1
    /\ gen' = [gen EXCEPT ![g].ticked = FALSE, ![g].at = "sending", ![g].start = now]
    /\ UNCHANGED <<counter, loads, page, now, covered, running, latest, stopper, accepted, uncounted>>

Wrote(g) == [gen[g] EXCEPT !.start = 0, !.writes = Append(@, now)]

\* The step includes the first counter touched: sent, or failed.
SendSucceeds(g) ==
    /\ gen[g].at = "sending"
    /\ LET elapsed == now - gen[g].start IN
        /\ gen' = [gen EXCEPT ![g] = [Wrote(g) EXCEPT !.at = "counting", !.adds = Observe(elapsed)]]
        /\ covered' = [i \in Buckets |-> covered[i] + (IF elapsed <= Bounds[i] THEN 1 ELSE 0)]
    /\ Perform(Sent, 1)
    /\ UNCHANGED <<loads, page, now, queueVars>>

SendFails(g) ==
    /\ gen[g].at = "sending"
    /\ gen' = [gen EXCEPT ![g] = [Wrote(g) EXCEPT !.at = "waiting"]]
    /\ Perform(Failed, 1)
    /\ UNCHANGED <<loads, page, now, covered, queueVars>>

Counts(g) ==
    /\ gen[g].at = "counting"
    /\ \E c \in gen[g].adds :
        /\ NextAdd(c, gen[g].adds)
        /\ Perform(c, 1)
        /\ gen' = [gen EXCEPT ![g].adds = @ \ {c},
                              ![g].at = IF gen[g].adds = {c} THEN "waiting" ELSE @]
    /\ UNCHANGED <<loads, page, now, covered, queueVars>>

\* case <-stopCh; with a tick in the buffer the select may take either.
StopSeen(g) ==
    /\ gen[g].at = "waiting" /\ gen[g].stopped
    /\ gen' = [gen EXCEPT ![g].at = "done", ![g].ticked = FALSE, ![g].next = 0]
    /\ UNCHANGED <<counter, loads, page, now, covered, queueVars>>
-----------------------------------------------------------------------------
\* Each ticker puts a tick in its channel every Interval, if there is room.
Ticked(g, t) ==
    IF gen[g].at \notin {"off", "done"} /\ gen[g].next = t
    THEN [gen[g] EXCEPT !.ticked = TRUE, !.next = @ + Interval]
    ELSE gen[g]

\* A page is kept until the clock advances, an incomplete one for as long as its
\* scrape takes.
Advance ==
    /\ now < MaxTime
    /\ loads = {} \/ SlowScrapes
    /\ now' = now + 1
    /\ gen' = [g \in Gens |-> Ticked(g, now + 1)]
    /\ page' = IF loads = {} THEN EmptyPage ELSE page
    /\ UNCHANGED <<counter, loads, covered, queueVars>>

Scrape ==
    /\ loads # {} \/ now <= MaxScrapeTime
    /\ ScrapeBegins \/ Load
    /\ UNCHANGED <<now, gen, covered, queueVars>>

Next ==
    \/ Enqueue \/ Start \/ StopAndDrop \/ StopAndDropReturnsEarly
    \/ \E g \in Gens :
        StopperCounts(g) \/ TickFindsNothing(g) \/ TickSends(g) \/ SendSucceeds(g) \/ SendFails(g)
            \/ Counts(g) \/ StopSeen(g)
    \/ Advance \/ Scrape

Spec == Init /\ [][Next]_vars
-----------------------------------------------------------------------------
Senders == [at : {"off", "waiting", "sending", "counting", "done"},
            born : Nat, next : Nat, stopped : BOOLEAN, ticked : BOOLEAN, start : Nat,
            adds : SUBSET Counters, writes : Seq(Nat)]

SendersOK ==
    /\ gen \in [Gens -> Senders]
    /\ \A g \in Gens : /\ gen[g].at = "off" <=> g > latest
                       /\ gen[g].start <= now
                       /\ gen[g].adds # {} <=> gen[g].at = "counting"

TypeOK ==
    /\ now \in 0..MaxTime
    /\ queued \in 0..MaxDepth
    /\ latest \in 0..MaxGens /\ running \in 0..latest
    /\ stopper \in [Gens -> [adds : SUBSET {Dropped, Session}, n : 0..MaxDepth]]
    /\ accepted \in 0..MaxCommands /\ uncounted \in Nat
    /\ covered \in [Buckets -> Nat]
    /\ counter \in [Counters -> Nat]
    /\ page \in [Counters -> Nat] /\ loads \in SUBSET Counters
    /\ SendersOK

\* The dropped commands that counter c does not have yet, one pair for each.
Owes(c) == {d \in Gens \X (1..MaxDepth) : c \in stopper[d[1]].adds /\ d[2] <= stopper[d[1]].n}

\* A sender's k-th command is not out before k intervals have passed since it
\* was started, and of any m + 3 commands in a row the last is out at least m
\* intervals after the first: the buffered tick and a write in progress are all
\* that a slow send or a late goroutine can make up for.
Paced ==
    \A g \in Gens : LET w == gen[g].writes IN
        /\ \A k \in DOMAIN w : w[k] >= gen[g].born + k * Interval
        /\ \A j, k \in DOMAIN w : k > j + 2 => w[k] >= w[j] + (k - j - 2) * Interval

\* Each accepted command is queued, in a send, or in exactly one total; the
\* totals miss only what a StopAndDrop without a sender has dropped.
TotalsAddUp ==
    LET sending == {g \in Gens : gen[g].at = "sending"}
    IN accepted = queued + Cardinality(sending) + counter[Sent] + counter[Failed]
                    + counter[Dropped] + Cardinality(Owes(Dropped)) + uncounted

\* With nobody observing, the buckets are cumulative and exact, and the count
\* is that of the sent commands, whatever senders observed at the same time.
HistogramIsExact ==
    (\A g \in Gens : gen[g].at # "counting") =>
        /\ \A i \in Buckets : counter[Le(i)] = covered[i]
        /\ counter[Count] = counter[Sent]

\* What one scrape shows: no bucket above the count, no session above the total
\* of drops, and a count that lags the sent commands by no more than the one
\* that each sender may be observing.
PageIsConsistent ==
    loads = {} =>
        /\ \A i \in Buckets : page[Le(i)] <= page[Count]
        /\ page[Session] <= page[Dropped]
        /\ page[Sent] <= page[Count] + MaxGens
==============================================================================
