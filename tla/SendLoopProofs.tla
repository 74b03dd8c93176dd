---------------------------- MODULE SendLoopProofs ----------------------------
(***************************************************************************)
(* Proofs about SendLoop: the pace of a sender, and what the counters say  *)
(* to one another, for any interval, depth, buckets, senders and clock.    *)
(***************************************************************************)
EXTENDS SendLoop, SequenceTheorems, FiniteSetTheorems, TLAPS

Alive(g) == gen[g].at \notin {"off", "done"}

\* Before it is started a sender has done nothing, and no write is in the future.
Fresh ==
    \A g \in Gens :
        /\ gen[g].at = "off" => gen[g] = NotStarted
        /\ \A k \in DOMAIN gen[g].writes : gen[g].writes[k] <= now

LEMMA CountersAre ==
    /\ Sent \in Counters /\ Failed \in Counters /\ Dropped \in Counters
    /\ Session \in Counters /\ Count \in Counters
    /\ \A i \in Buckets : Le(i) \in Counters
BY DEF Counters

LEMMA CountersDiffer ==
    /\ Sent # Failed /\ Sent # Dropped /\ Sent # Session /\ Sent # Count
    /\ Failed # Dropped /\ Failed # Session /\ Failed # Count
    /\ Dropped # Session /\ Dropped # Count /\ Session # Count
    /\ \A i \in Buckets : Le(i) \notin {Sent, Failed, Dropped, Session, Count}
    /\ \A i, j \in Buckets : Le(i) = Le(j) => i = j
<1>1. /\ Sent # Failed /\ Sent # Dropped /\ Sent # Session /\ Sent # Count
      /\ Failed # Dropped /\ Failed # Session /\ Failed # Count
      /\ Dropped # Session /\ Dropped # Count /\ Session # Count
  BY DEF Sent, Failed, Dropped, Session, Count
<1>2. \A i \in Buckets : Le(i) \notin {Sent, Failed, Dropped, Session, Count}
  BY DEF Sent, Failed, Dropped, Session, Count, Le
<1>3. \A i, j \in Buckets : Le(i) = Le(j) => i = j
  BY DEF Le
<1> QED BY <1>1, <1>2, <1>3

LEMMA SenderFields ==
    ASSUME TypeOK, NEW g \in Gens
    PROVE  /\ gen[g] \in Senders /\ gen[g].adds \in SUBSET Counters /\ gen[g].writes \in Seq(Nat)
           /\ gen[g].born \in Nat /\ gen[g].next \in Nat /\ gen[g].start \in Nat
           /\ gen[g].ticked \in BOOLEAN /\ gen[g].start <= now
           /\ now \in Nat /\ latest \in Nat
<1>1. gen[g] \in Senders /\ gen[g].start <= now
  BY DEF TypeOK, SendersOK
<1>2. now \in Nat /\ latest \in Nat
  BY SendLoopAssumption DEF TypeOK
<1> QED BY <1>1, <1>2 DEF Senders

\* A step of one sender.
LEMMA SenderMoves ==
    ASSUME TypeOK, Fresh, UNCHANGED <<now, latest>>, NEW g \in Gens, NEW s \in Senders,
           gen' = [gen EXCEPT ![g] = s], gen[g].at # "off", s.at # "off",
           s.start <= now, s.adds # {} <=> s.at = "counting",
           \A k \in DOMAIN s.writes : s.writes[k] <= now
    PROVE  /\ SendersOK' /\ Fresh'
           /\ gen'[g] = s /\ \A h \in Gens \ {g} : gen'[h] = gen[h]
<1>1. gen'[g] = s /\ \A h \in Gens \ {g} : gen'[h] = gen[h]
  BY DEF TypeOK, SendersOK
<1>2. gen' \in [Gens -> Senders]
  BY DEF TypeOK, SendersOK
<1>3. \A h \in Gens : /\ gen'[h].at = "off" <=> h > latest'
                      /\ gen'[h].start <= now'
                      /\ gen'[h].adds # {} <=> gen'[h].at = "counting"
  BY <1>1 DEF TypeOK, SendersOK
<1>4. Fresh'
  BY <1>1 DEF Fresh
<1> QED BY <1>1, <1>2, <1>3, <1>4 DEF SendersOK

LEMMA TypesHold == Spec => [](TypeOK /\ Fresh)
<1> USE SendLoopAssumption DEF Gens, queueVars
<1>1. Init => TypeOK /\ Fresh
  <2> SUFFICES ASSUME Init PROVE TypeOK /\ Fresh
    OBVIOUS
  <2>1. NotStarted \in Senders /\ \A g \in Gens : gen[g] = NotStarted
    BY DEF Init, NotStarted, Senders
  <2>2. SendersOK
    BY <2>1 DEF Init, SendersOK, NotStarted
  <2>3. TypeOK
    BY <2>2 DEF Init, MetricsInit, EmptyPage, TypeOK
  <2>4. Fresh
    BY <2>1 DEF Fresh, NotStarted
  <2> QED BY <2>3, <2>4
<1>2. TypeOK /\ Fresh /\ [Next]_vars => (TypeOK /\ Fresh)'
  <2> SUFFICES ASSUME TypeOK, Fresh, [Next]_vars PROVE (TypeOK /\ Fresh)'
    OBVIOUS
  <2>0. now \in Nat /\ latest \in Nat /\ running \in Nat /\ queued \in Nat
    BY DEF TypeOK
  <2>1. CASE Enqueue
    BY <2>1 DEF Enqueue, TypeOK, SendersOK, Fresh
  <2>2. CASE Start
    <3> DEFINE s == [NotStarted EXCEPT !.at = "waiting", !.born = now, !.next = now + Interval]
    <3>1. latest + 1 \in Gens
      BY <2>0, <2>2 DEF Start
    <3>2. gen[latest + 1] = NotStarted
      BY <2>0, <3>1 DEF TypeOK, SendersOK, Fresh
    <3>3. s \in Senders
      <4>1. now + Interval \in Nat
        BY <2>0
      <4>2. NotStarted \in Senders
        BY DEF NotStarted, Senders
      <4> QED BY <2>0, <4>1, <4>2 DEF Senders
    <3>4. gen' = [gen EXCEPT ![latest + 1] = s]
      BY <2>2, <3>2 DEF Start
    <3>5. /\ s.at = "waiting" /\ s.start = 0 /\ s.adds = {} /\ s.writes = <<>>
      BY DEF NotStarted
    <3> HIDE DEF s
    <3>6. /\ gen'[latest + 1] = s /\ \A h \in Gens \ {latest + 1} : gen'[h] = gen[h]
          /\ gen' \in [Gens -> Senders]
      BY <3>1, <3>3, <3>4 DEF TypeOK, SendersOK
    <3>7. SendersOK'
      <4>1. UNCHANGED now /\ latest' = latest + 1
        BY <2>2 DEF Start
      <4>2. ASSUME NEW g \in Gens, g # latest + 1
            PROVE  /\ gen'[g].at = "off" <=> g > latest'
                   /\ gen'[g].start <= now
                   /\ gen'[g].adds # {} <=> gen'[g].at = "counting"
        <5>1. gen'[g] = gen[g]
          BY <3>6, <4>2
        <5>2. g \in Int /\ (g > latest <=> g > latest')
          BY <2>0, <4>1, <4>2
        <5>3. /\ gen[g].at = "off" <=> g > latest
              /\ gen[g].start <= now
              /\ gen[g].adds # {} <=> gen[g].at = "counting"
          BY DEF TypeOK, SendersOK
        <5> QED BY <5>1, <5>2, <5>3
      <4>3. s.at # "off" /\ ~ (latest + 1 > latest') /\ s.start <= now
        BY <2>0, <3>5, <4>1
      <4> QED BY <3>5, <3>6, <4>1, <4>2, <4>3 DEF SendersOK
    <3>8. Fresh'
      BY <2>2, <3>5, <3>6 DEF Start, Fresh
    <3> QED BY <2>0, <2>2, <3>7, <3>8 DEF Start, TypeOK
  <2>3. CASE StopAndDrop
    <3>1. running \in Gens /\ gen[running].at # "off"
      BY <2>0, <2>3 DEF StopAndDrop, TypeOK, SendersOK
    <3> DEFINE s == [gen[running] EXCEPT !.stopped = TRUE]
    <3>2. gen' = [gen EXCEPT ![running] = s]
      BY <2>3 DEF StopAndDrop
    <3>3. /\ s \in Senders /\ s.at = gen[running].at /\ s.start = gen[running].start
          /\ s.adds = gen[running].adds /\ s.writes = gen[running].writes
      BY <3>1, SenderFields DEF Senders
    <3>4. s.start <= now /\ (s.adds # {} <=> s.at = "counting")
          /\ \A k \in DOMAIN s.writes : s.writes[k] <= now
      BY <3>1, <3>3 DEF TypeOK, SendersOK, Fresh
    <3> HIDE DEF s
    <3>5. SendersOK' /\ Fresh'
      BY <2>3, <3>1, <3>2, <3>3, <3>4, SenderMoves DEF StopAndDrop
    <3>6. stopper' \in [Gens -> [adds : SUBSET {Dropped, Session}, n : 0..MaxDepth]]
      <4>1. CountDropped(queued) \in SUBSET {Dropped, Session}
        BY DEF CountDropped
      <4> QED BY <2>3, <3>1, <4>1 DEF StopAndDrop, TypeOK
    <3>7. running' \in 0..latest' /\ queued' \in 0..MaxDepth
      BY <2>0, <2>3 DEF StopAndDrop
    <3> QED BY <2>3, <3>5, <3>6, <3>7 DEF StopAndDrop, TypeOK
  <2>4. CASE StopAndDropReturnsEarly
    BY <2>4 DEF StopAndDropReturnsEarly, TypeOK, SendersOK, Fresh
  <2>6. ASSUME NEW g \in Gens, StopperCounts(g) PROVE (TypeOK /\ Fresh)'
    <3>1. PICK c \in stopper[g].adds : /\ Perform(c, stopper[g].n)
                                       /\ stopper' = [stopper EXCEPT ![g].adds = @ \ {c}]
      BY <2>6 DEF StopperCounts
    <3>2. c \in Counters /\ stopper[g].n \in Nat
      <4>1. stopper[g] \in [adds : SUBSET {Dropped, Session}, n : 0..MaxDepth]
        BY DEF TypeOK
      <4>2. c \in {Dropped, Session} /\ stopper[g].n \in Nat
        BY <3>1, <4>1
      <4> QED BY <4>2, CountersAre
    <3>3. counter' \in [Counters -> Nat]
      BY <3>1, <3>2 DEF Perform, TypeOK
    <3>4. stopper' \in [Gens -> [adds : SUBSET {Dropped, Session}, n : 0..MaxDepth]]
      BY <3>1 DEF TypeOK
    <3> QED BY <2>6, <3>3, <3>4 DEF StopperCounts, TypeOK, SendersOK, Fresh
  <2>7. ASSUME NEW g \in Gens, TickFindsNothing(g) PROVE (TypeOK /\ Fresh)'
    <3> DEFINE s == [gen[g] EXCEPT !.ticked = FALSE]
    <3>1. /\ gen' = [gen EXCEPT ![g] = s] /\ gen[g].at = "waiting"
          /\ UNCHANGED <<counter, loads, page, now, covered, queueVars>>
      BY <2>7 DEF TickFindsNothing
    <3>2. /\ s \in Senders /\ s.at = "waiting" /\ s.start = gen[g].start
          /\ s.adds = gen[g].adds /\ s.writes = gen[g].writes
      BY <3>1, SenderFields DEF Senders
    <3>3. s.start <= now /\ (s.adds # {} <=> s.at = "counting")
          /\ \A k \in DOMAIN s.writes : s.writes[k] <= now
      BY <3>1, <3>2 DEF TypeOK, SendersOK, Fresh
    <3> HIDE DEF s
    <3>4. SendersOK' /\ Fresh'
      BY <3>1, <3>2, <3>3, SenderMoves
    <3> QED BY <3>1, <3>4 DEF TypeOK
  <2>8. ASSUME NEW g \in Gens, TickSends(g) PROVE (TypeOK /\ Fresh)'
    <3> DEFINE s == [gen[g] EXCEPT !.ticked = FALSE, !.at = "sending", !.start = now]
    <3>1. /\ gen' = [gen EXCEPT ![g] = s] /\ gen[g].at = "waiting"
          /\ UNCHANGED <<counter, loads, page, now, covered, running, latest, stopper, accepted, uncounted>>
          /\ queued > 0 /\ queued' = queued - 1
      BY <2>8 DEF TickSends
    <3>2. /\ s \in Senders /\ s.at = "sending" /\ s.start = now
          /\ s.adds = gen[g].adds /\ s.writes = gen[g].writes
      BY <3>1, SenderFields DEF Senders
    <3>3. s.start <= now /\ (s.adds # {} <=> s.at = "counting")
          /\ \A k \in DOMAIN s.writes : s.writes[k] <= now
      <4>1. s.start <= now
        BY <2>0, <3>2
      <4> QED BY <3>1, <3>2, <4>1 DEF TypeOK, SendersOK, Fresh
    <3> HIDE DEF s
    <3>4. SendersOK' /\ Fresh'
      BY <3>1, <3>2, <3>3, SenderMoves
    <3> QED BY <2>0, <3>1, <3>4 DEF TypeOK
  <2>9. ASSUME NEW g \in Gens, SendSucceeds(g) \/ SendFails(g) PROVE (TypeOK /\ Fresh)'
    <3>1. /\ gen[g].at = "sending" /\ gen[g].writes \in Seq(Nat) /\ gen[g].adds = {}
          /\ gen[g] \in Senders /\ UNCHANGED <<loads, page, now, queueVars>>
      BY <2>9, SenderFields DEF SendSucceeds, SendFails, TypeOK, SendersOK
    <3>2. /\ Append(gen[g].writes, now) \in Seq(Nat)
          /\ \A k \in DOMAIN Append(gen[g].writes, now) : Append(gen[g].writes, now)[k] <= now
      BY <2>0, <3>1, AppendProperties DEF Fresh
    <3>3. ASSUME NEW s, gen' = [gen EXCEPT ![g] = s],
                 s = [Wrote(g) EXCEPT !.at = "counting", !.adds = Observe(now - gen[g].start)]
                   \/ s = [Wrote(g) EXCEPT !.at = "waiting"]
          PROVE  SendersOK' /\ Fresh'
      <4>1. Observe(now - gen[g].start) \in SUBSET Counters /\ Observe(now - gen[g].start) # {}
        BY CountersAre DEF Observe
      <4>2. /\ s \in Senders /\ s.at \in {"counting", "waiting"} /\ s.start = 0
            /\ s.adds # {} <=> s.at = "counting"
            /\ s.writes = Append(gen[g].writes, now)
        <5>1. /\ Wrote(g) \in Senders /\ Wrote(g).start = 0 /\ Wrote(g).adds = {}
              /\ Wrote(g).writes = Append(gen[g].writes, now)
          BY <3>1, <3>2 DEF Wrote, Senders
        <5>2. CASE s = [Wrote(g) EXCEPT !.at = "counting", !.adds = Observe(now - gen[g].start)]
          BY <4>1, <5>1, <5>2 DEF Senders
        <5>3. CASE s = [Wrote(g) EXCEPT !.at = "waiting"]
          BY <5>1, <5>3 DEF Senders
        <5> QED BY <3>3, <5>2, <5>3
      <4>3. s.start <= now
        BY <2>0, <4>2
      <4> QED BY <3>1, <3>2, <3>3, <4>2, <4>3, SenderMoves
    <3>4. SendersOK' /\ Fresh'
      BY <2>9, <3>3 DEF SendSucceeds, SendFails
    <3>5. counter' \in [Counters -> Nat] /\ covered' \in [Buckets -> Nat]
      <4>1. /\ Perform(Sent, 1) \/ Perform(Failed, 1)
            /\ \/ covered' = [i \in Buckets |-> covered[i] + (IF now - gen[g].start <= Bounds[i] THEN 1 ELSE 0)]
               \/ UNCHANGED covered
        BY <2>9 DEF SendSucceeds, SendFails
      <4>2. counter \in [Counters -> Nat] /\ covered \in [Buckets -> Nat]
        BY DEF TypeOK
      <4>3. counter' \in [Counters -> Nat]
        BY <4>1, <4>2, CountersAre DEF Perform
      <4>4. covered' \in [Buckets -> Nat]
        BY <4>1, <4>2
      <4> QED BY <4>3, <4>4
    <3> QED BY <3>1, <3>4, <3>5 DEF TypeOK
  <2>10. ASSUME NEW g \in Gens, Counts(g) PROVE (TypeOK /\ Fresh)'
    <3>1. PICK c \in gen[g].adds :
             /\ Perform(c, 1)
             /\ gen' = [gen EXCEPT ![g].adds = @ \ {c},
                                   ![g].at = IF gen[g].adds = {c} THEN "waiting" ELSE @]
      BY <2>10 DEF Counts
    <3>2. c \in Counters /\ counter' \in [Counters -> Nat]
      <4>1. c \in Counters
        BY <3>1, SenderFields
      <4> QED BY <3>1, <4>1 DEF Perform, TypeOK
    <3> DEFINE s == [gen[g] EXCEPT !.adds = @ \ {c},
                                   !.at = IF gen[g].adds = {c} THEN "waiting" ELSE @]
    <3>3. /\ gen' = [gen EXCEPT ![g] = s] /\ gen[g].at = "counting"
          /\ UNCHANGED <<loads, page, now, covered, queueVars>>
      BY <2>10, <3>1 DEF Counts
    <3>4. /\ s \in Senders /\ s.start = gen[g].start /\ s.writes = gen[g].writes
          /\ s.adds = gen[g].adds \ {c}
          /\ s.at = IF gen[g].adds = {c} THEN "waiting" ELSE "counting"
      BY <3>1, <3>3, SenderFields DEF Senders
    <3>5. s.start <= now /\ (s.adds # {} <=> s.at = "counting")
          /\ \A k \in DOMAIN s.writes : s.writes[k] <= now
      BY <3>1, <3>4 DEF TypeOK, SendersOK, Fresh
    <3> HIDE DEF s
    <3>6. SendersOK' /\ Fresh'
      BY <3>3, <3>4, <3>5, SenderMoves
    <3> QED BY <3>2, <3>3, <3>6 DEF TypeOK
  <2>11. ASSUME NEW g \in Gens, StopSeen(g) PROVE (TypeOK /\ Fresh)'
    <3> DEFINE s == [gen[g] EXCEPT !.at = "done", !.ticked = FALSE, !.next = 0]
    <3>1. /\ gen' = [gen EXCEPT ![g] = s] /\ gen[g].at = "waiting"
          /\ UNCHANGED <<counter, loads, page, now, covered, queueVars>>
      BY <2>11 DEF StopSeen
    <3>2. /\ s \in Senders /\ s.at = "done" /\ s.start = gen[g].start
          /\ s.adds = gen[g].adds /\ s.writes = gen[g].writes
      BY <3>1, SenderFields DEF Senders
    <3>3. s.start <= now /\ (s.adds # {} <=> s.at = "counting")
          /\ \A k \in DOMAIN s.writes : s.writes[k] <= now
      BY <3>1, <3>2 DEF TypeOK, SendersOK, Fresh
    <3> HIDE DEF s
    <3>4. SendersOK' /\ Fresh'
      BY <3>1, <3>2, <3>3, SenderMoves
    <3> QED BY <3>1, <3>4 DEF TypeOK
  <2>12. CASE Advance
    <3>0. now' = now + 1 /\ UNCHANGED <<counter, loads, covered, queueVars>> /\ now < MaxTime
      BY <2>12 DEF Advance
    <3>1. ASSUME NEW g \in Gens
          PROVE  /\ gen'[g] \in Senders /\ gen'[g].at = gen[g].at /\ gen'[g].adds = gen[g].adds
                 /\ gen'[g].writes = gen[g].writes /\ gen'[g].start = gen[g].start
                 /\ gen[g].at = "off" => gen'[g] = gen[g]
      <4>1. gen'[g] = Ticked(g, now + 1)
        BY <2>12 DEF Advance
      <4>2. gen[g].next + Interval \in Nat /\ gen[g] \in Senders
        BY SenderFields
      <4> QED BY <4>1, <4>2 DEF Ticked, Senders
    <3>2. gen' \in [Gens -> Senders]
      BY <2>12, <3>1 DEF Advance
    <3>3. now' \in 0..MaxTime /\ \A g \in Gens : gen'[g].start <= now'
      BY <2>0, <3>0, <3>1, SenderFields
    <3>4. SendersOK'
      BY <3>0, <3>1, <3>2, <3>3 DEF TypeOK, SendersOK
    <3>5. ASSUME NEW g \in Gens, NEW k \in DOMAIN gen[g].writes PROVE gen[g].writes[k] <= now + 1
      <4>1. gen[g].writes[k] \in Nat /\ gen[g].writes[k] <= now
        BY SenderFields DEF Fresh
      <4> QED BY <2>0, <4>1
    <3>6. Fresh'
      BY <3>0, <3>1, <3>5 DEF Fresh
    <3>7. page' \in [Counters -> Nat]
      <4>1. page' = EmptyPage \/ page' = page
        BY <2>12 DEF Advance
      <4> QED BY <4>1 DEF TypeOK, EmptyPage
    <3> QED BY <3>0, <3>3, <3>4, <3>6, <3>7 DEF TypeOK
  <2>14. CASE Scrape
    <3>1. /\ UNCHANGED <<now, gen, covered, queueVars, counter>>
          /\ page' \in [Counters -> Nat] /\ loads' \in SUBSET Counters
      <4>1. counter \in [Counters -> Nat] /\ page \in [Counters -> Nat] /\ loads \in SUBSET Counters
        BY DEF TypeOK
      <4>2. UNCHANGED <<now, gen, covered, queueVars>> /\ (ScrapeBegins \/ Load)
        BY <2>14 DEF Scrape
      <4>3. CASE ScrapeBegins
        BY <4>1, <4>2, <4>3 DEF ScrapeBegins, EmptyPage
      <4>4. CASE Load
        <5>1. PICK c \in loads : /\ page' = [page EXCEPT ![c] = counter[c]]
                                 /\ loads' = loads \ {c} /\ UNCHANGED counter
          BY <4>4 DEF Load
        <5> QED BY <4>1, <4>2, <5>1
      <4> QED BY <4>2, <4>3, <4>4
    <3> QED BY <3>1 DEF TypeOK, SendersOK, Fresh
  <2>13. CASE UNCHANGED vars
    BY <2>13 DEF vars, TypeOK, SendersOK, Fresh
  <2> QED BY <2>1, <2>2, <2>3, <2>4, <2>6, <2>7, <2>8, <2>9, <2>10, <2>11, <2>12, <2>13, <2>14 DEF Next
<1> QED BY <1>1, <1>2, PTL DEF Spec

THEOREM TypeCorrect == Spec => []TypeOK
BY TypesHold, PTL
-----------------------------------------------------------------------------
LEMMA Ranks ==
    /\ AddRank(Count) = 0 /\ AddRank(Dropped) = 0 /\ AddRank(Session) = 1
    /\ \A i \in Buckets : AddRank(Le(i)) = i
    /\ LoadRank(Session) = 0 /\ LoadRank(Sent) = 1 /\ LoadRank(Dropped) = 3
    /\ LoadRank(Count) = 4 + Len(Bounds)
    /\ \A i \in Buckets : LoadRank(Le(i)) = 3 + i
    /\ \A i \in Buckets : i \in Nat /\ i > 0 /\ i <= Len(Bounds)
    /\ Len(Bounds) \in Nat
<1>1. Len(Bounds) \in Nat /\ Buckets = 1..Len(Bounds)
  BY BoundsAssumption DEF Buckets
<1>2. /\ AddRank(Count) = 0 /\ AddRank(Dropped) = 0 /\ AddRank(Session) = 1
      /\ LoadRank(Session) = 0 /\ LoadRank(Sent) = 1 /\ LoadRank(Dropped) = 3
      /\ LoadRank(Count) = 4 + Len(Bounds)
  BY CountersDiffer DEF AddRank, LoadRank
<1>3. ASSUME NEW i \in Buckets PROVE AddRank(Le(i)) = i /\ LoadRank(Le(i)) = 3 + i
  <2>1. Le(i)[2] = i
    BY DEF Le
  <2> QED BY <2>1, CountersDiffer DEF AddRank, LoadRank
<1> QED BY <1>1, <1>2, <1>3

Pending(c) == {g \in Gens : c \in gen[g].adds}
Sending == {g \in Gens : gen[g].at = "sending"}
Observations == {Count} \union {Le(i) : i \in Buckets}

LEMMA Subsets ==
    ASSUME NEW S \in SUBSET Gens
    PROVE  /\ IsFiniteSet(S) /\ Cardinality(S) \in Nat /\ Cardinality(S) <= MaxGens
           /\ \A g \in Gens : g \notin S => Cardinality(S \union {g}) = Cardinality(S) + 1
           /\ \A g \in S : Cardinality(S \ {g}) = Cardinality(S) - 1
<1>1. IsFiniteSet(Gens) /\ Cardinality(Gens) = MaxGens
  <2>1. 1 \in Int /\ MaxGens \in Int
    BY SendLoopAssumption
  <2> QED BY <2>1, SendLoopAssumption, FS_Interval DEF Gens
<1>2. IsFiniteSet(S) /\ Cardinality(S) <= MaxGens
  BY <1>1, FS_Subset
<1>3. Cardinality(S) \in Nat
  BY <1>2, FS_CardinalityType
<1>4. ASSUME NEW g \in Gens, g \notin S PROVE Cardinality(S \union {g}) = Cardinality(S) + 1
  BY <1>2, <1>4, FS_AddElement
<1>5. ASSUME NEW g \in S PROVE Cardinality(S \ {g}) = Cardinality(S) - 1
  BY <1>2, FS_RemoveElement
<1> QED BY <1>2, <1>3, <1>4, <1>5

\* The steps that touch a counter, and what a step of any other kind keeps.
SuccessOf(g) ==
    LET covers == {i \in Buckets : now - gen[g].start <= Bounds[i]} IN
        /\ gen[g].at = "sending" /\ gen[g].adds = {}
        /\ gen'[g].adds = {Count} \union {Le(i) : i \in covers} /\ gen'[g].at = "counting"
        /\ counter' = [counter EXCEPT ![Sent] = @ + 1]
        /\ covered' = [i \in Buckets |-> covered[i] + (IF i \in covers THEN 1 ELSE 0)]

FailureOf(g) ==
    /\ gen[g].at = "sending" /\ gen[g].adds = {} /\ gen'[g].adds = {} /\ gen'[g].at = "waiting"
    /\ counter' = [counter EXCEPT ![Failed] = @ + 1]
    /\ UNCHANGED covered

CountBy(g, c) ==
    /\ c \in gen[g].adds /\ NextAdd(c, gen[g].adds)
    /\ gen[g].at = "counting" /\ gen'[g].at \in {"counting", "waiting"}
    /\ gen'[g].adds = gen[g].adds \ {c}
    /\ counter' = [counter EXCEPT ![c] = @ + 1]
    /\ UNCHANGED covered

OthersStay(g) == \A h \in Gens \ {g} : gen'[h].adds = gen[h].adds /\ gen'[h].at = gen[h].at

LEMMA SenderCounts ==
    ASSUME TypeOK, NEW g \in Gens
    PROVE  /\ SendSucceeds(g) => SuccessOf(g) /\ OthersStay(g) /\ UNCHANGED <<loads, page, now, queueVars>>
           /\ SendFails(g) => FailureOf(g) /\ OthersStay(g) /\ UNCHANGED <<loads, page, now, queueVars>>
           /\ Counts(g) => /\ \E c \in gen[g].adds : CountBy(g, c)
                           /\ OthersStay(g) /\ UNCHANGED <<loads, page, now, queueVars>>
<1>0. gen[g] \in Senders /\ gen \in [Gens -> Senders] /\ (gen[g].at = "sending" => gen[g].adds = {})
  BY DEF TypeOK, SendersOK
<1>1. ASSUME SendSucceeds(g)
      PROVE  SuccessOf(g) /\ OthersStay(g) /\ UNCHANGED <<loads, page, now, queueVars>>
  <2>1. gen'[g] = [Wrote(g) EXCEPT !.at = "counting", !.adds = Observe(now - gen[g].start)]
        /\ \A h \in Gens \ {g} : gen'[h] = gen[h]
    BY <1>0, <1>1 DEF SendSucceeds
  <2>2. gen'[g].adds = Observe(now - gen[g].start) /\ gen'[g].at = "counting"
    BY <1>0, <2>1 DEF Wrote, Senders
  <2>3. counter' = [counter EXCEPT ![Sent] = @ + 1]
    BY <1>1 DEF SendSucceeds, Perform
  <2>4. covered' = [i \in Buckets |-> covered[i] + (IF i \in {j \in Buckets : now - gen[g].start <= Bounds[j]} THEN 1 ELSE 0)]
    BY <1>1 DEF SendSucceeds
  <2> QED BY <1>0, <1>1, <2>1, <2>2, <2>3, <2>4 DEF SendSucceeds, SuccessOf, OthersStay, Observe
<1>2. ASSUME SendFails(g)
      PROVE  FailureOf(g) /\ OthersStay(g) /\ UNCHANGED <<loads, page, now, queueVars>>
  <2>1. gen'[g] = [Wrote(g) EXCEPT !.at = "waiting"]
        /\ \A h \in Gens \ {g} : gen'[h] = gen[h]
    BY <1>0, <1>2 DEF SendFails
  <2>2. gen'[g].adds = gen[g].adds /\ gen'[g].at = "waiting"
    BY <1>0, <2>1 DEF Wrote, Senders
  <2> QED BY <1>0, <1>2, <2>1, <2>2 DEF SendFails, FailureOf, OthersStay, Perform
<1>3. ASSUME Counts(g)
      PROVE  /\ \E c \in gen[g].adds : CountBy(g, c)
             /\ OthersStay(g) /\ UNCHANGED <<loads, page, now, queueVars>>
  <2>1. PICK c \in gen[g].adds :
           /\ NextAdd(c, gen[g].adds) /\ Perform(c, 1)
           /\ gen' = [gen EXCEPT ![g].adds = @ \ {c},
                                 ![g].at = IF gen[g].adds = {c} THEN "waiting" ELSE @]
    BY <1>3 DEF Counts
  <2>2. gen'[g].adds = gen[g].adds \ {c} /\ gen'[g].at \in {"counting", "waiting"}
        /\ \A h \in Gens \ {g} : gen'[h] = gen[h]
    BY <1>0, <1>3, <2>1 DEF Counts, Senders
  <2>3. CountBy(g, c)
    BY <1>3, <2>1, <2>2 DEF Counts, CountBy, Perform
  <2> QED BY <1>3, <2>2, <2>3 DEF Counts, OthersStay
<1> QED BY <1>1, <1>2, <1>3

LEMMA RestCounts ==
    ASSUME TypeOK, Fresh, [Next]_vars,
           ~ \E g \in Gens : SendSucceeds(g) \/ SendFails(g) \/ Counts(g),
           ~ \E g \in Gens : StopperCounts(g)
    PROVE  /\ UNCHANGED <<counter, covered>> /\ \A h \in Gens : gen'[h].adds = gen[h].adds
           /\ (\A g \in Gens : ~ TickSends(g)) => Sending' = Sending
<1> DEFINE Kept == /\ UNCHANGED <<counter, covered>> /\ \A h \in Gens : gen'[h].adds = gen[h].adds
                   /\ (\A g \in Gens : ~ TickSends(g)) =>
                         \A h \in Gens : gen'[h].at = "sending" <=> gen[h].at = "sending"
<1>0. gen \in [Gens -> Senders]
  BY DEF TypeOK, SendersOK
<1>1. ASSUME Enqueue \/ StopAndDropReturnsEarly \/ Scrape \/ UNCHANGED vars PROVE Kept
  BY <1>1 DEF Enqueue, StopAndDropReturnsEarly, Scrape, ScrapeBegins, Load, vars
<1>2. ASSUME Start PROVE Kept
  <2>1. latest + 1 \in Gens /\ latest \in Nat
    BY <1>2, SendLoopAssumption DEF Start, TypeOK, Gens
  <2>2. gen[latest + 1] = NotStarted
    BY <2>1 DEF TypeOK, SendersOK, Fresh
  <2>3. gen'[latest + 1] = [NotStarted EXCEPT !.at = "waiting", !.born = now, !.next = now + Interval]
        /\ \A g \in Gens \ {latest + 1} : gen'[g] = gen[g]
    BY <1>0, <1>2, <2>1, <2>2 DEF Start
  <2>4. /\ gen'[latest + 1].adds = {} /\ gen[latest + 1].adds = {}
        /\ gen'[latest + 1].at = "waiting" /\ gen[latest + 1].at = "off"
    BY <2>2, <2>3 DEF NotStarted
  <2> QED BY <1>2, <2>3, <2>4 DEF Start
<1>3. ASSUME StopAndDrop PROVE Kept
  BY <1>0, <1>3 DEF StopAndDrop, Senders
<1>4. ASSUME NEW g \in Gens, TickFindsNothing(g) \/ TickSends(g) \/ StopSeen(g) PROVE Kept
  <2>1. CASE TickFindsNothing(g)
    BY <1>0, <2>1 DEF TickFindsNothing, Senders
  <2>2. CASE TickSends(g)
    BY <1>0, <2>2 DEF TickSends, Senders
  <2>3. CASE StopSeen(g)
    BY <1>0, <2>3 DEF StopSeen, Senders
  <2> QED BY <1>4, <2>1, <2>2, <2>3
<1>5. ASSUME Advance PROVE Kept
  BY <1>0, <1>5 DEF Advance, Ticked, Senders
<1> HIDE DEF Kept
<1>6. Kept
  BY <1>1, <1>2, <1>3, <1>4, <1>5 DEF Next
<1> QED BY <1>6 DEF Kept, Sending

\* Each observation is in a counter or on its way there, the count first.
Observed ==
    /\ \A g \in Gens : gen[g].adds \in SUBSET Observations
    /\ \A i \in Buckets : counter[Le(i)] + Cardinality(Pending(Le(i))) = covered[i]
    /\ \A i \in Buckets :
        counter[Le(i)] + Cardinality(Pending(Le(i)) \ Pending(Count)) <= counter[Count]
    /\ counter[Count] + Cardinality(Pending(Count)) = counter[Sent]

LEMMA PendingMoves ==
    ASSUME NEW g \in Gens, \A h \in Gens \ {g} : gen'[h].adds = gen[h].adds, NEW c
    PROVE  /\ c \in gen[g].adds /\ c \notin gen'[g].adds => Pending(c)' = Pending(c) \ {g}
           /\ c \notin gen[g].adds /\ c \in gen'[g].adds => Pending(c)' = Pending(c) \union {g}
           /\ (c \in gen[g].adds <=> c \in gen'[g].adds) => Pending(c)' = Pending(c)
           /\ g \in Pending(c) <=> c \in gen[g].adds
           /\ Pending(c) \in SUBSET Gens /\ Pending(c)' \in SUBSET Gens
BY DEF Pending

LEMMA ObservedHolds == Spec => []Observed
<1> USE CountersAre, CountersDiffer
<1>1. Init => Observed
  <2> SUFFICES ASSUME Init PROVE Observed
    OBVIOUS
  <2>1. \A c : Pending(c) = {}
    BY DEF Init, NotStarted, Pending
  <2>2. \A g \in Gens : gen[g].adds = {}
    BY DEF Init, NotStarted
  <2>3. \A c : Cardinality(Pending(c)) = 0 /\ Cardinality(Pending(c) \ Pending(Count)) = 0
    BY <2>1, FS_EmptySet
  <2> QED BY <2>2, <2>3 DEF Init, MetricsInit, Observed
<1>2. Observed /\ TypeOK /\ Fresh /\ [Next]_vars => Observed'
  <2> SUFFICES ASSUME Observed, TypeOK, Fresh, [Next]_vars PROVE Observed'
    OBVIOUS
  <2>0. counter \in [Counters -> Nat] /\ covered \in [Buckets -> Nat]
    BY DEF TypeOK
  <2>1. ASSUME NEW g \in Gens, SuccessOf(g), OthersStay(g) PROVE Observed'
    <3> DEFINE covers == {i \in Buckets : now - gen[g].start <= Bounds[i]}
    <3>0. \A h \in Gens \ {g} : gen'[h].adds = gen[h].adds
      BY <2>1 DEF OthersStay
    <3>1. /\ counter'[Sent] = counter[Sent] + 1
          /\ counter'[Count] = counter[Count] /\ \A i \in Buckets : counter'[Le(i)] = counter[Le(i)]
      BY <2>0, <2>1 DEF SuccessOf
    <3>2. Pending(Count)' = Pending(Count) \union {g} /\ g \notin Pending(Count)
      BY <2>1, <3>0, PendingMoves DEF SuccessOf
    <3>3. Cardinality(Pending(Count)') = Cardinality(Pending(Count)) + 1
      BY <3>2, Subsets DEF Pending
    <3>4. ASSUME NEW i \in Buckets
          PROVE  /\ counter'[Le(i)] + Cardinality(Pending(Le(i))') = covered'[i]
                 /\ counter'[Le(i)] + Cardinality(Pending(Le(i))' \ Pending(Count)') <= counter'[Count]
      <4>1. Pending(Le(i))' = IF i \in covers THEN Pending(Le(i)) \union {g} ELSE Pending(Le(i))
        <5>1. Le(i) \notin gen[g].adds /\ (Le(i) \in gen'[g].adds <=> i \in covers)
          BY <2>1 DEF SuccessOf
        <5> QED BY <3>0, <5>1, PendingMoves
      <4>2. g \notin Pending(Le(i)) /\ Pending(Le(i)) \in SUBSET Gens
        BY <2>1 DEF SuccessOf, Pending
      <4>3. Pending(Le(i))' \ Pending(Count)' = Pending(Le(i)) \ Pending(Count)
        BY <3>2, <4>1, <4>2
      <4>4. Cardinality(Pending(Le(i))') = Cardinality(Pending(Le(i))) + (IF i \in covers THEN 1 ELSE 0)
        BY <4>1, <4>2, Subsets
      <4>5. covered'[i] = covered[i] + (IF i \in covers THEN 1 ELSE 0)
        BY <2>1 DEF SuccessOf
      <4>6. Cardinality(Pending(Le(i))) \in Nat /\ covered[i] \in Nat /\ counter[Le(i)] \in Nat
        BY <2>0, <4>2, Subsets
      <4> HIDE DEF covers
      <4> QED BY <3>1, <4>3, <4>4, <4>5, <4>6 DEF Observed
    <3>5. counter'[Count] + Cardinality(Pending(Count)') = counter'[Sent]
      <4>1. Cardinality(Pending(Count)) \in Nat /\ counter[Count] \in Nat /\ counter[Sent] \in Nat
        BY <2>0, Subsets DEF Pending
      <4> QED BY <3>1, <3>3, <4>1 DEF Observed
    <3>6. \A h \in Gens : gen'[h].adds \in SUBSET Observations
      BY <2>1, <3>0 DEF Observed, SuccessOf, Observations
    <3> QED BY <3>4, <3>5, <3>6 DEF Observed
  <2>2. ASSUME NEW g \in Gens, FailureOf(g), OthersStay(g) PROVE Observed'
    <3>1. \A h \in Gens : gen'[h].adds = gen[h].adds
      BY <2>2 DEF FailureOf, OthersStay
    <3>2. /\ counter'[Sent] = counter[Sent] /\ counter'[Count] = counter[Count]
          /\ \A i \in Buckets : counter'[Le(i)] = counter[Le(i)]
          /\ covered' = covered
      BY <2>0, <2>2 DEF FailureOf
    <3>3. \A c : Pending(c)' = Pending(c)
      BY <3>1 DEF Pending
    <3> QED BY <3>1, <3>2, <3>3 DEF Observed
  <2>3. ASSUME NEW g \in Gens, NEW c \in gen[g].adds, CountBy(g, c), OthersStay(g) PROVE Observed'
    <3>0. /\ \A h \in Gens \ {g} : gen'[h].adds = gen[h].adds
          /\ gen'[g].adds = gen[g].adds \ {c} /\ covered' = covered
      BY <2>3 DEF CountBy, OthersStay
    <3>1. c \in Observations /\ c \in Counters
      BY DEF Observed, Observations
    <3>2. /\ counter'[c] = counter[c] + 1 /\ \A d \in Counters \ {c} : counter'[d] = counter[d]
      BY <2>0, <2>3, <3>1 DEF CountBy
    <3>3. /\ Pending(c)' = Pending(c) \ {g} /\ g \in Pending(c)
          /\ \A d : d # c => Pending(d)' = Pending(d)
      BY <3>0 DEF Pending
    <3>4. Cardinality(Pending(c)') = Cardinality(Pending(c)) - 1
      BY <3>3, Subsets DEF Pending
    <3>5. \A d : Pending(d) \in SUBSET Gens /\ Cardinality(Pending(d)) \in Nat
                 /\ Pending(d) \ Pending(Count) \in SUBSET Gens /\ Cardinality(Pending(d) \ Pending(Count)) \in Nat
      BY Subsets DEF Pending
    <3>6. \A h \in Gens : gen'[h].adds \in SUBSET Observations
      BY <3>0 DEF Observed
    <3>7. c # Sent
      BY <3>1 DEF Observations
    <3>8. ASSUME c = Count PROVE Observed'
      <4>1. counter'[Count] + Cardinality(Pending(Count)') = counter'[Sent]
        <5>1. counter'[Count] = counter[Count] + 1 /\ counter'[Sent] = counter[Sent]
          BY <3>2, <3>7, <3>8
        <5>2. Cardinality(Pending(Count)') = Cardinality(Pending(Count)) - 1
          BY <3>4, <3>8
        <5>3. counter[Count] \in Nat /\ Cardinality(Pending(Count)) \in Nat
          BY <2>0, <3>5
        <5>4. counter[Count] + Cardinality(Pending(Count)) = counter[Sent]
          BY DEF Observed
        <5> QED BY <5>1, <5>2, <5>3, <5>4
      <4>2. ASSUME NEW i \in Buckets
            PROVE  /\ counter'[Le(i)] + Cardinality(Pending(Le(i))') = covered'[i]
                   /\ counter'[Le(i)] + Cardinality(Pending(Le(i))' \ Pending(Count)') <= counter'[Count]
        <5>1. Pending(Le(i))' = Pending(Le(i)) /\ counter'[Le(i)] = counter[Le(i)]
          BY <3>2, <3>3, <3>8
        <5>2. Cardinality(Pending(Le(i))' \ Pending(Count)')
                 <= Cardinality(Pending(Le(i)) \ Pending(Count)) + 1
          <6> DEFINE T == Pending(Le(i)) \ Pending(Count)
          <6>1. Pending(Le(i))' \ Pending(Count)' = T \/ Pending(Le(i))' \ Pending(Count)' = T \union {g}
            BY <3>3, <3>8, <5>1
          <6>2. g \notin T /\ T \in SUBSET Gens /\ Cardinality(T) \in Nat
            BY <3>3, <3>5, <3>8
          <6> HIDE DEF T
          <6>3. Cardinality(T \union {g}) = Cardinality(T) + 1
            BY <6>2, Subsets
          <6>4. \/ Cardinality(Pending(Le(i))' \ Pending(Count)') = Cardinality(T)
                \/ Cardinality(Pending(Le(i))' \ Pending(Count)') = Cardinality(T) + 1
            BY <6>1, <6>3
          <6>5. Cardinality(Pending(Le(i))' \ Pending(Count)') <= Cardinality(T) + 1
            BY <6>2, <6>4
          <6> QED BY <6>5 DEF T
        <5>3. /\ counter[Le(i)] \in Nat /\ counter[Count] \in Nat /\ counter'[Count] = counter[Count] + 1
              /\ Cardinality(Pending(Le(i)) \ Pending(Count)) \in Nat
              /\ Cardinality(Pending(Le(i))' \ Pending(Count)') \in Nat
          <6>1. Pending(Le(i))' \ Pending(Count)' \in SUBSET Gens
            BY <3>5, <5>1
          <6>2. Cardinality(Pending(Le(i))' \ Pending(Count)') \in Nat
            BY <6>1, Subsets
          <6> QED BY <2>0, <3>2, <3>5, <3>8, <6>2
        <5>4. counter[Le(i)] + Cardinality(Pending(Le(i)) \ Pending(Count)) <= counter[Count]
          BY DEF Observed
        <5> QED BY <3>0, <5>1, <5>2, <5>3, <5>4 DEF Observed
      <4> QED BY <3>6, <4>1, <4>2 DEF Observed
    <3>9. ASSUME NEW j \in Buckets, c = Le(j) PROVE Observed'
      <4>0. Count \notin gen[g].adds
        <5>1. ~ AddRank(Le(j)) <= AddRank(Count)
          BY Ranks
        <5> QED BY <2>3, <3>9, <5>1 DEF CountBy, NextAdd
      <4>1. counter'[Count] + Cardinality(Pending(Count)') = counter'[Sent]
        BY <3>2, <3>3, <3>9 DEF Observed
      <4>2. ASSUME NEW i \in Buckets
            PROVE  /\ counter'[Le(i)] + Cardinality(Pending(Le(i))') = covered'[i]
                   /\ counter'[Le(i)] + Cardinality(Pending(Le(i))' \ Pending(Count)') <= counter'[Count]
        <5>1. Pending(Count)' = Pending(Count) /\ counter'[Count] = counter[Count] /\ g \notin Pending(Count)
          BY <3>2, <3>3, <3>9, <4>0 DEF Pending
        <5>2. CASE i # j
          BY <3>0, <3>2, <3>3, <3>9, <5>1, <5>2 DEF Observed
        <5>3. CASE i = j
          <6> DEFINE T == Pending(Le(i)) \ Pending(Count)
          <6>1. Pending(Le(i))' \ Pending(Count)' = T \ {g} /\ g \in T
            BY <3>3, <3>9, <5>1, <5>3
          <6>2. T \in SUBSET Gens /\ Cardinality(T) \in Nat
            BY <3>5
          <6>3. counter[Le(i)] + Cardinality(T) <= counter[Count]
            BY DEF Observed
          <6> HIDE DEF T
          <6>4. Cardinality(T \ {g}) = Cardinality(T) - 1
            BY <6>1, <6>2, Subsets
          <6>5. counter'[Le(i)] + Cardinality(Pending(Le(i))' \ Pending(Count)') <= counter'[Count]
            <7>1. Cardinality(Pending(Le(i))' \ Pending(Count)') = Cardinality(T) - 1
              BY <6>1, <6>4
            <7>2. counter'[Le(i)] = counter[Le(i)] + 1 /\ counter[Le(i)] \in Nat
              BY <2>0, <3>2, <3>9, <5>3
            <7> QED BY <5>1, <6>2, <6>3, <7>1, <7>2
          <6>6. counter'[Le(i)] + Cardinality(Pending(Le(i))') = covered'[i]
            <7>1. Cardinality(Pending(Le(i))') = Cardinality(Pending(Le(i))) - 1
              BY <3>4, <3>9, <5>3
            <7>2. counter'[Le(i)] = counter[Le(i)] + 1 /\ counter[Le(i)] \in Nat
              BY <2>0, <3>2, <3>9, <5>3
            <7>3. counter[Le(i)] + Cardinality(Pending(Le(i))) = covered[i] /\ covered'[i] = covered[i]
              BY <3>0 DEF Observed
            <7>4. Cardinality(Pending(Le(i))) \in Nat
              BY <3>5
            <7> QED BY <7>1, <7>2, <7>3, <7>4
          <6> QED BY <6>5, <6>6
        <5> QED BY <5>2, <5>3
      <4> QED BY <3>6, <4>1, <4>2 DEF Observed
    <3> QED BY <3>1, <3>8, <3>9 DEF Observations
  <2>4. ASSUME NEW g \in Gens, StopperCounts(g) PROVE Observed'
    <3>1. /\ counter'[Sent] = counter[Sent] /\ counter'[Count] = counter[Count]
          /\ \A i \in Buckets : counter'[Le(i)] = counter[Le(i)]
          /\ UNCHANGED <<gen, covered>>
      <4>1. PICK c \in stopper[g].adds : Perform(c, stopper[g].n)
        BY <2>4 DEF StopperCounts
      <4>2. c \in {Dropped, Session}
        BY <4>1 DEF TypeOK
      <4>3. \A d \in Counters \ {c} : counter'[d] = counter[d]
        BY <2>0, <4>1 DEF Perform
      <4> QED BY <2>4, <4>2, <4>3 DEF StopperCounts
    <3>2. \A c : Pending(c)' = Pending(c)
      BY <3>1 DEF Pending
    <3> QED BY <3>1, <3>2 DEF Observed
  <2>5. ASSUME ~ \E g \in Gens : SendSucceeds(g) \/ SendFails(g) \/ Counts(g),
               ~ \E g \in Gens : StopperCounts(g)
        PROVE  Observed'
    <3>1. UNCHANGED <<counter, covered>> /\ \A h \in Gens : gen'[h].adds = gen[h].adds
      BY <2>5, RestCounts
    <3>2. \A c : Pending(c)' = Pending(c)
      BY <3>1 DEF Pending
    <3> QED BY <3>1, <3>2 DEF Observed
  <2> QED BY <2>1, <2>2, <2>3, <2>4, <2>5, SenderCounts
<1> QED BY <1>1, <1>2, TypesHold, PTL DEF Spec

\* metrics.go:98-127: with no observation on its way, the histogram is exact.
THEOREM HistogramCounts == Spec => []HistogramIsExact
<1>1. Observed /\ TypeOK => HistogramIsExact
  <2> SUFFICES ASSUME Observed, TypeOK, \A g \in Gens : gen[g].at # "counting"
               PROVE  /\ \A i \in Buckets : counter[Le(i)] = covered[i]
                      /\ counter[Count] = counter[Sent]
    BY DEF HistogramIsExact
  <2>1. \A c : Pending(c) = {}
    BY DEF TypeOK, SendersOK, Pending
  <2>2. \A c : Cardinality(Pending(c)) = 0
    BY <2>1, FS_EmptySet
  <2> QED BY <2>2, CountersAre DEF Observed, TypeOK
<1> QED BY <1>1, ObservedHolds, TypesHold, PTL
-----------------------------------------------------------------------------
LEMMA OwesFinite == \A c : IsFiniteSet(Owes(c)) /\ Cardinality(Owes(c)) \in Nat
<1>1. IsFiniteSet(Gens) /\ IsFiniteSet(1..MaxDepth)
  BY SendLoopAssumption, FS_Interval DEF Gens
<1>2. IsFiniteSet(Gens \X (1..MaxDepth))
  BY <1>1, FS_Product
<1>3. \A c : Owes(c) \in SUBSET (Gens \X (1..MaxDepth))
  BY DEF Owes
<1>4. \A c : IsFiniteSet(Owes(c))
  BY <1>2, <1>3, FS_Subset
<1> QED BY <1>4, FS_CardinalityType

LEMMA OnePart ==
    ASSUME NEW g \in Gens, NEW n \in Nat
    PROVE  IsFiniteSet({g} \X (1..n)) /\ Cardinality({g} \X (1..n)) = n
<1>1. IsFiniteSet({g}) /\ Cardinality({g}) = 1
  BY FS_Singleton
<1>2. IsFiniteSet(1..n) /\ Cardinality(1..n) = n
  BY FS_Interval
<1>3. /\ IsFiniteSet({g} \X (1..n))
      /\ Cardinality({g} \X (1..n)) = Cardinality({g}) * Cardinality(1..n)
  BY <1>1, <1>2, FS_Product
<1>4. Cardinality({g} \X (1..n)) = 1 * n
  BY <1>1, <1>2, <1>3, Zenon
<1> QED BY <1>3, <1>4

\* What a step of one StopAndDrop does to what is owed.
LEMMA OwesMoves ==
    ASSUME TypeOK, NEW g \in Gens, NEW s \in [adds : SUBSET {Dropped, Session}, n : 0..MaxDepth],
           stopper' = [stopper EXCEPT ![g] = s], NEW c
    PROVE  /\ c \in stopper[g].adds /\ c \notin s.adds =>
                Cardinality(Owes(c)') = Cardinality(Owes(c)) - stopper[g].n
           /\ c \notin stopper[g].adds /\ c \in s.adds =>
                Cardinality(Owes(c)') = Cardinality(Owes(c)) + s.n
           /\ c \in stopper[g].adds /\ c \in s.adds /\ s.n = stopper[g].n =>
                Cardinality(Owes(c)') = Cardinality(Owes(c))
           /\ c \notin stopper[g].adds /\ c \notin s.adds =>
                Cardinality(Owes(c)') = Cardinality(Owes(c))
<1> DEFINE rest == {d \in Owes(c) : d[1] # g}
           old == IF c \in stopper[g].adds THEN {g} \X (1..stopper[g].n) ELSE {}
           new == IF c \in s.adds THEN {g} \X (1..s.n) ELSE {}
<1>0. /\ stopper \in [Gens -> [adds : SUBSET {Dropped, Session}, n : 0..MaxDepth]]
      /\ stopper'[g] = s /\ \A h \in Gens \ {g} : stopper'[h] = stopper[h]
      /\ s.n \in 0..MaxDepth /\ stopper[g].n \in 0..MaxDepth /\ MaxDepth \in Nat
  BY SendLoopAssumption DEF TypeOK
<1>1. Owes(c) = rest \union old /\ rest \intersect old = {}
  BY <1>0 DEF Owes
<1>2. Owes(c)' = rest \union new /\ rest \intersect new = {}
  BY <1>0 DEF Owes
<1>3. IsFiniteSet(rest) /\ Cardinality(rest) \in Nat
  <2>1. rest \in SUBSET Owes(c)
    OBVIOUS
  <2> QED BY <2>1, OwesFinite, FS_Subset, FS_CardinalityType
<1>4. /\ IsFiniteSet(old) /\ Cardinality(old) = IF c \in stopper[g].adds THEN stopper[g].n ELSE 0
      /\ IsFiniteSet(new) /\ Cardinality(new) = IF c \in s.adds THEN s.n ELSE 0
  BY <1>0, OnePart, FS_EmptySet
<1>5. Cardinality(Owes(c)) = Cardinality(rest) + Cardinality(old)
      /\ Cardinality(Owes(c)') = Cardinality(rest) + Cardinality(new)
  <2>1. /\ Cardinality(rest \union old) = Cardinality(rest) + Cardinality(old) - Cardinality(rest \intersect old)
        /\ Cardinality(rest \union new) = Cardinality(rest) + Cardinality(new) - Cardinality(rest \intersect new)
    BY <1>3, <1>4, FS_Union
  <2>2. Cardinality({}) = 0 /\ Cardinality(old) \in Nat /\ Cardinality(new) \in Nat
    BY <1>0, <1>4, FS_EmptySet
  <2>3. Cardinality(rest \intersect old) = 0 /\ Cardinality(rest \intersect new) = 0
    BY <1>1, <1>2, <2>2
  <2>4. /\ Cardinality(rest \union old) = Cardinality(rest) + Cardinality(old)
        /\ Cardinality(rest \union new) = Cardinality(rest) + Cardinality(new)
    BY <1>3, <2>1, <2>2, <2>3
  <2> HIDE DEF rest, old, new
  <2> QED BY <1>1, <1>2, <2>4, Zenon
<1> HIDE DEF rest, old, new
<1> QED BY <1>0, <1>3, <1>4, <1>5

\* A StopAndDrop adds to the total before it adds to its session, and the sender
\* that runs has not been stopped.
Drops ==
    /\ \A g \in Gens : /\ stopper[g].adds \in {{}, {Session}, {Dropped, Session}}
                       /\ stopper[g].adds # {} => g <= latest /\ g # running
    /\ counter[Dropped] + Cardinality(Owes(Dropped)) = counter[Session] + Cardinality(Owes(Session))

LEMMA DropsHold == Spec => [](Drops /\ TotalsAddUp)
<1> USE CountersAre, CountersDiffer
<1> DEFINE Sum == accepted = queued + Cardinality(Sending) + counter[Sent] + counter[Failed]
                               + counter[Dropped] + Cardinality(Owes(Dropped)) + uncounted
<1>1. Init => Drops /\ Sum
  <2> SUFFICES ASSUME Init PROVE Drops /\ Sum
    OBVIOUS
  <2>1. Sending = {} /\ \A c : Owes(c) = {}
    BY DEF Init, NotStarted, Sending, Owes
  <2>2. Cardinality({}) = 0
    BY FS_EmptySet
  <2>3. /\ \A c \in Counters : counter[c] = 0
        /\ \A g \in Gens : stopper[g].adds = {}
        /\ queued = 0 /\ accepted = 0 /\ uncounted = 0
    BY DEF Init, MetricsInit
  <2>4. Drops
    BY <2>1, <2>2, <2>3 DEF Drops
  <2>5. Sum
    BY <2>1, <2>2, <2>3
  <2> QED BY <2>4, <2>5
<1>2. Drops /\ Sum /\ Observed /\ TypeOK /\ Fresh /\ [Next]_vars => (Drops /\ Sum)'
  <2> SUFFICES ASSUME Drops, Sum, Observed, TypeOK, Fresh, [Next]_vars PROVE (Drops /\ Sum)'
    OBVIOUS
  <2>0. /\ counter \in [Counters -> Nat]
        /\ queued \in Nat /\ accepted \in Nat /\ uncounted \in Nat
        /\ Sending \in SUBSET Gens /\ Cardinality(Sending) \in Nat
        /\ \A c : Cardinality(Owes(c)) \in Nat
        /\ stopper \in [Gens -> [adds : SUBSET {Dropped, Session}, n : 0..MaxDepth]]
        /\ latest \in Nat /\ running \in 0..latest
        /\ MaxDepth \in Nat
    BY SendLoopAssumption, Subsets, OwesFinite DEF TypeOK, Sending
  <2>01. /\ latest \in Nat /\ running \in Nat /\ running <= latest /\ latest <= MaxGens /\ MaxGens \in Nat
         /\ Gens = 1..MaxGens
    BY SendLoopAssumption DEF TypeOK, Gens
  <2>00. ASSUME UNCHANGED stopper PROVE \A c : Owes(c)' = Owes(c)
    BY <2>00 DEF Owes
  <2>1. ASSUME NEW g \in Gens, SuccessOf(g) \/ FailureOf(g), OthersStay(g),
               UNCHANGED <<loads, page, now, queueVars>>
        PROVE  (Drops /\ Sum)'
    <3>1. /\ Sending' = Sending \ {g} /\ g \in Sending
      BY <2>1 DEF SuccessOf, FailureOf, OthersStay, Sending
    <3>2. Cardinality(Sending') = Cardinality(Sending) - 1
      BY <2>0, <3>1, Subsets
    <3>3. /\ counter'[Dropped] = counter[Dropped] /\ counter'[Session] = counter[Session]
          /\ counter'[Sent] + counter'[Failed] = counter[Sent] + counter[Failed] + 1
          /\ counter' \in [Counters -> Nat]
      BY <2>0, <2>1 DEF SuccessOf, FailureOf
    <3>4. UNCHANGED <<queued, accepted, uncounted, stopper, latest, running>>
          /\ \A c : Owes(c)' = Owes(c)
      BY <2>1, <2>00 DEF queueVars
    <3>5. counter'[Sent] \in Nat /\ counter'[Failed] \in Nat /\ counter[Sent] \in Nat
          /\ counter[Failed] \in Nat /\ counter[Dropped] \in Nat
      BY <2>0, <3>3
    <3>6. Sum'
      BY <2>0, <3>2, <3>3, <3>4, <3>5
    <3> QED BY <3>3, <3>4, <3>6 DEF Drops
  <2>2. ASSUME NEW g \in Gens, NEW c \in gen[g].adds, CountBy(g, c), OthersStay(g),
               UNCHANGED <<loads, page, now, queueVars>>
        PROVE  (Drops /\ Sum)'
    <3>1. Sending' = Sending
      BY <2>2 DEF CountBy, OthersStay, Sending
    <3>2. c \in Observations
      BY DEF Observed
    <3>3. c \notin {Sent, Failed, Dropped, Session}
      BY <3>2 DEF Observations
    <3>4. \A d \in {Sent, Failed, Dropped, Session} : counter'[d] = counter[d]
      BY <2>0, <2>2, <3>3 DEF CountBy
    <3>5. UNCHANGED <<queued, accepted, uncounted, stopper, latest, running>>
          /\ \A d : Owes(d)' = Owes(d)
      BY <2>2, <2>00 DEF queueVars
    <3> QED BY <3>1, <3>4, <3>5 DEF Drops
  <2>3. ASSUME NEW g \in Gens, StopperCounts(g) PROVE (Drops /\ Sum)'
    <3>1. PICK c \in stopper[g].adds :
             /\ NextAdd(c, stopper[g].adds) /\ Perform(c, stopper[g].n)
             /\ stopper' = [stopper EXCEPT ![g].adds = @ \ {c}]
      BY <2>3 DEF StopperCounts
    <3> DEFINE s == [stopper[g] EXCEPT !.adds = @ \ {c}]
    <3>2. /\ UNCHANGED <<gen, queued, accepted, uncounted, latest, running>> /\ Sending' = Sending
      BY <2>3 DEF StopperCounts, Sending
    <3>3. /\ stopper' = [stopper EXCEPT ![g] = s]
          /\ s.adds = stopper[g].adds \ {c} /\ s.n = stopper[g].n
          /\ s \in [adds : SUBSET {Dropped, Session}, n : 0..MaxDepth]
          /\ stopper'[g] = s /\ \A h \in Gens \ {g} : stopper'[h] = stopper[h]
      BY <2>0, <3>1
    <3> HIDE DEF s
    <3>4. c \in Counters /\ counter'[c] = counter[c] + stopper[g].n
          /\ stopper[g].n \in Nat
          /\ \A d \in Counters \ {c} : counter'[d] = counter[d]
      <4>1. c \in Counters /\ stopper[g].n \in Nat
        BY <2>0, <3>1
      <4> QED BY <2>0, <3>1, <4>1 DEF Perform
    <3>5. /\ Cardinality(Owes(c)') = Cardinality(Owes(c)) - stopper[g].n
          /\ \A d : d # c => Cardinality(Owes(d)') = Cardinality(Owes(d))
      <4>1. c \in stopper[g].adds /\ c \notin s.adds
        BY <3>1, <3>3
      <4>2. ASSUME NEW d, d # c PROVE (d \in stopper[g].adds <=> d \in s.adds) /\ s.n = stopper[g].n
        BY <3>3, <4>2
      <4>3. Cardinality(Owes(c)') = Cardinality(Owes(c)) - stopper[g].n
        BY <3>3, <4>1, OwesMoves
      <4>4. ASSUME NEW d, d # c PROVE Cardinality(Owes(d)') = Cardinality(Owes(d))
        <5>1. CASE d \in stopper[g].adds
          <6>1. d \in s.adds /\ s.n = stopper[g].n
            BY <4>2, <4>4, <5>1
          <6> QED BY <3>3, <5>1, <6>1, OwesMoves
        <5>2. CASE d \notin stopper[g].adds
          <6>1. d \notin s.adds
            BY <4>2, <4>4, <5>2
          <6> QED BY <3>3, <5>2, <6>1, OwesMoves
        <5> QED BY <5>1, <5>2
      <4> QED BY <4>3, <4>4
    <3>6. c \in {Dropped, Session} /\ (c = Session => Dropped \notin stopper[g].adds)
      <4>1. c \in {Dropped, Session}
        BY <2>0, <3>1
      <4>2. ~ AddRank(Session) <= AddRank(Dropped)
        BY Ranks
      <4> QED BY <3>1, <4>1, <4>2 DEF NextAdd
    <3>7. \A h \in Gens : /\ stopper'[h].adds \in {{}, {Session}, {Dropped, Session}}
                          /\ stopper'[h].adds # {} => h <= latest' /\ h # running'
      <4>1. s.adds \in {{}, {Session}} /\ stopper[g].adds # {}
        BY <3>1, <3>3, <3>6 DEF Drops
      <4>2. \A h \in Gens \ {g} : stopper'[h] = stopper[h]
        BY <3>3
      <4> QED BY <3>2, <3>3, <4>1, <4>2 DEF Drops
    <3>8. /\ counter'[Dropped] + Cardinality(Owes(Dropped)') = counter[Dropped] + Cardinality(Owes(Dropped))
          /\ counter'[Session] + Cardinality(Owes(Session)') = counter[Session] + Cardinality(Owes(Session))
          /\ counter'[Sent] = counter[Sent] /\ counter'[Failed] = counter[Failed]
          /\ counter'[Dropped] \in Nat /\ Cardinality(Owes(Dropped)') \in Int
      <4>1. CASE c = Dropped
        BY <2>0, <3>4, <3>5, <4>1
      <4>2. CASE c = Session
        BY <2>0, <3>4, <3>5, <4>2
      <4> QED BY <3>6, <4>1, <4>2
    <3>9. Sum'
      <4>1. counter[Sent] \in Nat /\ counter[Failed] \in Nat /\ counter[Dropped] \in Nat
        BY <2>0
      <4> QED BY <2>0, <3>2, <3>5, <3>8, <4>1
    <3> QED BY <3>7, <3>8, <3>9 DEF Drops
  <2>4. ASSUME NEW g \in Gens, TickSends(g) PROVE (Drops /\ Sum)'
    <3>1. /\ gen[g].at = "waiting" /\ UNCHANGED <<counter, stopper, accepted, uncounted, latest, running>>
          /\ queued' = queued - 1
      BY <2>4 DEF TickSends
    <3>2. Sending' = Sending \union {g} /\ g \notin Sending
      <4>1. gen'[g].at = "sending" /\ \A h \in Gens \ {g} : gen'[h] = gen[h]
        BY <2>4 DEF TickSends, TypeOK, SendersOK, Senders
      <4> QED BY <3>1, <4>1 DEF Sending
    <3>3. Cardinality(Sending') = Cardinality(Sending) + 1
      BY <2>0, <3>2, Subsets
    <3>4. \A c : Owes(c)' = Owes(c)
      BY <3>1, <2>00
    <3> QED BY <2>0, <3>1, <3>3, <3>4 DEF Drops
  <2>5. ASSUME StopAndDrop \/ StopAndDropReturnsEarly \/ Enqueue \/ Start PROVE (Drops /\ Sum)'
    <3>1. UNCHANGED counter /\ Sending' = Sending
      <4>1. UNCHANGED counter /\ \A h \in Gens : gen'[h].at = "sending" <=> gen[h].at = "sending"
        <5>1. CASE StopAndDrop
          BY <5>1 DEF StopAndDrop, TypeOK, SendersOK, Senders
        <5>2. CASE StopAndDropReturnsEarly \/ Enqueue
          BY <5>2 DEF StopAndDropReturnsEarly, Enqueue
        <5>3. CASE Start
          <6>1. latest + 1 \in Gens
            BY <2>01, <5>3 DEF Start
          <6>2. gen[latest + 1].at = "off"
            BY <2>0, <6>1 DEF TypeOK, SendersOK
          <6>3. gen'[latest + 1].at = "waiting" /\ \A h \in Gens \ {latest + 1} : gen'[h] = gen[h]
            BY <5>3, <6>1 DEF Start, TypeOK, SendersOK, Senders
          <6> QED BY <5>3, <6>2, <6>3 DEF Start
        <5> QED BY <2>5, <5>1, <5>2, <5>3
      <4> QED BY <4>1 DEF Sending
    <3>2. CASE StopAndDrop
      <4> DEFINE s == [adds |-> CountDropped(queued), n |-> queued]
      <4>1. /\ running \in Gens /\ stopper[running].adds = {}
            /\ queued' = 0 /\ running' = 0 /\ UNCHANGED <<accepted, uncounted, latest>>
            /\ stopper' = [stopper EXCEPT ![running] = s]
        <5>1. running \in Gens
          BY <2>01, <3>2 DEF StopAndDrop
        <5>2. stopper[running].adds = {}
          BY <5>1 DEF Drops
        <5> QED BY <3>2, <5>1, <5>2 DEF StopAndDrop
      <4>2. /\ s.adds \in {{}, {Dropped, Session}} /\ s.n = queued
            /\ s.adds = {} <=> queued = 0
            /\ s \in [adds : SUBSET {Dropped, Session}, n : 0..MaxDepth]
        <5>1. queued \in 0..MaxDepth
          BY DEF TypeOK
        <5> QED BY <2>0, <5>1 DEF CountDropped
      <4> HIDE DEF s
      <4>3. \A h \in Gens : /\ stopper'[h].adds \in {{}, {Session}, {Dropped, Session}}
                            /\ stopper'[h].adds # {} => h <= latest' /\ h # running'
        <5>1. \A h \in Gens : h # 0
          BY DEF Gens
        <5>2. stopper'[running] = s /\ \A h \in Gens \ {running} : stopper'[h] = stopper[h]
          BY <2>0, <4>1
        <5>3. running <= latest
          BY <2>0
        <5> QED BY <4>1, <4>2, <5>1, <5>2, <5>3 DEF Drops
      <4>4. \A c \in {Dropped, Session} : Cardinality(Owes(c)') = Cardinality(Owes(c)) + queued
        <5>1. CASE queued = 0
          <6>1. \A c : c \notin stopper[running].adds /\ c \notin s.adds
            BY <4>1, <4>2, <5>1
          <6>2. \A c : Cardinality(Owes(c)') = Cardinality(Owes(c))
            BY <4>1, <4>2, <6>1, OwesMoves
          <6> QED BY <2>0, <5>1, <6>2
        <5>2. CASE queued # 0
          <6>1. s.adds = {Dropped, Session}
            BY <4>2, <5>2
          <6> QED BY <4>1, <4>2, <6>1, OwesMoves
        <5> QED BY <5>1, <5>2
      <4>5. /\ Cardinality(Owes(Dropped)') = Cardinality(Owes(Dropped)) + queued
            /\ Cardinality(Owes(Session)') = Cardinality(Owes(Session)) + queued
            /\ counter[Sent] \in Nat /\ counter[Failed] \in Nat
            /\ counter[Dropped] \in Nat /\ counter[Session] \in Nat
        BY <2>0, <4>4
      <4>6. Sum'
        BY <2>0, <3>1, <4>1, <4>5
      <4>7. counter'[Dropped] + Cardinality(Owes(Dropped)') = counter'[Session] + Cardinality(Owes(Session)')
        <5>1. counter[Dropped] + Cardinality(Owes(Dropped)) = counter[Session] + Cardinality(Owes(Session))
          BY DEF Drops
        <5>2. /\ Cardinality(Owes(Dropped)) \in Nat /\ Cardinality(Owes(Session)) \in Nat
              /\ queued \in Nat /\ UNCHANGED counter
          BY <2>0, <3>1
        <5> QED BY <4>5, <5>1, <5>2
      <4> QED BY <4>3, <4>6, <4>7 DEF Drops
    <3>3. CASE StopAndDropReturnsEarly
      <4>1. UNCHANGED <<accepted, stopper, latest, running>> /\ queued' = 0 /\ uncounted' = uncounted + queued
        BY <3>3 DEF StopAndDropReturnsEarly
      <4>2. \A c : Owes(c)' = Owes(c)
        BY <4>1, <2>00
      <4>3. Sum'
        BY <2>0, <3>1, <4>1, <4>2
      <4> QED BY <3>1, <4>1, <4>2, <4>3 DEF Drops
    <3>4. CASE Enqueue
      <4>1. UNCHANGED <<uncounted, stopper, latest, running>> /\ queued' = queued + 1 /\ accepted' = accepted + 1
        BY <3>4 DEF Enqueue
      <4>2. \A c : Owes(c)' = Owes(c)
        BY <4>1, <2>00
      <4>3. Sum'
        BY <2>0, <3>1, <4>1, <4>2
      <4> QED BY <3>1, <4>1, <4>2, <4>3 DEF Drops
    <3>5. CASE Start
      <4>1. /\ UNCHANGED <<uncounted, queued, accepted, stopper>>
            /\ latest' = latest + 1 /\ running' = latest + 1
        BY <3>5 DEF Start
      <4>2. \A c : Owes(c)' = Owes(c)
        BY <4>1, <2>00
      <4>3. \A h \in Gens : stopper'[h].adds # {} => h <= latest' /\ h # running'
        <5>1. \A h \in Gens : h \in Int
          BY DEF Gens
        <5> QED BY <2>0, <4>1, <5>1 DEF Drops
      <4> QED BY <3>1, <4>1, <4>2, <4>3 DEF Drops
    <3> QED BY <2>5, <3>2, <3>3, <3>4, <3>5
  <2>6. ASSUME ~ \E g \in Gens : SendSucceeds(g) \/ SendFails(g) \/ Counts(g) \/ TickSends(g) \/ StopperCounts(g),
               ~ (StopAndDrop \/ StopAndDropReturnsEarly \/ Enqueue \/ Start)
        PROVE  (Drops /\ Sum)'
    <3>1. UNCHANGED counter /\ Sending' = Sending
      BY <2>6, RestCounts
    <3>2. UNCHANGED <<queued, stopper, accepted, uncounted, latest, running>>
      BY <2>6 DEF Next, vars, queueVars, TickFindsNothing, StopSeen, Advance, Scrape
    <3>3. \A c : Owes(c)' = Owes(c)
      BY <3>2, <2>00
    <3> QED BY <3>1, <3>2, <3>3 DEF Drops
  <2> QED BY <2>1, <2>2, <2>3, <2>4, <2>5, <2>6, SenderCounts
<1>3. Sum => TotalsAddUp
  BY DEF TotalsAddUp, Sending
<1> QED BY <1>1, <1>2, <1>3, TypesHold, ObservedHolds, PTL DEF Spec

\* queue.go:40-117: each accepted command is somewhere or in exactly one total.
THEOREM TotalsHold == Spec => []TotalsAddUp
BY DropsHold, PTL
-----------------------------------------------------------------------------
\* What a scrape has loaded is behind what it loads later.
Scraped ==
    /\ Session \in loads => Dropped \in loads
    /\ Sent \in loads => Count \in loads
    /\ \A i \in Buckets : Le(i) \in loads => Count \in loads
    /\ Session \notin loads => page[Session] <= counter[Session]
    /\ Dropped \notin loads => page[Session] <= page[Dropped]
    /\ Sent \notin loads => page[Sent] <= counter[Sent]
    /\ \A i \in Buckets : Le(i) \notin loads => page[Le(i)] <= counter[Le(i)]
    /\ Count \notin loads => /\ \A i \in Buckets : page[Le(i)] <= page[Count]
                             /\ page[Sent] <= page[Count] + MaxGens

LEMMA CountersGrow ==
    ASSUME TypeOK, Fresh, [Next]_vars
    PROVE  \A c \in Counters : counter[c] <= counter'[c]
<1>0. counter \in [Counters -> Nat] /\ \A g \in Gens : stopper[g].n \in Nat
  BY SendLoopAssumption DEF TypeOK
<1>1. ASSUME NEW g \in Gens, SuccessOf(g) \/ FailureOf(g) \/ \E c \in gen[g].adds : CountBy(g, c)
      PROVE  \A c \in Counters : counter[c] <= counter'[c]
  BY <1>0, <1>1, CountersAre DEF SuccessOf, FailureOf, CountBy
<1>2. ASSUME NEW g \in Gens, StopperCounts(g)
      PROVE  \A c \in Counters : counter[c] <= counter'[c]
  BY <1>0, <1>2 DEF StopperCounts, Perform
<1>3. ASSUME ~ \E g \in Gens : SendSucceeds(g) \/ SendFails(g) \/ Counts(g),
             ~ \E g \in Gens : StopperCounts(g)
      PROVE  \A c \in Counters : counter[c] <= counter'[c]
  BY <1>0, <1>3, RestCounts
<1> QED BY <1>1, <1>2, <1>3, SenderCounts

\* metrics.go:151-188: a scrape loads the map first and the histogram's count last.
THEOREM PageHolds == Spec => []PageIsConsistent
<1> USE CountersAre, CountersDiffer
<1>1. Init => Scraped
  BY SendLoopAssumption DEF Init, MetricsInit, EmptyPage, Scraped
<1>2. Scraped /\ Drops /\ Observed /\ TypeOK /\ TypeOK' /\ Fresh /\ [Next]_vars => Scraped'
  <2> SUFFICES ASSUME Scraped, Drops, Observed, TypeOK, TypeOK', Fresh, [Next]_vars PROVE Scraped'
    OBVIOUS
  <2>0. /\ counter \in [Counters -> Nat] /\ page \in [Counters -> Nat] /\ MaxGens \in Nat
        /\ \A c \in Counters : counter[c] \in Nat /\ counter'[c] \in Nat
    BY SendLoopAssumption DEF TypeOK
  <2>1. \A c \in Counters : counter[c] <= counter'[c]
    BY CountersGrow
  <2>2. ASSUME UNCHANGED <<loads, page>> PROVE Scraped'
    <3>1. \A c \in Counters : page[c] <= counter[c] => page[c] <= counter'[c]
      BY <2>0, <2>1
    <3> QED BY <2>2, <3>1 DEF Scraped
  <2>3. ASSUME loads' = {} \/ loads' = Counters, page' = EmptyPage PROVE Scraped'
    <3>1. \A c \in Counters : page'[c] = 0
      BY <2>3 DEF EmptyPage
    <3>2. \A c \in Counters : page'[c] <= counter'[c] /\ \A d \in Counters : page'[c] <= page'[d]
      BY <2>0, <3>1
    <3>3. page'[Sent] <= page'[Count] + MaxGens
      BY <2>0, <3>1
    <3> QED BY <2>3, <3>2, <3>3 DEF Scraped
  <2>4. CASE Scrape /\ Load
    <3>1. PICK c \in loads : /\ \A d \in loads : LoadRank(c) <= LoadRank(d)
                             /\ page' = [page EXCEPT ![c] = counter[c]]
                             /\ loads' = loads \ {c} /\ UNCHANGED counter
      BY <2>4 DEF Load
    <3>2. c \in Counters
      BY <3>1 DEF TypeOK
    <3>3. page'[c] = counter[c] /\ \A d \in Counters \ {c} : page'[d] = page[d]
      BY <2>0, <3>1, <3>2
    <3>4. ASSUME c = Session PROVE Scraped'
      BY <2>0, <3>1, <3>3, <3>4 DEF Scraped
    <3>5. ASSUME c = Dropped PROVE Scraped'
      <4>1. Session \notin loads
        BY <3>1, <3>5, Ranks
      <4>2. counter[Session] <= counter[Dropped]
        <5>1. Owes(Dropped) \in SUBSET Owes(Session)
          BY DEF Drops, Owes
        <5>2. /\ Cardinality(Owes(Dropped)) \in Nat /\ Cardinality(Owes(Session)) \in Nat
              /\ Cardinality(Owes(Dropped)) <= Cardinality(Owes(Session))
          BY <5>1, OwesFinite, FS_Subset
        <5> QED BY <2>0, <5>2 DEF Drops
      <4>3. page'[Session] <= page'[Dropped]
        BY <2>0, <3>3, <3>5, <4>1, <4>2 DEF Scraped
      <4> QED BY <2>0, <3>1, <3>3, <3>5, <4>1, <4>3 DEF Scraped
    <3>6. ASSUME c = Sent PROVE Scraped'
      BY <2>0, <3>1, <3>3, <3>6 DEF Scraped
    <3>7. ASSUME c = Failed PROVE Scraped'
      BY <2>0, <3>1, <3>3, <3>7 DEF Scraped
    <3>8. ASSUME NEW i \in Buckets, c = Le(i) PROVE Scraped'
      <4>1. Count \in loads
        BY <3>1, <3>8 DEF Scraped
      <4>2. \A j \in Buckets : Le(j) \notin loads' => page'[Le(j)] <= counter'[Le(j)]
        BY <2>0, <3>1, <3>3, <3>8 DEF Scraped
      <4> QED BY <3>1, <3>3, <3>8, <4>1, <4>2 DEF Scraped
    <3>9. ASSUME c = Count PROVE Scraped'
      <4>1. Sent \notin loads
        <5>1. ~ LoadRank(Count) <= LoadRank(Sent)
          BY Ranks
        <5> QED BY <3>1, <3>9, <5>1
      <4>2. ASSUME NEW i \in Buckets PROVE Le(i) \notin loads
        <5>1. ~ LoadRank(Count) <= LoadRank(Le(i))
          BY Ranks
        <5> QED BY <3>1, <3>9, <5>1
      <4>3. counter[Sent] <= counter[Count] + MaxGens
        <5>1. Cardinality(Pending(Count)) \in Nat /\ Cardinality(Pending(Count)) <= MaxGens
          BY Subsets DEF Pending
        <5> QED BY <2>0, <5>1 DEF Observed
      <4>4. \A i \in Buckets : counter[Le(i)] <= counter[Count]
        <5> SUFFICES ASSUME NEW i \in Buckets PROVE counter[Le(i)] <= counter[Count]
          OBVIOUS
        <5>1. Cardinality(Pending(Le(i)) \ Pending(Count)) \in Nat
          BY Subsets DEF Pending
        <5> QED BY <2>0, <5>1 DEF Observed
      <4>5. page'[Sent] <= page'[Count] + MaxGens
        BY <2>0, <3>3, <3>9, <4>1, <4>3 DEF Scraped
      <4>6. \A i \in Buckets : page'[Le(i)] <= page'[Count]
        BY <2>0, <3>3, <3>9, <4>2, <4>4 DEF Scraped
      <4> QED BY <3>1, <3>3, <3>9, <4>1, <4>2, <4>5, <4>6 DEF Scraped
    <3> QED BY <3>2, <3>4, <3>5, <3>6, <3>7, <3>8, <3>9 DEF Counters
  <2>5. CASE Scrape /\ ScrapeBegins
    BY <2>3, <2>5 DEF ScrapeBegins
  <2>6. CASE Advance
    <3>1. CASE loads = {}
      BY <2>3, <2>6, <3>1 DEF Advance
    <3>2. CASE loads # {}
      BY <2>2, <2>6, <3>2 DEF Advance
    <3> QED BY <3>1, <3>2
  <2>7. ASSUME ~ Scrape, ~ Advance PROVE UNCHANGED <<loads, page>>
    <3>1. ASSUME NEW g \in Gens, TickFindsNothing(g) \/ TickSends(g) \/ StopSeen(g) PROVE UNCHANGED <<loads, page>>
      BY <3>1 DEF TickFindsNothing, TickSends, StopSeen
    <3>2. ASSUME NEW g \in Gens, SendSucceeds(g) \/ SendFails(g) \/ Counts(g) PROVE UNCHANGED <<loads, page>>
      BY <3>2 DEF SendSucceeds, SendFails, Counts
    <3>3. ASSUME NEW g \in Gens, StopperCounts(g) PROVE UNCHANGED <<loads, page>>
      BY <3>3 DEF StopperCounts
    <3> QED BY <2>7, <3>1, <3>2, <3>3 DEF Next, vars, Enqueue, Start, StopAndDrop, StopAndDropReturnsEarly
  <2> QED BY <2>2, <2>4, <2>5, <2>6, <2>7 DEF Scrape
<1>3. Scraped => PageIsConsistent
  BY DEF Scraped, PageIsConsistent
<1> QED BY <1>1, <1>2, <1>3, TypesHold, ObservedHolds, DropsHold, PTL DEF Spec
-----------------------------------------------------------------------------
\* The writes a sender has made, is making, or has a tick in the buffer for.
Used(g) == Len(gen[g].writes) + (IF gen[g].at = "sending" THEN 1 ELSE 0)
                              + (IF gen[g].ticked THEN 1 ELSE 0)
LastTick(g) == gen[g].next - Interval

\* n writes of a sender started at b have used ticks up to the one at last.
InTime(w, n, b, last) ==
    /\ b + n * Interval <= last
    /\ \A j \in DOMAIN w : n >= j + 2 => w[j] + (n - j - 2) * Interval <= last

PacedFrom(w, b) ==
    /\ \A k \in DOMAIN w : w[k] >= b + k * Interval
    /\ \A j, k \in DOMAIN w : k > j + 2 => w[k] >= w[j] + (k - j - 2) * Interval

\* Ticks come an interval apart, and a write uses one: one write may wait for
\* its tick to be taken, one for its command to be sent.
Ticking ==
    \A g \in Gens :
        /\ PacedFrom(gen[g].writes, gen[g].born)
        /\ Alive(g) => /\ LastTick(g) <= now /\ now < gen[g].next
                       /\ InTime(gen[g].writes, Used(g), gen[g].born, LastTick(g))

LEMMA Product ==
    ASSUME NEW a \in Int, NEW b \in Int, a <= b
    PROVE  a * Interval <= b * Interval /\ (b + 1) * Interval = b * Interval + Interval
           /\ a * Interval \in Int /\ b * Interval \in Int
BY SendLoopAssumption

LEMMA WritesAre ==
    ASSUME NEW w \in Seq(Nat)
    PROVE  /\ Len(w) \in Nat /\ DOMAIN w = 1..Len(w)
           /\ \A j \in DOMAIN w : w[j] \in Int /\ j \in Int /\ 1 <= j /\ j <= Len(w)
OBVIOUS

\* A tick was taken for no write.
LEMMA TickIsLost ==
    ASSUME NEW w \in Seq(Nat), NEW n \in Int, NEW b \in Int, NEW last \in Int, InTime(w, n, b, last)
    PROVE  InTime(w, n - 1, b, last)
<1>1. b + (n - 1) * Interval <= last
  <2>1. (n - 1) * Interval <= n * Interval /\ (n - 1) * Interval \in Int /\ n * Interval \in Int
    <3>1. n - 1 \in Int /\ n - 1 <= n
      OBVIOUS
    <3> QED BY <3>1, Product
  <2> QED BY <2>1 DEF InTime
<1>2. ASSUME NEW j \in DOMAIN w, n - 1 >= j + 2 PROVE w[j] + (n - 1 - j - 2) * Interval <= last
  <2>1. j \in Int /\ w[j] \in Int
    BY WritesAre
  <2>2. /\ (n - 1 - j - 2) * Interval <= (n - j - 2) * Interval
        /\ (n - 1 - j - 2) * Interval \in Int /\ (n - j - 2) * Interval \in Int
    <3>1. n - 1 - j - 2 \in Int /\ n - j - 2 \in Int /\ n - 1 - j - 2 <= n - j - 2
      BY <2>1
    <3> QED BY <3>1, Product
  <2>3. w[j] + (n - j - 2) * Interval <= last
    BY <1>2, <2>1 DEF InTime
  <2> QED BY <2>1, <2>2, <2>3
<1> QED BY <1>1, <1>2 DEF InTime

\* The next tick comes, with or without room in the channel.
LEMMA TickComes ==
    ASSUME NEW w \in Seq(Nat), NEW n \in Int, NEW b \in Int, NEW last \in Int, InTime(w, n, b, last),
           n >= Len(w), \A j \in DOMAIN w : w[j] <= last + Interval
    PROVE  InTime(w, n, b, last + Interval) /\ InTime(w, n + 1, b, last + Interval)
<1>0. Interval \in Nat
  BY SendLoopAssumption
<1>1. /\ b + n * Interval <= last + Interval /\ b + (n + 1) * Interval <= last + Interval
  <2>1. (n + 1) * Interval = n * Interval + Interval /\ n * Interval \in Int
    BY Product
  <2> QED BY <1>0, <2>1 DEF InTime
<1>2. ASSUME NEW j \in DOMAIN w
      PROVE  /\ n >= j + 2 => w[j] + (n - j - 2) * Interval <= last + Interval
             /\ n + 1 >= j + 2 => w[j] + (n + 1 - j - 2) * Interval <= last + Interval
  <2>1. j \in Int /\ w[j] \in Int /\ w[j] <= last + Interval
    BY WritesAre
  <2>2. n - j - 2 \in Int /\ n + 1 - j - 2 = (n - j - 2) + 1
    BY <2>1
  <2>3. (n + 1 - j - 2) * Interval = (n - j - 2) * Interval + Interval /\ (n - j - 2) * Interval \in Int
    BY <2>2, Product
  <2>4. CASE n >= j + 2
    <3> DEFINE P == (n - j - 2) * Interval
    <3>1. w[j] + P <= last
      BY <2>4 DEF InTime
    <3>2. P \in Int /\ (n + 1 - j - 2) * Interval = P + Interval
      BY <2>3
    <3> HIDE DEF P
    <3>3. w[j] + P <= last + Interval /\ w[j] + (P + Interval) <= last + Interval
      <4>1. ASSUME NEW a \in Int, NEW p \in Int, NEW i \in Nat, a + p <= last
            PROVE  a + p <= last + i /\ a + (p + i) <= last + i
        BY <4>1
      <4> QED BY <1>0, <2>1, <3>1, <3>2, <4>1
    <3> QED BY <3>2, <3>3 DEF P
  <2>5. CASE n + 1 = j + 2
    <3>1. n + 1 - j - 2 = 0
      BY <2>1, <2>5
    <3>2. (n + 1 - j - 2) * Interval = 0
      BY <1>0, <3>1
    <3> QED BY <2>1, <2>5, <3>2
  <2> QED BY <2>1, <2>4, <2>5
<1>3. InTime(w, n, b, last + Interval)
  BY <1>1, <1>2 DEF InTime
<1>4. InTime(w, n + 1, b, last + Interval)
  <2>1. \A j \in DOMAIN w : n + 1 >= j + 2 => w[j] + (n + 1 - j - 2) * Interval <= last + Interval
    BY <1>2
  <2> QED BY <1>1, <2>1 DEF InTime
<1> QED BY <1>3, <1>4

\* A write, whose tick may have been the last but one.
LEMMA WriteIsPaced ==
    ASSUME NEW w \in Seq(Nat), NEW n \in Int, NEW b \in Int, NEW last \in Int, InTime(w, n, b, last),
           NEW t \in Nat, last <= t, n \in {Len(w) + 1, Len(w) + 2}, PacedFrom(w, b)
    PROVE  PacedFrom(Append(w, t), b) /\ InTime(Append(w, t), n, b, last)
<1> DEFINE v == Append(w, t)
           m == Len(w) + 1
<1>1. /\ DOMAIN v = 1..m /\ v[m] = t /\ \A j \in 1..Len(w) : v[j] = w[j]
  BY AppendProperties, LenProperties
<1>2. /\ Len(w) \in Nat /\ m \in Nat /\ n >= m /\ n < m + 2 /\ DOMAIN w = 1..Len(w)
      /\ \A j \in DOMAIN v : j \in DOMAIN w \/ j = m
  BY <1>1, WritesAre
<1> HIDE DEF v, m
<1>3. ASSUME NEW j \in DOMAIN v, n >= j + 2 PROVE v[j] + (n - j - 2) * Interval <= last
  <2>1. CASE j \in DOMAIN w
    <3>1. v[j] = w[j]
      BY <1>1, <1>2, <2>1
    <3> QED BY <1>3, <2>1, <3>1 DEF InTime
  <2>2. CASE j = m
    BY <1>2, <1>3, <2>2
  <2> QED BY <1>2, <2>1, <2>2
<1>4. ASSUME NEW k \in DOMAIN v PROVE v[k] >= b + k * Interval
  <2>1. CASE k \in DOMAIN w
    <3>1. v[k] = w[k]
      BY <1>1, <1>2, <2>1
    <3> QED BY <2>1, <3>1 DEF PacedFrom
  <2>2. CASE k = m
    <3>1. m * Interval <= n * Interval /\ m * Interval \in Int /\ n * Interval \in Int
      <4>1. m \in Int /\ n \in Int /\ m <= n
        BY <1>2
      <4> QED BY <4>1, Product
    <3>2. b + n * Interval <= last /\ v[k] = t
      BY <1>1, <2>2 DEF InTime
    <3> QED BY <2>2, <3>1, <3>2
  <2> QED BY <1>2, <2>1, <2>2
<1>5. ASSUME NEW j \in DOMAIN v, NEW k \in DOMAIN v, k > j + 2
      PROVE  v[k] >= v[j] + (k - j - 2) * Interval
  <2>0. j \in Int /\ k \in Int /\ j <= m /\ k <= m
    BY <1>1, <1>2
  <2>1. j \in DOMAIN w /\ v[j] = w[j] /\ w[j] \in Int
    <3>1. j \in DOMAIN w
      BY <1>2, <1>5, <2>0
    <3> QED BY <1>1, <1>2, <3>1, WritesAre
  <2>2. CASE k \in DOMAIN w
    <3>1. v[k] = w[k]
      BY <1>1, <1>2, <2>2
    <3> QED BY <1>5, <2>1, <2>2, <3>1 DEF PacedFrom
  <2>3. CASE k = m
    <3>1. n >= j + 2 /\ k - j - 2 \in Int /\ n - j - 2 \in Int /\ k - j - 2 <= n - j - 2
      BY <1>2, <1>5, <2>0, <2>3
    <3>2. /\ (k - j - 2) * Interval <= (n - j - 2) * Interval
          /\ (k - j - 2) * Interval \in Int /\ (n - j - 2) * Interval \in Int
      BY <3>1, Product
    <3>3. w[j] + (n - j - 2) * Interval <= last
      BY <2>1, <3>1 DEF InTime
    <3>4. v[k] = t
      BY <1>1, <2>3
    <3> QED BY <2>1, <3>2, <3>3, <3>4
  <2> QED BY <1>2, <2>2, <2>3
<1>6. b + n * Interval <= last
  BY DEF InTime
<1> QED BY <1>3, <1>4, <1>5, <1>6 DEF InTime, PacedFrom, v

\* What each step makes of a sender's ticks and writes.
SameTicks(g) ==
    /\ gen'[g].next = gen[g].next /\ gen'[g].born = gen[g].born /\ gen'[g].writes = gen[g].writes

LEMMA SenderSteps ==
    ASSUME TypeOK, Fresh, [Next]_vars, NEW g \in Gens
    PROVE  \/ /\ UNCHANGED now /\ SameTicks(g) /\ Alive(g) /\ Alive(g)'
              /\ Used(g)' \in {Used(g), Used(g) - 1}
           \/ /\ UNCHANGED now /\ SameTicks(g) /\ ~ Alive(g) /\ ~ Alive(g)'
           \/ /\ ~ Alive(g)' /\ gen'[g].writes = gen[g].writes /\ gen'[g].born = gen[g].born
           \/ /\ UNCHANGED now /\ gen'[g].born = now /\ gen'[g].next = now + Interval
              /\ gen'[g].writes = <<>> /\ Used(g)' = 0
           \/ /\ UNCHANGED now /\ Alive(g) /\ gen'[g].next = gen[g].next /\ gen'[g].born = gen[g].born
              /\ gen'[g].writes = Append(gen[g].writes, now)
              /\ Used(g)' = Used(g) /\ Used(g) \in {Len(gen[g].writes) + 1, Len(gen[g].writes) + 2}
           \/ /\ now' = now + 1 /\ gen'[g].born = gen[g].born /\ gen'[g].writes = gen[g].writes
              /\ gen'[g].at = gen[g].at
              /\ Alive(g) => \/ /\ gen[g].next = now + 1 /\ gen'[g].next = gen[g].next + Interval
                                /\ Used(g)' \in {Used(g), Used(g) + 1}
                             \/ /\ gen[g].next # now + 1 /\ gen'[g].next = gen[g].next
                                /\ Used(g)' = Used(g)
<1> DEFINE Goal ==
           \/ /\ UNCHANGED now /\ SameTicks(g) /\ Alive(g) /\ Alive(g)'
              /\ Used(g)' \in {Used(g), Used(g) - 1}
           \/ /\ UNCHANGED now /\ SameTicks(g) /\ ~ Alive(g) /\ ~ Alive(g)'
           \/ /\ ~ Alive(g)' /\ gen'[g].writes = gen[g].writes /\ gen'[g].born = gen[g].born
           \/ /\ UNCHANGED now /\ gen'[g].born = now /\ gen'[g].next = now + Interval
              /\ gen'[g].writes = <<>> /\ Used(g)' = 0
           \/ /\ UNCHANGED now /\ Alive(g) /\ gen'[g].next = gen[g].next /\ gen'[g].born = gen[g].born
              /\ gen'[g].writes = Append(gen[g].writes, now)
              /\ Used(g)' = Used(g) /\ Used(g) \in {Len(gen[g].writes) + 1, Len(gen[g].writes) + 2}
           \/ /\ now' = now + 1 /\ gen'[g].born = gen[g].born /\ gen'[g].writes = gen[g].writes
              /\ gen'[g].at = gen[g].at
              /\ Alive(g) => \/ /\ gen[g].next = now + 1 /\ gen'[g].next = gen[g].next + Interval
                                /\ Used(g)' \in {Used(g), Used(g) + 1}
                             \/ /\ gen[g].next # now + 1 /\ gen'[g].next = gen[g].next
                                /\ Used(g)' = Used(g)
<1>0. gen \in [Gens -> Senders] /\ gen[g] \in Senders /\ Len(gen[g].writes) \in Nat /\ Used(g) \in Int
      /\ gen[g].writes \in Seq(Nat)
  <2>1. gen \in [Gens -> Senders] /\ gen[g] \in Senders
    BY DEF TypeOK, SendersOK
  <2>2. gen[g].writes \in Seq(Nat)
    BY SenderFields
  <2>3. Len(gen[g].writes) \in Nat
    BY <2>2, LenProperties
  <2> QED BY <2>1, <2>2, <2>3 DEF Used
<1>1. ASSUME gen'[g] = gen[g], UNCHANGED now PROVE Goal
  BY <1>0, <1>1 DEF Alive, SameTicks, Used
<1>2. ASSUME Start PROVE Goal
  <2>1. latest + 1 \in Gens /\ latest \in Nat
    BY <1>2, SendLoopAssumption DEF Start, TypeOK, Gens
  <2>2. gen[latest + 1] = NotStarted
    BY <2>1 DEF TypeOK, SendersOK, Fresh
  <2>3. gen'[latest + 1] = [NotStarted EXCEPT !.at = "waiting", !.born = now, !.next = now + Interval]
        /\ \A h \in Gens \ {latest + 1} : gen'[h] = gen[h]
    BY <1>0, <1>2, <2>1, <2>2 DEF Start
  <2> DEFINE s == [NotStarted EXCEPT !.at = "waiting", !.born = now, !.next = now + Interval]
  <2>4. g = latest + 1 => /\ gen'[g].born = now /\ gen'[g].next = now + Interval
                          /\ gen'[g].writes = <<>> /\ gen'[g].at = "waiting" /\ ~ gen'[g].ticked
    <3>1. s.at = "waiting" /\ s.born = now /\ s.next = now + Interval /\ s.writes = <<>> /\ ~ s.ticked
      BY DEF NotStarted
    <3> HIDE DEF s
    <3>2. g = latest + 1 => gen'[g] = s
      BY <2>3 DEF s
    <3> QED BY <3>1, <3>2
  <2>5. UNCHANGED now
    BY <1>2 DEF Start
  <2>6. g = latest + 1 => Used(g)' = 0
    <3>1. Len(<<>>) = 0
      OBVIOUS
    <3>2. g = latest + 1 => Used(g)' = Len(<<>>) + 0 + 0
      BY <2>4 DEF Used
    <3> QED BY <3>1, <3>2
  <2> QED BY <1>1, <2>3, <2>4, <2>5, <2>6
<1>3. ASSUME StopAndDrop PROVE Goal
  <2>1. /\ UNCHANGED now /\ SameTicks(g) /\ gen'[g].at = gen[g].at /\ gen'[g].ticked = gen[g].ticked
    BY <1>0, <1>3 DEF StopAndDrop, SameTicks, Senders
  <2> QED BY <1>0, <2>1 DEF Alive, Used, SameTicks
<1>4. ASSUME NEW h \in Gens, TickFindsNothing(h) \/ TickSends(h) \/ Counts(h) \/ StopSeen(h)
      PROVE  Goal
  <2>1. UNCHANGED now /\ (g # h => gen'[g] = gen[g])
    BY <1>0, <1>4 DEF TickFindsNothing, TickSends, Counts, StopSeen
  <2>2. CASE g = h /\ TickFindsNothing(g)
    <3>1. /\ SameTicks(g) /\ gen'[g].at = "waiting" /\ gen[g].at = "waiting" /\ gen'[g].ticked = FALSE
          /\ gen[g].ticked
      BY <1>0, <2>2 DEF TickFindsNothing, SameTicks, Senders
    <3>2. Used(g) = Len(gen[g].writes) + 0 + 1 /\ Used(g)' = Len(gen[g].writes) + 0 + 0
      BY <3>1 DEF Used, SameTicks
    <3> QED BY <1>0, <2>1, <3>1, <3>2 DEF Alive
  <2>3. CASE g = h /\ TickSends(g)
    <3>1. /\ SameTicks(g) /\ gen'[g].at = "sending" /\ gen[g].at = "waiting" /\ gen'[g].ticked = FALSE
          /\ gen[g].ticked
      BY <1>0, <2>3 DEF TickSends, SameTicks, Senders
    <3>2. Used(g) = Len(gen[g].writes) + 0 + 1 /\ Used(g)' = Len(gen[g].writes) + 1 + 0
      BY <3>1 DEF Used, SameTicks
    <3> QED BY <1>0, <2>1, <3>1, <3>2 DEF Alive
  <2>4. CASE g = h /\ Counts(g)
    <3>1. /\ SameTicks(g) /\ gen'[g].at \in {"counting", "waiting"} /\ gen[g].at = "counting"
          /\ gen'[g].ticked = gen[g].ticked
      BY <1>0, <2>4 DEF Counts, SameTicks, Senders
    <3> QED BY <1>0, <2>1, <3>1 DEF Alive, Used, SameTicks
  <2>5. CASE g = h /\ StopSeen(g)
    BY <1>0, <2>5 DEF StopSeen, Senders, Alive
  <2> QED BY <1>1, <1>4, <2>1, <2>2, <2>3, <2>4, <2>5
<1>5. ASSUME NEW h \in Gens, SendSucceeds(h) \/ SendFails(h) PROVE Goal
  <2>1. UNCHANGED now /\ (g # h => gen'[g] = gen[g])
    BY <1>0, <1>5 DEF SendSucceeds, SendFails
  <2>2. CASE g = h
    <3>1. /\ Append(gen[g].writes, now) \in Seq(Nat)
          /\ Len(Append(gen[g].writes, now)) = Len(gen[g].writes) + 1
      BY <1>0, SenderFields, AppendProperties
    <3>2. /\ Wrote(g) \in Senders /\ Wrote(g).writes = Append(gen[g].writes, now)
          /\ Wrote(g).born = gen[g].born /\ Wrote(g).next = gen[g].next /\ Wrote(g).ticked = gen[g].ticked
      BY <1>0, <3>1 DEF Wrote, Senders
    <3>3. \E a : gen'[g] = [Wrote(g) EXCEPT !.at = "counting", !.adds = a]
                   \/ gen'[g] = [Wrote(g) EXCEPT !.at = "waiting"]
      BY <1>0, <1>5, <2>2 DEF SendSucceeds, SendFails
    <3>4. /\ gen'[g].writes = Append(gen[g].writes, now) /\ gen'[g].born = gen[g].born
          /\ gen'[g].next = gen[g].next /\ gen'[g].ticked = gen[g].ticked
          /\ gen'[g].at \in {"counting", "waiting"}
      BY <3>2, <3>3 DEF Senders
    <3>5. gen[g].at = "sending"
      BY <1>5, <2>2 DEF SendSucceeds, SendFails
    <3>6. Used(g)' = Used(g) /\ Used(g) \in {Len(gen[g].writes) + 1, Len(gen[g].writes) + 2}
      <4> DEFINE tick == IF gen[g].ticked THEN 1 ELSE 0
      <4>1. tick \in {0, 1}
        OBVIOUS
      <4>2. Used(g) = Len(gen[g].writes) + 1 + tick /\ Used(g)' = Len(gen[g].writes) + 1 + 0 + tick
        BY <3>1, <3>4, <3>5 DEF Used
      <4> HIDE DEF tick
      <4> QED BY <1>0, <4>1, <4>2
    <3> QED BY <2>1, <3>4, <3>5, <3>6 DEF Alive
  <2> QED BY <1>1, <2>1, <2>2
<1>6. ASSUME Advance PROVE Goal
  <2>1. now' = now + 1 /\ gen'[g] = Ticked(g, now + 1)
    BY <1>6 DEF Advance
  <2>2. CASE Alive(g) /\ gen[g].next = now + 1
    <3>1. /\ gen'[g].next = gen[g].next + Interval /\ gen'[g].ticked = TRUE /\ gen'[g].at = gen[g].at
          /\ gen'[g].born = gen[g].born /\ gen'[g].writes = gen[g].writes
      BY <1>0, <2>1, <2>2 DEF Ticked, Alive, Senders
    <3>2. Used(g)' \in {Used(g), Used(g) + 1}
      <4> DEFINE one == IF gen[g].at = "sending" THEN 1 ELSE 0
                 base == Len(gen[g].writes) + one
      <4>1. base \in Nat
        <5>1. one \in Nat
          OBVIOUS
        <5> HIDE DEF one
        <5> QED BY <1>0, <5>1
      <4>2. Used(g) = base + (IF gen[g].ticked THEN 1 ELSE 0) /\ Used(g)' = base + 1
        BY <3>1 DEF Used
      <4> HIDE DEF base
      <4> QED BY <4>1, <4>2
    <3> QED BY <2>1, <2>2, <3>1, <3>2
  <2>3. CASE ~ (Alive(g) /\ gen[g].next = now + 1)
    <3>1. gen'[g] = gen[g]
      BY <2>1, <2>3 DEF Ticked, Alive
    <3> QED BY <2>1, <2>3, <3>1 DEF Used
  <2> QED BY <2>2, <2>3
<1>7. ASSUME Enqueue \/ StopAndDropReturnsEarly \/ (\E h \in Gens : StopperCounts(h)) \/ Scrape \/ UNCHANGED vars
      PROVE  Goal
  <2>1. UNCHANGED <<gen, now>>
    BY <1>7 DEF Enqueue, StopAndDropReturnsEarly, StopperCounts, Scrape, vars
  <2> QED BY <1>1, <2>1
<1> HIDE DEF Goal
<1>8. Goal
  BY <1>2, <1>3, <1>4, <1>5, <1>6, <1>7 DEF Next
<1> QED BY <1>8 DEF Goal

LEMMA UsedBounds ==
    ASSUME TypeOK, NEW g \in Gens
    PROVE  Used(g) \in Int /\ Used(g) >= Len(gen[g].writes)
<1> DEFINE sends == IF gen[g].at = "sending" THEN 1 ELSE 0
           tick == IF gen[g].ticked THEN 1 ELSE 0
<1>1. sends \in Nat /\ tick \in Nat /\ Len(gen[g].writes) \in Nat
  BY SenderFields, LenProperties
<1>2. Used(g) = Len(gen[g].writes) + sends + tick
  BY DEF Used
<1> HIDE DEF sends, tick
<1> QED BY <1>1, <1>2

\* queue.go:117-127: sends keep the interval, but for a buffered tick and a
\* write in progress.
THEOREM SendsArePaced == Spec => []Paced
<1>1. Init => Ticking
  <2> SUFFICES ASSUME Init, NEW g \in Gens
               PROVE  ~ Alive(g) /\ PacedFrom(gen[g].writes, gen[g].born)
    BY DEF Ticking
  <2>1. ~ Alive(g) /\ gen[g].writes = <<>>
    BY DEF Init, NotStarted, Alive
  <2> QED BY <2>1 DEF PacedFrom
<1>2. Ticking /\ TypeOK /\ Fresh /\ [Next]_vars => Ticking'
  <2> SUFFICES ASSUME Ticking, TypeOK, Fresh, [Next]_vars, NEW g \in Gens
               PROVE  /\ PacedFrom(gen'[g].writes, gen'[g].born)
                      /\ Alive(g)' => /\ LastTick(g)' <= now' /\ now' < gen'[g].next
                                      /\ InTime(gen'[g].writes, Used(g)', gen'[g].born, LastTick(g)')
    BY DEF Ticking, PacedFrom, InTime
  <2> DEFINE Goal == /\ PacedFrom(gen'[g].writes, gen'[g].born)
                     /\ Alive(g)' => /\ LastTick(g)' <= now' /\ now' < gen'[g].next
                                     /\ InTime(gen'[g].writes, Used(g)', gen'[g].born, LastTick(g)')
  <2>0. /\ gen[g].writes \in Seq(Nat) /\ gen[g].born \in Int /\ gen[g].next \in Int
        /\ now \in Nat /\ Interval \in Nat \ {0} /\ LastTick(g) \in Int
        /\ LastTick(g) = gen[g].next - Interval
        /\ Used(g) \in Int /\ Used(g) >= Len(gen[g].writes)
    BY SenderFields, UsedBounds, SendLoopAssumption DEF LastTick
  <2>1. /\ PacedFrom(gen[g].writes, gen[g].born)
        /\ Alive(g) => /\ LastTick(g) <= now /\ now < gen[g].next
                       /\ InTime(gen[g].writes, Used(g), gen[g].born, LastTick(g))
    BY DEF Ticking
  <2>2. ASSUME UNCHANGED now, SameTicks(g), Alive(g), Used(g)' \in {Used(g), Used(g) - 1} PROVE Goal
    <3>1. InTime(gen[g].writes, Used(g) - 1, gen[g].born, LastTick(g))
      BY <2>0, <2>1, <2>2, TickIsLost
    <3>2. LastTick(g)' = LastTick(g)
      BY <2>2 DEF SameTicks, LastTick
    <3> QED BY <2>1, <2>2, <3>1, <3>2 DEF SameTicks
  <2>3. ASSUME ~ Alive(g)', gen'[g].writes = gen[g].writes, gen'[g].born = gen[g].born PROVE Goal
    BY <2>1, <2>3
  <2>4. ASSUME UNCHANGED now, gen'[g].born = now, gen'[g].next = now + Interval,
               gen'[g].writes = <<>>, Used(g)' = 0
        PROVE  Goal
    <3>1. LastTick(g)' = now
      BY <2>0, <2>4 DEF LastTick
    <3>2. now + 0 * Interval <= now /\ now < now + Interval /\ now <= now
      BY <2>0
    <3>3. PacedFrom(<<>>, now) /\ InTime(<<>>, 0, now, now)
      BY <3>2 DEF PacedFrom, InTime
    <3> QED BY <2>4, <3>1, <3>2, <3>3
  <2>5. ASSUME UNCHANGED now, Alive(g), gen'[g].next = gen[g].next, gen'[g].born = gen[g].born,
               gen'[g].writes = Append(gen[g].writes, now),
               Used(g)' = Used(g), Used(g) \in {Len(gen[g].writes) + 1, Len(gen[g].writes) + 2}
        PROVE  Goal
    <3>1. /\ PacedFrom(Append(gen[g].writes, now), gen[g].born)
          /\ InTime(Append(gen[g].writes, now), Used(g), gen[g].born, LastTick(g))
      BY <2>0, <2>1, <2>5, WriteIsPaced
    <3>2. LastTick(g)' = LastTick(g)
      BY <2>5 DEF LastTick
    <3> QED BY <2>1, <2>5, <3>1, <3>2
  <2>6. ASSUME now' = now + 1, gen'[g].born = gen[g].born, gen'[g].writes = gen[g].writes, Alive(g),
               gen[g].next = now + 1, gen'[g].next = gen[g].next + Interval,
               Used(g)' \in {Used(g), Used(g) + 1}
        PROVE  Goal
    <3>1. LastTick(g) + Interval = now + 1 /\ LastTick(g)' = now + 1 /\ now + 1 < gen'[g].next
      BY <2>0, <2>6 DEF LastTick
    <3>2. \A j \in DOMAIN gen[g].writes : gen[g].writes[j] <= LastTick(g) + Interval
      <4>1. ASSUME NEW j \in DOMAIN gen[g].writes PROVE gen[g].writes[j] <= now + 1
        <5>1. gen[g].writes[j] \in Int /\ gen[g].writes[j] <= now
          BY <2>0, WritesAre DEF Fresh
        <5> QED BY <2>0, <5>1
      <4> QED BY <3>1, <4>1
    <3>3. /\ InTime(gen[g].writes, Used(g), gen[g].born, LastTick(g) + Interval)
          /\ InTime(gen[g].writes, Used(g) + 1, gen[g].born, LastTick(g) + Interval)
      BY <2>0, <2>1, <2>6, <3>2, TickComes
    <3> QED BY <2>0, <2>1, <2>6, <3>1, <3>3
  <2>7. ASSUME now' = now + 1, gen'[g].born = gen[g].born, gen'[g].writes = gen[g].writes, Alive(g),
               gen[g].next # now + 1, gen'[g].next = gen[g].next, Used(g)' = Used(g)
        PROVE  Goal
    <3>1. LastTick(g)' = LastTick(g) /\ LastTick(g) <= now + 1 /\ now + 1 < gen[g].next
      BY <2>0, <2>1, <2>7 DEF LastTick
    <3> QED BY <2>1, <2>7, <3>1
  <2>8. ASSUME ~ Alive(g), gen'[g].at = gen[g].at, gen'[g].born = gen[g].born,
               gen'[g].writes = gen[g].writes
        PROVE  Goal
    BY <2>1, <2>8 DEF Alive
  <2>9. SameTicks(g) => gen'[g].writes = gen[g].writes /\ gen'[g].born = gen[g].born
    BY DEF SameTicks
  <2> HIDE DEF Goal
  <2>10. Goal
    BY <2>2, <2>3, <2>4, <2>5, <2>6, <2>7, <2>8, <2>9, SenderSteps
  <2> QED BY <2>10 DEF Goal
<1>3. Ticking => Paced
  BY DEF Ticking, PacedFrom, Paced
<1> QED BY <1>1, <1>2, <1>3, TypesHold, PTL DEF Spec
===============================================================================
