-------------------------- MODULE BrowserViewProofs --------------------------
(***************************************************************************)
(* Proofs about BrowserView: each change of the session is broadcast once, *)
(* and what the page shows follows, for any number of calls.               *)
(***************************************************************************)
EXTENDS BrowserView, TLAPS, SequenceTheorems

EventNames == {"none", "other", "close", "session.status"} \union LifeCycle
Messages == [event : EventNames] \union [event : EventNames, connected : {TRUE}]
SaysUp(m) == "connected" \in DOMAIN m

Places == {"idle", "begun", "decided", "answering"}
Ops == {"none", "connect", "disconnect", "loss", "status"}
Who == {"page", "other"}
Answers == {0, 200, 409, 502}
Events == [event : {"none", "session.status"} \union LifeCycle, connected : BOOLEAN]
CallRecords == [op : Ops, at : Places, by : Who, conn : 0..MaxConns,
                event : Events, answer : Answers]

\* TypeOK with any number of broadcasts, and the stream's messages.
Types ==
    /\ up \in BOOLEAN
    /\ conn \in 0..MaxConns
    /\ readers \subseteq 1..conn
    /\ call \in [Calls -> CallRecords]
    /\ registered \in BOOLEAN /\ wsAsked \in BOOLEAN
    /\ shown \in BOOLEAN /\ connecting \in BOOLEAN /\ disconnecting \in BOOLEAN
    /\ told \in [LifeCycle -> [1..MaxConns -> Nat]]
    /\ ownEnd \in BOOLEAN
    /\ hidden \in BOOLEAN
    /\ wire \in Seq(Messages)

\* What a call that has decided will broadcast; only the calls of a page are
\* answered.
Deciding(r) ==
    /\ r.at = "decided" =>
        \/ /\ r.op = "connect" /\ r.conn \in 1..conn
           /\ r.event = [event |-> "session.connected", connected |-> TRUE]
        \/ /\ r.op \in {"disconnect", "loss"} /\ r.conn \in 1..conn
           /\ r.event = [event |-> "session.disconnected", connected |-> FALSE]
           /\ r.op = "disconnect" => r.answer = 200
        \/ /\ r.op = "status" /\ r.event.event = "session.status"
    /\ r.at = "answering" => r.op \in {"connect", "disconnect"}

ViewTypes ==
    /\ Types
    /\ up => conn > 0
    /\ registered => wsAsked
    /\ \A c \in Calls : Deciding(call[c])
-----------------------------------------------------------------------------
Told(c, e, k) ==
    call[c].at = "decided" /\ call[c].conn = k /\ call[c].event.event = e

\* The change e of connection k has taken place.
Changed(e, k) ==
    IF e = "session.connected" THEN k <= conn
    ELSE k < conn \/ (k = conn /\ ~up)

\* A change that has taken place has been broadcast once, or one call is about
\* to broadcast it.
ToldInv ==
    \A e \in LifeCycle, k \in 1..MaxConns :
        /\ \A c, d \in Calls : Told(c, e, k) /\ Told(d, e, k) => c = d
        /\ \A c \in Calls : Told(c, e, k) => Changed(e, k) /\ told[e][k] = 0
        /\ told[e][k] \in {0, 1}
        /\ told[e][k] = 1 => Changed(e, k)
        /\ Changed(e, k) => told[e][k] = 1 \/ \E c \in Calls : Told(c, e, k)

\* A page that does not show a session that is up will be told: by an event on
\* the way, by one it is owed that is about to be broadcast, or by the status
\* it asked for.
Heard(c) == call[c].at = "decided" /\ Owed(call[c]) /\ call[c].conn = conn
Asked(c) == call[c].op = "status" /\ call[c].at = "begun" /\ call[c].by = "page"

UpInv ==
    registered /\ up /\ ~hidden =>
        \/ shown
        \/ \E i \in DOMAIN wire : SaysUp(wire[i])
        \/ \E c \in Calls : Heard(c)
        \/ \E c \in Calls : Asked(c)

\* After the page's own Disconnect nothing under way would show the session as
\* up, and its answer hides it.
OwnEndInv ==
    ownEnd /\ ~up =>
        /\ \A i \in DOMAIN wire : ~SaysUp(wire[i])
        /\ \A c \in Calls : call[c].at = "decided" => ~call[c].event.connected
        /\ \A c \in Calls : call[c].at = "answering" /\ call[c].op = "connect" =>
               call[c].answer \notin {200, 409}
        /\ shown => \E c \in Calls : /\ call[c].op = "disconnect"
                                     /\ call[c].by = "page"
                                     /\ call[c].at \in {"decided", "answering"}
                                     /\ call[c].answer = 200
-----------------------------------------------------------------------------
\* What a step does to its call, field by field, and that it leaves the others
\* alone.
CallsKept(c) ==
    /\ call' \in [Calls -> CallRecords]
    /\ \A d \in Calls : d # c => call'[d] = call[d]

LEMMA Fields ==
    ASSUME NEW r \in CallRecords
    PROVE  /\ r.op \in Ops /\ r.at \in Places /\ r.by \in Who
           /\ r.conn \in 0..MaxConns /\ r.event \in Events
           /\ r.event.connected \in BOOLEAN
           /\ r.event.event \in {"none", "session.status"} \union LifeCycle
           /\ r.answer \in Answers
  BY DEF CallRecords, Events

LEMMA PlaceNames ==
    /\ "idle" \in Places /\ "begun" \in Places
    /\ "decided" \in Places /\ "answering" \in Places
    /\ "loss" \in Ops /\ "other" \in Who /\ 0 \in Answers
  BY DEF Places, Ops, Who, Answers

LEMMA IdleRecord ==
    /\ Idle \in CallRecords
    /\ Idle.at = "idle" /\ Idle.op = "none"
  BY ViewAssumption DEF Idle, CallRecords, NoEvent, Events, Ops, Places, Who, Answers

LEMMA BeginEffect ==
    ASSUME call \in [Calls -> CallRecords], NEW c \in Calls,
           NEW op \in Ops, NEW by \in Who, Begin(c, op, by)
    PROVE  /\ CallsKept(c)
           /\ call[c].at = "idle"
           /\ call'[c].op = op /\ call'[c].at = "begun" /\ call'[c].by = by
<1> DEFINE r == [Idle EXCEPT !.op = op, !.at = "begun", !.by = by]
<1>1. r \in CallRecords
  BY IdleRecord, PlaceNames DEF CallRecords
<1>2. r.op = op /\ r.at = "begun" /\ r.by = by
  BY IdleRecord DEF CallRecords
<1>3. call' = [call EXCEPT ![c] = r] /\ call[c].at = "idle"
  BY DEF Begin
<1> HIDE DEF r
<1> QED
  BY <1>1, <1>2, <1>3 DEF CallsKept

LEMMA DecideEffect ==
    ASSUME call \in [Calls -> CallRecords], NEW c \in Calls,
           NEW event \in {"session.status"} \union LifeCycle, NEW isUp \in BOOLEAN,
           NEW answer \in Answers, conn' \in 0..MaxConns,
           Decide(c, event, isUp, answer)
    PROVE  /\ CallsKept(c)
           /\ call'[c].op = call[c].op /\ call'[c].at = "decided"
           /\ call'[c].by = call[c].by /\ call'[c].conn = conn'
           /\ call'[c].event = [event |-> event, connected |-> isUp]
           /\ call'[c].answer = answer
<1> DEFINE e == [event |-> event, connected |-> isUp]
<1>1. e \in Events
  BY DEF Events
<1>2. call' = [call EXCEPT ![c].at = "decided", ![c].answer = answer,
                           ![c].conn = conn', ![c].event = e]
  BY DEF Decide
<1> HIDE DEF e
<1>3. call' \in [Calls -> CallRecords]
  BY <1>1, <1>2, PlaceNames DEF CallRecords
<1>4. /\ call'[c].op = call[c].op /\ call'[c].at = "decided"
      /\ call'[c].by = call[c].by /\ call'[c].conn = conn'
      /\ call'[c].event = e /\ call'[c].answer = answer
  BY <1>2 DEF CallRecords
<1>5. \A d \in Calls : d # c => call'[d] = call[d]
  BY <1>2
<1> QED
  BY <1>3, <1>4, <1>5 DEF CallsKept, e

LEMMA AnsweredRecord ==
    ASSUME NEW r \in CallRecords, NEW answer \in Answers
    PROVE  /\ Answered(r, answer) \in CallRecords
           /\ \/ Answered(r, answer) = Idle
              \/ /\ Answered(r, answer).at = "answering"
                 /\ Answered(r, answer).op = r.op
                 /\ Answered(r, answer).by = r.by
                 /\ Answered(r, answer).answer = answer
           /\ r.by = "page" => Answered(r, answer).at = "answering"
<1>1. CASE r.by = "page"
  <2> DEFINE s == [r EXCEPT !.at = "answering", !.conn = 0, !.event = NoEvent,
                            !.answer = answer]
  <2>1. NoEvent \in Events
    BY DEF NoEvent, Events
  <2>0. 0 \in 0..MaxConns
    BY ViewAssumption
  <2>2. s \in CallRecords
    BY <2>0, <2>1, PlaceNames DEF CallRecords
  <2>3. s.at = "answering" /\ s.op = r.op /\ s.by = r.by /\ s.answer = answer
    BY DEF CallRecords
  <2>4. Answered(r, answer) = s
    BY <1>1 DEF Answered
  <2> HIDE DEF s
  <2> QED
    BY <2>2, <2>3, <2>4
<1>2. CASE r.by # "page"
  BY <1>2, IdleRecord DEF Answered
<1> QED
  BY <1>1, <1>2

LEMMA AnswerEffect ==
    ASSUME call \in [Calls -> CallRecords], NEW c \in Calls,
           NEW answer \in Answers, Answer(c, answer)
    PROVE  /\ CallsKept(c)
           /\ \/ call'[c] = Idle
              \/ /\ call'[c].at = "answering" /\ call'[c].op = call[c].op
                 /\ call'[c].by = call[c].by /\ call'[c].answer = answer
<1> DEFINE r == Answered(call[c], answer)
<1>1. call' = [call EXCEPT ![c] = r]
  BY DEF Answer
<1>2. /\ r \in CallRecords
      /\ \/ r = Idle
         \/ /\ r.at = "answering" /\ r.op = call[c].op
            /\ r.by = call[c].by /\ r.answer = answer
  BY AnsweredRecord
<1> HIDE DEF r
<1> QED
  BY <1>1, <1>2 DEF CallsKept

LEMMA AnnounceEffect ==
    ASSUME call \in [Calls -> CallRecords], NEW c \in Calls, Announce(c)
    PROVE  /\ CallsKept(c)
           /\ \/ call'[c] = Idle /\ ~(call[c].op = "disconnect" /\ call[c].by = "page")
              \/ /\ call'[c].at = "answering" /\ call'[c].op = call[c].op
                 /\ call[c].op \in {"connect", "disconnect"}
                 /\ call'[c].by = call[c].by /\ call'[c].answer = call[c].answer
<1>1. CASE call[c].op \in {"connect", "disconnect"}
  <2> DEFINE r == Answered(call[c], call[c].answer)
  <2>1. call' = [call EXCEPT ![c] = r]
    BY <1>1 DEF Announce
  <2>2. call[c] \in CallRecords /\ call[c].answer \in Answers
    BY Fields
  <2>3. /\ r \in CallRecords
        /\ \/ r = Idle
           \/ /\ r.at = "answering" /\ r.op = call[c].op
              /\ r.by = call[c].by /\ r.answer = call[c].answer
        /\ call[c].by = "page" => r.at = "answering"
    BY <2>2, AnsweredRecord
  <2> HIDE DEF r
  <2> QED
    BY <1>1, <2>1, <2>3, IdleRecord DEF CallsKept
<1>2. CASE call[c].op \notin {"connect", "disconnect"}
  <2>1. call' = [call EXCEPT ![c] = Idle]
    BY <1>2 DEF Announce
  <2> QED
    BY <1>2, <2>1, IdleRecord DEF CallsKept
<1> QED
  BY <1>1, <1>2

LEMMA PanicEffect ==
    ASSUME call \in [Calls -> CallRecords], NEW c \in Calls, AnnouncePanics(c)
    PROVE  /\ CallsKept(c)
           /\ \/ call'[c] = Idle
              \/ /\ call'[c].at = "answering" /\ call'[c].op = call[c].op
                 /\ call[c].op \in {"connect", "disconnect"}
                 /\ call'[c].answer = 0
<1>1. CASE call[c].op \in {"connect", "disconnect"}
  <2> DEFINE r == Answered(call[c], 0)
  <2>1. call' = [call EXCEPT ![c] = r]
    BY <1>1 DEF AnnouncePanics
  <2>2. /\ r \in CallRecords
        /\ \/ r = Idle
           \/ r.at = "answering" /\ r.op = call[c].op /\ r.answer = 0
    BY PlaceNames, AnsweredRecord
  <2> HIDE DEF r
  <2> QED
    BY <1>1, <2>1, <2>2 DEF CallsKept
<1>2. CASE call[c].op \notin {"connect", "disconnect"}
  <2>1. call' = [call EXCEPT ![c] = Idle]
    BY <1>2 DEF AnnouncePanics
  <2> QED
    BY <2>1, IdleRecord DEF CallsKept
<1> QED
  BY <1>1, <1>2

\* A page that has given up a call no longer waits for it.
LEMMA FailEffect ==
    ASSUME call \in [Calls -> CallRecords], NEW c \in Calls, FetchFails(c)
    PROVE  /\ CallsKept(c)
           /\ \/ call'[c] = Idle /\ call[c].at \in {"begun", "answering"}
              \/ /\ call[c].at \in {"begun", "decided"}
                 /\ call'[c].at = call[c].at /\ call'[c].op = call[c].op
                 /\ call'[c].event = call[c].event /\ call'[c].conn = call[c].conn
                 /\ call'[c].answer = call[c].answer /\ call'[c].by = "other"
<1>1. CASE call' = [call EXCEPT ![c] = Idle] /\ call[c].at \in {"begun", "answering"}
  BY <1>1, IdleRecord DEF CallsKept
<1>2. CASE call' = [call EXCEPT ![c].by = "other"] /\ call[c].at \in {"begun", "decided"}
  BY <1>2, PlaceNames DEF CallsKept, CallRecords
<1> QED
  BY <1>1, <1>2 DEF FetchFails

LEMMA LossEffect ==
    ASSUME call \in [Calls -> CallRecords], NEW c \in Calls, conn \in 0..MaxConns,
           NEW k, UpstreamLost(c, k)
    PROVE  /\ CallsKept(c)
           /\ call[c].at = "idle"
           /\ call'[c].op = "loss" /\ call'[c].at = "decided" /\ call'[c].conn = conn
           /\ call'[c].event = [event |-> "session.disconnected", connected |-> FALSE]
<1> DEFINE r == [Idle EXCEPT !.op = "loss", !.at = "decided", !.conn = conn,
                             !.event.event = "session.disconnected"]
<1>1. r \in CallRecords
  <2>1. [Idle.event EXCEPT !.event = "session.disconnected"] \in Events
    BY IdleRecord DEF CallRecords, Events, LifeCycle
  <2> QED
    BY <2>1, IdleRecord, PlaceNames DEF CallRecords
<1>2. r.op = "loss" /\ r.at = "decided" /\ r.conn = conn
  BY IdleRecord DEF CallRecords
<1>3. r.event = [event |-> "session.disconnected", connected |-> FALSE]
  <2>1. r.event \in Events
    BY <1>1, Fields
  <2>2. r.event.event = "session.disconnected" /\ r.event.connected = FALSE
    BY DEF Idle, NoEvent
  <2> HIDE DEF r
  <2> QED
    BY <2>1, <2>2 DEF Events
<1>4. call' = [call EXCEPT ![c] = r] /\ call[c].at = "idle"
  BY DEF UpstreamLost
<1> HIDE DEF r
<1> QED
  BY <1>1, <1>2, <1>3, <1>4 DEF CallsKept
-----------------------------------------------------------------------------
\* Types.
LEMMA InitTypes == Init => ViewTypes
<1> SUFFICES ASSUME Init PROVE ViewTypes
  OBVIOUS
<1>1. call \in [Calls -> CallRecords] /\ \A c \in Calls : call[c].at = "idle"
  BY IdleRecord DEF Init
<1>2. told \in [LifeCycle -> [1..MaxConns -> Nat]]
  BY DEF Init
<1>3. conn \in 0..MaxConns /\ readers \subseteq 1..conn /\ (up => conn > 0)
  BY ViewAssumption DEF Init
<1>4. wire \in Seq(Messages) /\ up \in BOOLEAN
  BY DEF Init
<1>6. hidden \in BOOLEAN /\ ownEnd \in BOOLEAN
  BY DEF Init
<1>5. \A c \in Calls : Deciding(call[c])
  BY <1>1 DEF Deciding
<1> QED
  BY <1>1, <1>2, <1>3, <1>4, <1>5, <1>6 DEF Init, ViewTypes, Types

LEMMA CallTypes ==
    ASSUME ViewTypes, NEW c \in Calls, CallsKept(c), conn <= conn',
           conn' \in 0..MaxConns, Deciding(call[c])'
    PROVE  call' \in [Calls -> CallRecords] /\ (\A d \in Calls : Deciding(call[d]))'
<1>1. ASSUME NEW d \in Calls, d # c PROVE Deciding(call[d])'
  BY <1>1 DEF ViewTypes, Types, CallsKept, Deciding
<1> QED
  BY <1>1 DEF CallsKept

LEMMA JsonMessage == ASSUME NEW e \in Events PROVE Json(e) \in Messages
<1>1. CASE e.connected
  <2>1. e = [event |-> e.event, connected |-> TRUE]
    BY <1>1 DEF Events
  <2> QED
    BY <1>1, <2>1, Zenon DEF Json, Messages, EventNames, Events
<1>2. CASE ~e.connected
  BY <1>2 DEF Json, Messages, EventNames, Events
<1> QED
  BY <1>1, <1>2

LEMMA CountUp ==
    ASSUME told \in [LifeCycle -> [1..MaxConns -> Nat]],
           NEW e \in LifeCycle, NEW k \in 1..MaxConns
    PROVE  [told EXCEPT ![e][k] = @ + 1] \in [LifeCycle -> [1..MaxConns -> Nat]]
<1> DEFINE f == [told[e] EXCEPT ![k] = told[e][k] + 1]
<1>0. told[e] \in [1..MaxConns -> Nat]
  BY Zenon
<1>1. told[e][k] \in Nat
  BY <1>0
<1>2. f \in [1..MaxConns -> Nat]
  BY <1>0, <1>1
<1>3. [told EXCEPT ![e][k] = @ + 1] = [told EXCEPT ![e] = f]
  OBVIOUS
<1> HIDE DEF f
<1> QED
  BY <1>2, <1>3

LEMMA TellType ==
    ASSUME ViewTypes, NEW c \in Calls, call[c].at = "decided",
           Tell(call[c].event.event, call[c].conn)
    PROVE  told' \in [LifeCycle -> [1..MaxConns -> Nat]]
<1>1. told \in [LifeCycle -> [1..MaxConns -> Nat]] /\ conn \in 0..MaxConns
  BY DEF ViewTypes, Types
<1>2. CASE call[c].event.event \in LifeCycle
  <2>1. call[c].conn \in 1..MaxConns
    BY <1>1, <1>2, ViewAssumption DEF ViewTypes, Deciding, LifeCycle
  <2> QED
    BY <1>1, <1>2, <2>1, CountUp DEF Tell
<1>3. CASE call[c].event.event \notin LifeCycle
  BY <1>1, <1>3 DEF Tell
<1> QED
  BY <1>2, <1>3

LEMMA TypesKept == ViewTypes /\ [Next]_vars => ViewTypes'
<1> SUFFICES ASSUME ViewTypes, [Next]_vars PROVE ViewTypes'
  OBVIOUS
<1> USE ViewAssumption
<1>0. /\ up \in BOOLEAN /\ conn \in 0..MaxConns /\ readers \subseteq 1..conn
      /\ call \in [Calls -> CallRecords]
      /\ registered \in BOOLEAN /\ wsAsked \in BOOLEAN
      /\ shown \in BOOLEAN /\ connecting \in BOOLEAN /\ disconnecting \in BOOLEAN
      /\ told \in [LifeCycle -> [1..MaxConns -> Nat]]
      /\ ownEnd \in BOOLEAN /\ hidden \in BOOLEAN /\ wire \in Seq(Messages)
      /\ (up => conn > 0) /\ (registered => wsAsked)
  BY DEF ViewTypes, Types
<1> DEFINE Others ==
      /\ up' \in BOOLEAN /\ conn' \in 0..MaxConns /\ readers' \subseteq 1..conn'
      /\ registered' \in BOOLEAN /\ wsAsked' \in BOOLEAN
      /\ shown' \in BOOLEAN /\ connecting' \in BOOLEAN /\ disconnecting' \in BOOLEAN
      /\ told' \in [LifeCycle -> [1..MaxConns -> Nat]]
      /\ ownEnd' \in BOOLEAN /\ hidden' \in BOOLEAN /\ wire' \in Seq(Messages)
      /\ (up' => conn' > 0) /\ (registered' => wsAsked')
<1> USE DEF gatewayVars, pageVars, streamVars, historyVars
<1>a. ASSUME NEW c \in Calls, CallsKept(c), conn <= conn', Others, Deciding(call[c])'
      PROVE  ViewTypes'
  BY <1>a, CallTypes DEF ViewTypes, Types
<1>b. ASSUME Others, UNCHANGED <<call, conn>> PROVE ViewTypes'
  <2>1. (\A c \in Calls : Deciding(call[c]))'
    BY <1>b DEF ViewTypes, Deciding
  <2> QED
    BY <1>0, <1>b, <2>1 DEF ViewTypes, Types
<1> HIDE DEF Others
<1>1. ASSUME NEW c \in Calls, ConnectClick(c) PROVE ViewTypes'
  <2>1. CallsKept(c) /\ Deciding(call[c])'
    BY <1>0, <1>1, BeginEffect DEF ConnectClick, Deciding, Ops, Who
  <2>9. Others /\ conn <= conn'
    BY <1>0, <1>1, <2>1 DEF ConnectClick, Others
  <2> QED
    BY <1>a, <2>1, <2>9
<1>2. ASSUME NEW c \in Calls, DisconnectClick(c) PROVE ViewTypes'
  <2>1. CallsKept(c) /\ Deciding(call[c])'
    BY <1>0, <1>2, BeginEffect DEF DisconnectClick, Deciding, Ops, Who
  <2>9. Others /\ conn <= conn'
    BY <1>0, <1>2, <2>1 DEF DisconnectClick, Others
  <2> QED
    BY <1>a, <2>1, <2>9
<1>3. ASSUME NEW c \in Calls, OtherClientCalls(c) PROVE ViewTypes'
  <2>1. CallsKept(c) /\ Deciding(call[c])'
    BY <1>0, <1>3, BeginEffect DEF OtherClientCalls, Deciding, Ops, Who
  <2>9. Others /\ conn <= conn'
    BY <1>0, <1>3, <2>1 DEF OtherClientCalls, Others
  <2> QED
    BY <1>a, <2>1, <2>9
<1>4. ASSUME NEW c \in Calls, OpenWebSocket(c) PROVE ViewTypes'
  <2>1. CallsKept(c) /\ Deciding(call[c])'
    BY <1>0, <1>4, BeginEffect DEF OpenWebSocket, Deciding, Ops, Who
  <2>9. Others /\ conn <= conn'
    BY <1>0, <1>4, <2>1 DEF OpenWebSocket, Others
  <2> QED
    BY <1>a, <2>1, <2>9
<1>5. ASSUME NEW c \in Calls, BuildStatus(c) PROVE ViewTypes'
  <2>1. conn' = conn /\ call[c].op = "status"
    BY <1>5 DEF BuildStatus
  <2>0. Decide(c, "session.status", up, 0) /\ 0 \in Answers
    BY <1>5 DEF BuildStatus, Answers
  <2>2. /\ CallsKept(c) /\ call'[c].at = "decided"
        /\ call'[c].op = call[c].op /\ call'[c].conn = conn'
        /\ call'[c].event = [event |-> "session.status", connected |-> up] /\ call'[c].answer = 0
    BY <1>0, <2>0, <2>1, DecideEffect DEF LifeCycle
  <2>3. Deciding(call[c])'
    BY <1>0, <2>1, <2>2 DEF Deciding
  <2>9. Others /\ conn <= conn'
    BY <1>0, <1>5, <2>2 DEF BuildStatus, Others
  <2> QED
    BY <1>a, <2>2, <2>3, <2>9
<1>6. ASSUME NEW c \in Calls, DialFails(c) PROVE ViewTypes'
  <2>0. /\ Answer(c, 502) /\ 502 \in Answers
        /\ call[c].op \in {"connect", "disconnect"}
    BY <1>6 DEF DialFails, Answers
  <2>1. CallsKept(c) /\ Deciding(call[c])'
    BY <1>0, <2>0, AnswerEffect, IdleRecord DEF Deciding
  <2>9. Others /\ conn <= conn'
    BY <1>0, <1>6, <2>1 DEF DialFails, Others
  <2> QED
    BY <1>a, <2>1, <2>9
<1>7. ASSUME NEW c \in Calls, ConnectRejected(c) PROVE ViewTypes'
  <2>0. /\ Answer(c, 409) /\ 409 \in Answers
        /\ call[c].op \in {"connect", "disconnect"}
    BY <1>7 DEF ConnectRejected, Answers
  <2>1. CallsKept(c) /\ Deciding(call[c])'
    BY <1>0, <2>0, AnswerEffect, IdleRecord DEF Deciding
  <2>9. Others /\ conn <= conn'
    BY <1>0, <1>7, <2>1 DEF ConnectRejected, Others
  <2> QED
    BY <1>a, <2>1, <2>9
<1>8. ASSUME NEW c \in Calls, ConnectInstalls(c) PROVE ViewTypes'
  <2>1. conn' = conn + 1 /\ conn' \in 1..MaxConns /\ call[c].op = "connect"
    BY <1>0, <1>8 DEF ConnectInstalls
  <2>0. 200 \in Answers
    BY DEF Answers
  <2>7. PICK isUp \in BOOLEAN : isUp = TRUE /\ Decide(c, "session.connected", isUp, 200)
    BY <1>8 DEF ConnectInstalls
  <2>6. conn' \in 0..MaxConns /\ "session.connected" \in {"session.status"} \union LifeCycle
    BY <1>0, <2>1 DEF LifeCycle
  <2>8. /\ CallsKept(c)
        /\ call'[c].op = call[c].op /\ call'[c].conn = conn'
        /\ call'[c].event = [event |-> "session.connected", connected |-> isUp]
        /\ call'[c].answer = 200
    <3>1. Decide(c, "session.connected", isUp, 200)
      BY <2>7
    <3> QED
      BY <1>0, <2>0, <2>6, <3>1, DecideEffect
  <2>2. /\ CallsKept(c)
        /\ call'[c].op = call[c].op /\ call'[c].conn = conn'
        /\ call'[c].event = [event |-> "session.connected", connected |-> TRUE]
        /\ call'[c].answer = 200
    BY <2>7, <2>8, Zenon
  <2>3. Deciding(call[c])'
    BY <1>0, <2>1, <2>2 DEF Deciding
  <2>4. hidden' \in BOOLEAN /\ ownEnd' \in BOOLEAN
    BY <1>8 DEF ConnectInstalls, Unmarked
  <2>5. UNCHANGED <<readers, told, wire, registered, wsAsked, shown, connecting,
                    disconnecting>> /\ up'
    BY <1>8 DEF ConnectInstalls
  <2>10. readers' \subseteq 1..conn' /\ up' \in BOOLEAN /\ conn' > 0
    BY <1>0, <1>8, <2>1, <2>5 DEF ConnectInstalls
  <2>9. Others /\ conn <= conn'
    BY <1>0, <2>1, <2>4, <2>5, <2>10 DEF Others
  <2> QED
    BY <1>a, <2>2, <2>3, <2>9
<1>9. ASSUME NEW c \in Calls, DisconnectRejected(c) PROVE ViewTypes'
  <2>0. /\ Answer(c, 409) /\ 409 \in Answers
        /\ call[c].op \in {"connect", "disconnect"}
    BY <1>9 DEF DisconnectRejected, Answers
  <2>1. CallsKept(c) /\ Deciding(call[c])'
    BY <1>0, <2>0, AnswerEffect, IdleRecord DEF Deciding
  <2>9. Others /\ conn <= conn'
    BY <1>0, <1>9, <2>1 DEF DisconnectRejected, Others
  <2> QED
    BY <1>a, <2>1, <2>9
<1>10. ASSUME NEW c \in Calls, DisconnectTakes(c) PROVE ViewTypes'
  <2>1. conn' = conn /\ conn \in 1..conn /\ call[c].op = "disconnect"
    BY <1>0, <1>10 DEF DisconnectTakes, TakeDown
  <2>0. 200 \in Answers
    BY DEF Answers
  <2>7. PICK isUp \in BOOLEAN : isUp = FALSE /\ Decide(c, "session.disconnected", isUp, 200)
    BY <1>10 DEF DisconnectTakes
  <2>6. conn' \in 0..MaxConns /\ "session.disconnected" \in {"session.status"} \union LifeCycle
    BY <1>0, <2>1 DEF LifeCycle
  <2>8. /\ CallsKept(c)
        /\ call'[c].op = call[c].op /\ call'[c].conn = conn'
        /\ call'[c].event = [event |-> "session.disconnected", connected |-> isUp]
        /\ call'[c].answer = 200
    BY <1>0, <2>0, <2>6, <2>7, DecideEffect
  <2>2. /\ CallsKept(c)
        /\ call'[c].op = call[c].op /\ call'[c].conn = conn'
        /\ call'[c].event = [event |-> "session.disconnected", connected |-> FALSE]
        /\ call'[c].answer = 200
    BY <2>7, <2>8, Zenon
  <2>3. Deciding(call[c])'
    BY <1>0, <2>1, <2>2 DEF Deciding
  <2>4. ownEnd' \in BOOLEAN
    BY <1>10 DEF DisconnectTakes, TakeDown
  <2>5. /\ UNCHANGED <<conn, readers, told, wire, registered, wsAsked,
                    shown, connecting, disconnecting>>
        /\ up' \in BOOLEAN /\ ~up' /\ hidden' \in BOOLEAN
    BY <1>10 DEF DisconnectTakes, TakeDown
  <2>9. Others /\ conn <= conn'
    BY <1>0, <2>4, <2>5 DEF Others
  <2> QED
    BY <1>a, <2>2, <2>3, <2>9
<1>11. ASSUME NEW c \in Calls, NEW k \in readers, UpstreamLost(c, k) PROVE ViewTypes'
  <2>1. conn' = conn /\ conn \in 1..conn
    BY <1>0, <1>11 DEF UpstreamLost, TakeDown
  <2>2. CallsKept(c) /\ Deciding(call[c])'
    BY <1>0, <1>11, <2>1, LossEffect DEF Deciding
  <2>4. ownEnd' \in BOOLEAN
    BY <1>11 DEF UpstreamLost, TakeDown
  <2>5. /\ UNCHANGED <<conn, told, wire, registered, wsAsked,
                    shown, connecting, disconnecting>>
        /\ up' \in BOOLEAN /\ ~up' /\ readers' \subseteq readers /\ hidden' \in BOOLEAN
    BY <1>11 DEF UpstreamLost, TakeDown
  <2>9. Others /\ conn <= conn'
    BY <1>0, <2>4, <2>5 DEF Others
  <2> QED
    BY <1>a, <2>2, <2>9
<1>12. ASSUME NEW c \in Calls, Announce(c) PROVE ViewTypes'
  <2>1. wire' \in Seq(Messages)
    BY <1>0, <1>12, JsonMessage, Fields DEF Announce, Sent
  <2>2. told' \in [LifeCycle -> [1..MaxConns -> Nat]]
    BY <1>12, TellType DEF Announce
  <2>3. CallsKept(c) /\ Deciding(call[c])'
    BY <1>0, <1>12, AnnounceEffect, IdleRecord DEF Deciding
  <2>4. readers' \subseteq 1..conn'
    BY <1>0, <1>12 DEF Announce, ViewTypes, Deciding
  <2>5. /\ UNCHANGED <<up, conn, ownEnd, registered, wsAsked,
                    shown, connecting, disconnecting, hidden>>
    BY <1>12 DEF Announce
  <2>9. Others /\ conn <= conn'
    BY <1>0, <2>1, <2>2, <2>4, <2>5 DEF Others
  <2> QED
    BY <1>a, <2>1, <2>2, <2>3, <2>4, <2>9
<1>13. ASSUME NEW c \in Calls, ReceiveAnswer(c) PROVE ViewTypes'
  <2>1. CallsKept(c) /\ Deciding(call[c])'
    BY <1>0, <1>13, IdleRecord DEF ReceiveAnswer, CallsKept, Deciding
  <2>9. Others /\ conn <= conn'
    <3>1. connecting' \in BOOLEAN /\ disconnecting' \in BOOLEAN
      BY <1>13 DEF ReceiveAnswer
    <3>2. shown' \in BOOLEAN
      BY <1>0, <1>13 DEF ReceiveAnswer, AfterAnswer
    <3>3. hidden' \in BOOLEAN
      BY <1>13 DEF ReceiveAnswer
    <3> QED
      BY <1>0, <1>13, <3>1, <3>2, <3>3 DEF ReceiveAnswer, Others
  <2> QED
    BY <1>a, <2>1, <2>9
<1>14. ASSUME NEW k \in readers, ReaderEnds(k) PROVE ViewTypes'
  BY <1>0, <1>14, <1>b DEF ReaderEnds, Others
<1>15. ASSUME OtherEvent PROVE ViewTypes'
  <2>1. Json([event |-> "other", connected |-> FALSE]) \in Messages
    BY DEF Json, Messages, EventNames
  <2>2. wire' \in Seq(Messages)
    BY <1>0, <1>15, <2>1 DEF OtherEvent, Sent
  <2>9. Others /\ UNCHANGED <<call, conn>>
    BY <1>0, <1>15, <2>2 DEF OtherEvent, Others
  <2> QED
    BY <1>b, <2>2, <2>9
<1>16. ASSUME Receive PROVE ViewTypes'
  <2>1. Head(wire) \in Messages /\ Tail(wire) \in Seq(Messages)
    BY <1>0, <1>16 DEF Receive
  <2>2. shown' \in BOOLEAN
    BY <1>0, <1>16, <2>1 DEF Receive, Messages
  <2>9. Others /\ UNCHANGED <<call, conn>>
    BY <1>0, <1>16, <2>1, <2>2 DEF Receive, Others
  <2> QED
    BY <1>b, <2>1, <2>2, <2>9
<1>17. ASSUME WebSocketCloses PROVE ViewTypes'
  <2>1. PICK n \in 0..Len(wire) : wire' = Append(SubSeq(wire, 1, n), [event |-> "close"])
    BY <1>17 DEF WebSocketCloses
  <2>2. SubSeq(wire, 1, n) \in Seq(Messages)
    BY <1>0, SubSeqProperties
  <2>3. [event |-> "close"] \in Messages
    BY DEF Messages, EventNames
  <2>4. wire' \in Seq(Messages)
    BY <2>1, <2>2, <2>3
  <2>9. Others /\ UNCHANGED <<call, conn>>
    BY <1>0, <1>17, <2>4 DEF WebSocketCloses, Others
  <2> QED
    BY <1>b, <2>4, <2>9
<1>19. ASSUME NEW c \in Calls, AnnouncePanics(c) PROVE ViewTypes'
  <2>1. wire' \in Seq(Messages)
    <3>1. Sent(call[c].event) \in Seq(Messages)
      BY <1>0, JsonMessage, Fields DEF Sent
    <3> QED
      BY <1>0, <1>19, <3>1 DEF AnnouncePanics
  <2>2. told' \in [LifeCycle -> [1..MaxConns -> Nat]]
    BY <1>19, TellType DEF AnnouncePanics
  <2>3. CallsKept(c) /\ Deciding(call[c])'
    BY <1>0, <1>19, PanicEffect, IdleRecord DEF Deciding
  <2>4. hidden' \in BOOLEAN /\ ownEnd' \in BOOLEAN
    BY <1>19 DEF AnnouncePanics
  <2>5. UNCHANGED <<up, conn, readers, registered, wsAsked, shown, connecting,
                    disconnecting>>
    BY <1>19 DEF AnnouncePanics
  <2>9. Others /\ conn <= conn'
    BY <1>0, <2>1, <2>2, <2>4, <2>5 DEF Others
  <2> QED
    BY <1>a, <2>3, <2>9
<1>20. ASSUME NEW c \in Calls, FetchFails(c) PROVE ViewTypes'
  <2>1. UNCHANGED <<up, conn, readers, wire, registered, told, hidden, wsAsked, shown>>
    BY <1>20 DEF FetchFails
  <2>2. CallsKept(c) /\ Deciding(call[c])'
    <3>1. CallsKept(c)
      BY <1>0, <1>20, FailEffect
    <3>2. CASE call'[c] = Idle
      <4>1. call'[c].at = "idle"
        BY <3>2, IdleRecord
      <4> QED
        BY <3>1, <4>1 DEF Deciding
    <3>3. CASE /\ call[c].at \in {"begun", "decided"}
               /\ call'[c].at = call[c].at /\ call'[c].op = call[c].op
               /\ call'[c].event = call[c].event /\ call'[c].conn = call[c].conn
               /\ call'[c].answer = call[c].answer
      <4>1. Deciding(call[c]) /\ conn' = conn
        BY <2>1 DEF ViewTypes
      <4> QED
        BY <3>1, <3>3, <4>1 DEF Deciding
    <3> QED
      BY <1>0, <1>20, <3>1, <3>2, <3>3, FailEffect
  <2>3. connecting' \in BOOLEAN /\ disconnecting' \in BOOLEAN /\ ownEnd' \in BOOLEAN
    BY <1>20 DEF FetchFails
  <2>9. Others /\ conn <= conn'
    BY <1>0, <2>1, <2>3 DEF Others
  <2> QED
    BY <1>a, <2>2, <2>9
<1>18. ASSUME UNCHANGED vars PROVE ViewTypes'
  BY <1>0, <1>18, <1>b DEF vars, Others
<1> QED
  BY <1>1, <1>2, <1>3, <1>4, <1>5, <1>6, <1>7, <1>8, <1>9, <1>10, <1>11, <1>12, <1>13,
     <1>14, <1>15, <1>16, <1>17, <1>18, <1>19, <1>20 DEF Next, CallSteps
-----------------------------------------------------------------------------
\* The steps that change calls, by what they mean for the invariants below.
Begins(c) ==
    /\ call[c].at = "idle" /\ call'[c].at = "begun"
    /\ registered' = registered \/ (call'[c].op = "status" /\ call'[c].by = "page")
    /\ UNCHANGED <<told, up, conn, ownEnd, hidden, wire, shown>>

Builds(c) ==
    /\ call[c].at = "begun" /\ call'[c].at = "decided"
    /\ call'[c].event.event = "session.status"
    /\ call'[c].event.connected = up
    /\ call'[c].by = call[c].by /\ call'[c].conn = conn
    /\ UNCHANGED <<told, up, conn, ownEnd, hidden, wire, shown, registered>>

Refuses(c) ==
    /\ call[c].at = "begun" /\ call[c].op # "status"
    /\ call'[c].at \in {"idle", "answering"}
    /\ call'[c].at = "answering" =>
           call'[c].op # "connect" \/ up \/ call'[c].answer \notin {200, 409}
    /\ UNCHANGED <<told, up, conn, ownEnd, hidden, wire, shown, registered>>

Installs(c) ==
    /\ call[c].at = "begun" /\ call[c].op = "connect" /\ ~up
    /\ up' /\ conn' = conn + 1 /\ ~ownEnd'
    /\ call'[c].at = "decided" /\ call'[c].conn = conn' /\ call'[c].op = "connect"
    /\ call'[c].event = [event |-> "session.connected", connected |-> TRUE]
    /\ UNCHANGED <<told, wire, shown, registered>>

Takes(c) ==
    /\ call[c].at \in {"idle", "begun"} /\ up /\ ~up'
    /\ call'[c].at = "decided" /\ call'[c].conn = conn
    /\ call'[c].event = [event |-> "session.disconnected", connected |-> FALSE]
    /\ ownEnd' => /\ wire = <<>> /\ \A d \in Calls \ {c} : call[d].at = "idle"
                  /\ call'[c].op = "disconnect" /\ call'[c].by = "page"
                  /\ call'[c].answer = 200
    /\ UNCHANGED <<told, conn, wire, shown, registered>>

CallsAlone ==
    /\ UNCHANGED <<call, told, up, conn, ownEnd, hidden>>
    /\ \/ UNCHANGED <<wire, shown, registered>>
       \/ OtherEvent \/ Receive \/ WebSocketCloses

LEMMA StepKinds ==
    ASSUME ViewTypes, [Next]_vars
    PROVE  \/ CallsAlone
           \/ \E c \in Calls :
               /\ CallsKept(c)
               /\ \/ Begins(c) \/ Builds(c) \/ Refuses(c) \/ Installs(c) \/ Takes(c)
                  \/ Announce(c) \/ AnnouncePanics(c) \/ ReceiveAnswer(c) \/ FetchFails(c)
<1> USE DEF gatewayVars, pageVars, streamVars, historyVars
<1>0. call \in [Calls -> CallRecords] /\ up \in BOOLEAN /\ conn \in 0..MaxConns
  BY DEF ViewTypes, Types
<1>1. ASSUME NEW c \in Calls, ConnectClick(c) \/ DisconnectClick(c) \/ OtherClientCalls(c)
                              \/ OpenWebSocket(c)
      PROVE  CallsKept(c) /\ Begins(c)
  <2>1. PICK op \in Ops, by \in Who : Begin(c, op, by)
            /\ (registered' = registered \/ (op = "status" /\ by = "page"))
    BY <1>1 DEF ConnectClick, DisconnectClick, OtherClientCalls, OpenWebSocket, Ops, Who
  <2>2. UNCHANGED <<told, up, conn, ownEnd, hidden, wire, shown>>
    BY <1>1 DEF ConnectClick, DisconnectClick, OtherClientCalls, OpenWebSocket
  <2> QED
    BY <1>0, <2>1, <2>2, BeginEffect DEF Begins
<1>2. ASSUME NEW c \in Calls, BuildStatus(c) PROVE CallsKept(c) /\ Builds(c)
  <2>1. /\ Decide(c, "session.status", up, 0) /\ call[c].at = "begun"
        /\ UNCHANGED <<told, up, conn, ownEnd, hidden, wire, shown, registered>>
    BY <1>2 DEF BuildStatus
  <2>2. 0 \in Answers /\ conn' \in 0..MaxConns
    BY <1>0, <2>1 DEF Answers
  <2>3. /\ CallsKept(c) /\ call'[c].at = "decided"
        /\ call'[c].by = call[c].by /\ call'[c].conn = conn'
        /\ call'[c].event = [event |-> "session.status", connected |-> up]
    BY <1>0, <2>1, <2>2, DecideEffect
  <2> QED
    BY <2>1, <2>3 DEF Builds
<1>3. ASSUME NEW c \in Calls, DialFails(c) \/ ConnectRejected(c) \/ DisconnectRejected(c)
      PROVE  CallsKept(c) /\ Refuses(c)
  <2>1. PICK answer \in Answers :
            /\ Answer(c, answer)
            /\ call[c].op # "connect" \/ up \/ answer \notin {200, 409}
    BY <1>3 DEF DialFails, ConnectRejected, DisconnectRejected, Answers
  <2>2. /\ call[c].at = "begun" /\ call[c].op # "status"
        /\ UNCHANGED <<told, up, conn, ownEnd, hidden, wire, shown, registered>>
    BY <1>3 DEF DialFails, ConnectRejected, DisconnectRejected
  <2>3. /\ CallsKept(c)
        /\ \/ call'[c] = Idle
           \/ /\ call'[c].at = "answering" /\ call'[c].op = call[c].op
              /\ call'[c].answer = answer
    BY <1>0, <2>1, AnswerEffect
  <2> QED
    BY <2>1, <2>2, <2>3, IdleRecord DEF Refuses
<1>4. ASSUME NEW c \in Calls, ConnectInstalls(c) PROVE CallsKept(c) /\ Installs(c)
  <2>1. PICK isUp \in BOOLEAN : isUp = TRUE /\ Decide(c, "session.connected", isUp, 200)
    BY <1>4 DEF ConnectInstalls
  <2>2. /\ call[c].at = "begun" /\ call[c].op = "connect" /\ ~up
        /\ up' /\ conn' = conn + 1 /\ conn < MaxConns
        /\ ~ownEnd'
        /\ UNCHANGED <<told, wire, shown, registered>>
    BY <1>4 DEF ConnectInstalls, Unmarked
  <2>7. conn' \in 0..MaxConns
    BY <1>0, <2>2, ViewAssumption
  <2>3. 200 \in Answers /\ "session.connected" \in {"session.status"} \union LifeCycle
    BY DEF Answers, LifeCycle
  <2>4. Decide(c, "session.connected", isUp, 200)
    BY <2>1
  <2>5. /\ CallsKept(c) /\ call'[c].at = "decided" /\ call'[c].conn = conn'
        /\ call'[c].op = call[c].op
        /\ call'[c].event = [event |-> "session.connected", connected |-> isUp]
    BY <1>0, <2>3, <2>4, <2>7, DecideEffect
  <2>6. call'[c].event = [event |-> "session.connected", connected |-> TRUE]
    BY <2>1, <2>5, Zenon
  <2> QED
    BY <2>2, <2>5, <2>6 DEF Installs
<1>5. ASSUME NEW c \in Calls, DisconnectTakes(c) PROVE CallsKept(c) /\ Takes(c)
  <2>1. PICK isUp \in BOOLEAN : isUp = FALSE /\ Decide(c, "session.disconnected", isUp, 200)
    BY <1>5 DEF DisconnectTakes
  <2>2. /\ call[c].at = "begun" /\ call[c].op = "disconnect" /\ up /\ ~up'
        /\ UNCHANGED <<told, conn, wire, shown, registered>>
    BY <1>5 DEF DisconnectTakes, TakeDown
  <2>3. ownEnd' => /\ call[c].by = "page" /\ wire = <<>>
                   /\ \A d \in Calls \ {c} : call[d].at = "idle"
    BY <1>5 DEF DisconnectTakes, TakeDown
  <2>4. /\ 200 \in Answers /\ conn' \in 0..MaxConns
        /\ "session.disconnected" \in {"session.status"} \union LifeCycle
    BY <1>0, <2>2 DEF Answers, LifeCycle
  <2>5. Decide(c, "session.disconnected", isUp, 200)
    BY <2>1
  <2>6. /\ CallsKept(c) /\ call'[c].at = "decided" /\ call'[c].conn = conn'
        /\ call'[c].op = call[c].op /\ call'[c].by = call[c].by /\ call'[c].answer = 200
        /\ call'[c].event = [event |-> "session.disconnected", connected |-> isUp]
    BY <1>0, <2>4, <2>5, DecideEffect
  <2>7. call'[c].event = [event |-> "session.disconnected", connected |-> FALSE]
    BY <2>1, <2>6, Zenon
  <2> QED
    BY <2>2, <2>3, <2>6, <2>7 DEF Takes
<1>6. ASSUME NEW c \in Calls, NEW k \in readers, UpstreamLost(c, k)
      PROVE  CallsKept(c) /\ Takes(c)
  <2>1. /\ up /\ ~up'
        /\ UNCHANGED <<told, conn, wire, shown, registered>>
    BY <1>6 DEF UpstreamLost, TakeDown
  <2>2. ~ownEnd'
    BY <1>6 DEF UpstreamLost, TakeDown
  <2> QED
    BY <1>0, <1>6, <2>1, <2>2, LossEffect DEF Takes
<1>7. ASSUME NEW c \in Calls, Announce(c) PROVE CallsKept(c)
  BY <1>0, <1>7, AnnounceEffect
<1>8. ASSUME NEW c \in Calls, ReceiveAnswer(c) PROVE CallsKept(c)
  BY <1>0, <1>8, IdleRecord DEF ReceiveAnswer, CallsKept
<1>11. ASSUME NEW c \in Calls, AnnouncePanics(c) PROVE CallsKept(c)
  BY <1>0, <1>11, PanicEffect
<1>12. ASSUME NEW c \in Calls, FetchFails(c) PROVE CallsKept(c)
  BY <1>0, <1>12, FailEffect
<1>9. ASSUME (\E k \in readers : ReaderEnds(k)) \/ UNCHANGED vars PROVE CallsAlone
  BY <1>9 DEF ReaderEnds, vars, CallsAlone
<1>10. ASSUME OtherEvent \/ Receive \/ WebSocketCloses PROVE CallsAlone
  BY <1>10 DEF OtherEvent, Receive, WebSocketCloses, CallsAlone
<1> QED
  BY <1>1, <1>2, <1>3, <1>4, <1>5, <1>6, <1>7, <1>8, <1>9, <1>10, <1>11, <1>12
  DEF Next, CallSteps
-----------------------------------------------------------------------------
\* The broadcasts.
LEMMA InitTold == ViewTypes /\ Init => ToldInv
<1> SUFFICES ASSUME ViewTypes, Init PROVE ToldInv
  OBVIOUS
<1>1. \A c \in Calls : \A e, k : ~Told(c, e, k)
  BY DEF Init, Idle, Told
<1>2. ASSUME NEW e \in LifeCycle, NEW k \in 1..MaxConns
      PROVE  /\ told[e][k] \in {0, 1}
             /\ told[e][k] = 1 <=> Changed(e, k)
  <2>1. told[e][k] = IF e = "session.connected" /\ k <= conn THEN 1 ELSE 0
    BY DEF Init
  <2>2. conn = IF up THEN 1 ELSE 0
    BY DEF Init
  <2> QED
    BY <2>1, <2>2 DEF Changed, LifeCycle
<1> QED
  BY <1>1, <1>2 DEF ToldInv

LEMMA ToldKept == ViewTypes /\ ToldInv /\ [Next]_vars => ToldInv'
<1> SUFFICES ASSUME ViewTypes, ToldInv, [Next]_vars PROVE ToldInv'
  OBVIOUS
<1>0. /\ call \in [Calls -> CallRecords] /\ up \in BOOLEAN /\ conn \in 0..MaxConns
      /\ told \in [LifeCycle -> [1..MaxConns -> Nat]]
  BY DEF ViewTypes, Types
<1> SUFFICES ASSUME NEW e \in LifeCycle, NEW k \in 1..MaxConns
             PROVE  (/\ \A c, d \in Calls : Told(c, e, k) /\ Told(d, e, k) => c = d
                     /\ \A c \in Calls : Told(c, e, k) => Changed(e, k) /\ told[e][k] = 0
                     /\ told[e][k] \in {0, 1}
                     /\ told[e][k] = 1 => Changed(e, k)
                     /\ Changed(e, k) => told[e][k] = 1 \/ \E c \in Calls : Told(c, e, k))'
  BY DEF ToldInv
<1>1. /\ \A c, d \in Calls : Told(c, e, k) /\ Told(d, e, k) => c = d
      /\ \A c \in Calls : Told(c, e, k) => Changed(e, k) /\ told[e][k] = 0
      /\ told[e][k] \in {0, 1}
      /\ told[e][k] = 1 => Changed(e, k)
      /\ Changed(e, k) => told[e][k] = 1 \/ \E c \in Calls : Told(c, e, k)
  BY DEF ToldInv
<1>2. CASE CallsAlone
  BY <1>1, <1>2 DEF CallsAlone, Told, Changed
<1>3. ASSUME NEW c \in Calls, CallsKept(c)
      PROVE  \A d \in Calls : d # c => (Told(d, e, k)' <=> Told(d, e, k))
  BY <1>3 DEF CallsKept, Told
\* Steps after which the call still has nothing of its own to broadcast.
<1>4. ASSUME NEW c \in Calls, CallsKept(c), ~Told(c, e, k), ~Told(c, e, k)',
             UNCHANGED <<told, up, conn>>
      PROVE  \A d \in Calls : Told(d, e, k)' <=> Told(d, e, k)
  BY <1>3, <1>4
<1>5. ASSUME NEW c \in Calls, CallsKept(c),
             Begins(c) \/ Builds(c) \/ Refuses(c) \/ ReceiveAnswer(c)
      PROVE  \A d \in Calls : Told(d, e, k)' <=> Told(d, e, k)
  <2>1. ~Told(c, e, k) /\ UNCHANGED <<told, up, conn>>
    BY <1>5 DEF Begins, Builds, Refuses, ReceiveAnswer, Told, gatewayVars, historyVars
  <2>2. ~Told(c, e, k)'
    <3>1. CASE Builds(c)
      BY <3>1 DEF Builds, Told, LifeCycle
    <3>2. CASE Begins(c) \/ Refuses(c)
      BY <3>2 DEF Begins, Refuses, Told
    <3>3. CASE ReceiveAnswer(c)
      <4>1. call'[c] = Idle
        BY <1>0, <3>3 DEF ReceiveAnswer
      <4> QED
        BY <4>1, IdleRecord DEF Told
    <3> QED
      BY <1>5, <3>1, <3>2, <3>3
  <2> QED
    BY <1>4, <1>5, <2>1, <2>2
<1>6. ASSUME NEW c \in Calls, CallsKept(c),
             Begins(c) \/ Builds(c) \/ Refuses(c) \/ ReceiveAnswer(c)
      PROVE  UNCHANGED <<told, up, conn>>
  BY <1>6 DEF Begins, Builds, Refuses, ReceiveAnswer, gatewayVars, historyVars
<1>7. ASSUME NEW c \in Calls, CallsKept(c), Installs(c) PROVE
             /\ Told(c, e, k)' <=> e = "session.connected" /\ k = conn + 1
             /\ ~Told(c, e, k)
             /\ Changed(e, k)' <=> Changed(e, k) \/ (e = "session.connected" /\ k = conn + 1)
             /\ e = "session.connected" /\ k = conn + 1 => ~Changed(e, k)
             /\ told' = told
  BY <1>0, <1>7 DEF Installs, Told, Changed, LifeCycle
<1>8. ASSUME NEW c \in Calls, CallsKept(c), Takes(c) PROVE
             /\ Told(c, e, k)' <=> e = "session.disconnected" /\ k = conn
             /\ ~Told(c, e, k)
             /\ Changed(e, k)' <=> Changed(e, k) \/ (e = "session.disconnected" /\ k = conn)
             /\ e = "session.disconnected" /\ k = conn => ~Changed(e, k)
             /\ told' = told
  BY <1>0, <1>8 DEF Takes, Told, Changed, LifeCycle
<1>9. ASSUME NEW c \in Calls, CallsKept(c), Announce(c) \/ AnnouncePanics(c) PROVE
             /\ ~Told(c, e, k)'
             /\ told'[e][k] = IF Told(c, e, k) THEN told[e][k] + 1 ELSE told[e][k]
             /\ Changed(e, k)' <=> Changed(e, k)
  <2>1. call'[c].at # "decided"
    BY <1>0, <1>9, AnnounceEffect, PanicEffect, IdleRecord
  <2>2. call[c].at = "decided" /\ UNCHANGED <<up, conn>>
    BY <1>9 DEF Announce, AnnouncePanics, gatewayVars
  <2>3. told'[e][k] = IF Told(c, e, k) THEN told[e][k] + 1 ELSE told[e][k]
    <3> DEFINE f == call[c].event.event
               j == call[c].conn
    <3>1. told' = IF f \in LifeCycle THEN [told EXCEPT ![f][j] = @ + 1] ELSE told
      BY <1>9 DEF Announce, AnnouncePanics, Tell
    <3>2. Told(c, e, k) <=> e = f /\ k = j
      BY <2>2 DEF Told
    <3> HIDE DEF f, j
    <3> QED
      BY <1>0, <3>1, <3>2
  <2> QED
    BY <2>1, <2>2, <2>3 DEF Told, Changed
<1>11. ASSUME NEW c \in Calls, CallsKept(c), FetchFails(c) PROVE
              /\ \A d \in Calls : Told(d, e, k)' <=> Told(d, e, k)
              /\ UNCHANGED <<told, up, conn>>
  <2>1. UNCHANGED <<told, up, conn>>
    BY <1>11 DEF FetchFails, gatewayVars
  <2>2. Told(c, e, k)' <=> Told(c, e, k)
    BY <1>0, <1>11, FailEffect, IdleRecord DEF Told
  <2> QED
    BY <1>3, <1>11, <2>1, <2>2
<1>10. ASSUME NEW c \in Calls, CallsKept(c),
              Begins(c) \/ Builds(c) \/ Refuses(c) \/ Installs(c) \/ Takes(c)
                 \/ Announce(c) \/ AnnouncePanics(c) \/ ReceiveAnswer(c)
                 \/ FetchFails(c)
       PROVE  (/\ \A x, d \in Calls : Told(x, e, k) /\ Told(d, e, k) => x = d
               /\ \A d \in Calls : Told(d, e, k) => Changed(e, k) /\ told[e][k] = 0
               /\ told[e][k] \in {0, 1}
               /\ told[e][k] = 1 => Changed(e, k)
               /\ Changed(e, k) => told[e][k] = 1 \/ \E d \in Calls : Told(d, e, k))'
  <2>1. CASE Begins(c) \/ Builds(c) \/ Refuses(c) \/ ReceiveAnswer(c) \/ FetchFails(c)
    <3>1. (\A d \in Calls : Told(d, e, k)' <=> Told(d, e, k)) /\ UNCHANGED <<told, up, conn>>
      BY <1>5, <1>6, <1>10, <1>11, <2>1
    <3>2. Changed(e, k)' <=> Changed(e, k)
      BY <3>1 DEF Changed
    <3> QED
      BY <1>1, <3>1, <3>2
  <2>2. CASE Installs(c)
    BY <1>1, <1>3, <1>7, <1>10, <2>2
  <2>3. CASE Takes(c)
    BY <1>1, <1>3, <1>8, <1>10, <2>3
  <2>4. CASE Announce(c) \/ AnnouncePanics(c)
    BY <1>1, <1>3, <1>9, <1>10, <2>4
  <2> QED
    BY <1>10, <2>1, <2>2, <2>3, <2>4
<1> QED
  BY <1>2, <1>10, StepKinds
-----------------------------------------------------------------------------
\* The stream: what a broadcast adds to it and what the page takes from it.
StreamSaysUp == \E i \in DOMAIN wire : SaysUp(wire[i])

LEMMA AppendSaysUp ==
    ASSUME NEW s \in Seq(Messages), NEW m \in Messages
    PROVE  /\ Append(s, m) \in Seq(Messages)
           /\ (\E i \in DOMAIN Append(s, m) : SaysUp(Append(s, m)[i]))
              <=> (\E i \in DOMAIN s : SaysUp(s[i])) \/ SaysUp(m)
<1>1. /\ Append(s, m) \in Seq(Messages)
      /\ DOMAIN Append(s, m) = 1..(Len(s) + 1)
      /\ \A i \in 1..Len(s) : Append(s, m)[i] = s[i]
      /\ Append(s, m)[Len(s) + 1] = m
  OBVIOUS
<1>2. DOMAIN s = 1..Len(s) /\ Len(s) \in Nat
  OBVIOUS
<1>3. ASSUME NEW i \in 1..Len(s), SaysUp(s[i])
      PROVE  \E j \in DOMAIN Append(s, m) : SaysUp(Append(s, m)[j])
  <2>1. i \in DOMAIN Append(s, m) /\ Append(s, m)[i] = s[i]
    BY <1>1, <1>2
  <2> QED
    BY <1>3, <2>1
<1>4. ASSUME SaysUp(m) PROVE \E j \in DOMAIN Append(s, m) : SaysUp(Append(s, m)[j])
  <2>1. Len(s) + 1 \in DOMAIN Append(s, m)
    BY <1>1, <1>2
  <2> QED
    BY <1>1, <1>4, <2>1
<1>5. ASSUME NEW i \in DOMAIN Append(s, m), SaysUp(Append(s, m)[i])
      PROVE  (\E j \in DOMAIN s : SaysUp(s[j])) \/ SaysUp(m)
  <2>1. CASE i \in 1..Len(s)
    BY <1>1, <1>2, <1>5, <2>1
  <2>2. CASE i = Len(s) + 1
    BY <1>1, <1>5, <2>2
  <2> QED
    BY <1>1, <1>2, <2>1, <2>2
<1> QED
  BY <1>1, <1>2, <1>3, <1>4, <1>5

LEMMA TailSaysUp ==
    ASSUME NEW s \in Seq(Messages), s # <<>>
    PROVE  (\E i \in DOMAIN s : SaysUp(s[i]))
           <=> (\E i \in DOMAIN Tail(s) : SaysUp(Tail(s)[i])) \/ SaysUp(Head(s))
<1>1. /\ DOMAIN s = 1..Len(s) /\ Len(s) \in Nat \ {0}
      /\ DOMAIN Tail(s) = 1..(Len(s) - 1)
      /\ \A i \in 1..(Len(s) - 1) : Tail(s)[i] = s[i + 1]
      /\ Head(s) = s[1]
  OBVIOUS
<1>2. ASSUME NEW i \in DOMAIN s, SaysUp(s[i])
      PROVE  (\E j \in DOMAIN Tail(s) : SaysUp(Tail(s)[j])) \/ SaysUp(Head(s))
  <2>1. CASE i = 1
    BY <1>1, <1>2, <2>1
  <2>2. CASE i # 1
    <3>1. i - 1 \in DOMAIN Tail(s) /\ Tail(s)[i - 1] = s[i]
      BY <1>1, <2>2
    <3> QED
      BY <1>2, <3>1
  <2> QED
    BY <2>1, <2>2
<1>3. ASSUME NEW i \in DOMAIN Tail(s), SaysUp(Tail(s)[i])
      PROVE  \E j \in DOMAIN s : SaysUp(s[j])
  <2>1. i + 1 \in DOMAIN s /\ s[i + 1] = Tail(s)[i]
    BY <1>1
  <2> QED
    BY <1>3, <2>1
<1>4. 1 \in DOMAIN s
  BY <1>1
<1> QED
  BY <1>1, <1>2, <1>3, <1>4

LEMMA JsonSaysUp ==
    ASSUME NEW e \in Events
    PROVE  Json(e) \in Messages /\ (SaysUp(Json(e)) <=> e.connected)
<1>1. CASE e.connected
  <2>1. Json(e) = e
    BY <1>1 DEF Json
  <2>2. "connected" \in DOMAIN e
    BY DEF Events
  <2> QED
    BY <1>1, <2>1, <2>2, JsonMessage DEF SaysUp
<1>2. CASE ~e.connected
  <2>1. Json(e) = [event |-> e.event]
    BY <1>2 DEF Json
  <2>2. "connected" \notin DOMAIN Json(e)
    BY <2>1
  <2> QED
    BY <1>2, <2>2, JsonMessage DEF SaysUp
<1> QED
  BY <1>1, <1>2

LEMMA SentStream ==
    ASSUME ViewTypes, NEW c \in Calls, wire' = Sent(call[c].event)
    PROVE  StreamSaysUp' <=> StreamSaysUp \/ (registered /\ call[c].event.connected)
<1>1. call[c] \in CallRecords /\ wire \in Seq(Messages)
  BY DEF ViewTypes, Types
<1>2. wire' = IF registered THEN Append(wire, Json(call[c].event)) ELSE wire
  BY DEF Sent
<1>3. Json(call[c].event) \in Messages /\ (SaysUp(Json(call[c].event)) <=> call[c].event.connected)
  BY <1>1, Fields, JsonSaysUp
<1>4. CASE registered
  <2> DEFINE m == Json(call[c].event)
  <2>1. wire' = Append(wire, m)
    BY <1>2, <1>4
  <2>2. (\E i \in DOMAIN wire' : SaysUp(wire'[i])) <=>
            (\E i \in DOMAIN wire : SaysUp(wire[i])) \/ SaysUp(m)
    BY <1>1, <1>3, <2>1, AppendSaysUp
  <2> QED
    BY <1>3, <1>4, <2>2 DEF StreamSaysUp
<1>5. CASE ~registered
  BY <1>2, <1>5 DEF StreamSaysUp
<1> QED
  BY <1>4, <1>5

LEMMA OtherStream ==
    ASSUME ViewTypes, OtherEvent
    PROVE  (StreamSaysUp' <=> StreamSaysUp) /\ UNCHANGED <<shown, registered>>
<1> DEFINE e == [event |-> "other", connected |-> FALSE]
           m == [event |-> "other"]
<1>1. Json(e) = m /\ m \in Messages /\ ~SaysUp(m)
  BY DEF Json, Messages, EventNames, SaysUp
<1>2. wire \in Seq(Messages) /\ wire' = IF registered THEN Append(wire, m) ELSE wire
  BY <1>1 DEF ViewTypes, Types, OtherEvent, Sent
<1>3. UNCHANGED <<shown, registered>>
  BY DEF OtherEvent, pageVars
<1> HIDE DEF m, e
<1>4. CASE registered
  BY <1>1, <1>2, <1>3, <1>4, AppendSaysUp DEF StreamSaysUp
<1>5. CASE ~registered
  BY <1>2, <1>3, <1>5 DEF StreamSaysUp
<1> QED
  BY <1>3, <1>4, <1>5

LEMMA ReceiveStream ==
    ASSUME ViewTypes, Receive
    PROVE  /\ StreamSaysUp <=> StreamSaysUp' \/ SaysUp(Head(wire))
           /\ shown' => shown \/ SaysUp(Head(wire))
           /\ Head(wire).event # "close" => (shown' <=> shown \/ SaysUp(Head(wire)))
           /\ UNCHANGED registered
<1>1. /\ wire \in Seq(Messages) /\ wire # <<>> /\ wire' = Tail(wire)
      /\ shown \in BOOLEAN
      /\ UNCHANGED registered
  BY DEF ViewTypes, Types, Receive
<1>2. Head(wire) \in Messages
  BY <1>1
<1>3. SaysUp(Head(wire)) => Head(wire).connected = TRUE
  <2>1. ASSUME NEW h \in Messages, SaysUp(h) PROVE h.connected = TRUE
    <3>1. CASE h \in [event : EventNames]
      BY <2>1, <3>1 DEF SaysUp
    <3>2. CASE h \in [event : EventNames, connected : {TRUE}]
      BY <3>2
    <3> QED
      BY <3>1, <3>2 DEF Messages
  <2> QED
    BY <1>2, <2>1
<1>4. shown' = IF Head(wire).event = "close" THEN FALSE
               ELSE IF SaysUp(Head(wire)) THEN Head(wire).connected ELSE shown
  BY DEF Receive, SaysUp
<1>5. StreamSaysUp <=> StreamSaysUp' \/ SaysUp(Head(wire))
  BY <1>1, TailSaysUp DEF StreamSaysUp
<1> QED
  BY <1>1, <1>3, <1>4, <1>5

LEMMA CloseStream ==
    ASSUME ViewTypes, WebSocketCloses
    PROVE  (StreamSaysUp' => StreamSaysUp) /\ UNCHANGED shown /\ ~registered'
<1> DEFINE m == [event |-> "close"]
<1>1. PICK n \in 0..Len(wire) : wire' = Append(SubSeq(wire, 1, n), m)
  BY DEF WebSocketCloses
<1>2. wire \in Seq(Messages) /\ UNCHANGED shown /\ ~registered'
  BY DEF ViewTypes, Types, WebSocketCloses, pageVars
<1>3. m \in Messages /\ ~SaysUp(m)
  BY DEF Messages, EventNames, SaysUp
<1> DEFINE s == SubSeq(wire, 1, n)
<1>4. s \in Seq(Messages) /\ DOMAIN s = 1..n /\ \A i \in 1..n : s[i] = wire[i]
  BY <1>2, SubSeqProperties
<1>5. 1..n \subseteq DOMAIN wire
  BY <1>2
<1> HIDE DEF s, m
<1>6. wire' = Append(s, m)
  BY <1>1 DEF s
<1>7. StreamSaysUp' <=> \E i \in DOMAIN s : SaysUp(s[i])
  BY <1>3, <1>4, <1>6, AppendSaysUp DEF StreamSaysUp
<1>8. (\E i \in DOMAIN s : SaysUp(s[i])) => StreamSaysUp
  BY <1>4, <1>5 DEF StreamSaysUp
<1> QED
  BY <1>2, <1>7, <1>8
-----------------------------------------------------------------------------
\* A page whose WebSocket is open has no close in its stream.
NoClose(s) == \A i \in DOMAIN s : s[i].event # "close"
OpenInv ==
    /\ ~wsAsked => wire = <<>>
    /\ registered => NoClose(wire)

LEMMA InitOpen == Init => OpenInv
  BY DEF Init, OpenInv, NoClose

LEMMA AppendNoClose ==
    ASSUME NEW s \in Seq(Messages), NEW m \in Messages, NoClose(s), m.event # "close"
    PROVE  NoClose(Append(s, m))
<1>1. /\ DOMAIN Append(s, m) = 1..(Len(s) + 1) /\ DOMAIN s = 1..Len(s) /\ Len(s) \in Nat
      /\ \A i \in 1..Len(s) : Append(s, m)[i] = s[i]
      /\ Append(s, m)[Len(s) + 1] = m
  OBVIOUS
<1> QED
  BY <1>1 DEF NoClose

LEMMA TailNoClose ==
    ASSUME NEW s \in Seq(Messages), s # <<>>, NoClose(s)
    PROVE  NoClose(Tail(s)) /\ Head(s).event # "close"
<1>1. /\ DOMAIN s = 1..Len(s) /\ Len(s) \in Nat \ {0}
      /\ DOMAIN Tail(s) = 1..(Len(s) - 1)
      /\ \A i \in 1..(Len(s) - 1) : Tail(s)[i] = s[i + 1]
      /\ Head(s) = s[1]
  OBVIOUS
<1>2. ASSUME NEW i \in DOMAIN Tail(s) PROVE Tail(s)[i].event # "close"
  <2>1. i + 1 \in DOMAIN s /\ Tail(s)[i] = s[i + 1]
    BY <1>1
  <2> QED
    BY <2>1 DEF NoClose
<1>3. 1 \in DOMAIN s
  BY <1>1
<1> QED
  BY <1>1, <1>2, <1>3 DEF NoClose

LEMMA SentNoClose ==
    ASSUME ViewTypes, OpenInv, NEW e \in Events, wire' = Sent(e), UNCHANGED <<wsAsked, registered>>
    PROVE  OpenInv'
<1>1. wire \in Seq(Messages) /\ (registered => wsAsked)
  BY DEF ViewTypes, Types
<1>2. Json(e) \in Messages /\ Json(e).event # "close"
  <2>1. Json(e).event = e.event
    BY DEF Json, Events
  <2>2. e.event # "close"
    BY DEF Events, LifeCycle
  <2> QED
    BY <2>1, <2>2, JsonMessage
<1>3. CASE registered
  BY <1>1, <1>2, <1>3, AppendNoClose DEF Sent, OpenInv
<1>4. CASE ~registered
  BY <1>4 DEF Sent, OpenInv
<1> QED
  BY <1>3, <1>4

LEMMA OpenKept == ViewTypes /\ OpenInv /\ [Next]_vars => OpenInv'
<1> SUFFICES ASSUME ViewTypes, OpenInv, [Next]_vars PROVE OpenInv'
  OBVIOUS
<1> USE DEF gatewayVars, pageVars, streamVars, historyVars
<1>0. wire \in Seq(Messages) /\ (registered => wsAsked) /\ call \in [Calls -> CallRecords]
  BY DEF ViewTypes, Types
<1>1. ASSUME NEW c \in Calls, OpenWebSocket(c) PROVE OpenInv'
  BY <1>1 DEF OpenWebSocket, OpenInv, NoClose
<1>2. ASSUME UNCHANGED <<wire, wsAsked, registered>> PROVE OpenInv'
  BY <1>2 DEF OpenInv, NoClose
<1>3. ASSUME NEW c \in Calls, Announce(c) PROVE OpenInv'
  <2>1. call[c].event \in Events
    BY <1>0, Fields
  <2>2. wire' = Sent(call[c].event) /\ UNCHANGED <<wsAsked, registered>>
    BY <1>3 DEF Announce
  <2> QED
    BY <2>1, <2>2, SentNoClose
<1>9. ASSUME NEW c \in Calls, AnnouncePanics(c) PROVE OpenInv'
  <2>1. call[c].event \in Events
    BY <1>0, Fields
  <2>2. wire' \in {wire, Sent(call[c].event)} /\ UNCHANGED <<wsAsked, registered>>
    BY <1>9 DEF AnnouncePanics
  <2> QED
    BY <1>2, <2>1, <2>2, SentNoClose
<1>4. ASSUME OtherEvent PROVE OpenInv'
  <2> DEFINE m == [event |-> "other"]
  <2>1. Json([event |-> "other", connected |-> FALSE]) = m
    BY DEF Json
  <2>2. m \in Messages /\ m.event # "close"
    BY DEF Messages, EventNames
  <2>3. /\ wire' = IF registered THEN Append(wire, m) ELSE wire
        /\ UNCHANGED <<wsAsked, registered>>
    BY <1>4, <2>1 DEF OtherEvent, Sent
  <2> HIDE DEF m
  <2> QED
    BY <1>0, <2>2, <2>3, AppendNoClose DEF OpenInv
<1>5. ASSUME Receive PROVE OpenInv'
  <2>1. wire # <<>> /\ wire' = Tail(wire) /\ UNCHANGED <<wsAsked, registered>>
    BY <1>5 DEF Receive
  <2> QED
    BY <1>0, <2>1, TailNoClose DEF OpenInv
<1>6. ASSUME WebSocketCloses PROVE OpenInv'
  BY <1>0, <1>6 DEF WebSocketCloses, OpenInv
<1>7. ASSUME NEW c \in Calls,
             ConnectClick(c) \/ DisconnectClick(c) \/ OtherClientCalls(c) \/ BuildStatus(c)
             \/ DialFails(c) \/ ConnectRejected(c) \/ ConnectInstalls(c)
             \/ DisconnectRejected(c) \/ DisconnectTakes(c) \/ ReceiveAnswer(c)
             \/ FetchFails(c) \/ \E k \in readers : UpstreamLost(c, k)
      PROVE  UNCHANGED <<wire, wsAsked, registered>>
  BY <1>7 DEF ConnectClick, DisconnectClick, OtherClientCalls, BuildStatus, DialFails,
     ConnectRejected, ConnectInstalls, DisconnectRejected, DisconnectTakes, ReceiveAnswer,
     FetchFails, UpstreamLost, TakeDown
<1>8. ASSUME (\E k \in readers : ReaderEnds(k)) \/ UNCHANGED vars
      PROVE  UNCHANGED <<wire, wsAsked, registered>>
  BY <1>8 DEF ReaderEnds, vars
<1> QED
  BY <1>1, <1>2, <1>3, <1>4, <1>5, <1>6, <1>7, <1>8, <1>9 DEF Next, CallSteps
-----------------------------------------------------------------------------
\* What the page shows.
LEMMA InitShown == Init => UpInv /\ OwnEndInv
  BY DEF Init, UpInv, OwnEndInv

LEMMA UpKept == ViewTypes /\ OpenInv /\ UpInv /\ [Next]_vars => UpInv'
<1> SUFFICES ASSUME ViewTypes, OpenInv, UpInv, [Next]_vars, registered', up', ~hidden'
             PROVE  \/ shown'
                    \/ StreamSaysUp'
                    \/ \E c \in Calls : Heard(c)'
                    \/ \E c \in Calls : Asked(c)'
  BY DEF UpInv, StreamSaysUp
<1>0. registered /\ up /\ ~hidden =>
        shown \/ StreamSaysUp \/ (\E c \in Calls : Heard(c)) \/ (\E c \in Calls : Asked(c))
  BY DEF UpInv, StreamSaysUp
<1>1. /\ call \in [Calls -> CallRecords] /\ up \in BOOLEAN /\ conn \in 0..MaxConns
      /\ wire \in Seq(Messages) /\ shown \in BOOLEAN /\ hidden \in BOOLEAN
  BY DEF ViewTypes, Types
<1>2. CASE CallsAlone
  <2>1. UNCHANGED <<call, up, conn, hidden>>
    BY <1>2 DEF CallsAlone
  <2>6. \A c \in Calls : (Heard(c)' <=> Heard(c)) /\ (Asked(c)' <=> Asked(c))
    BY <2>1 DEF Heard, Asked
  <2>2. CASE UNCHANGED <<wire, shown, registered>>
    BY <1>0, <2>1, <2>2, <2>6 DEF StreamSaysUp
  <2>3. CASE OtherEvent
    BY <1>0, <2>1, <2>3, <2>6, OtherStream
  <2>4. CASE Receive
    <3>1. registered
      BY <2>4, ReceiveStream
    <3>2. Head(wire).event # "close"
      <4>1. wire # <<>> /\ NoClose(wire)
        BY <2>4, <3>1 DEF Receive, OpenInv
      <4> QED
        BY <1>1, <4>1, TailNoClose
    <3> QED
      BY <1>0, <2>1, <2>4, <2>6, <3>1, <3>2, ReceiveStream
  <2>5. CASE WebSocketCloses
    BY <2>5, CloseStream
  <2> QED
    BY <1>2, <2>2, <2>3, <2>4, <2>5 DEF CallsAlone
<1>3. ASSUME NEW c \in Calls, CallsKept(c),
             Begins(c) \/ Builds(c) \/ Refuses(c) \/ Installs(c) \/ Takes(c)
                \/ Announce(c) \/ AnnouncePanics(c) \/ ReceiveAnswer(c) \/ FetchFails(c)
      PROVE  \/ shown'
             \/ StreamSaysUp'
             \/ \E d \in Calls : Heard(d)'
             \/ \E d \in Calls : Asked(d)'
  <2>0. ASSUME conn' = conn
        PROVE  \A d \in Calls : d # c => (Heard(d)' <=> Heard(d)) /\ (Asked(d)' <=> Asked(d))
    BY <1>3, <2>0 DEF CallsKept, Heard, Asked
  \* A step that hides nothing of what the page was to hear.
  <2>a. ASSUME UNCHANGED <<up, conn, hidden, registered>>, shown => shown',
               StreamSaysUp => StreamSaysUp',
               Heard(c) => Heard(c)' \/ StreamSaysUp', Asked(c) => Asked(c)' \/ Heard(c)'
        PROVE  \/ shown'
               \/ StreamSaysUp'
               \/ \E d \in Calls : Heard(d)'
               \/ \E d \in Calls : Asked(d)'
    BY <1>0, <2>0, <2>a
  <2>1. CASE Begins(c)
    <3>1. CASE registered' = registered
      <4>1. ~Heard(c) /\ ~Asked(c) /\ UNCHANGED <<up, conn, hidden, wire, shown>>
        BY <2>1 DEF Begins, Heard, Asked
      <4> QED
        BY <2>a, <3>1, <4>1 DEF StreamSaysUp
    <3>2. CASE call'[c].op = "status" /\ call'[c].by = "page"
      BY <2>1, <3>2 DEF Begins, Asked
    <3> QED
      BY <2>1, <3>1, <3>2 DEF Begins
  <2>2. CASE Builds(c)
    <3>1. UNCHANGED <<up, conn, hidden, registered, wire, shown>> /\ ~Heard(c)
      BY <2>2 DEF Builds, Heard
    <3>2. Asked(c) => Heard(c)'
      BY <2>2 DEF Builds, Heard, Asked, Owed
    <3> QED
      BY <2>a, <3>1, <3>2 DEF StreamSaysUp
  <2>3. CASE Refuses(c)
    <3>1. ~Heard(c) /\ ~Asked(c) /\ UNCHANGED <<up, conn, hidden, wire, shown, registered>>
      BY <2>3 DEF Refuses, Heard, Asked
    <3> QED
      BY <2>a, <3>1 DEF StreamSaysUp
  <2>4. CASE Installs(c)
    BY <2>4 DEF Installs, Heard, Owed
  <2>5. CASE Takes(c)
    BY <2>5 DEF Takes
  <2>6. CASE Announce(c)
    <3>1. UNCHANGED <<up, conn, hidden, shown, registered>> /\ ~Asked(c)
          /\ wire' = Sent(call[c].event)
      BY <2>6 DEF Announce, Asked, pageVars
    <3>2. StreamSaysUp' <=> StreamSaysUp \/ (registered /\ call[c].event.connected)
      BY <3>1, SentStream
    <3>3. Heard(c) => call[c].event.connected
      BY DEF Heard, Owed
    <3> QED
      BY <2>a, <3>1, <3>2, <3>3
  <2>8. CASE AnnouncePanics(c)
    <3>1. UNCHANGED <<up, conn, shown, registered>> /\ ~Asked(c)
      BY <2>8 DEF AnnouncePanics, Asked, gatewayVars, pageVars
    <3>6. /\ hidden' = (hidden \/ (Owed(call[c]) /\ registered /\ wire' = wire
                                  /\ up /\ call[c].conn = conn))
          /\ up /\ registered
      BY <2>8, <3>1 DEF AnnouncePanics
    <3>2. ~hidden /\ (wire' = wire => ~(Owed(call[c]) /\ call[c].conn = conn))
      BY <3>6, Zenon
    <3>3. hidden' = hidden
      BY <1>1, <3>2, <3>6
    <3>4. CASE wire' = wire
      BY <2>a, <3>1, <3>2, <3>3, <3>4 DEF StreamSaysUp, Heard
    <3>5. CASE wire' = Sent(call[c].event)
      <4>1. StreamSaysUp' <=> StreamSaysUp \/ (registered /\ call[c].event.connected)
        BY <3>5, SentStream
      <4>2. Heard(c) => call[c].event.connected
        BY DEF Heard, Owed
      <4> QED
        BY <2>a, <3>1, <3>3, <4>1, <4>2
    <3> QED
      BY <2>8, <3>4, <3>5 DEF AnnouncePanics
  <2>7. CASE ReceiveAnswer(c)
    <3>1. ~Heard(c) /\ ~Asked(c) /\ UNCHANGED <<up, conn, wire, registered>>
      BY <2>7 DEF ReceiveAnswer, Heard, Asked, gatewayVars, streamVars
    <3>2. /\ shown' = AfterAnswer(call[c].op, call[c].answer)
          /\ hidden' = (hidden \/ (call[c].op = "disconnect" /\ call[c].answer = 200 /\ up))
      BY <2>7 DEF ReceiveAnswer
    <3>3. ~(call[c].op = "disconnect" /\ call[c].answer = 200) /\ ~hidden
      BY <3>1, <3>2
    <3>4. shown => shown'
      <4>1. CASE call[c].op = "connect"
        BY <3>2, <4>1 DEF AfterAnswer
      <4>2. CASE call[c].op = "disconnect"
        BY <3>2, <3>3, <4>2 DEF AfterAnswer
      <4>3. CASE call[c].op \notin {"connect", "disconnect"}
        BY <2>7, <4>3 DEF ReceiveAnswer, ViewTypes, Deciding
      <4> QED
        BY <4>1, <4>2, <4>3
    <3>5. hidden' = hidden
      BY <1>1, <3>2, <3>3
    <3> QED
      BY <2>a, <3>1, <3>4, <3>5 DEF StreamSaysUp
  <2>9. CASE FetchFails(c)
    <3>1. UNCHANGED <<up, conn, hidden, wire, shown, registered>> /\ ~Asked(c)
      BY <2>9 DEF FetchFails, Asked, gatewayVars, streamVars
    <3>2. Heard(c) => Heard(c)'
      <4>1. call[c].op \in {"connect", "disconnect"}
        BY <2>9 DEF FetchFails
      <4>2. Heard(c) => call[c].op = "connect"
        BY <4>1 DEF Heard, Owed, ViewTypes, Deciding
      <4> QED
        BY <1>1, <2>9, <3>1, <4>2, FailEffect DEF Heard, Owed
    <3> QED
      BY <2>a, <3>1, <3>2 DEF StreamSaysUp
  <2> QED
    BY <1>3, <2>1, <2>2, <2>3, <2>4, <2>5, <2>6, <2>7, <2>8, <2>9
<1> QED
  BY <1>2, <1>3, StepKinds

LEMMA OwnEndKept == ViewTypes /\ OwnEndInv /\ [Next]_vars => OwnEndInv'
<1> SUFFICES ASSUME ViewTypes, OwnEndInv, [Next]_vars, ownEnd', ~up' PROVE OwnEndInv'
  BY DEF OwnEndInv
<1> DEFINE Loud(c) ==
             \/ call[c].at = "decided" /\ call[c].event.connected
             \/ /\ call[c].at = "answering" /\ call[c].op = "connect"
                /\ call[c].answer \in {200, 409}
           Hides(c) == /\ call[c].op = "disconnect" /\ call[c].by = "page"
                       /\ call[c].at \in {"decided", "answering"}
                       /\ call[c].answer = 200
           Down == /\ ~StreamSaysUp
                   /\ \A c \in Calls : ~Loud(c)
                   /\ shown => \E c \in Calls : Hides(c)
<1>1. /\ call \in [Calls -> CallRecords] /\ up \in BOOLEAN /\ shown \in BOOLEAN
      /\ wire \in Seq(Messages)
  BY DEF ViewTypes, Types
<1>2. ownEnd /\ ~up => Down
  BY DEF OwnEndInv, StreamSaysUp
<1>3. SUFFICES Down'
  BY DEF OwnEndInv, StreamSaysUp
<1>4. CASE CallsAlone
  <2>1. UNCHANGED <<call, up, ownEnd>> /\ Down
    BY <1>2, <1>4 DEF CallsAlone
  <2>2. (\A c \in Calls : ~Loud(c)') /\ ((\E c \in Calls : Hides(c)) => \E c \in Calls : Hides(c)')
    BY <2>1
  <2> HIDE DEF Loud, Hides
  <2>3. CASE UNCHANGED <<wire, shown, registered>>
    BY <2>1, <2>2, <2>3 DEF StreamSaysUp
  <2>4. CASE OtherEvent
    BY <2>1, <2>2, <2>4, OtherStream
  <2>5. CASE Receive
    BY <2>1, <2>2, <2>5, ReceiveStream
  <2>6. CASE WebSocketCloses
    BY <2>1, <2>2, <2>6, CloseStream
  <2> QED
    BY <1>4, <2>3, <2>4, <2>5, <2>6 DEF CallsAlone
<1>5. ASSUME NEW c \in Calls, CallsKept(c),
             Begins(c) \/ Builds(c) \/ Refuses(c) \/ Installs(c) \/ Takes(c)
                \/ Announce(c) \/ AnnouncePanics(c) \/ ReceiveAnswer(c) \/ FetchFails(c)
      PROVE  Down'
  <2>0. \A d \in Calls : d # c => (Loud(d)' <=> Loud(d)) /\ (Hides(d)' <=> Hides(d))
    BY <1>5 DEF CallsKept
  \* A step that leaves the session as it is and shows nothing new.
  <2>a. ASSUME UNCHANGED <<ownEnd, up>>, StreamSaysUp' => StreamSaysUp, ~Loud(c)',
               Hides(c) => Hides(c)' \/ ~shown', shown' => shown
        PROVE  Down'
    <3>1. Down
      BY <1>2, <2>a
    <3> HIDE DEF Loud, Hides
    <3> QED
      BY <2>0, <2>a, <3>1
  <2>1. CASE Begins(c)
    <3>1. UNCHANGED <<ownEnd, up, wire, shown>> /\ ~Loud(c)' /\ ~Hides(c)
      BY <2>1 DEF Begins
    <3> QED
      BY <2>a, <3>1 DEF StreamSaysUp
  <2>2. CASE Builds(c)
    <3>1. UNCHANGED <<ownEnd, up, wire, shown>> /\ ~Loud(c)' /\ ~Hides(c)
      BY <2>2 DEF Builds
    <3> QED
      BY <2>a, <3>1 DEF StreamSaysUp
  <2>3. CASE Refuses(c)
    <3>1. UNCHANGED <<ownEnd, up, wire, shown>> /\ ~Loud(c)' /\ ~Hides(c)
      BY <2>3 DEF Refuses
    <3> QED
      BY <2>a, <3>1 DEF StreamSaysUp
  <2>4. CASE Installs(c)
    BY <2>4 DEF Installs
  <2>5. CASE Takes(c)
    <3>1. /\ wire = <<>> /\ wire' = wire
          /\ \A d \in Calls \ {c} : call[d].at = "idle"
          /\ Hides(c)'
      BY <2>5 DEF Takes
    <3>2. ~Loud(c)'
      BY <2>5 DEF Takes
    <3>3. \A d \in Calls : d # c => ~Loud(d)
      BY <3>1
    <3>4. ~StreamSaysUp'
      BY <3>1 DEF StreamSaysUp
    <3> HIDE DEF Loud, Hides
    <3> QED
      BY <2>0, <3>1, <3>2, <3>3, <3>4
  <2>6. CASE Announce(c)
    <3>1. UNCHANGED <<ownEnd, up, shown>> /\ call[c].at = "decided"
      BY <2>6 DEF Announce, pageVars
    <3>2. Down
      BY <1>2, <3>1
    <3>3. ~call[c].event.connected
      BY <3>1, <3>2
    <3>4. StreamSaysUp' => StreamSaysUp
      BY <2>6, <3>3, SentStream DEF Announce
    <3>5. call[c].op # "connect"
      BY <3>1, <3>3 DEF ViewTypes, Deciding
    <3>6. ~Loud(c)' /\ (Hides(c) => Hides(c)')
      BY <1>1, <2>6, <3>5, AnnounceEffect, IdleRecord
    <3> QED
      BY <2>a, <3>1, <3>4, <3>6
  <2>7. CASE ReceiveAnswer(c)
    <3>1. UNCHANGED <<ownEnd, up, wire>> /\ call[c].at = "answering"
      BY <2>7 DEF ReceiveAnswer, gatewayVars, streamVars, historyVars
    <3>2. Down
      BY <1>2, <3>1
    <3>3. shown' = AfterAnswer(call[c].op, call[c].answer) /\ call'[c] = Idle
      BY <1>1, <2>7 DEF ReceiveAnswer
    <3>4. ~(call[c].op = "connect" /\ call[c].answer \in {200, 409})
      BY <3>1, <3>2
    <3>5. (shown' => shown) /\ (Hides(c) => ~shown')
      BY <3>3, <3>4 DEF AfterAnswer
    <3>6. ~Loud(c)'
      BY <3>3, IdleRecord
    <3> QED
      BY <2>a, <3>1, <3>5, <3>6 DEF StreamSaysUp
  <2>8. CASE AnnouncePanics(c)
    <3>1. UNCHANGED <<up, shown>> /\ call[c].at = "decided" /\ ownEnd
          /\ ~(call[c].by = "page" /\ call[c].op = "disconnect")
      BY <2>8 DEF AnnouncePanics, gatewayVars, pageVars
    <3>7. ownEnd' = ownEnd
      BY <2>8, <3>1 DEF AnnouncePanics
    <3>2. Down
      BY <1>2, <3>1
    <3>3. ~call[c].event.connected
      BY <3>1, <3>2
    <3>4. StreamSaysUp' => StreamSaysUp
      <4>1. CASE wire' = wire
        BY <4>1 DEF StreamSaysUp
      <4>2. CASE wire' = Sent(call[c].event)
        BY <3>3, <4>2, SentStream
      <4> QED
        BY <2>8, <4>1, <4>2 DEF AnnouncePanics
    <3>5. ~Hides(c)
      BY <3>1
    <3>6. ~Loud(c)'
      BY <1>1, <2>8, PanicEffect, IdleRecord
    <3> QED
      BY <2>a, <3>1, <3>4, <3>5, <3>6, <3>7
  <2>9. CASE FetchFails(c)
    <3>1. UNCHANGED <<up, shown, wire>> /\ ownEnd
          /\ ~(call[c].op = "disconnect" /\ call[c].answer = 200)
      BY <2>9 DEF FetchFails, gatewayVars, streamVars
    <3>2. ownEnd' = ownEnd
      BY <2>9, <3>1 DEF FetchFails
    <3>3. ~Loud(c) /\ ~Hides(c)
      BY <1>2, <3>1
    <3>4. ~Loud(c)'
      BY <1>1, <2>9, <3>3, FailEffect, IdleRecord
    <3> QED
      BY <2>a, <3>1, <3>2, <3>3, <3>4 DEF StreamSaysUp
  <2> QED
    BY <1>5, <2>1, <2>2, <2>3, <2>4, <2>5, <2>6, <2>7, <2>8, <2>9
<1> QED
  BY <1>4, <1>5, StepKinds
-----------------------------------------------------------------------------
ViewInv == ViewTypes /\ OpenInv /\ ToldInv /\ UpInv /\ OwnEndInv

LEMMA ViewInvHolds == Spec => []ViewInv
<1>1. Init => ViewInv
  BY InitTypes, InitOpen, InitTold, InitShown DEF ViewInv
<1>2. ViewInv /\ [Next]_vars => ViewInv'
  BY TypesKept, OpenKept, ToldKept, UpKept, OwnEndKept DEF ViewInv
<1> QED
  BY <1>1, <1>2, PTL DEF Spec

\* Types of the state, also that nothing is broadcast twice.
THEOREM TypeCorrect == Spec => []TypeOK
<1>1. ViewInv => TypeOK
  <2> SUFFICES ASSUME ViewInv PROVE TypeOK
    OBVIOUS
  <2>1. told \in [LifeCycle -> [1..MaxConns -> {0, 1}]]
    <3>1. told \in [LifeCycle -> [1..MaxConns -> Nat]]
      BY DEF ViewInv, ViewTypes, Types
    <3>2. \A e \in LifeCycle, k \in 1..MaxConns : told[e][k] \in {0, 1}
      BY DEF ViewInv, ToldInv
    <3> QED
      BY <3>1, <3>2
  <2> QED
    BY <2>1 DEF ViewInv, ViewTypes, Types, TypeOK, CallRecords, Ops, Places, Who, Events, Answers
<1> QED
  BY <1>1, ViewInvHolds, PTL

\* Connect, Disconnect and a reader's disconnect broadcast each change of the
\* session exactly once, however they overlap.
THEOREM ChangesToldOnce == Spec => []EachChangeToldOnce
<1>1. ViewInv => EachChangeToldOnce
  <2> SUFFICES ASSUME ViewInv, NEW k \in 1..MaxConns
               PROVE  \A e \in LifeCycle :
                        told[e][k] + (IF \E c \in Calls :
                            call[c].at = "decided" /\ call[c].conn = k
                            /\ call[c].event.event = e THEN 1 ELSE 0)
                        = IF Changed(e, k) THEN 1 ELSE 0
    BY DEF EachChangeToldOnce, Changed, LifeCycle
  <2> TAKE e \in LifeCycle
  <2>1. /\ \A c \in Calls : Told(c, e, k) => Changed(e, k) /\ told[e][k] = 0
        /\ told[e][k] \in {0, 1}
        /\ told[e][k] = 1 => Changed(e, k)
        /\ Changed(e, k) => told[e][k] = 1 \/ \E c \in Calls : Told(c, e, k)
    BY DEF ViewInv, ToldInv
  <2>2. (\E c \in Calls : Told(c, e, k)) <=>
            \E c \in Calls : call[c].at = "decided" /\ call[c].conn = k
                             /\ call[c].event.event = e
    BY DEF Told
  <2>3. CASE \E c \in Calls : Told(c, e, k)
    BY <2>1, <2>2, <2>3
  <2>4. CASE ~\E c \in Calls : Told(c, e, k)
    BY <2>1, <2>2, <2>4
  <2> QED
    BY <2>3, <2>4
<1> QED
  BY <1>1, ViewInvHolds, PTL

\* A page whose WebSocket is open shows a session that is up once it has heard
\* everything, whatever overtook what on the way and whichever answers were
\* lost, unless a panicking Broadcast or its own late answer has hidden it.
THEOREM UpIsShownAlways == Spec => []UpIsShown
<1>1. ViewInv => UpIsShown
  BY DEF ViewInv, UpInv, UpIsShown, Quiet, Heard, Asked
<1> QED
  BY <1>1, ViewInvHolds, PTL

\* App.tsx hides the session in the answer of its own Disconnect, if it comes,
\* and nothing under way brings it back.
THEOREM OwnDisconnectShown == Spec => []OwnDisconnectIsShown
<1>1. ViewInv => OwnDisconnectIsShown
  BY DEF ViewInv, OwnEndInv, OwnDisconnectIsShown, Quiet
<1> QED
  BY <1>1, ViewInvHolds, PTL
=============================================================================
