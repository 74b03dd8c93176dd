----------------------------- MODULE BrowserView -----------------------------
(***************************************************************************)
(* What the player sees of the session: the calls of manager.go that       *)
(* change it and broadcast it, the JSON of their events, the answers of    *)
(* httpapi/session.go, and the connection flag of App.tsx.                 *)
(*                                                                         *)
(* A call is a goroutine of the gateway: an HTTP handler, a WebSocket      *)
(* handler or a reader whose upstream ended.  Its steps are the critical   *)
(* section that decides, the Broadcast after it, and the answer's way to   *)
(* the browser.  A Broadcast that panics (it sends on the closed channel   *)
(* of another client) may not reach the page; net/http recovers the panic  *)
(* of a handler, a reader's ends the process and with it the behaviour.    *)
(* A call without an answer has the answer 0.                              *)
(*                                                                         *)
(* Events reach the page in the order they were broadcast, answers         *)
(* whenever they come, if they come.  A page opens its WebSocket once; it  *)
(* may be loaded while the session is up, and a reload is a new page: the  *)
(* old one's calls then belong to the other clients of the API.            *)
(***************************************************************************)
EXTENDS Integers, Sequences

CONSTANTS
    Calls,      \* goroutines in a call at the same time
    MaxConns,   \* bound of the model: connections ever made
    MaxEvents   \* bound of the model: events in the page's stream for
                \* OtherEvent and for another client's status

ASSUME ViewAssumption ==
    /\ MaxConns \in Nat \ {0}
    /\ MaxEvents \in Nat

NoEvent == [event |-> "none", connected |-> FALSE]
Idle == [op |-> "none", at |-> "idle", by |-> "other", conn |-> 0,
         event |-> NoEvent, answer |-> 0]

VARIABLES
    up,             \* session.connected
    conn,           \* the number of the latest connection
    readers,        \* connections whose reader has been started and not ended
    call,           \* what each goroutine does
    wsAsked,        \* whether the page has opened its WebSocket
    registered,     \* whether the page's client is in the hub
    wire,           \* events on their way to the page
    shown,          \* the page's connected flag
    connecting, disconnecting,   \* the page's calls in progress
    told,           \* history: how often each life cycle event was broadcast
    ownEnd,         \* history: the page's Disconnect ended the session, with
                    \* no other call and no event under way
    hidden          \* history: this connection's event for the page was lost
                    \* in a panic, or an older Disconnect's answer came after it

gatewayVars == <<up, conn, readers>>
pageVars == <<wsAsked, shown, connecting, disconnecting>>
streamVars == <<registered, wire>>
historyVars == <<told, ownEnd, hidden>>
vars == <<gatewayVars, call, pageVars, streamVars, historyVars>>

LifeCycle == {"session.connected", "session.disconnected"}

Init ==
    /\ up \in BOOLEAN
    /\ conn = IF up THEN 1 ELSE 0
    /\ readers = 1..conn
    /\ call = [c \in Calls |-> Idle]
    /\ wsAsked = FALSE
    /\ registered = FALSE
    /\ wire = <<>>
    /\ shown = FALSE
    /\ connecting = FALSE
    /\ disconnecting = FALSE
    /\ told = [e \in LifeCycle |-> [k \in 1..MaxConns |->
                   IF e = "session.connected" /\ k <= conn THEN 1 ELSE 0]]
    /\ ownEnd = FALSE
    /\ hidden = FALSE
-----------------------------------------------------------------------------
\* Mutant of Json: nothing is omitted.
JsonAll(e) == e

\* json.Marshal of a TerminalEvent: a false `connected` is omitted.
Json(e) == IF e.connected THEN e ELSE [event |-> e.event]

\* Hub.Broadcast, as far as the page is concerned.
Sent(e) == IF registered THEN Append(wire, Json(e)) ELSE wire

Begin(c, op, by) ==
    /\ call[c].at = "idle"
    /\ call' = [call EXCEPT ![c] = [Idle EXCEPT !.op = op, !.at = "begun", !.by = by]]

\* The decision of a call: the event it will broadcast, and its answer.
Decide(c, event, isUp, answer) ==
    call' = [call EXCEPT ![c].at = "decided", ![c].answer = answer, ![c].conn = conn',
                         ![c].event = [event |-> event, connected |-> isUp]]

\* writeSuccess, writeError: only the page's own answers are followed further.
Answered(r, answer) ==
    IF r.by = "page" THEN [r EXCEPT !.at = "answering", !.conn = 0, !.event = NoEvent, !.answer = answer]
    ELSE Idle

Answer(c, answer) == call' = [call EXCEPT ![c] = Answered(@, answer)]
-----------------------------------------------------------------------------
\* The page's Connect button (not shown while connected).
ConnectClick(c) ==
    /\ ~shown /\ ~connecting
    /\ Begin(c, "connect", "page")
    /\ connecting' = TRUE
    /\ UNCHANGED <<gatewayVars, streamVars, historyVars, wsAsked, shown,
                   disconnecting>>

DisconnectClick(c) ==
    /\ shown /\ ~disconnecting
    /\ Begin(c, "disconnect", "page")
    /\ disconnecting' = TRUE
    /\ UNCHANGED <<gatewayVars, streamVars, historyVars, wsAsked, shown,
                   connecting>>

\* Another client connects, disconnects or opens its WebSocket, whose status
\* is broadcast to every page.
OtherClientCalls(c) ==
    /\ \/ \E op \in {"connect", "disconnect"} : Begin(c, op, "other")
       \/ Len(wire) < MaxEvents /\ Begin(c, "status", "other")
    /\ UNCHANGED <<gatewayVars, streamVars, historyVars, pageVars>>

\* The page opens its WebSocket: the handler adds the client and goes on to
\* build the status.
OpenWebSocket(c) ==
    /\ ~wsAsked
    /\ Begin(c, "status", "page")
    /\ wsAsked' = TRUE
    /\ registered' = TRUE
    /\ UNCHANGED <<gatewayVars, wire, historyVars, shown, connecting,
                   disconnecting>>

BuildStatus(c) ==
    /\ call[c].op = "status" /\ call[c].at = "begun"
    /\ UNCHANGED <<gatewayVars, pageVars, streamVars, historyVars>>
    /\ Decide(c, "session.status", up, 0)

DialFails(c) ==
    /\ call[c].op = "connect" /\ call[c].at = "begun"
    /\ Answer(c, 502)
    /\ UNCHANGED <<gatewayVars, pageVars, streamVars, historyVars>>

ConnectRejected(c) ==
    /\ call[c].op = "connect" /\ call[c].at = "begun"
    /\ up
    /\ Answer(c, 409)
    /\ UNCHANGED <<gatewayVars, pageVars, streamVars, historyVars>>

\* A new connection: nothing is said of it yet.
Unmarked == ownEnd' = FALSE /\ hidden' = FALSE

\* Mutant of ConnectInstalls: an event without its Connected field.
ConnectInstallsUntold(c) ==
    /\ call[c].op = "connect" /\ call[c].at = "begun"
    /\ ~up /\ conn < MaxConns
    /\ up' = TRUE
    /\ conn' = conn + 1
    /\ Decide(c, "session.connected", FALSE, 200)
    /\ Unmarked
    /\ UNCHANGED <<readers, pageVars, streamVars, told>>

ConnectInstalls(c) ==
    /\ call[c].op = "connect" /\ call[c].at = "begun"
    /\ ~up /\ conn < MaxConns
    /\ up' = TRUE
    /\ conn' = conn + 1
    /\ Decide(c, "session.connected", TRUE, 200)
    /\ Unmarked
    /\ UNCHANGED <<readers, pageVars, streamVars, told>>

DisconnectRejected(c) ==
    /\ call[c].op = "disconnect" /\ call[c].at = "begun"
    /\ ~up
    /\ Answer(c, 409)
    /\ UNCHANGED <<gatewayVars, pageVars, streamVars, historyVars>>

\* disconnect under m.mu: the session is down from here on.
TakeDown(c, by) ==
    /\ up' = FALSE
    /\ UNCHANGED conn
    /\ ownEnd' = (by = "page" /\ wire = <<>> /\ \A d \in Calls \ {c} : call[d].at = "idle")
    /\ hidden' = FALSE
    /\ UNCHANGED <<told, pageVars, streamVars>>

\* Mutant of DisconnectTakes: no test of session.connected under the lock.
DisconnectTakesAgain(c) ==
    /\ call[c].op = "disconnect" /\ call[c].at = "begun"
    /\ conn > 0
    /\ TakeDown(c, call[c].by)
    /\ Decide(c, "session.disconnected", FALSE, 200)
    /\ UNCHANGED readers

DisconnectTakes(c) ==
    /\ call[c].op = "disconnect" /\ call[c].at = "begun"
    /\ up
    /\ TakeDown(c, call[c].by)
    /\ Decide(c, "session.disconnected", FALSE, 200)
    /\ UNCHANGED readers

\* A reader ends with an error: disconnect, for whatever connection is up.
UpstreamLost(c, k) ==
    /\ k \in readers /\ call[c].at = "idle"
    /\ up
    /\ readers' = readers \ {k}
    /\ TakeDown(c, "other")
    /\ call' = [call EXCEPT ![c] =
                   [Idle EXCEPT !.op = "loss", !.at = "decided", !.conn = conn,
                                !.event.event = "session.disconnected"]]

\* The reader of a connection that is closed, or of a session already down.
ReaderEnds(k) ==
    /\ k \in readers
    /\ ~up \/ k # conn
    /\ readers' = readers \ {k}
    /\ UNCHANGED <<up, conn, call, pageVars, streamVars, historyVars>>

\* The Broadcast of a call's event is counted, whomever it reaches.
Tell(e, k) == told' = IF e \in LifeCycle THEN [told EXCEPT ![e][k] = @ + 1] ELSE told

\* The Broadcast after the critical section; Connect starts its reader after it.
Announce(c) ==
    /\ call[c].at = "decided"
    /\ wire' = Sent(call[c].event)
    /\ Tell(call[c].event.event, call[c].conn)
    /\ readers' = IF call[c].op = "connect" THEN readers \union {call[c].conn} ELSE readers
    /\ call' = [call EXCEPT ![c] = IF @.op \in {"connect", "disconnect"}
                                   THEN Answered(@, @.answer) ELSE Idle]
    /\ UNCHANGED <<up, conn, registered, pageVars, ownEnd, hidden>>

\* What the page is owed: the event of a new connection, and its own status.
Owed(r) == r.event.connected /\ (r.op = "connect" \/ r.by = "page")

\* A handler's Broadcast panics before or after it has reached the page: no
\* answer, and no reader for the connection.
AnnouncePanics(c) ==
    /\ call[c].at = "decided" /\ call[c].op # "loss"
    /\ wire' \in {wire, Sent(call[c].event)}
    /\ Tell(call[c].event.event, call[c].conn)
    /\ hidden' = (hidden \/ (Owed(call[c]) /\ registered /\ wire' = wire
                             /\ up /\ call[c].conn = conn))
    /\ ownEnd' = (ownEnd /\ ~(call[c].by = "page" /\ call[c].op = "disconnect"))
    /\ call' = [call EXCEPT ![c] = IF @.op \in {"connect", "disconnect"}
                                   THEN Answered(@, 0) ELSE Idle]
    /\ UNCHANGED <<gatewayVars, registered, pageVars>>

\* terminal.output and the queue's events say nothing of the connection: their
\* Connected is false, and omitted.
OtherEvent ==
    /\ readers # {} /\ Len(wire) < MaxEvents
    /\ wire' = Sent([event |-> "other", connected |-> FALSE])
    /\ UNCHANGED <<gatewayVars, call, pageVars, registered, historyVars>>
-----------------------------------------------------------------------------
\* ws.onmessage; the last message of a closed WebSocket is its onclose.
Receive ==
    /\ wire # <<>>
    /\ LET m == Head(wire) IN
       shown' = IF m.event = "close" THEN FALSE
                ELSE IF "connected" \in DOMAIN m THEN m.connected
                ELSE shown
    /\ wire' = Tail(wire)
    /\ UNCHANGED <<gatewayVars, call, registered, historyVars, wsAsked,
                   connecting, disconnecting>>

\* Mutant of AfterAnswer: a Disconnect leaves the flag to the event.
AfterAnswerKeeps(op, answer) ==
    IF op = "connect" THEN shown \/ answer \in {200, 409} ELSE shown

\* What the page shows after the answer of one of its calls, or without one.
AfterAnswer(op, answer) ==
    IF op = "connect" THEN shown \/ answer \in {200, 409}
    ELSE shown /\ answer # 200

ReceiveAnswer(c) ==
    /\ call[c].at = "answering"
    /\ shown' = AfterAnswer(call[c].op, call[c].answer)
    /\ connecting' = (connecting /\ call[c].op # "connect")
    /\ disconnecting' = (disconnecting /\ call[c].op # "disconnect")
    /\ hidden' = (hidden \/ (call[c].op = "disconnect" /\ call[c].answer = 200 /\ up))
    /\ call' = [call EXCEPT ![c] = Idle]
    /\ UNCHANGED <<gatewayVars, streamVars, told, ownEnd, wsAsked>>

\* The fetch of one of the page's calls rejects, wherever the call is: the
\* request did not arrive, its handler goes on without the page, or the answer
\* is lost.
FetchFails(c) ==
    /\ call[c].by = "page" /\ call[c].op \in {"connect", "disconnect"}
    /\ \/ call[c].at \in {"begun", "answering"} /\ call' = [call EXCEPT ![c] = Idle]
       \/ call[c].at \in {"begun", "decided"} /\ call' = [call EXCEPT ![c].by = "other"]
    /\ connecting' = (connecting /\ call[c].op # "connect")
    /\ disconnecting' = (disconnecting /\ call[c].op # "disconnect")
    /\ ownEnd' = (ownEnd /\ ~(call[c].op = "disconnect" /\ call[c].answer = 200))
    /\ UNCHANGED <<gatewayVars, streamVars, told, hidden, wsAsked, shown>>

\* The hub removes the client (full buffer, read deadline, error); what was on
\* the way may be lost.  App.tsx does not open a second WebSocket.
WebSocketCloses ==
    /\ registered
    /\ registered' = FALSE
    /\ \E n \in 0..Len(wire) : wire' = Append(SubSeq(wire, 1, n), [event |-> "close"])
    /\ UNCHANGED <<gatewayVars, call, pageVars, historyVars>>
-----------------------------------------------------------------------------
CallSteps(c) ==
    \/ BuildStatus(c) \/ DialFails(c) \/ ConnectRejected(c) \/ ConnectInstalls(c)
    \/ DisconnectRejected(c) \/ DisconnectTakes(c) \/ Announce(c)
    \/ AnnouncePanics(c) \/ ReceiveAnswer(c)

Next ==
    \/ \E c \in Calls :
        \/ ConnectClick(c) \/ DisconnectClick(c) \/ OtherClientCalls(c)
        \/ OpenWebSocket(c) \/ CallSteps(c) \/ FetchFails(c)
        \/ \E k \in readers : UpstreamLost(c, k)
    \/ \E k \in readers : ReaderEnds(k)
    \/ OtherEvent \/ Receive \/ WebSocketCloses

Spec == Init /\ [][Next]_vars

\* Goroutines run, and the network delivers.
Fairness == WF_vars(Receive) /\ \A c \in Calls : WF_vars(CallSteps(c))
FairSpec == Spec /\ Fairness
-----------------------------------------------------------------------------
TypeOK ==
    /\ up \in BOOLEAN
    /\ conn \in 0..MaxConns
    /\ readers \subseteq 1..conn
    /\ call \in [Calls -> [op : {"none", "connect", "disconnect", "loss", "status"},
                           at : {"idle", "begun", "decided", "answering"},
                           by : {"page", "other"}, conn : 0..MaxConns,
                           event : [event : {"none", "session.status"} \union LifeCycle,
                                    connected : BOOLEAN],
                           answer : {0, 200, 409, 502}]]
    /\ registered \in BOOLEAN /\ wsAsked \in BOOLEAN
    /\ shown \in BOOLEAN /\ connecting \in BOOLEAN /\ disconnecting \in BOOLEAN
    /\ told \in [LifeCycle -> [1..MaxConns -> {0, 1}]]
    /\ ownEnd \in BOOLEAN
    /\ hidden \in BOOLEAN

\* Nothing on its way: every call is over and the page has read its stream.
Quiet == wire = <<>> /\ \A c \in Calls : call[c].at = "idle"

\* A page whose WebSocket is open ends up showing a session that is up,
\* whatever the order of registration, status, events and answers, and
\* whichever answers are lost.  The exceptions: the late answer of its own
\* Disconnect, applied after somebody else has connected again, and the event
\* or status that a Broadcast has lost in a panic at another client.
UpIsShown == (Quiet /\ registered /\ up /\ ~hidden) => shown

\* Once a page's own Disconnect has ended the session while no other call and
\* no event was under way, and its answer has come, the page shows the session
\* as down until it is up again.
OwnDisconnectIsShown ==
    (Quiet /\ registered /\ ~up /\ ownEnd) => ~shown

\* Each connection's beginning and end are broadcast exactly once, also when a
\* handler and a reader disconnect at the same time.
EachChangeToldOnce ==
    LET Told(e, k) == told[e][k] + (IF \E c \in Calls :
                          call[c].at = "decided" /\ call[c].conn = k
                          /\ call[c].event.event = e THEN 1 ELSE 0)
    IN \A k \in 1..MaxConns :
        /\ Told("session.connected", k) = IF k <= conn THEN 1 ELSE 0
        /\ Told("session.disconnected", k) = IF k < conn \/ (k = conn /\ ~up) THEN 1 ELSE 0

\* A page that stays open on a session that stays up comes to show it.
UpComesToBeShown ==
    <>[](up /\ registered /\ ~hidden) => <>[]shown
-----------------------------------------------------------------------------
\* gateway.v0.yaml lists `connected` among the required fields of
\* session.disconnected: when that event of a session that is down is the last
\* thing on its way to a page, a page that has read it shows the session as
\* down.
DownIsShown ==
    [][(/\ wire # <<>> /\ Head(wire).event = "session.disconnected"
        /\ wire' = Tail(wire)
        /\ ~up /\ Quiet') => ~shown']_vars
==============================================================================
