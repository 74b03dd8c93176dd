--------------------------------- MODULE Hub ---------------------------------
(***************************************************************************)
(* backend/internal/gateway/hub.go and the handler of httpapi/ws.go: the   *)
(* fan-out of events to the browsers' WebSocket connections.               *)
(*                                                                         *)
(* Goroutines: a publisher per gateway goroutine that calls Broadcast      *)
(* (handlers, readers, senders); for each client its ws.go handler (Add,   *)
(* one Broadcast of the status, ReadLoop, the deferred Remove), named by   *)
(* the client, and its writePump.  An action is one critical section of    *)
(* h.mu, one operation on the client's send channel or on its connection.  *)
(*                                                                         *)
(* Broadcast copies the client set under the lock and sends after leaving  *)
(* it; Remove deletes the client under the lock and closes its channel     *)
(* after leaving it.                                                       *)
(***************************************************************************)
EXTENDS Integers, Sequences, FiniteSets

CONSTANTS
    Clients,        \* WebSocket connections that reach Add
    Publishers,     \* gateway goroutines that call Broadcast
    NoClient,
    SendCap,        \* capacity of client.send (32 in the code)
    MaxEvents       \* bound of the model: broadcasts of each publisher in a
                    \* behaviour with so many clients

ASSUME HubAssumption ==
    /\ Clients \intersect Publishers = {}
    /\ NoClient \notin Clients
    /\ SendCap \in Nat \ {0}
    /\ MaxEvents \in [Publishers -> [0..Cardinality(Clients) -> Nat]]

Procs == Clients \union Publishers

\* An event is known by who broadcast it and which of its broadcasts it is.
\* Clients' handlers broadcast session.status, publishers anything else.
Events == [by : Procs, n : Nat]
NoEvent == [by |-> NoClient, n |-> 0]

VARIABLES
    clients,        \* h.clients
    send,           \* the buffer of each client's channel
    sendClosed,     \* clients whose channel is closed
    wsConn,         \* each client's connection
    writer,         \* where each writePump is
    inWrite,        \* the event a writePump is writing
    received,       \* events written to each connection
    pc,             \* where each handler and publisher is
    todo,           \* the rest of a Broadcast's snapshot
    event,          \* the event a Broadcast sends
    victim,         \* the client a Remove works on
    resume,         \* where a Remove returns to
    published,      \* broadcasts begun by each process
    wsConnections   \* gateway_ws_connections

callVars == <<pc, todo, event, victim, resume, published>>
writerVars == <<writer, inWrite, received>>
vars == <<clients, send, sendClosed, wsConn, writerVars, callVars, wsConnections>>

Init ==
    /\ clients = {}
    /\ send = [c \in Clients |-> <<>>]
    /\ sendClosed = {}
    /\ wsConn = [c \in Clients |-> "none"]
    /\ writer = [c \in Clients |-> "none"]
    /\ inWrite = [c \in Clients |-> NoEvent]
    /\ received = [c \in Clients |-> <<>>]
    /\ pc = [p \in Procs |-> IF p \in Clients THEN "upgrade" ELSE "idle"]
    /\ todo = [p \in Procs |-> {}]
    /\ event = [p \in Procs |-> NoEvent]
    /\ victim = [p \in Procs |-> NoClient]
    /\ resume = [p \in Procs |-> "idle"]
    /\ published = [p \in Procs |-> 0]
    /\ wsConnections = 0

Goto(p, label) == pc' = [pc EXCEPT ![p] = label]

\* The clients whose WebSocket reached Add.
Connected == {c \in Clients : pc[c] # "upgrade"}

(***************************************************************************)
(* Add, in the handler of client c.                                        *)
(***************************************************************************)
AddClient(c) ==
    /\ pc[c] = "upgrade"
    /\ \A p \in Publishers : published[p] <= MaxEvents[p][Cardinality(Connected) + 1]
    /\ clients' = clients \union {c}
    /\ wsConn' = [wsConn EXCEPT ![c] = "open"]
    /\ Goto(c, "added")
    /\ UNCHANGED <<send, sendClosed, writerVars, todo, event, victim, resume,
                   published, wsConnections>>

\* IncWSConnections and "go c.writePump", after the unlock.
AddReturns(c) ==
    /\ pc[c] = "added"
    /\ wsConnections' = wsConnections + 1
    /\ writer' = [writer EXCEPT ![c] = "range"]
    /\ Goto(c, "hello")
    /\ UNCHANGED <<clients, send, sendClosed, wsConn, inWrite, received, todo,
                   event, victim, resume, published>>

(***************************************************************************)
(* Broadcast.                                                              *)
(***************************************************************************)
Snapshot(p) ==
    /\ pc[p] \in {"idle", "hello"}
    /\ published[p] < IF p \in Clients THEN 1 ELSE MaxEvents[p][Cardinality(Connected)]
    /\ published' = [published EXCEPT ![p] = @ + 1]
    /\ event' = [event EXCEPT ![p] = [by |-> p, n |-> published[p] + 1]]
    /\ todo' = [todo EXCEPT ![p] = clients]
    /\ Goto(p, "sending")
    /\ UNCHANGED <<clients, send, sendClosed, wsConn, writerVars, victim, resume,
                   wsConnections>>

SendBuffered(p, c) ==
    /\ pc[p] = "sending"
    /\ c \in todo[p]
    /\ c \notin sendClosed
    /\ Len(send[c]) < SendCap
    /\ send' = [send EXCEPT ![c] = Append(@, event[p])]
    /\ todo' = [todo EXCEPT ![p] = @ \ {c}]
    /\ UNCHANGED <<clients, sendClosed, wsConn, writerVars, pc, event, victim,
                   resume, published, wsConnections>>

\* Mutants of SendSlow: the event is skipped, the send has no default case.
SendSlowSkips(p, c) ==
    /\ pc[p] = "sending"
    /\ c \in todo[p]
    /\ c \notin sendClosed
    /\ Len(send[c]) >= SendCap
    /\ todo' = [todo EXCEPT ![p] = @ \ {c}]
    /\ UNCHANGED <<clients, send, sendClosed, wsConn, writerVars, pc, event,
                   victim, resume, published, wsConnections>>

SendBlocks(p, c) == FALSE

\* The default case: a full buffer, the slow client is removed.
SendSlow(p, c) ==
    /\ pc[p] = "sending"
    /\ c \in todo[p]
    /\ c \notin sendClosed
    /\ Len(send[c]) >= SendCap
    /\ todo' = [todo EXCEPT ![p] = @ \ {c}]
    /\ victim' = [victim EXCEPT ![p] = c]
    /\ resume' = [resume EXCEPT ![p] = "sending"]
    /\ Goto(p, "removing")
    /\ UNCHANGED <<clients, send, sendClosed, wsConn, writerVars, event, published,
                   wsConnections>>

\* A send on a closed channel panics, with or without a default case.
SendPanics(p, c) ==
    /\ pc[p] = "sending"
    /\ c \in todo[p]
    /\ c \in sendClosed
    /\ Goto(p, "panicked")
    /\ UNCHANGED <<clients, send, sendClosed, wsConn, writerVars, todo, event,
                   victim, resume, published, wsConnections>>

BroadcastReturns(p) ==
    /\ pc[p] = "sending"
    /\ todo[p] = {}
    /\ event' = [event EXCEPT ![p] = NoEvent]
    /\ Goto(p, IF p \in Clients THEN "reading" ELSE "idle")
    /\ UNCHANGED <<clients, send, sendClosed, wsConn, writerVars, todo, victim,
                   resume, published, wsConnections>>

BroadcastSteps(p) ==
    \/ \E c \in Clients : SendBuffered(p, c) \/ SendSlow(p, c) \/ SendPanics(p, c)
    \/ BroadcastReturns(p)

(***************************************************************************)
(* ReadLoop ends (a close frame, an error, 90 s without a frame, a closed  *)
(* connection) and the deferred Remove begins.                             *)
(***************************************************************************)
ReadLoopEnds(c) ==
    /\ pc[c] = "reading"
    /\ victim' = [victim EXCEPT ![c] = c]
    /\ resume' = [resume EXCEPT ![c] = "done"]
    /\ Goto(c, "removing")
    /\ UNCHANGED <<clients, send, sendClosed, wsConn, writerVars, todo, event,
                   published, wsConnections>>

(***************************************************************************)
(* Remove.                                                                 *)
(***************************************************************************)
RemoveReturns(p) ==
    /\ Goto(p, resume[p])
    /\ victim' = [victim EXCEPT ![p] = NoClient]
    /\ resume' = [resume EXCEPT ![p] = "idle"]

RemoveGone(p) ==
    /\ pc[p] = "removing"
    /\ victim[p] \notin clients
    /\ RemoveReturns(p)
    /\ UNCHANGED <<clients, send, sendClosed, wsConn, writerVars, todo, event,
                   published, wsConnections>>

\* Mutant of RemoveDeletes: no test that the client is still registered.
RemoveDeletesAnyway(p) ==
    /\ pc[p] = "removing"
    /\ clients' = clients \ {victim[p]}
    /\ Goto(p, "deleted")
    /\ UNCHANGED <<send, sendClosed, wsConn, writerVars, todo, event, victim,
                   resume, published, wsConnections>>

RemoveDeletes(p) ==
    /\ pc[p] = "removing"
    /\ victim[p] \in clients
    /\ clients' = clients \ {victim[p]}
    /\ Goto(p, "deleted")
    /\ UNCHANGED <<send, sendClosed, wsConn, writerVars, todo, event, victim,
                   resume, published, wsConnections>>

\* Mutant of RemoveClosesSend: the channel stays open.
RemoveKeepsSend(p) ==
    /\ pc[p] = "deleted"
    /\ wsConnections' = wsConnections - 1
    /\ Goto(p, "closed")
    /\ UNCHANGED <<clients, send, sendClosed, wsConn, writerVars, todo, event,
                   victim, resume, published>>

\* DecWSConnections and close(c.send)
RemoveClosesSend(p) ==
    /\ pc[p] = "deleted"
    /\ wsConnections' = wsConnections - 1
    /\ sendClosed' = sendClosed \union {victim[p]}
    /\ Goto(p, "closed")
    /\ UNCHANGED <<clients, send, wsConn, writerVars, todo, event, victim, resume,
                   published>>

RemoveClosesConn(p) ==
    /\ pc[p] = "closed"
    /\ wsConn' = [wsConn EXCEPT ![victim[p]] = "closed"]
    /\ RemoveReturns(p)
    /\ UNCHANGED <<clients, send, sendClosed, writerVars, todo, event, published,
                   wsConnections>>

RemoveSteps(p) ==
    \/ RemoveGone(p) \/ RemoveDeletes(p) \/ RemoveClosesSend(p)
    \/ RemoveClosesConn(p)

(***************************************************************************)
(* writePump: an error ends it without removing the client.                *)
(***************************************************************************)
WriterTakes(c) ==
    /\ writer[c] = "range"
    /\ send[c] # <<>>
    /\ inWrite' = [inWrite EXCEPT ![c] = Head(send[c])]
    /\ send' = [send EXCEPT ![c] = Tail(@)]
    /\ writer' = [writer EXCEPT ![c] = "write"]
    /\ UNCHANGED <<clients, sendClosed, wsConn, received, callVars, wsConnections>>

WriterWrites(c) ==
    /\ writer[c] = "write"
    /\ wsConn[c] = "open"
    /\ received' = [received EXCEPT ![c] = Append(@, inWrite[c])]
    /\ inWrite' = [inWrite EXCEPT ![c] = NoEvent]
    /\ writer' = [writer EXCEPT ![c] = "range"]
    /\ UNCHANGED <<clients, send, sendClosed, wsConn, callVars, wsConnections>>

WriterFails(c) ==
    /\ writer[c] = "write"
    /\ inWrite' = [inWrite EXCEPT ![c] = NoEvent]
    /\ writer' = [writer EXCEPT ![c] = "exited"]
    /\ UNCHANGED <<clients, send, sendClosed, wsConn, received, callVars,
                   wsConnections>>

\* range ends when the channel is closed and drained.
WriterEnds(c) ==
    /\ writer[c] = "range"
    /\ send[c] = <<>>
    /\ c \in sendClosed
    /\ writer' = [writer EXCEPT ![c] = "exited"]
    /\ UNCHANGED <<clients, send, sendClosed, wsConn, inWrite, received, callVars,
                   wsConnections>>

WriterSteps(c) ==
    WriterTakes(c) \/ WriterWrites(c) \/ WriterFails(c) \/ WriterEnds(c)

Next ==
    \/ \E c \in Clients :
        AddClient(c) \/ AddReturns(c) \/ ReadLoopEnds(c) \/ WriterSteps(c)
    \/ \E p \in Procs : Snapshot(p) \/ BroadcastSteps(p) \/ RemoveSteps(p)

Spec == Init /\ [][Next]_vars

\* Goroutines get to run and a write has a deadline.  ReadLoop has one too
\* (the browser never sends a frame), so it ends.
Fairness ==
    /\ \A c \in Clients : /\ WF_vars(AddReturns(c))
                          /\ WF_vars(Snapshot(c))
                          /\ WF_vars(ReadLoopEnds(c))
                          /\ WF_vars(WriterSteps(c))
    /\ \A p \in Procs : WF_vars(BroadcastSteps(p)) /\ WF_vars(RemoveSteps(p))

FairSpec == Spec /\ Fairness
-----------------------------------------------------------------------------
HandlerLabels == {"upgrade", "added", "hello", "sending", "reading", "removing",
                  "deleted", "closed", "done", "panicked"}
PublisherLabels == {"idle", "sending", "removing", "deleted", "closed", "panicked"}

TypeOK ==
    /\ clients \in SUBSET Clients
    /\ send \in [Clients -> Seq(Events)]
    /\ \A c \in Clients : Len(send[c]) <= SendCap
    /\ sendClosed \in SUBSET Clients
    /\ wsConn \in [Clients -> {"none", "open", "closed"}]
    /\ writer \in [Clients -> {"none", "range", "write", "exited"}]
    /\ inWrite \in [Clients -> Events \union {NoEvent}]
    /\ received \in [Clients -> Seq(Events)]
    /\ pc \in [Procs -> HandlerLabels \union PublisherLabels]
    /\ \A p \in Procs : pc[p] \in IF p \in Clients THEN HandlerLabels
                                                   ELSE PublisherLabels
    /\ todo \in [Procs -> SUBSET Clients]
    /\ event \in [Procs -> Events \union {NoEvent}]
    /\ victim \in [Procs -> Clients \union {NoClient}]
    /\ resume \in [Procs -> {"idle", "sending", "done"}]
    /\ published \in [Procs -> Nat]
    /\ wsConnections \in Int

\* Broadcasts that evict and the deferred Remove race to close the same
\* client: exactly one of them deletes it and goes on to close its channel
\* (closing it twice would panic), and nobody closes one still registered.
RemovedByOne ==
    /\ \A p, q \in Procs :
        (/\ pc[p] \in {"deleted", "closed"} /\ pc[q] \in {"deleted", "closed"}
         /\ victim[p] = victim[q]) => p = q
    /\ \A p \in Procs : pc[p] \in {"deleted", "closed"} => victim[p] \notin clients
    /\ \A p \in Procs : pc[p] = "deleted" => victim[p] \notin sendClosed
    /\ sendClosed \intersect clients = {}

\* The gauge is changed outside the lock: it may lag behind the client set
\* (and even be negative) by the Adds and Removes between their unlock and
\* their metric, and by nothing else.
GaugeLags ==
    wsConnections = Cardinality(clients)
        - Cardinality({c \in Clients : pc[c] = "added"})
        + Cardinality({p \in Procs : pc[p] = "deleted"})

\* What a client got, is getting and will get, in order.
Stream(c) ==
    received[c] \o (IF inWrite[c] = NoEvent THEN <<>> ELSE <<inWrite[c]>>) \o send[c]

\* Two events of p with none of p's between them follow each other.
NoGap(p, s) ==
    \A i, j \in DOMAIN s :
        (i < j /\ s[i].by = p /\ s[j].by = p /\ \A k \in (i + 1)..(j - 1) : s[k].by # p)
            => s[j].n = s[i].n + 1

\* Unless its writePump failed, a client sees each publisher's events without
\* a gap, a repetition or a swap: a full buffer removes the client instead of
\* skipping an event, also while removals and other broadcasts overlap.
StreamHasNoGap ==
    \A c \in Clients, p \in Procs : writer[c] # "exited" => NoGap(p, Stream(c))

\* Broadcast never waits for a client, however slow it is.
BroadcastEnds ==
    \A p \in Procs : pc[p] = "sending" ~> pc[p] \in {"idle", "reading", "panicked"}

\* A handler whose own hello panicked at another client (ws.go:47, before the
\* deferred Remove is in place) while its client is still registered.
Orphaned(c) == pc[c] = "panicked" /\ c \in clients

\* A handler that is over leaves nothing behind: the connection is closed and
\* its writePump ends, whoever removes the client first.  An orphaned client
\* is the exception: it stays, its connection open, until some broadcast
\* finds its buffer full, and from then on it is no exception any more.
RemovedIsReleased ==
    \A c \in Clients :
        (pc[c] \in {"done", "panicked"} /\ ~Orphaned(c))
            ~> (wsConn[c] = "closed" /\ writer[c] = "exited")
-----------------------------------------------------------------------------
\* A broadcast never panics: no send on the channel of a removed client.
NoSendOnClosed == \A p \in Procs : pc[p] # "panicked"
==============================================================================
