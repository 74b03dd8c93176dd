--------------------------- MODULE SessionManager ----------------------------
(***************************************************************************)
(* backend/internal/gateway/manager.go: the one MUD session of the gateway *)
(* process, on top of the command queue.                                   *)
(*                                                                         *)
(* Goroutines: the HTTP handlers (Callers, each running one call at a      *)
(* time), one readUpstream per established connection (named by the        *)
(* connection) and the queue's sender goroutines (a generation is named by *)
(* the connection whose Connect started it).  An action is one critical    *)
(* section of m.mu or q.mu, or one operation on a net.Conn; what runs      *)
(* between two of them is local to its goroutine.                          *)
(*                                                                         *)
(* disconnect leaves m.mu after marking the session disconnected and only  *)
(* then closes the connection and stops the queue; Connect may run in      *)
(* between.                                                                *)
(*                                                                         *)
(* Broadcast can panic (Hub.tla, a send on a closed channel).  net/http    *)
(* recovers it in a handler: what the handler still had to do is left out, *)
(* which matters in Connect only, whose broadcast comes before the reader  *)
(* is started.  In a reader or a sender nothing recovers it and the        *)
(* process ends: a behaviour is one life of the process.                   *)
(***************************************************************************)
EXTENDS Naturals, Sequences, FiniteSets

CONSTANTS
    Conns,      \* upstream connections (bounds the successful dials)
    NoConn,     \* a nil net.Conn
    Callers,    \* concurrent Connect/Disconnect calls of the HTTP API
    MaxDepth,   \* queueMaxDepth
    MaxCmds     \* bound of the model: commands accepted in a behaviour

ASSUME ManagerAssumption ==
    /\ NoConn \notin Conns
    /\ Conns \intersect Callers = {}
    /\ MaxDepth \in Nat
    /\ MaxCmds \in Nat

\* Goroutines that run disconnect: the handlers and the readers.
Procs == Callers \union Conns

VARIABLES
    \* CommandQueue
    commands, running, current, closedStop, sender, popped, waitsFor, counted,
    accepted, sent, failed, dropped, droppedMetric,
    \* Manager.session
    sessionSeq,     \* m.sessionSeq; 0 also stands for m.session = nil
    connected,      \* s.connected
    conn,           \* s.conn
    \* goroutines
    pc,
    held,           \* the connection a call dialed or took out of the session
    readerSession,  \* the session id given to a connection's reader
    target,         \* the connection a sender captured in writeCommand
    \* the world
    net,            \* state of each connection
    epoch           \* the connection a command was accepted on

queueVars == <<commands, running, current, closedStop, sender, popped,
               waitsFor, counted, accepted, sent, failed, dropped,
               droppedMetric>>
managerVars == <<sessionSeq, connected, conn>>
worldVars == <<net, epoch>>
vars == <<queueVars, managerVars, pc, held, readerSession, target, worldVars>>

Queue == INSTANCE CommandQueue
            WITH Gens <- Conns, NoGen <- NoConn, Stoppers <- Procs

Cmds == 1..MaxCmds

Init ==
    /\ Queue!Init
    /\ sessionSeq = 0
    /\ connected = FALSE
    /\ conn = NoConn
    /\ pc = [p \in Procs |-> IF p \in Callers THEN "idle" ELSE "off"]
    /\ held = [p \in Procs |-> NoConn]
    /\ readerSession = [c \in Conns |-> 0]
    /\ target = [c \in Conns |-> NoConn]
    /\ net = [c \in Conns |-> "free"]
    /\ epoch = [k \in Cmds |-> NoConn]

\* ensureSessionLocked: the session is created once and never replaced.
EnsureSession == sessionSeq' = IF sessionSeq = 0 THEN 1 ELSE sessionSeq

Goto(p, label) == pc' = [pc EXCEPT ![p] = label]

(***************************************************************************)
(* Connect.  A dial that fails returns before any state is touched.        *)
(***************************************************************************)
Dial(p) ==
    /\ pc[p] = "idle"
    /\ \E c \in Conns :
        /\ net[c] = "free"
        /\ net' = [net EXCEPT ![c] = "open"]
        /\ held' = [held EXCEPT ![p] = c]
    /\ Goto(p, "dialed")
    /\ UNCHANGED <<queueVars, managerVars, readerSession, target, epoch>>

\* Mutant of ConnectRejected: the dialed connection is not closed.
ConnectRejectedLeaks(p) ==
    /\ pc[p] = "dialed"
    /\ connected
    /\ EnsureSession
    /\ held' = [held EXCEPT ![p] = NoConn]
    /\ Goto(p, "idle")
    /\ UNCHANGED <<queueVars, connected, conn, readerSession, target, worldVars>>

\* ErrSessionAlreadyConnected: the new connection is closed again.
ConnectRejected(p) ==
    /\ pc[p] = "dialed"
    /\ connected
    /\ EnsureSession
    /\ net' = [net EXCEPT ![held[p]] = "closed"]
    /\ held' = [held EXCEPT ![p] = NoConn]
    /\ Goto(p, "idle")
    /\ UNCHANGED <<queueVars, connected, conn, readerSession, target, epoch>>

ConnectInstalls(p) ==
    /\ pc[p] = "dialed"
    /\ ~connected
    /\ EnsureSession
    /\ conn' = held[p]
    /\ connected' = TRUE
    /\ Queue!Start(held[p])
    /\ Goto(p, "installed")
    /\ UNCHANGED <<held, readerSession, target, worldVars>>

\* The Broadcast of session.connected panics at another client: the reader is
\* never started, and nothing takes the session down.
ConnectPanics(p) ==
    /\ pc[p] = "installed"
    /\ pc' = [pc EXCEPT ![p] = "idle", ![held[p]] = "unstarted"]
    /\ held' = [held EXCEPT ![p] = NoConn]
    /\ UNCHANGED <<queueVars, managerVars, readerSession, target, net, epoch>>

\* Broadcast of session.connected, then "go m.readUpstream(id, conn)".
ConnectAnnounces(p) ==
    /\ pc[p] = "installed"
    /\ pc' = [pc EXCEPT ![p] = "idle", ![held[p]] = "armed"]
    /\ readerSession' = [readerSession EXCEPT ![held[p]] = sessionSeq]
    /\ held' = [held EXCEPT ![p] = NoConn]
    /\ UNCHANGED <<queueVars, managerVars, target, net, epoch>>

(***************************************************************************)
(* disconnect, called by a handler and by a reader that lost its peer.     *)
(***************************************************************************)
\* The critical section, when the session is connected.
TakeConn(p) ==
    /\ connected
    /\ held' = [held EXCEPT ![p] = conn]
    /\ conn' = NoConn
    /\ connected' = FALSE
    /\ Goto(p, "closing")
    /\ EnsureSession
    /\ UNCHANGED <<queueVars, readerSession, target, worldVars>>

Disconnect(p) ==
    /\ p \in Callers
    /\ pc[p] = "idle"
    /\ TakeConn(p)

\* Disconnect and Enqueue of a session that is not connected, and Status.
AnswerOnly ==
    /\ EnsureSession
    /\ UNCHANGED <<queueVars, connected, conn, pc, held, readerSession, target,
                   worldVars>>

CloseConn(p) ==
    /\ pc[p] = "closing"
    /\ net' = [net EXCEPT ![held[p]] = "closed"]
    /\ held' = [held EXCEPT ![p] = NoConn]
    /\ Goto(p, "stopping")
    /\ UNCHANGED <<queueVars, managerVars, readerSession, target, epoch>>

StopQueue(p) ==
    /\ pc[p] = "stopping"
    /\ Queue!StopAndDrop(p)
    /\ Goto(p, IF running THEN "awaiting" ELSE "stopped")
    /\ UNCHANGED <<managerVars, held, readerSession, target, worldVars>>

\* Mutant of AwaitSender: doneCh is not waited for.
AwaitNobody(p) ==
    /\ pc[p] = "awaiting"
    /\ droppedMetric' = droppedMetric + counted[p]
    /\ waitsFor' = [waitsFor EXCEPT ![p] = NoConn]
    /\ counted' = [counted EXCEPT ![p] = 0]
    /\ Goto(p, "stopped")
    /\ UNCHANGED <<commands, running, current, closedStop, sender, popped, accepted,
                   sent, failed, dropped, managerVars, held, readerSession,
                   target, worldVars>>

AwaitSender(p) ==
    /\ pc[p] = "awaiting"
    /\ Queue!SenderDone(p)
    /\ Goto(p, "stopped")
    /\ UNCHANGED <<managerVars, held, readerSession, target, worldVars>>

\* Broadcast of session.disconnected, and the return.
DisconnectAnnounces(p) ==
    /\ pc[p] = "stopped"
    /\ Goto(p, IF p \in Callers THEN "idle" ELSE "done")
    /\ UNCHANGED <<queueVars, managerVars, held, readerSession, target, net,
                   epoch>>

DisconnectSteps(p) ==
    CloseConn(p) \/ StopQueue(p) \/ AwaitSender(p) \/ DisconnectAnnounces(p)

(***************************************************************************)
(* Enqueue: both locks are held for the whole critical section.            *)
(***************************************************************************)
\* Mutant of Enqueue: no test of session.connected.
EnqueueAnytime ==
    /\ Queue!Enqueue
    /\ epoch' = [epoch EXCEPT ![accepted'] = conn]
    /\ UNCHANGED <<managerVars, pc, held, readerSession, target, net>>

Enqueue ==
    /\ connected
    /\ Queue!Enqueue
    /\ epoch' = [epoch EXCEPT ![accepted'] = conn]
    /\ UNCHANGED <<managerVars, pc, held, readerSession, target, net>>

EnqueueRejected ==
    /\ connected
    /\ Queue!EnqueueRejected
    /\ UNCHANGED vars

(***************************************************************************)
(* The sender goroutines: pop, then writeCommand.                          *)
(***************************************************************************)
SenderTick(g) ==
    /\ Queue!Tick(g)
    /\ UNCHANGED <<managerVars, pc, held, readerSession, target, worldVars>>

\* The read-locked check of writeCommand captures the session's connection.
WriteResolves(g) ==
    /\ sender[g] = "sending"
    /\ target[g] = NoConn
    /\ connected
    /\ target' = [target EXCEPT ![g] = conn]
    /\ UNCHANGED <<queueVars, managerVars, pc, held, readerSession, worldVars>>

WriteNotConnected(g) ==
    /\ target[g] = NoConn
    /\ ~connected
    /\ Queue!SendFails(g)
    /\ UNCHANGED <<managerVars, pc, held, readerSession, target, worldVars>>

WriteSucceeds(g) ==
    /\ target[g] # NoConn
    /\ net[target[g]] \in {"open", "peerClosed"}
    /\ Queue!SendSucceeds(g)
    /\ target' = [target EXCEPT ![g] = NoConn]
    /\ UNCHANGED <<managerVars, pc, held, readerSession, worldVars>>

\* A closed connection, a reset or the 5 s write deadline.
WriteFails(g) ==
    /\ target[g] # NoConn
    /\ Queue!SendFails(g)
    /\ target' = [target EXCEPT ![g] = NoConn]
    /\ UNCHANGED <<managerVars, pc, held, readerSession, worldVars>>

SenderExits(g) ==
    /\ Queue!StopSeen(g)
    /\ UNCHANGED <<managerVars, pc, held, readerSession, target, worldVars>>

WriteReturns(g) == WriteNotConnected(g) \/ WriteSucceeds(g) \/ WriteFails(g)

SenderSteps(g) ==
    SenderTick(g) \/ WriteResolves(g) \/ WriteReturns(g) \/ SenderExits(g)

(***************************************************************************)
(* readUpstream of connection c.                                           *)
(***************************************************************************)
\* SetReadDeadline at the head of the loop fails on a closed connection.
ReaderArms(c) ==
    /\ pc[c] = "armed"
    /\ Goto(c, IF net[c] = "closed" THEN "lost" ELSE "reading")
    /\ UNCHANGED <<queueVars, managerVars, held, readerSession, target,
                   worldVars>>

\* Output (filter, decode, onTerminal, terminal.output) or a read timeout.
ReaderContinues(c) ==
    /\ pc[c] = "reading"
    /\ net[c] = "open"
    /\ Goto(c, "armed")
    /\ UNCHANGED <<queueVars, managerVars, held, readerSession, target,
                   worldVars>>

\* Mutant of ReaderEnds: EOF is taken for net.ErrClosed.
ReaderEndsOnEOF(c) ==
    /\ pc[c] = "reading"
    /\ net[c] \in {"closed", "peerClosed"}
    /\ Goto(c, "done")
    /\ UNCHANGED <<queueVars, managerVars, held, readerSession, target,
                   worldVars>>

\* Read fails: net.ErrClosed ends the reader, anything else is a lost peer.
ReaderEnds(c) ==
    /\ pc[c] = "reading"
    /\ \/ net[c] = "closed" /\ Goto(c, "done")
       \/ net[c] = "peerClosed" /\ Goto(c, "lost")
    /\ UNCHANGED <<queueVars, managerVars, held, readerSession, target,
                   worldVars>>

\* handleUpstreamDisconnect: nothing to do when the session is not connected
\* or carries another id.
ReaderDisconnects(c) ==
    /\ pc[c] = "lost"
    /\ sessionSeq = readerSession[c]
    /\ TakeConn(c)

ReaderGivesUp(c) ==
    /\ pc[c] = "lost"
    /\ ~connected \/ sessionSeq # readerSession[c]
    /\ EnsureSession
    /\ Goto(c, "done")
    /\ UNCHANGED <<queueVars, connected, conn, held, readerSession, target,
                   worldVars>>

ReaderSteps(c) ==
    \/ ReaderArms(c) \/ ReaderContinues(c) \/ ReaderEnds(c)
    \/ ReaderDisconnects(c) \/ ReaderGivesUp(c)

\* The MUD closes or resets the connection.
PeerCloses(c) ==
    /\ net[c] = "open"
    /\ net' = [net EXCEPT ![c] = "peerClosed"]
    /\ UNCHANGED <<queueVars, managerVars, pc, held, readerSession, target,
                   epoch>>

ConnectSteps(p) ==
    \/ ConnectRejected(p) \/ ConnectInstalls(p)
    \/ ConnectAnnounces(p) \/ ConnectPanics(p)

Next ==
    \/ \E p \in Callers : Dial(p) \/ ConnectSteps(p) \/ Disconnect(p)
    \/ \E p \in Procs : DisconnectSteps(p)
    \/ Enqueue \/ EnqueueRejected \/ AnswerOnly
    \/ \E c \in Conns : SenderSteps(c) \/ ReaderSteps(c) \/ PeerCloses(c)

Spec == Init /\ [][Next]_vars
-----------------------------------------------------------------------------
\* Goroutines always get to run.  A handler's call goes on once it has begun,
\* a reader comes back from a Read of a closed connection or of a lost peer,
\* a write has a deadline, and select chooses at random among ready cases, so
\* a closed stop channel is not passed over for ever.  Nothing makes a caller
\* begin a call, the MUD close or send, or a read time out.
Fairness ==
    /\ \A p \in Callers : WF_vars(ConnectSteps(p))
    /\ \A p \in Procs : WF_vars(DisconnectSteps(p))
    /\ \A g \in Conns : /\ WF_vars(SenderTick(g))
                        /\ WF_vars(WriteResolves(g))
                        /\ WF_vars(WriteReturns(g))
                        /\ SF_vars(SenderExits(g))
    /\ \A c \in Conns : /\ WF_vars(ReaderArms(c))
                        /\ WF_vars(ReaderEnds(c))
                        /\ WF_vars(ReaderDisconnects(c) \/ ReaderGivesUp(c))

FairSpec == Spec /\ Fairness
-----------------------------------------------------------------------------
Labels == {"idle", "dialed", "installed", "closing", "stopping", "awaiting",
           "stopped", "off", "unstarted", "armed", "reading", "lost", "done"}

TypeOK ==
    /\ Queue!TypeOK
    /\ sessionSeq \in 0..1
    /\ connected \in BOOLEAN
    /\ conn \in IF connected THEN Conns ELSE {NoConn}
    /\ pc \in [Procs -> Labels]
    /\ held \in [Procs -> Conns \union {NoConn}]
    /\ \A p \in Procs : pc[p] \in {"dialed", "installed", "closing"} => held[p] # NoConn
    /\ readerSession \in [Conns -> 0..1]
    /\ target \in [Conns -> Conns \union {NoConn}]
    /\ net \in [Conns -> {"free", "open", "peerClosed", "closed"}]
    /\ epoch \in [Cmds -> Conns \union {NoConn}]

\* Goroutines that must still close a connection they own.
Closers(c) == {p \in Procs : pc[p] \in {"dialed", "closing"} /\ held[p] = c}

\* Connect and disconnect hand each connection over without losing it: while
\* its socket is open it is the session's or exactly one call's to close,
\* and nobody owns one that was closed, so no socket leaks and none is
\* closed by two calls.
OneOwnerPerConn ==
    \A c \in Conns :
        /\ net[c] \in {"open", "peerClosed"} <=> (conn = c \/ Closers(c) # {})
        /\ conn = c => Closers(c) = {}
        /\ \A p, q \in Closers(c) : p = q

\* A connected session is being watched: the reader of its connection runs,
\* or the Connect that installed it is about to start it.  Otherwise a lost
\* upstream would never end the session.  The one way out is a Connect cut
\* short by its own Broadcast: that session has no reader for good.
SessionIsWatched ==
    conn # NoConn =>
        \/ pc[conn] \in {"armed", "reading", "lost", "unstarted"}
        \/ \E p \in Callers : pc[p] = "installed" /\ held[p] = conn

\* Whatever overlapped, once the session is disconnected and no disconnect
\* is before its StopAndDrop, no command waits and no sender is current:
\* nothing accepted earlier is left for the next connection to send.
NothingLeftBehind ==
    (~connected /\ \A p \in Procs : pc[p] \notin {"closing", "stopping"})
        => commands = <<>> /\ ~running

Disconnecting == \E p \in Procs :
    pc[p] \in {"closing", "stopping", "awaiting", "stopped"}

\* While no disconnect is in progress at most one sender goroutine is alive,
\* whatever Connects and disconnects went before: disconnect does not return
\* before the sender it stopped is gone.
OneSenderAtRest ==
    ~Disconnecting =>
        \A g, h \in Conns : Queue!Live(g) /\ Queue!Live(h) => g = h

\* A lost upstream ends the session that uses it (readUpstream ->
\* handleUpstreamDisconnect -> disconnect), unless the Connect that installed
\* it panicked before it started the reader.
LossIsNoticed ==
    \A c \in Conns :
        (conn = c /\ net[c] = "peerClosed") ~> (conn # c \/ pc[c] = "unstarted")

\* disconnect returns: it waits for a sender that is in a write, in
\* writeCommand's lock or in select, and none of them waits for it.
DisconnectReturns ==
    \A p \in Procs : pc[p] = "closing" ~> pc[p] \in {"idle", "done"}

\* No automatic replay (README.md:100), as far as it goes: writeCommand takes
\* the session's connection of the moment, and while no disconnect is in
\* progress that is the one the command was accepted on.  A Connect that
\* overlaps a disconnect may get the older connection's command.
ReplayNeedsOverlap ==
    [][~Disconnecting =>
        \A g \in Conns : target'[g] \notin {target[g], NoConn} =>
            target'[g] = epoch[popped[g]]]_vars

\* docs/roadmap.md:48: a connected session, with no disconnect in progress,
\* has a sender.  It does not always: a Connect that overlaps a disconnect
\* may lose its sender.
ConnectedHasSender == connected /\ ~Disconnecting => running

\* An accepted command is sent, fails or is dropped in the end, across any
\* number of disconnects and reconnects, unless a connected session has lost
\* its sender: nothing else can strand a command.
CommandsSettle ==
    []ConnectedHasSender =>
        \A k \in Cmds : accepted >= k ~>
            k \in failed \union dropped \union Queue!Elements(sent)
-----------------------------------------------------------------------------
(***************************************************************************)
(* What the project's documents say and overlapping calls break.           *)
(***************************************************************************)
\* plan.md:361: a reader cleans up its own connection, not its successor.
ReaderClosesItsOwn == \A c \in Conns : held[c] \in {NoConn, c}
==============================================================================
