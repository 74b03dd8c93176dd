------------------------- MODULE SessionManagerProofs -------------------------
(***************************************************************************)
(* Proofs about SessionManager for any number of connections, concurrent   *)
(* calls and commands and any queue depth.                                 *)
(***************************************************************************)
EXTENDS SessionManager, TLAPS

\* The theorems of the queue, about the queue inside the manager.
QueueFacts == INSTANCE CommandQueueProofs
                WITH Gens <- Conns, NoGen <- NoConn, Stoppers <- Procs

\* The part of TypeOK about the manager's own variables.
ManagerTypes ==
    /\ sessionSeq \in 0..1
    /\ connected \in BOOLEAN
    /\ conn \in IF connected THEN Conns ELSE {NoConn}
    /\ pc \in [Procs -> Labels]
    /\ held \in [Procs -> Conns \union {NoConn}]
    /\ \A p \in Procs : pc[p] \in {"dialed", "installed", "closing"} => held[p] # NoConn
    /\ readerSession \in [Conns -> 0..1]
    /\ target \in [Conns -> Conns \union {NoConn}]
    /\ net \in [Conns -> {"free", "open", "peerClosed", "closed"}]
    /\ epoch \in [Cmds -> Conns \union {NoConn}]

\* Every goroutine keeps the manager's variables in their types.
LEMMA ManagerTypesHold == Spec => []ManagerTypes
<1>1. ASSUME Init PROVE ManagerTypes
  <2>1. connected \in BOOLEAN /\ conn \in IF connected THEN Conns ELSE {NoConn}
    BY <1>1 DEF Init
  <2>2. QED
    BY <1>1, <2>1, ManagerAssumption DEF Init, ManagerTypes, Procs, Labels
<1>2. ManagerTypes /\ [Next]_vars => ManagerTypes'
  <2> SUFFICES ASSUME ManagerTypes, [Next]_vars PROVE ManagerTypes'
    OBVIOUS
  <2> USE ManagerAssumption DEF ManagerTypes, managerVars, worldVars, queueVars
  <2>0. Callers \subseteq Procs /\ Conns \subseteq Procs
    BY DEF Procs
  <2>1. ASSUME NEW p \in Callers, Dial(p) PROVE ManagerTypes'
    BY <2>0, <2>1 DEF Dial, Goto, Labels
  <2>2. ASSUME NEW p \in Callers, ConnectRejected(p) PROVE ManagerTypes'
    BY <2>0, <2>2 DEF ConnectRejected, Goto, Labels, EnsureSession
  <2>3. ASSUME NEW p \in Callers, ConnectInstalls(p) PROVE ManagerTypes'
    BY <2>0, <2>3 DEF ConnectInstalls, Goto, Labels, EnsureSession
  <2>4. ASSUME NEW p \in Callers, ConnectAnnounces(p) \/ ConnectPanics(p)
        PROVE  ManagerTypes'
    BY <2>0, <2>4 DEF ConnectAnnounces, ConnectPanics, Labels
  <2>5. ASSUME NEW p \in Procs, TakeConn(p) PROVE ManagerTypes'
    <3>1. conn \in Conns
      BY <2>5 DEF TakeConn
    <3>2. ~connected' /\ connected' \in BOOLEAN
      BY <2>5 DEF TakeConn
    <3>3. /\ held' = [held EXCEPT ![p] = conn]
          /\ pc' = [pc EXCEPT ![p] = "closing"]
          /\ conn' = NoConn
          /\ sessionSeq' \in 0..1
          /\ UNCHANGED <<readerSession, target, worldVars>>
      BY <2>5 DEF TakeConn, Goto, EnsureSession
    <3>4. held'[p] # NoConn /\ \A q \in Procs \ {p} : held'[q] = held[q] /\ pc'[q] = pc[q]
      BY <3>1, <3>3
    <3>5. QED
      BY <3>1, <3>2, <3>3, <3>4 DEF Labels
  <2>6. ASSUME NEW p \in Procs, CloseConn(p) PROVE ManagerTypes'
    BY <2>6 DEF CloseConn, Goto, Labels
  <2>7. ASSUME NEW p \in Procs, StopQueue(p) \/ AwaitSender(p) PROVE ManagerTypes'
    BY <2>7 DEF StopQueue, AwaitSender, Goto, Labels
  <2>8. ASSUME NEW p \in Procs, DisconnectAnnounces(p) PROVE ManagerTypes'
    BY <2>8 DEF DisconnectAnnounces, Goto, Labels
  <2>9. CASE Enqueue
    BY <2>9 DEF Enqueue
  <2>10. CASE AnswerOnly
    BY <2>10 DEF AnswerOnly, EnsureSession
  <2>11. ASSUME NEW g \in Conns, SenderSteps(g) PROVE ManagerTypes'
    BY <2>11 DEF SenderSteps, SenderTick, WriteResolves, WriteReturns,
       WriteNotConnected, WriteSucceeds, WriteFails, SenderExits
  <2>12. ASSUME NEW c \in Conns, ReaderArms(c) \/ ReaderContinues(c) \/ ReaderEnds(c)
         PROVE  ManagerTypes'
    BY <2>0, <2>12 DEF ReaderArms, ReaderContinues, ReaderEnds, Goto, Labels
  <2>13. ASSUME NEW c \in Conns, ReaderGivesUp(c) PROVE ManagerTypes'
    BY <2>0, <2>13 DEF ReaderGivesUp, Goto, Labels, EnsureSession
  <2>14. ASSUME NEW c \in Conns, PeerCloses(c) PROVE ManagerTypes'
    BY <2>14 DEF PeerCloses
  <2>15. CASE UNCHANGED vars
    BY <2>15 DEF vars
  <2>16. QED
    BY <2>0, <2>1, <2>2, <2>3, <2>4, <2>5, <2>6, <2>7, <2>8, <2>9, <2>10, <2>11,
       <2>12, <2>13, <2>14, <2>15
    DEF Next, ConnectSteps, Disconnect, DisconnectSteps, ReaderSteps,
        ReaderDisconnects, EnqueueRejected
<1>3. QED
  BY <1>1, <1>2, PTL DEF Spec

\* The manager touches the queue only through Start, Enqueue, StopAndDrop and
\* the sender's own steps.
LEMMA ManagerImplementsQueue == Spec => Queue!Spec
<1>1. Init => Queue!Init
  BY DEF Init
<1>2. ManagerTypes /\ [Next]_vars => [Queue!Next]_(Queue!queueVars)
  <2> SUFFICES ASSUME ManagerTypes, [Next]_vars
               PROVE  [Queue!Next]_(Queue!queueVars)
    OBVIOUS
  <2>0. Callers \subseteq Procs /\ Conns \subseteq Procs
    BY DEF Procs
  <2>1. ASSUME UNCHANGED queueVars PROVE UNCHANGED Queue!queueVars
    BY <2>1 DEF queueVars, Queue!queueVars
  <2>2. ASSUME NEW p \in Callers, ConnectInstalls(p) PROVE Queue!Next
    <3>1. held[p] \in Conns
      BY <2>0, <2>2 DEF ConnectInstalls, ManagerTypes
    <3>2. QED
      BY <2>2, <3>1 DEF ConnectInstalls, Queue!Next
  <2>3. ASSUME NEW p \in Procs, StopQueue(p) \/ AwaitSender(p) PROVE Queue!Next
    BY <2>3 DEF StopQueue, AwaitSender, Queue!Next
  <2>4. CASE Enqueue
    BY <2>4 DEF Enqueue, Queue!Next
  <2>5. ASSUME NEW g \in Conns, SenderTick(g) \/ WriteReturns(g) \/ SenderExits(g)
        PROVE  Queue!Next
    BY <2>5 DEF SenderTick, WriteReturns, WriteNotConnected, WriteSucceeds,
       WriteFails, SenderExits, Queue!Next, Queue!SenderStep
  <2>6. ASSUME NEW p \in Procs,
               \/ Dial(p) \/ ConnectRejected(p) \/ ConnectAnnounces(p)
               \/ ConnectPanics(p)
               \/ TakeConn(p) \/ CloseConn(p) \/ DisconnectAnnounces(p)
        PROVE  UNCHANGED queueVars
    BY <2>6 DEF Dial, ConnectRejected, ConnectAnnounces, ConnectPanics, TakeConn,
       CloseConn, DisconnectAnnounces
  <2>7. ASSUME NEW c \in Conns,
               \/ WriteResolves(c) \/ ReaderArms(c) \/ ReaderContinues(c)
               \/ ReaderEnds(c) \/ ReaderGivesUp(c) \/ PeerCloses(c)
        PROVE  UNCHANGED queueVars
    BY <2>7 DEF WriteResolves, ReaderArms, ReaderContinues, ReaderEnds,
       ReaderGivesUp, PeerCloses
  <2>8. ASSUME AnswerOnly \/ UNCHANGED vars PROVE UNCHANGED queueVars
    BY <2>8 DEF AnswerOnly, vars
  <2>9. QED
    BY <2>0, <2>1, <2>2, <2>3, <2>4, <2>5, <2>6, <2>7, <2>8
    DEF Next, ConnectSteps, Disconnect, DisconnectSteps, SenderSteps,
        ReaderSteps, ReaderDisconnects, EnqueueRejected
<1>3. QED
  BY <1>1, <1>2, ManagerTypesHold, PTL DEF Spec, Queue!Spec

\* Hence the queue's theorems apply inside the gateway.
LEMMA QueueInside == QueueFacts!QueueAssumption /\ (Spec => QueueFacts!Spec)
<1>1. QueueFacts!QueueAssumption
  <2>1. NoConn \notin Conns /\ MaxDepth \in Nat /\ MaxCmds \in Nat
    BY ManagerAssumption
  <2>2. QED
    BY <2>1 DEF QueueFacts!QueueAssumption
<1>2. Queue!Init <=> QueueFacts!Init
  BY DEF Queue!Init, QueueFacts!Init
<1>3. [Queue!Next]_(Queue!queueVars) <=> [QueueFacts!Next]_(QueueFacts!queueVars)
  BY DEF Queue!Next, Queue!queueVars, Queue!Start, Queue!Enqueue,
     Queue!EnqueueRejected, Queue!StopAndDrop, Queue!SenderDone, Queue!SenderStep,
     Queue!Tick, Queue!SendReturns, Queue!SendSucceeds, Queue!SendFails,
     Queue!StopSeen, Queue!Elements,
     QueueFacts!Next, QueueFacts!queueVars, QueueFacts!Start,
     QueueFacts!Enqueue, QueueFacts!EnqueueRejected, QueueFacts!StopAndDrop,
     QueueFacts!SenderDone, QueueFacts!SenderStep, QueueFacts!Tick,
     QueueFacts!SendReturns, QueueFacts!SendSucceeds, QueueFacts!SendFails,
     QueueFacts!StopSeen, QueueFacts!Elements
<1>4. QED
  BY <1>1, <1>2, <1>3, ManagerImplementsQueue, PTL
  DEF Queue!Spec, QueueFacts!Spec

\* All goroutines together keep every variable of the gateway in its type and
\* the queue within its depth.
THEOREM TypeCorrect == Spec => []TypeOK
<1>1. QueueFacts!Spec => []QueueFacts!TypeOK
  BY QueueInside, QueueFacts!TypeCorrect
<1>2. QueueFacts!TypeOK <=> Queue!TypeOK
  BY DEF QueueFacts!TypeOK, Queue!TypeOK, QueueFacts!Cmds, Queue!Cmds
<1>3. ManagerTypes /\ Queue!TypeOK => TypeOK
  BY DEF ManagerTypes, TypeOK
<1>4. QED
  BY <1>1, <1>2, <1>3, QueueInside, ManagerTypesHold, PTL

\* Inside the gateway too, overlapping connects, disconnects and senders leave
\* every accepted command with exactly one fate.
THEOREM CommandsKeepOneFate == Spec => []Queue!EachCommandOneFate
<1>1. QueueFacts!Spec => []QueueFacts!EachCommandOneFate
  BY QueueInside, QueueFacts!OneFate
<1>2. QueueFacts!EachCommandOneFate <=> Queue!EachCommandOneFate
  BY DEF QueueFacts!EachCommandOneFate, Queue!EachCommandOneFate,
     QueueFacts!InHand, Queue!InHand, QueueFacts!Elements, Queue!Elements
<1>3. QED
  BY <1>1, <1>2, QueueInside, PTL

\* The whole gateway keeps the ledger's promise: with every Connect, Disconnect,
\* lost upstream and sender of manager.go under way at once, each accepted
\* command is taken in order, and delivered, failed or dropped once.
THEOREM GatewayImplementsLedger == Spec => QueueFacts!ImplementsLedger
<1>1. QueueFacts!Spec => QueueFacts!ImplementsLedger
  BY QueueInside, QueueFacts!QueueImplementsLedger
<1>2. QED
  BY <1>1, QueueInside, PTL

\* A connection's reader has not begun while the Connect that will start it
\* is under way, and no two of those hold the same connection.
ReaderNotYet ==
    /\ \A c \in Conns : /\ pc[c] \notin {"idle", "dialed", "installed"}
                        /\ net[c] = "free" => pc[c] = "off"
    /\ \A p \in Callers : pc[p] \notin {"off", "unstarted", "armed", "reading", "lost", "done"}
    /\ \A p \in Callers : pc[p] \in {"dialed", "installed"} =>
        /\ pc[held[p]] = "off"
        /\ net[held[p]] # "free"
        /\ \A q \in Callers \ {p} : pc[q] \in {"dialed", "installed"} => held[q] # held[p]

\* Dial takes a fresh connection, whose reader is started once or never.
LEMMA ReaderNotYetHolds == Spec => []ReaderNotYet
<1>1. Init => ReaderNotYet
  BY ManagerAssumption DEF Init, ReaderNotYet, Procs
<1>2. ManagerTypes /\ ReaderNotYet /\ [Next]_vars => ReaderNotYet'
  <2> SUFFICES ASSUME ManagerTypes, ReaderNotYet, [Next]_vars
               PROVE  ReaderNotYet'
    OBVIOUS
  <2> USE ManagerAssumption DEF ManagerTypes, ReaderNotYet, worldVars
  <2>0. Callers \subseteq Procs /\ Conns \subseteq Procs
    BY DEF Procs
  <2>1. ASSUME NEW p \in Callers, Dial(p) PROVE ReaderNotYet'
    BY <2>0, <2>1 DEF Dial, Goto
  <2>2. ASSUME NEW p \in Callers, ConnectRejected(p) PROVE ReaderNotYet'
    BY <2>0, <2>2 DEF ConnectRejected, Goto
  <2>3. ASSUME NEW p \in Callers, ConnectInstalls(p) PROVE ReaderNotYet'
    BY <2>0, <2>3 DEF ConnectInstalls, Goto
  <2>4. ASSUME NEW p \in Callers, ConnectAnnounces(p) \/ ConnectPanics(p)
        PROVE  ReaderNotYet'
    BY <2>0, <2>4 DEF ConnectAnnounces, ConnectPanics
  <2>5. ASSUME NEW p \in Callers, Disconnect(p) PROVE ReaderNotYet'
    BY <2>0, <2>5 DEF Disconnect, TakeConn, Goto
  <2>6. ASSUME NEW p \in Procs, CloseConn(p) PROVE ReaderNotYet'
    BY <2>0, <2>6 DEF CloseConn, Goto, Procs
  <2>7. ASSUME NEW p \in Procs, StopQueue(p) \/ AwaitSender(p) PROVE ReaderNotYet'
    BY <2>0, <2>7 DEF StopQueue, AwaitSender, Goto
  <2>8. ASSUME NEW p \in Procs, DisconnectAnnounces(p) PROVE ReaderNotYet'
    BY <2>0, <2>8 DEF DisconnectAnnounces, Goto, Procs
  <2>9. ASSUME NEW c \in Conns, ReaderSteps(c) PROVE ReaderNotYet'
    BY <2>0, <2>9 DEF ReaderSteps, ReaderArms, ReaderContinues, ReaderEnds,
       ReaderDisconnects, ReaderGivesUp, TakeConn, Goto
  <2>10. ASSUME NEW c \in Conns, PeerCloses(c) PROVE ReaderNotYet'
    BY <2>0, <2>10 DEF PeerCloses
  <2>11. ASSUME UNCHANGED <<pc, held, net>> PROVE ReaderNotYet'
    BY <2>11
  <2>12. ASSUME \/ Enqueue \/ AnswerOnly \/ UNCHANGED vars
                \/ \E g \in Conns : SenderSteps(g)
         PROVE  UNCHANGED <<pc, held, net>>
    BY <2>12 DEF Enqueue, AnswerOnly, vars, SenderSteps, SenderTick, WriteResolves,
       WriteReturns, WriteNotConnected, WriteSucceeds, WriteFails, SenderExits
  <2>13. QED
    BY <2>1, <2>2, <2>3, <2>4, <2>5, <2>6, <2>7, <2>8, <2>9, <2>10, <2>11, <2>12
    DEF Next, ConnectSteps, DisconnectSteps, EnqueueRejected
<1>3. QED
  BY <1>1, <1>2, ManagerTypesHold, PTL DEF Spec

\* What each step does to the connections' ownership: only these change it.
LEMMA OwnershipUnchanged ==
    ASSUME ManagerTypes, OneOwnerPerConn,
           UNCHANGED <<conn, held, net>>,
           \A q \in Procs : pc'[q] \in {"dialed", "closing"}
                                <=> pc[q] \in {"dialed", "closing"}
    PROVE  OneOwnerPerConn'
  BY DEF OneOwnerPerConn, Closers

\* No upstream socket is leaked or closed twice, however Connect, Disconnect
\* and the readers' teardowns overlap.
THEOREM Ownership == Spec => []OneOwnerPerConn
<1>1. Init => OneOwnerPerConn
  BY ManagerAssumption DEF Init, OneOwnerPerConn, Closers, Procs
<1>2. /\ ManagerTypes /\ ReaderNotYet /\ OneOwnerPerConn /\ [Next]_vars
      => OneOwnerPerConn'
  <2> SUFFICES ASSUME ManagerTypes, ReaderNotYet, OneOwnerPerConn, [Next]_vars
               PROVE  OneOwnerPerConn'
    OBVIOUS
  <2> USE ManagerAssumption DEF managerVars, worldVars
  <2>0. Callers \subseteq Procs /\ Conns \subseteq Procs
    BY DEF Procs
  <2>1. ASSUME NEW p \in Callers, Dial(p) PROVE OneOwnerPerConn'
    <3>1. PICK c \in Conns : /\ net[c] = "free"
                             /\ net' = [net EXCEPT ![c] = "open"]
                             /\ held' = [held EXCEPT ![p] = c]
      BY <2>1 DEF Dial
    <3>2. pc[p] = "idle" /\ pc' = [pc EXCEPT ![p] = "dialed"] /\ conn' = conn
      BY <2>1 DEF Dial, Goto
    <3>3. conn # c /\ Closers(c) = {}
      BY <3>1 DEF OneOwnerPerConn
    <3>4. Closers(c)' = {p} /\ \A d \in Conns \ {c} : Closers(d)' = Closers(d)
      BY <2>0, <3>1, <3>2, <3>3 DEF Closers, ManagerTypes
    <3>5. net'[c] = "open" /\ \A d \in Conns \ {c} : net'[d] = net[d]
      BY <3>1 DEF ManagerTypes
    <3>6. QED
      BY <3>2, <3>3, <3>4, <3>5 DEF OneOwnerPerConn
  <2>2. ASSUME NEW p \in Procs, NEW c \in Conns,
               p \in Closers(c), net' = [net EXCEPT ![c] = "closed"],
               held' = [held EXCEPT ![p] = NoConn],
               pc'[p] \notin {"dialed", "closing"},
               \A q \in Procs \ {p} : pc'[q] = pc[q],
               conn' = conn
        PROVE  OneOwnerPerConn'
    <3>1. conn # c /\ Closers(c) = {p}
      BY <2>2 DEF OneOwnerPerConn
    <3>2. Closers(c)' = {} /\ \A d \in Conns \ {c} : Closers(d)' = Closers(d)
      BY <2>2, <3>1 DEF Closers, ManagerTypes
    <3>3. net'[c] = "closed" /\ \A d \in Conns \ {c} : net'[d] = net[d]
      BY <2>2 DEF ManagerTypes
    <3>4. QED
      BY <2>2, <3>1, <3>2, <3>3 DEF OneOwnerPerConn
  <2>3. ASSUME NEW p \in Callers, ConnectRejected(p) PROVE OneOwnerPerConn'
    <3>1. held[p] \in Conns /\ p \in Closers(held[p])
      BY <2>0, <2>3 DEF ConnectRejected, ManagerTypes, Closers
    <3>2. pc' = [pc EXCEPT ![p] = "idle"]
      BY <2>3 DEF ConnectRejected, Goto
    <3>3. QED
      BY <2>0, <2>2, <2>3, <3>1, <3>2 DEF ConnectRejected, ManagerTypes
  <2>4. ASSUME NEW p \in Procs, CloseConn(p) PROVE OneOwnerPerConn'
    <3>1. held[p] \in Conns /\ p \in Closers(held[p])
      BY <2>4 DEF CloseConn, ManagerTypes, Closers
    <3>2. pc' = [pc EXCEPT ![p] = "stopping"]
      BY <2>4 DEF CloseConn, Goto
    <3>3. QED
      BY <2>2, <2>4, <3>1, <3>2 DEF CloseConn, ManagerTypes
  <2>5. ASSUME NEW p \in Callers, ConnectInstalls(p) PROVE OneOwnerPerConn'
    <3>1. /\ held[p] \in Conns /\ p \in Closers(held[p])
          /\ conn = NoConn /\ conn' = held[p]
          /\ pc' = [pc EXCEPT ![p] = "installed"]
          /\ UNCHANGED <<held, net>>
      BY <2>0, <2>5 DEF ConnectInstalls, ManagerTypes, Closers, Goto
    <3>2. Closers(held[p])' = {}
          /\ \A d \in Conns \ {held[p]} : Closers(d)' = Closers(d)
      BY <2>0, <3>1 DEF Closers, ManagerTypes, OneOwnerPerConn
    <3>3. QED
      BY <3>1, <3>2 DEF OneOwnerPerConn
  <2>6. ASSUME NEW p \in Procs, TakeConn(p), pc[p] \in {"idle", "lost"}
        PROVE  OneOwnerPerConn'
    <3>1. /\ conn \in Conns /\ conn' = NoConn
          /\ held' = [held EXCEPT ![p] = conn]
          /\ pc' = [pc EXCEPT ![p] = "closing"]
          /\ UNCHANGED net
      BY <2>6 DEF TakeConn, ManagerTypes, Goto
    <3>2. Closers(conn) = {}
      BY <3>1 DEF OneOwnerPerConn
    <3>3. \A d \in Conns : Closers(d)' = IF d = conn THEN {p} ELSE Closers(d)
      BY <2>6, <3>1, <3>2 DEF Closers, ManagerTypes
    <3>4. QED
      BY <3>1, <3>2, <3>3 DEF OneOwnerPerConn
  <2>7. ASSUME NEW c \in Conns, PeerCloses(c) PROVE OneOwnerPerConn'
    <3>1. \A d \in Conns : net'[d] \in {"open", "peerClosed"}
                               <=> net[d] \in {"open", "peerClosed"}
      BY <2>7 DEF PeerCloses, ManagerTypes
    <3>2. UNCHANGED <<conn, pc, held>>
      BY <2>7 DEF PeerCloses
    <3>3. QED
      BY <3>1, <3>2 DEF OneOwnerPerConn, Closers
  <2>8. ASSUME NEW p \in Callers, ConnectAnnounces(p) \/ ConnectPanics(p)
        PROVE  OneOwnerPerConn'
    <3>1. /\ pc[p] = "installed" /\ held[p] \in Conns
          /\ pc[held[p]] = "off" /\ held[p] # p
          /\ \/ pc' = [pc EXCEPT ![p] = "idle", ![held[p]] = "armed"]
             \/ pc' = [pc EXCEPT ![p] = "idle", ![held[p]] = "unstarted"]
          /\ held' = [held EXCEPT ![p] = NoConn]
          /\ UNCHANGED <<conn, net>>
      BY <2>0, <2>8 DEF ConnectAnnounces, ConnectPanics, ManagerTypes, ReaderNotYet
    <3>2. \A d \in Conns : Closers(d)' = Closers(d)
      BY <2>0, <3>1 DEF Closers, ManagerTypes
    <3>3. QED
      BY <3>1, <3>2 DEF OneOwnerPerConn
  <2>9. ASSUME NEW p \in Procs,
               \/ StopQueue(p) \/ AwaitSender(p) \/ DisconnectAnnounces(p)
               \/ ReaderArms(p) \/ ReaderContinues(p) \/ ReaderEnds(p)
               \/ ReaderGivesUp(p)
        PROVE  OneOwnerPerConn'
    <3>1. /\ UNCHANGED <<conn, held, net>>
          /\ pc[p] \notin {"dialed", "closing"}
          /\ \E l \in Labels \ {"dialed", "closing"} : pc' = [pc EXCEPT ![p] = l]
      BY <2>9 DEF StopQueue, AwaitSender, DisconnectAnnounces, ReaderArms,
         ReaderContinues, ReaderEnds, ReaderGivesUp, Goto, Labels
    <3>2. \A q \in Procs : pc'[q] \in {"dialed", "closing"}
                               <=> pc[q] \in {"dialed", "closing"}
      BY <3>1 DEF ManagerTypes
    <3>3. QED
      BY <3>1, <3>2, OwnershipUnchanged
  <2>10. ASSUME \/ Enqueue \/ AnswerOnly \/ UNCHANGED vars
                \/ \E g \in Conns : SenderSteps(g)
         PROVE  OneOwnerPerConn'
    <3>1. UNCHANGED <<conn, pc, held, net>>
      BY <2>10 DEF Enqueue, AnswerOnly, vars, SenderSteps, SenderTick,
         WriteResolves, WriteReturns, WriteNotConnected, WriteSucceeds,
         WriteFails, SenderExits
    <3>2. QED
      BY <3>1, OwnershipUnchanged
  <2>11. QED
    BY <2>0, <2>1, <2>3, <2>4, <2>5, <2>6, <2>7, <2>8, <2>9, <2>10
    DEF Next, ConnectSteps, Disconnect, DisconnectSteps, ReaderSteps,
        ReaderDisconnects, EnqueueRejected
<1>3. QED
  BY <1>1, <1>2, ManagerTypesHold, ReaderNotYetHolds, PTL DEF Spec

\* Once every disconnect is past its StopAndDrop, a disconnected session has
\* no waiting command and no current sender.
THEOREM Leftovers == Spec => []NothingLeftBehind
<1>1. Init => NothingLeftBehind
  BY DEF Init, Queue!Init, NothingLeftBehind
<1>2. /\ ManagerTypes /\ ReaderNotYet /\ NothingLeftBehind /\ [Next]_vars
      => NothingLeftBehind'
  <2> SUFFICES ASSUME ManagerTypes, ReaderNotYet, NothingLeftBehind, [Next]_vars,
                      ~connected',
                      \A p \in Procs : pc'[p] \notin {"closing", "stopping"}
               PROVE  commands' = <<>> /\ ~running'
    BY DEF NothingLeftBehind
  <2> DEFINE Quiet == \A p \in Procs : pc[p] \notin {"closing", "stopping"}
  <2>0. Callers \subseteq Procs /\ Conns \subseteq Procs
    BY DEF Procs
  <2>1. ASSUME NEW p \in Procs, StopQueue(p)
        PROVE  commands' = <<>> /\ ~running'
    BY <2>1 DEF StopQueue, Queue!StopAndDrop
  <2>2. ASSUME NEW p \in Procs, TakeConn(p) \/ CloseConn(p) PROVE FALSE
    BY <2>2 DEF TakeConn, CloseConn, Goto, ManagerTypes
  <2>3. ASSUME NEW p \in Callers, ConnectInstalls(p) PROVE FALSE
    BY <2>3 DEF ConnectInstalls
  <2>4. ASSUME Enqueue PROVE FALSE
    BY <2>4 DEF Enqueue, managerVars
  <2>5. ASSUME ~connected, Quiet, UNCHANGED <<commands, running>>
        PROVE  commands' = <<>> /\ ~running'
    BY <2>5 DEF NothingLeftBehind
  <2>6. ASSUME NEW g \in Conns, SenderSteps(g)
        PROVE  commands' = <<>> /\ ~running'
    <3>1. connected' = connected /\ pc' = pc
      BY <2>6 DEF SenderSteps, SenderTick, WriteResolves, WriteReturns,
         WriteNotConnected, WriteSucceeds, WriteFails, SenderExits, managerVars
    <3>2. commands = <<>> /\ ~running
      BY <3>1 DEF NothingLeftBehind
    <3>3. UNCHANGED <<commands, running>>
      BY <2>6, <3>2 DEF SenderSteps, SenderTick, WriteResolves, WriteReturns,
         WriteNotConnected, WriteSucceeds, WriteFails, SenderExits, queueVars,
         Queue!Tick, Queue!SendFails, Queue!SendSucceeds, Queue!SendReturns,
         Queue!StopSeen
    <3>4. QED
      BY <3>2, <3>3
  <2>7. ASSUME NEW p \in Procs,
               \/ Dial(p) \/ ConnectRejected(p) \/ AwaitSender(p)
               \/ DisconnectAnnounces(p)
        PROVE  ~connected /\ Quiet /\ UNCHANGED <<commands, running>>
    BY <2>7 DEF Dial, ConnectRejected, AwaitSender, DisconnectAnnounces, Goto,
       managerVars, queueVars, Queue!SenderDone, ManagerTypes
  <2>8. ASSUME NEW p \in Callers, ConnectAnnounces(p) \/ ConnectPanics(p)
        PROVE  ~connected /\ Quiet /\ UNCHANGED <<commands, running>>
    <3>1. /\ pc[p] = "installed" /\ held[p] \in Conns
          /\ UNCHANGED <<connected, commands, running>>
          /\ \/ pc' = [pc EXCEPT ![p] = "idle", ![held[p]] = "armed"]
             \/ pc' = [pc EXCEPT ![p] = "idle", ![held[p]] = "unstarted"]
      BY <2>0, <2>8 DEF ConnectAnnounces, ConnectPanics, ManagerTypes, managerVars,
         queueVars
    <3>2. pc[held[p]] = "off"
      BY <3>1 DEF ReaderNotYet
    <3>3. QED
      BY <2>0, <3>1, <3>2 DEF ManagerTypes
  <2>9. ASSUME NEW c \in Conns,
               \/ ReaderArms(c) \/ ReaderContinues(c) \/ ReaderEnds(c)
               \/ ReaderGivesUp(c)
        PROVE  ~connected /\ Quiet /\ UNCHANGED <<commands, running>>
    BY <2>0, <2>9 DEF ReaderArms, ReaderContinues, ReaderEnds, ReaderGivesUp, Goto,
       managerVars, queueVars, ManagerTypes
  <2>10. ASSUME \/ AnswerOnly \/ UNCHANGED vars \/ \E c \in Conns : PeerCloses(c)
         PROVE  ~connected /\ Quiet /\ UNCHANGED <<commands, running>>
    BY <2>10 DEF AnswerOnly, PeerCloses, vars, managerVars, queueVars
  <2>11. QED
    BY <2>0, <2>1, <2>2, <2>3, <2>4, <2>5, <2>6, <2>7, <2>8, <2>9, <2>10
    DEF Next, ConnectSteps, Disconnect, DisconnectSteps, ReaderSteps,
        ReaderDisconnects, EnqueueRejected
<1>3. QED
  BY <1>1, <1>2, ManagerTypesHold, ReaderNotYetHolds, PTL DEF Spec

\* A reader carries the id of the session, which is never replaced.
ReaderKnowsSession ==
    /\ connected => sessionSeq = 1
    /\ \A p \in Callers : pc[p] = "installed" => sessionSeq = 1
    /\ \A c \in Conns : pc[c] \notin {"off", "unstarted"} =>
           sessionSeq = 1 /\ readerSession[c] = 1

\* ensureSessionLocked creates the session once, so the id check of disconnect
\* compares equal ids whenever a reader calls it.
LEMMA ReaderKnowsSessionHolds == Spec => []ReaderKnowsSession
<1>1. Init => ReaderKnowsSession
  BY ManagerAssumption DEF Init, ReaderKnowsSession, Procs
<1>2. /\ ManagerTypes /\ ReaderNotYet /\ ReaderKnowsSession /\ [Next]_vars
      => ReaderKnowsSession'
  <2> SUFFICES ASSUME ManagerTypes, ReaderNotYet, ReaderKnowsSession, [Next]_vars
               PROVE  ReaderKnowsSession'
    OBVIOUS
  <2> USE ManagerAssumption
      DEF ManagerTypes, ReaderKnowsSession, worldVars, managerVars
  <2>0. Callers \subseteq Procs /\ Conns \subseteq Procs
    BY DEF Procs
  <2>1. ASSUME NEW p \in Callers, Dial(p) PROVE ReaderKnowsSession'
    BY <2>0, <2>1 DEF Dial, Goto
  <2>2. ASSUME NEW p \in Callers, ConnectRejected(p) \/ ConnectInstalls(p)
        PROVE  ReaderKnowsSession'
    BY <2>0, <2>2 DEF ConnectRejected, ConnectInstalls, EnsureSession, Goto
  <2>3. ASSUME NEW p \in Callers, ConnectAnnounces(p) \/ ConnectPanics(p)
        PROVE  ReaderKnowsSession'
    BY <2>0, <2>3 DEF ConnectAnnounces, ConnectPanics, ReaderNotYet
  <2>4. ASSUME NEW p \in Procs, TakeConn(p), pc[p] \in {"idle", "lost"}
        PROVE  ReaderKnowsSession'
    BY <2>0, <2>4 DEF TakeConn, EnsureSession, Goto
  <2>5. ASSUME NEW p \in Procs, DisconnectSteps(p) PROVE ReaderKnowsSession'
    BY <2>0, <2>5 DEF DisconnectSteps, CloseConn, StopQueue, AwaitSender,
       DisconnectAnnounces, Goto
  <2>6. ASSUME NEW c \in Conns,
               \/ ReaderArms(c) \/ ReaderContinues(c) \/ ReaderEnds(c)
               \/ ReaderGivesUp(c)
        PROVE  ReaderKnowsSession'
    BY <2>0, <2>6 DEF ReaderArms, ReaderContinues, ReaderEnds, ReaderGivesUp,
       EnsureSession, Goto
  <2>7. CASE AnswerOnly
    BY <2>7 DEF AnswerOnly, EnsureSession
  <2>8. ASSUME \/ Enqueue \/ UNCHANGED vars
               \/ \E c \in Conns : SenderSteps(c) \/ PeerCloses(c)
        PROVE  UNCHANGED <<sessionSeq, connected, pc, readerSession>>
    BY <2>8 DEF Enqueue, vars, SenderSteps, SenderTick, WriteResolves, PeerCloses,
       WriteReturns, WriteNotConnected, WriteSucceeds, WriteFails, SenderExits
  <2>9. QED
    BY <2>0, <2>1, <2>2, <2>3, <2>4, <2>5, <2>6, <2>7, <2>8
    DEF Next, ConnectSteps, Disconnect, ReaderSteps, ReaderDisconnects,
        EnqueueRejected
<1>3. QED
  BY <1>1, <1>2, ManagerTypesHold, ReaderNotYetHolds, PTL DEF Spec

\* A connected session has a reader on its connection, or the Connect that
\* will start it, unless that Connect panicked in its broadcast: no other path
\* leaves a loss of the upstream unread.
THEOREM Watched == Spec => []SessionIsWatched
<1>1. Init => SessionIsWatched
  BY DEF Init, SessionIsWatched
<1>2. /\ ManagerTypes /\ ReaderKnowsSession /\ OneOwnerPerConn
      /\ SessionIsWatched /\ [Next]_vars
      => SessionIsWatched'
  <2> SUFFICES ASSUME ManagerTypes, ReaderKnowsSession, OneOwnerPerConn,
                      SessionIsWatched, [Next]_vars
               PROVE  SessionIsWatched'
    OBVIOUS
  <2> USE ManagerAssumption
      DEF ManagerTypes, SessionIsWatched, worldVars, managerVars
  <2>0. Callers \subseteq Procs /\ Conns \subseteq Procs
    BY DEF Procs
  <2>1. ASSUME NEW p \in Callers, Dial(p) \/ ConnectRejected(p)
        PROVE  SessionIsWatched'
    <3>1. /\ pc[p] \in {"idle", "dialed"} /\ conn' = conn
          /\ \A q \in Procs \ {p} : pc'[q] = pc[q] /\ held'[q] = held[q]
      BY <2>0, <2>1 DEF Dial, ConnectRejected, Goto
    <3>2. conn # NoConn => conn \in Conns /\ conn # p
      OBVIOUS
    <3>3. QED
      BY <2>0, <3>1, <3>2
  <2>2. ASSUME NEW p \in Callers, ConnectInstalls(p) PROVE SessionIsWatched'
    BY <2>0, <2>2 DEF ConnectInstalls, Goto
  <2>3. ASSUME NEW p \in Callers, ConnectAnnounces(p) \/ ConnectPanics(p)
        PROVE  SessionIsWatched'
    BY <2>0, <2>3 DEF ConnectAnnounces, ConnectPanics
  <2>4. ASSUME NEW p \in Procs, TakeConn(p) PROVE SessionIsWatched'
    BY <2>4 DEF TakeConn
  <2>5. ASSUME NEW p \in Procs, DisconnectSteps(p) PROVE SessionIsWatched'
    <3>1. /\ pc[p] \in {"closing", "stopping", "awaiting", "stopped"}
          /\ conn' = conn
          /\ \A q \in Procs \ {p} : pc'[q] = pc[q] /\ held'[q] = held[q]
      BY <2>5 DEF DisconnectSteps, CloseConn, StopQueue, AwaitSender,
         DisconnectAnnounces, Goto
    <3>2. QED
      BY <2>0, <3>1
  <2>6. ASSUME NEW c \in Conns, ReaderArms(c) \/ ReaderContinues(c)
        PROVE  SessionIsWatched'
    BY <2>0, <2>6 DEF ReaderArms, ReaderContinues, Goto
  <2>7. ASSUME NEW c \in Conns, ReaderEnds(c) PROVE SessionIsWatched'
    <3>1. conn = c => net[c] # "closed"
      BY DEF OneOwnerPerConn
    <3>2. QED
      BY <2>0, <2>7, <3>1 DEF ReaderEnds, Goto
  <2>8. ASSUME NEW c \in Conns, ReaderGivesUp(c) PROVE SessionIsWatched'
    <3>1. ~connected
      BY <2>8 DEF ReaderGivesUp, ReaderKnowsSession
    <3>2. conn = NoConn /\ conn' = conn
      BY <2>8, <3>1 DEF ReaderGivesUp
    <3>3. QED
      BY <3>2
  <2>9. ASSUME \/ Enqueue \/ AnswerOnly \/ UNCHANGED vars
               \/ \E c \in Conns : SenderSteps(c) \/ PeerCloses(c)
        PROVE  UNCHANGED <<conn, pc, held>>
    BY <2>9 DEF Enqueue, AnswerOnly, vars, SenderSteps, SenderTick, WriteResolves,
       PeerCloses, WriteReturns, WriteNotConnected, WriteSucceeds, WriteFails,
       SenderExits
  <2>10. QED
    BY <2>0, <2>1, <2>2, <2>3, <2>4, <2>5, <2>6, <2>7, <2>8, <2>9
    DEF Next, ConnectSteps, Disconnect, ReaderSteps, ReaderDisconnects,
        EnqueueRejected
<1>3. QED
  BY <1>1, <1>2, ManagerTypesHold, ReaderKnowsSessionHolds, Ownership, PTL
  DEF Spec
-----------------------------------------------------------------------------
\* A disconnect that has taken a connection and not yet dropped the commands,
\* and one that waits for a sender.
BeforeDrop == \E p \in Procs : pc[p] \in {"closing", "stopping"}
AwaitedBy(g) == \E p \in Procs : pc[p] = "awaiting" /\ waitsFor[p] = g

\* A command of another connection than the session's will be dropped, or the
\* sender that has it is waited for.
AcceptedHere(k) == connected /\ epoch[k] = conn
ReplayInv ==
    /\ \A g \in Conns : Queue!Live(g) /\ g \in closedStop => AwaitedBy(g)
    /\ \A i \in DOMAIN commands : AcceptedHere(commands[i]) \/ BeforeDrop
    /\ \A g \in Conns : sender[g] = "sending" /\ target[g] = NoConn =>
           AcceptedHere(popped[g]) \/ BeforeDrop \/ AwaitedBy(g)

\* What ReplayInv needs of the queue.
QueueInv ==
    /\ commands \in Seq(Cmds) /\ accepted \in 0..MaxCmds
    /\ running \in BOOLEAN
    /\ current \in IF running THEN Conns ELSE {NoConn}
    /\ sender \in [Conns -> {"none", "select", "sending", "exited"}]
    /\ popped \in [Conns -> 0..MaxCmds]
    /\ waitsFor \in [Procs -> Conns \union {NoConn}]
    /\ \A g \in Conns : (Queue!Live(g) /\ g \notin closedStop) <=> g = current
    /\ \A i \in DOMAIN commands : commands[i] <= accepted
    /\ \A g \in Conns : sender[g] = "sending" => popped[g] \in 1..accepted

LEMMA QueueInvHolds == Spec => []QueueInv
<1>1. QueueFacts!Spec => []QueueFacts!TypeOK /\ []QueueFacts!OneSenderToStop
                         /\ []QueueFacts!EachCommandOneFate
  BY QueueInside, QueueFacts!TypeCorrect, QueueFacts!SenderDiscipline, QueueFacts!OneFate
<1>2. QueueFacts!TypeOK /\ QueueFacts!OneSenderToStop /\ QueueFacts!EachCommandOneFate
        => QueueInv
  <2> SUFFICES ASSUME QueueFacts!TypeOK, QueueFacts!OneSenderToStop,
                      QueueFacts!EachCommandOneFate
               PROVE  QueueInv
    OBVIOUS
  <2>1. /\ commands \in Seq(Cmds) /\ accepted \in 0..MaxCmds
        /\ running \in BOOLEAN
        /\ current \in IF running THEN Conns ELSE {NoConn}
        /\ sender \in [Conns -> {"none", "select", "sending", "exited"}]
        /\ popped \in [Conns -> 0..MaxCmds]
        /\ waitsFor \in [Procs -> Conns \union {NoConn}]
    BY DEF QueueFacts!TypeOK, QueueFacts!Cmds, Cmds
  <2>2. \A g \in Conns : (Queue!Live(g) /\ g \notin closedStop) <=> g = current
    BY DEF QueueFacts!OneSenderToStop, QueueFacts!Live, Queue!Live
  <2>3. Len(commands) \in Nat /\ DOMAIN commands = 1..Len(commands)
    BY <2>1
  <2>4. \A i \in DOMAIN commands : commands[i] = accepted - Len(commands) + i
    BY DEF QueueFacts!EachCommandOneFate
  <2>5. \A i \in DOMAIN commands : commands[i] <= accepted
    BY <2>1, <2>3, <2>4
  <2>6. \A g \in Conns : sender[g] = "sending" => popped[g] \in 1..(accepted - Len(commands))
    BY DEF QueueFacts!EachCommandOneFate, QueueFacts!InHand
  <2>7. \A g \in Conns : sender[g] = "sending" => popped[g] \in 1..accepted
    BY <2>1, <2>3, <2>6
  <2> QED
    BY <2>1, <2>2, <2>5, <2>7 DEF QueueInv
<1>3. QED
  BY <1>1, <1>2, QueueInside, PTL

LEMMA ReplayInvHolds == Spec => []ReplayInv
<1>1. Init => ReplayInv
  BY DEF Init, Queue!Init, ReplayInv, Queue!Live
<1>2. ReplayInv /\ ManagerTypes /\ ReaderNotYet /\ QueueInv /\ QueueInv' /\ [Next]_vars
        => ReplayInv'
  <2> SUFFICES ASSUME ReplayInv, ManagerTypes, ReaderNotYet, QueueInv, QueueInv',
                      [Next]_vars
               PROVE  ReplayInv'
    OBVIOUS
  <2>0. Callers \subseteq Procs /\ Conns \subseteq Procs /\ pc \in [Procs -> Labels]
    BY DEF Procs, ManagerTypes
  \* A step of a goroutine that leaves the queue and the targets alone, and
  \* neither drops nor waits.
  <2>1. ASSUME NEW p \in Procs, UNCHANGED <<queueVars, target, epoch>>,
               pc[p] \notin {"closing", "stopping", "awaiting"} \/ BeforeDrop',
               pc[p] # "awaiting",
               \A q \in Procs : q # p =>
                   pc'[q] = pc[q] \/ pc[q] \notin {"closing", "stopping", "awaiting"},
               UNCHANGED <<connected, conn>> \/ ~connected \/ BeforeDrop'
        PROVE  ReplayInv'
    <3>1. BeforeDrop => BeforeDrop'
      BY <2>1 DEF BeforeDrop
    <3>2. \A g \in Conns : AwaitedBy(g) => AwaitedBy(g)'
      BY <2>1 DEF AwaitedBy, queueVars
    <3>3. \A k : AcceptedHere(k) => AcceptedHere(k)' \/ BeforeDrop'
      BY <2>1 DEF AcceptedHere
    <3> QED
      BY <2>1, <3>1, <3>2, <3>3 DEF ReplayInv, queueVars, Queue!Live
  <2>2. ASSUME NEW p \in Callers, Dial(p) \/ ConnectRejected(p) PROVE ReplayInv'
    <3>1. /\ pc[p] \in {"idle", "dialed"} /\ \A q \in Procs : q # p => pc'[q] = pc[q]
          /\ UNCHANGED <<queueVars, target, epoch, connected, conn>>
      BY <2>0, <2>2 DEF Dial, ConnectRejected, Goto, managerVars
    <3> QED
      BY <2>0, <2>1, <3>1
  <2>3. ASSUME NEW p \in Callers, ConnectAnnounces(p) \/ ConnectPanics(p)
        PROVE  ReplayInv'
    <3>1. UNCHANGED <<queueVars, target, epoch, connected, conn>> /\ pc[p] = "installed"
      BY <2>3 DEF ConnectAnnounces, ConnectPanics, managerVars
    <3>2. pc[held[p]] = "off"
      BY <3>1 DEF ReaderNotYet
    <3>3. \A q \in Procs : q # p => pc'[q] = pc[q] \/ q = held[p]
      BY <2>0, <2>3 DEF ConnectAnnounces, ConnectPanics
    <3> QED
      BY <2>0, <2>1, <3>1, <3>2, <3>3
  <2>4. ASSUME NEW p \in Callers, ConnectInstalls(p) PROVE ReplayInv'
    <3>1. /\ pc[p] = "dialed" /\ ~connected /\ pc' = [pc EXCEPT ![p] = "installed"]
          /\ Queue!Start(held[p])
          /\ UNCHANGED <<target, epoch>>
      BY <2>4 DEF ConnectInstalls, Goto, worldVars
    <3>2. /\ held[p] \in Conns
          /\ UNCHANGED <<commands, closedStop, popped, waitsFor>>
          /\ \/ UNCHANGED sender
             \/ sender' = [sender EXCEPT ![held[p]] = "select"] /\ current' = held[p]
      BY <2>0, <3>1 DEF Queue!Start, ManagerTypes
    <3>3. BeforeDrop <=> BeforeDrop'
      BY <2>0, <3>1 DEF BeforeDrop
    <3>4. \A g \in Conns : AwaitedBy(g) => AwaitedBy(g)'
      BY <2>0, <3>1, <3>2 DEF AwaitedBy
    <3>5. \A g \in Conns : Queue!Live(g)' /\ g \in closedStop' =>
              Queue!Live(g) /\ g \in closedStop
      BY <3>2 DEF QueueInv, Queue!Live
    <3>6. \A g \in Conns : sender'[g] = "sending" => sender[g] = "sending"
      BY <3>2 DEF QueueInv
    <3> QED
      BY <3>1, <3>2, <3>3, <3>4, <3>5, <3>6 DEF ReplayInv, AcceptedHere
  <2>5. ASSUME NEW p \in Procs, TakeConn(p), pc[p] \in {"idle", "lost"} PROVE ReplayInv'
    <3>1. /\ pc' = [pc EXCEPT ![p] = "closing"]
          /\ UNCHANGED <<queueVars, target, epoch>>
      BY <2>5 DEF TakeConn, Goto, worldVars
    <3>2. BeforeDrop'
      BY <2>0, <3>1 DEF BeforeDrop
    <3> QED
      BY <2>0, <2>1, <2>5, <3>1, <3>2
  <2>6. ASSUME NEW p \in Procs, CloseConn(p) PROVE ReplayInv'
    <3>1. /\ pc[p] = "closing" /\ pc' = [pc EXCEPT ![p] = "stopping"]
          /\ UNCHANGED <<queueVars, target, epoch>>
      BY <2>6 DEF CloseConn, Goto
    <3>2. BeforeDrop'
      BY <2>0, <3>1 DEF BeforeDrop
    <3> QED
      BY <2>0, <2>1, <3>1, <3>2
  <2>7. ASSUME NEW p \in Procs, StopQueue(p) PROVE ReplayInv'
    <3>1. /\ pc[p] = "stopping"
          /\ pc' = [pc EXCEPT ![p] = IF running THEN "awaiting" ELSE "stopped"]
          /\ commands' = <<>>
          /\ closedStop' = IF running THEN closedStop \union {current} ELSE closedStop
          /\ waitsFor' = IF running THEN [waitsFor EXCEPT ![p] = current] ELSE waitsFor
          /\ UNCHANGED <<sender, popped, target, epoch, connected, conn>>
      BY <2>7 DEF StopQueue, Queue!StopAndDrop, Goto, managerVars, worldVars
    <3>2. \A g \in Conns : AwaitedBy(g) => AwaitedBy(g)'
      BY <2>0, <3>1 DEF AwaitedBy
    <3>3. \A g \in Conns : running /\ g = current => AwaitedBy(g)'
      BY <2>0, <3>1 DEF AwaitedBy, QueueInv
    <3>4. \A g \in Conns : Queue!Live(g) => AwaitedBy(g)'
      <4> SUFFICES ASSUME NEW g \in Conns, Queue!Live(g) PROVE AwaitedBy(g)'
        OBVIOUS
      <4>1. CASE g \in closedStop
        BY <3>2, <4>1 DEF ReplayInv
      <4>2. CASE g \notin closedStop
        <5>1. g = current
          BY <4>2 DEF QueueInv
        <5>2. running
          BY <5>1, ManagerAssumption DEF QueueInv
        <5> QED
          BY <3>3, <5>1, <5>2
      <4> QED
        BY <4>1, <4>2
    <3>5. \A g \in Conns : sender[g] = "sending" => Queue!Live(g)
      BY DEF Queue!Live
    <3>6. \A g \in Conns : Queue!Live(g)' <=> Queue!Live(g)
      BY <3>1 DEF Queue!Live
    <3> QED
      BY <3>1, <3>4, <3>5, <3>6 DEF ReplayInv
  <2>8. ASSUME NEW p \in Procs, AwaitSender(p) PROVE ReplayInv'
    <3>1. /\ pc[p] = "awaiting" /\ pc' = [pc EXCEPT ![p] = "stopped"]
          /\ waitsFor[p] # NoConn /\ sender[waitsFor[p]] = "exited"
          /\ waitsFor' = [waitsFor EXCEPT ![p] = NoConn]
          /\ UNCHANGED <<commands, closedStop, sender, popped, target, epoch,
                         connected, conn>>
      BY <2>8 DEF AwaitSender, Queue!SenderDone, Goto, managerVars, worldVars
    <3>2. BeforeDrop <=> BeforeDrop'
      BY <2>0, <3>1 DEF BeforeDrop
    <3>3. \A g \in Conns : AwaitedBy(g) /\ sender[g] # "exited" => AwaitedBy(g)'
      BY <2>0, <3>1 DEF AwaitedBy
    <3> QED
      BY <3>1, <3>2, <3>3 DEF ReplayInv, AcceptedHere, Queue!Live
  <2>9. ASSUME NEW p \in Procs, DisconnectAnnounces(p) PROVE ReplayInv'
    <3>1. /\ pc[p] = "stopped" /\ \A q \in Procs : q # p => pc'[q] = pc[q]
          /\ UNCHANGED <<queueVars, target, epoch, connected, conn>>
      BY <2>0, <2>9 DEF DisconnectAnnounces, Goto, managerVars
    <3> QED
      BY <2>0, <2>1, <3>1
  <2>10. CASE Enqueue
    <3>1. /\ connected /\ Queue!Enqueue
          /\ epoch' = [epoch EXCEPT ![accepted'] = conn]
          /\ UNCHANGED <<pc, target, connected, conn>>
      BY <2>10 DEF Enqueue, managerVars
    <3>2. /\ accepted < MaxCmds /\ accepted' = accepted + 1
          /\ commands' = Append(commands, accepted + 1)
          /\ UNCHANGED <<closedStop, sender, popped, waitsFor>>
      BY <3>1 DEF Queue!Enqueue
    <3>3. epoch \in [Cmds -> Conns \union {NoConn}] /\ accepted + 1 \in Cmds
      BY <3>2, ManagerAssumption DEF ManagerTypes, QueueInv, Cmds
    <3>4. epoch'[accepted + 1] = conn /\ \A k \in Cmds : k <= accepted => epoch'[k] = epoch[k]
      BY <3>1, <3>2, <3>3 DEF QueueInv, Cmds
    <3>5. (BeforeDrop <=> BeforeDrop') /\ \A g \in Conns : AwaitedBy(g) => AwaitedBy(g)'
      BY <3>1, <3>2 DEF BeforeDrop, AwaitedBy
    <3>6. ASSUME NEW i \in DOMAIN commands' PROVE AcceptedHere(commands[i])' \/ BeforeDrop'
      <4>1. commands \in Seq(Cmds)
        BY DEF QueueInv
      <4>2. CASE i = Len(commands) + 1
        <5>1. commands'[i] = accepted + 1
          BY <3>2, <4>1, <4>2
        <5> QED
          BY <3>1, <3>4, <5>1 DEF AcceptedHere
      <4>3. CASE i # Len(commands) + 1
        <5>1. i \in DOMAIN commands /\ commands'[i] = commands[i]
          BY <3>2, <4>1, <4>3
        <5>2. commands[i] \in Cmds /\ commands[i] <= accepted
          BY <4>1, <5>1 DEF QueueInv
        <5> QED
          BY <3>1, <3>4, <3>5, <5>1, <5>2 DEF ReplayInv, AcceptedHere
      <4> QED
        BY <4>2, <4>3
    <3>7. ASSUME NEW g \in Conns, sender'[g] = "sending", target'[g] = NoConn
          PROVE  (AcceptedHere(popped[g]) \/ BeforeDrop \/ AwaitedBy(g))'
      <4>1. popped[g] \in Cmds /\ popped[g] <= accepted
        BY <3>2, <3>7 DEF QueueInv, Cmds
      <4> QED
        BY <3>1, <3>2, <3>4, <3>5, <3>7, <4>1 DEF ReplayInv, AcceptedHere
    <3>8. \A g \in Conns : Queue!Live(g)' /\ g \in closedStop' => AwaitedBy(g)'
      BY <3>2, <3>5 DEF ReplayInv, Queue!Live
    <3> QED
      BY <3>6, <3>7, <3>8 DEF ReplayInv
  <2>11. ASSUME NEW g \in Conns, SenderTick(g) PROVE ReplayInv'
    <3>1. /\ commands # <<>> /\ sender[g] = "select"
          /\ popped' = [popped EXCEPT ![g] = Head(commands)]
          /\ commands' = Tail(commands)
          /\ sender' = [sender EXCEPT ![g] = "sending"]
          /\ UNCHANGED <<closedStop, waitsFor, connected, conn, pc, target, epoch>>
      BY <2>11 DEF SenderTick, Queue!Tick, managerVars, worldVars
    <3>2. /\ 1 \in DOMAIN commands /\ Head(commands) = commands[1]
          /\ \A i \in DOMAIN Tail(commands) :
                 i + 1 \in DOMAIN commands /\ Tail(commands)[i] = commands[i + 1]
      BY <3>1 DEF QueueInv
    <3>3. (BeforeDrop <=> BeforeDrop') /\ \A h \in Conns : AwaitedBy(h) => AwaitedBy(h)'
      BY <3>1 DEF BeforeDrop, AwaitedBy
    <3>4. \A k : AcceptedHere(k) <=> AcceptedHere(k)'
      BY <3>1 DEF AcceptedHere
    <3>5. \A h \in Conns : /\ Queue!Live(h)' <=> Queue!Live(h)
                           /\ h # g => sender'[h] = sender[h] /\ popped'[h] = popped[h]
      BY <3>1 DEF QueueInv, Queue!Live
    <3>6. popped'[g] = commands[1]
      BY <3>1, <3>2 DEF QueueInv
    <3>7. \A i \in DOMAIN commands : AcceptedHere(commands[i]) \/ BeforeDrop
      BY DEF ReplayInv
    <3>8. \A i \in DOMAIN commands' : AcceptedHere(commands[i])' \/ BeforeDrop'
      BY <3>1, <3>2, <3>3, <3>4, <3>7
    <3>9. AcceptedHere(popped[g])' \/ BeforeDrop'
      BY <3>2, <3>3, <3>4, <3>6, <3>7
    <3> QED
      BY <3>1, <3>3, <3>4, <3>5, <3>8, <3>9 DEF ReplayInv, AcceptedHere
  <2>12. ASSUME NEW g \in Conns, WriteResolves(g) PROVE ReplayInv'
    <3>1. /\ UNCHANGED <<queueVars, connected, conn, pc, epoch>> /\ connected
          /\ target' = [target EXCEPT ![g] = conn]
      BY <2>12 DEF WriteResolves, managerVars, worldVars
    <3>2. \A h \in Conns : target'[h] = NoConn => target[h] = NoConn
      BY <3>1, ManagerAssumption DEF ManagerTypes
    <3> QED
      BY <3>1, <3>2 DEF ReplayInv, BeforeDrop, AwaitedBy, AcceptedHere, queueVars, Queue!Live
  <2>13. ASSUME NEW g \in Conns, WriteReturns(g) \/ SenderExits(g) PROVE ReplayInv'
    <3>1. /\ UNCHANGED <<commands, closedStop, waitsFor, connected, conn, pc, epoch>>
          /\ \/ sender' = [sender EXCEPT ![g] = "select"] /\ sender[g] = "sending"
                /\ popped' = [popped EXCEPT ![g] = 0]
             \/ sender' = [sender EXCEPT ![g] = "exited"] /\ UNCHANGED popped
          /\ \A h \in Conns : h # g => target'[h] = target[h]
      BY <2>13 DEF WriteReturns, WriteNotConnected, WriteSucceeds, WriteFails, SenderExits,
         Queue!SendSucceeds, Queue!SendFails, Queue!SendReturns, Queue!StopSeen,
         managerVars, worldVars, ManagerTypes
    <3>2. \A h \in Conns : /\ Queue!Live(h)' => Queue!Live(h)
                           /\ sender'[h] = "sending" => h # g /\ sender[h] = "sending"
                           /\ h # g => popped'[h] = popped[h]
      BY <3>1 DEF QueueInv, Queue!Live
    <3> QED
      BY <3>1, <3>2 DEF ReplayInv, BeforeDrop, AwaitedBy, AcceptedHere
  <2>14. ASSUME NEW c \in Conns,
                \/ ReaderArms(c) \/ ReaderContinues(c) \/ ReaderEnds(c) \/ ReaderGivesUp(c)
         PROVE  ReplayInv'
    <3>1. /\ pc[c] \in {"armed", "reading", "lost"}
          /\ \A q \in Procs : q # c => pc'[q] = pc[q]
          /\ UNCHANGED <<queueVars, target, epoch, connected, conn>>
      BY <2>0, <2>14 DEF ReaderArms, ReaderContinues, ReaderEnds, ReaderGivesUp, Goto,
         managerVars, worldVars
    <3> QED
      BY <2>0, <2>1, <3>1
  <2>15. ASSUME AnswerOnly \/ EnqueueRejected \/ UNCHANGED vars
                \/ \E c \in Conns : PeerCloses(c)
         PROVE  ReplayInv'
    <3>1. UNCHANGED <<queueVars, target, epoch, connected, conn, pc>>
      BY <2>15 DEF AnswerOnly, EnqueueRejected, PeerCloses, vars, managerVars, worldVars
    <3> QED
      BY <3>1 DEF ReplayInv, BeforeDrop, AwaitedBy, AcceptedHere, queueVars, Queue!Live
  <2> QED
    BY <2>0, <2>2, <2>3, <2>4, <2>5, <2>6, <2>7, <2>8, <2>9, <2>10, <2>11, <2>12, <2>13,
       <2>14, <2>15
    DEF Next, ConnectSteps, Disconnect, DisconnectSteps, SenderSteps, ReaderSteps,
        ReaderDisconnects
<1>3. QED
  BY <1>1, <1>2, ManagerTypesHold, QueueInvHolds, ReaderNotYetHolds, PTL DEF Spec

\* At rest the sender that a finished disconnect stopped is gone, and only the
\* current generation can be alive: senders of two connections run side by
\* side only while a disconnect waits.
THEOREM SenderAlone == Spec => []OneSenderAtRest
<1>1. ReplayInv /\ QueueInv => OneSenderAtRest
  <2> SUFFICES ASSUME ReplayInv, QueueInv, ~Disconnecting,
                      NEW g \in Conns, NEW h \in Conns,
                      Queue!Live(g), Queue!Live(h)
               PROVE  g = h
    BY DEF OneSenderAtRest
  <2>1. \A a \in Conns : ~AwaitedBy(a)
    BY DEF AwaitedBy, Disconnecting
  <2>2. g \notin closedStop /\ h \notin closedStop
    BY <2>1 DEF ReplayInv
  <2> QED
    BY <2>2 DEF QueueInv
<1> QED
  BY <1>1, ReplayInvHolds, QueueInvHolds, PTL

\* While no disconnect is in progress, writeCommand writes each command to the
\* connection on which it was accepted, across any number of reconnects.
THEOREM NoReplayAlone == Spec => ReplayNeedsOverlap
<1>1. ReplayInv /\ ManagerTypes /\ [Next]_vars =>
        [~Disconnecting =>
            \A g \in Conns : target'[g] \notin {target[g], NoConn} =>
                target'[g] = epoch[popped[g]]]_vars
  <2> SUFFICES ASSUME ReplayInv, ManagerTypes, [Next]_vars, ~Disconnecting,
                      NEW g \in Conns, target'[g] \notin {target[g], NoConn}
               PROVE  target'[g] = epoch[popped[g]]
    OBVIOUS
  <2>1. WriteResolves(g)
    <3>1. ASSUME NEW p \in Procs,
                 \/ Dial(p) \/ ConnectSteps(p) \/ TakeConn(p) \/ DisconnectSteps(p)
          PROVE  UNCHANGED target
      BY <3>1 DEF Dial, ConnectSteps, ConnectRejected, ConnectInstalls, ConnectAnnounces,
         ConnectPanics, TakeConn, DisconnectSteps, CloseConn, StopQueue, AwaitSender, DisconnectAnnounces
    <3>2. ASSUME NEW h \in Conns,
                 ReaderArms(h) \/ ReaderContinues(h) \/ ReaderEnds(h) \/ ReaderGivesUp(h)
                 \/ PeerCloses(h) \/ SenderTick(h) \/ SenderExits(h)
          PROVE  UNCHANGED target
      BY <3>2 DEF ReaderArms, ReaderContinues, ReaderEnds, ReaderGivesUp, PeerCloses,
         SenderTick, SenderExits
    <3>3. ASSUME Enqueue \/ EnqueueRejected \/ AnswerOnly \/ UNCHANGED vars
          PROVE  UNCHANGED target
      BY <3>3 DEF Enqueue, EnqueueRejected, AnswerOnly, vars
    <3>4. ASSUME NEW h \in Conns, WriteReturns(h) PROVE FALSE
      BY <3>4 DEF WriteReturns, WriteNotConnected, WriteSucceeds, WriteFails, ManagerTypes
    <3>5. ASSUME NEW h \in Conns, WriteResolves(h) PROVE h = g
      BY <3>5 DEF WriteResolves, ManagerTypes
    <3> QED
      BY <3>1, <3>2, <3>3, <3>4, <3>5
      DEF Next, Disconnect, SenderSteps, ReaderSteps, ReaderDisconnects, Procs
  <2>2. target'[g] = conn /\ sender[g] = "sending" /\ target[g] = NoConn
    BY <2>1 DEF WriteResolves, ManagerTypes
  <2>3. ~BeforeDrop /\ ~AwaitedBy(g)
    BY DEF Disconnecting, BeforeDrop, AwaitedBy
  <2> QED
    BY <2>2, <2>3 DEF ReplayInv, AcceptedHere
<1> QED
  BY <1>1, ReplayInvHolds, ManagerTypesHold, PTL DEF Spec, ReplayNeedsOverlap
-----------------------------------------------------------------------------
(***************************************************************************)
(* Behaviours in which no Connect installs its connection while a          *)
(* disconnect is under way; everything else still overlaps.  Beyond them a *)
(* connected session may lack a sender, a command may reach a later        *)
(* connection and commands may be sent out of order: that one overlap is   *)
(* needed for each of the three.                                           *)
(***************************************************************************)
Serial == ~connected /\ connected' => ~Disconnecting
SerialSpec == Init /\ [][Next /\ Serial]_vars

\* Serial behaviours are behaviours of the manager, with all it guarantees.
LEMMA SerialIsSpec == SerialSpec => Spec
<1>1. [Next /\ Serial]_vars => [Next]_vars
  OBVIOUS
<1> QED
  BY <1>1, PTL DEF SerialSpec, Spec

Busy(p) == pc[p] \in {"closing", "stopping", "awaiting", "stopped"}

\* The session is up with its sender, or one disconnect at most is under way.
SerialInv ==
    /\ connected => running /\ ~Disconnecting
    /\ \A p, q \in Procs : Busy(p) /\ Busy(q) => p = q
    /\ \A p \in Procs : pc[p] \in {"awaiting", "stopped"} => ~running

\* A disconnect begins in a connected session, so it begins alone; none can
\* begin before the next Connect, which waits for its end.
LEMMA SerialInvHolds == SerialSpec => []SerialInv
<1>1. Init => SerialInv
  BY DEF Init, Queue!Init, SerialInv, Busy, Procs
<1>2. SerialInv /\ ManagerTypes /\ ReaderNotYet /\ [Next /\ Serial]_vars => SerialInv'
  <2> SUFFICES ASSUME SerialInv, ManagerTypes, ReaderNotYet, [Next /\ Serial]_vars
               PROVE  SerialInv'
    OBVIOUS
  <2>0. Callers \subseteq Procs /\ Conns \subseteq Procs /\ pc \in [Procs -> Labels]
    BY DEF Procs, ManagerTypes
  <2>1. Disconnecting <=> \E p \in Procs : Busy(p)
    BY DEF Disconnecting, Busy
  <2>2. Disconnecting' <=> \E p \in Procs : Busy(p)'
    BY DEF Disconnecting, Busy
  \* A step that begins no disconnect, and moves none past its drop.
  <2>3. ASSUME UNCHANGED <<connected, running>>,
               \A q \in Procs : /\ Busy(q)' => Busy(q)
                                /\ pc'[q] \in {"awaiting", "stopped"} =>
                                       pc[q] \in {"awaiting", "stopped"}
        PROVE  SerialInv'
    BY <2>1, <2>2, <2>3 DEF SerialInv
  <2>4. ASSUME NEW p \in Callers, Dial(p) \/ ConnectRejected(p) PROVE SerialInv'
    <3>1. /\ UNCHANGED <<connected, running>>
          /\ pc' = [pc EXCEPT ![p] = "dialed"] \/ pc' = [pc EXCEPT ![p] = "idle"]
      BY <2>4 DEF Dial, ConnectRejected, Goto, managerVars, queueVars
    <3> QED
      BY <2>0, <2>3, <3>1 DEF Busy
  <2>5. ASSUME NEW p \in Callers, ConnectAnnounces(p) \/ ConnectPanics(p)
        PROVE  SerialInv'
    <3>1. /\ UNCHANGED <<connected, running>>
          /\ \/ pc' = [pc EXCEPT ![p] = "idle", ![held[p]] = "armed"]
             \/ pc' = [pc EXCEPT ![p] = "idle", ![held[p]] = "unstarted"]
      BY <2>5 DEF ConnectAnnounces, ConnectPanics, managerVars, queueVars
    <3> QED
      BY <2>0, <2>3, <3>1 DEF Busy
  <2>6. ASSUME NEW p \in Callers, ConnectInstalls(p), Serial PROVE SerialInv'
    <3>1. ~connected /\ connected' /\ pc' = [pc EXCEPT ![p] = "installed"]
      BY <2>6 DEF ConnectInstalls, Goto
    <3>2. running'
      BY <2>6 DEF ConnectInstalls, Queue!Start
    <3>3. ~Disconnecting
      BY <2>6, <3>1 DEF Serial
    <3>4. \A q \in Procs : ~Busy(q)'
      BY <2>0, <2>1, <3>1, <3>3 DEF Busy
    <3>5. \A q \in Procs : pc'[q] \notin {"awaiting", "stopped"}
      BY <3>4 DEF Busy
    <3> QED
      BY <2>2, <3>2, <3>4, <3>5 DEF SerialInv
  <2>7. ASSUME NEW p \in Procs, TakeConn(p) PROVE SerialInv'
    <3>1. /\ connected /\ ~connected' /\ running' = running
          /\ pc' = [pc EXCEPT ![p] = "closing"]
      BY <2>7 DEF TakeConn, Goto, queueVars
    <3>2. \A q \in Procs : ~Busy(q)
      BY <2>1, <3>1 DEF SerialInv
    <3>3. \A q \in Procs : Busy(q)' => q = p
      BY <2>0, <3>1, <3>2 DEF Busy
    <3>4. \A q \in Procs : pc'[q] \notin {"awaiting", "stopped"}
      BY <2>0, <3>1, <3>2 DEF Busy
    <3> QED
      BY <3>1, <3>3, <3>4 DEF SerialInv
  <2>8. ASSUME NEW p \in Procs, CloseConn(p) PROVE SerialInv'
    <3>1. /\ UNCHANGED <<connected, running>> /\ pc[p] = "closing"
          /\ pc' = [pc EXCEPT ![p] = "stopping"]
      BY <2>8 DEF CloseConn, Goto, managerVars, queueVars
    <3> QED
      BY <2>0, <2>3, <3>1 DEF Busy
  <2>9. ASSUME NEW p \in Procs, StopQueue(p) PROVE SerialInv'
    <3>1. /\ connected' = connected /\ pc[p] = "stopping"
          /\ \A q \in Procs : q # p => pc'[q] = pc[q]
      BY <2>0, <2>9 DEF StopQueue, Goto, managerVars
    <3>2. ~running'
      BY <2>9 DEF StopQueue, Queue!StopAndDrop
    <3>3. Busy(p)
      BY <3>1 DEF Busy
    <3>4. ~connected'
      BY <2>1, <3>1, <3>3 DEF SerialInv
    <3>5. \A q \in Procs : Busy(q)' => Busy(q)
      BY <3>1, <3>3 DEF Busy
    <3> QED
      BY <3>2, <3>4, <3>5 DEF SerialInv
  <2>10. ASSUME NEW p \in Procs, AwaitSender(p) PROVE SerialInv'
    <3>1. /\ UNCHANGED <<connected, running>> /\ pc[p] = "awaiting"
          /\ pc' = [pc EXCEPT ![p] = "stopped"]
      BY <2>10 DEF AwaitSender, Queue!SenderDone, Goto, managerVars
    <3> QED
      BY <2>0, <2>3, <3>1 DEF Busy
  <2>11. ASSUME NEW p \in Procs, DisconnectAnnounces(p) PROVE SerialInv'
    <3>1. /\ UNCHANGED <<connected, running>>
          /\ pc' = [pc EXCEPT ![p] = "idle"] \/ pc' = [pc EXCEPT ![p] = "done"]
      BY <2>11 DEF DisconnectAnnounces, Goto, managerVars, queueVars
    <3> QED
      BY <2>0, <2>3, <3>1 DEF Busy
  <2>12. ASSUME NEW c \in Conns,
                \/ ReaderArms(c) \/ ReaderContinues(c) \/ ReaderEnds(c) \/ ReaderGivesUp(c)
         PROVE  SerialInv'
    <3>1. /\ UNCHANGED <<connected, running>>
          /\ \E l \in {"armed", "reading", "lost", "done"} : pc' = [pc EXCEPT ![c] = l]
      BY <2>12 DEF ReaderArms, ReaderContinues, ReaderEnds, ReaderGivesUp, Goto,
         managerVars, queueVars
    <3> QED
      BY <2>0, <2>3, <3>1 DEF Busy
  <2>13. ASSUME NEW g \in Conns, SenderSteps(g) PROVE SerialInv'
    <3>1. UNCHANGED <<connected, running, pc>>
      BY <2>13 DEF SenderSteps, SenderTick, WriteResolves, WriteReturns,
         WriteNotConnected, WriteSucceeds, WriteFails, SenderExits, Queue!Tick,
         Queue!SendSucceeds, Queue!SendFails, Queue!SendReturns, Queue!StopSeen,
         managerVars, queueVars
    <3> QED
      BY <2>3, <3>1 DEF Busy
  <2>14. ASSUME \/ Enqueue \/ AnswerOnly \/ EnqueueRejected \/ UNCHANGED vars
                \/ \E c \in Conns : PeerCloses(c)
         PROVE  SerialInv'
    <3>1. UNCHANGED <<connected, running, pc>>
      BY <2>14 DEF Enqueue, Queue!Enqueue, AnswerOnly, EnqueueRejected, PeerCloses,
         vars, managerVars, queueVars
    <3> QED
      BY <2>3, <3>1 DEF Busy
  <2> QED
    BY <2>0, <2>4, <2>5, <2>6, <2>7, <2>8, <2>9, <2>10, <2>11, <2>12, <2>13, <2>14
    DEF Next, ConnectSteps, Disconnect, DisconnectSteps, ReaderSteps, ReaderDisconnects
<1> QED
  BY <1>1, <1>2, SerialIsSpec, ManagerTypesHold, ReaderNotYetHolds, PTL DEF SerialSpec

\* When no Connect overlaps a disconnect, a connected session has a sender
\* (docs/roadmap.md:48): the lost sender takes that overlap.
THEOREM SerialKeepsSender == SerialSpec => []ConnectedHasSender
<1>1. SerialInv => ConnectedHasSender
  BY DEF SerialInv, ConnectedHasSender
<1> QED
  BY <1>1, SerialInvHolds, PTL

\* What writeCommand holds is the connection its command was accepted on.
WrittenWhereAccepted ==
    \A g \in Conns : target[g] # NoConn =>
        sender[g] = "sending" /\ target[g] = epoch[popped[g]]

\* When no Connect overlaps a disconnect, no command is ever written to
\* another connection than the one it was accepted on (README.md:100, no
\* automatic replay), also while disconnects are in progress.
THEOREM SerialNoReplay == SerialSpec => []WrittenWhereAccepted
<1>1. Init => WrittenWhereAccepted
  BY DEF Init, WrittenWhereAccepted
<1>2. /\ WrittenWhereAccepted /\ SerialInv /\ ReplayInv /\ ManagerTypes /\ QueueInv
      /\ [Next]_vars
      => WrittenWhereAccepted'
  <2> SUFFICES ASSUME WrittenWhereAccepted, SerialInv, ReplayInv, ManagerTypes,
                      QueueInv, [Next]_vars
               PROVE  WrittenWhereAccepted'
    OBVIOUS
  <2>1. ASSUME UNCHANGED <<target, sender, popped, epoch>> PROVE WrittenWhereAccepted'
    BY <2>1 DEF WrittenWhereAccepted
  <2>2. ASSUME NEW p \in Procs,
               Dial(p) \/ ConnectRejected(p) \/ ConnectAnnounces(p) \/ ConnectPanics(p)
               \/ TakeConn(p) \/ DisconnectSteps(p)
        PROVE  WrittenWhereAccepted'
    <3>1. UNCHANGED <<target, sender, popped, epoch>>
      BY <2>2 DEF Dial, ConnectRejected, ConnectAnnounces, ConnectPanics, TakeConn,
         DisconnectSteps, CloseConn, StopQueue, AwaitSender, DisconnectAnnounces, Queue!StopAndDrop,
         Queue!SenderDone, queueVars, worldVars
    <3> QED
      BY <2>1, <3>1
  <2>3. ASSUME NEW p \in Callers, ConnectInstalls(p) PROVE WrittenWhereAccepted'
    <3>1. /\ UNCHANGED <<target, popped, epoch>>
          /\ \A g \in Conns : sender[g] = "sending" => sender'[g] = "sending"
      BY <2>3 DEF ConnectInstalls, Queue!Start, worldVars, QueueInv
    <3> QED
      BY <3>1 DEF WrittenWhereAccepted
  <2>4. CASE Enqueue
    <3>1. /\ UNCHANGED <<target, sender, popped>>
          /\ accepted' = accepted + 1 /\ accepted < MaxCmds
          /\ epoch' = [epoch EXCEPT ![accepted'] = conn]
      BY <2>4 DEF Enqueue, Queue!Enqueue
    <3>2. \A g \in Conns : sender[g] = "sending" => popped[g] \in 1..accepted
      BY DEF QueueInv
    <3>3. \A k \in 1..accepted : epoch'[k] = epoch[k]
      BY <3>1, ManagerAssumption DEF QueueInv, ManagerTypes, Cmds
    <3> QED
      BY <3>1, <3>2, <3>3 DEF WrittenWhereAccepted
  <2>5. ASSUME NEW g \in Conns, SenderTick(g) PROVE WrittenWhereAccepted'
    <3>1. /\ UNCHANGED <<target, epoch>> /\ sender[g] = "select"
          /\ \A h \in Conns : h # g => sender'[h] = sender[h] /\ popped'[h] = popped[h]
      BY <2>5 DEF SenderTick, Queue!Tick, worldVars, QueueInv
    <3> QED
      BY <3>1 DEF WrittenWhereAccepted
  <2>6. ASSUME NEW g \in Conns, WriteResolves(g) PROVE WrittenWhereAccepted'
    <3>1. /\ UNCHANGED <<sender, popped, epoch>>
          /\ sender[g] = "sending" /\ target[g] = NoConn /\ connected
          /\ target' = [target EXCEPT ![g] = conn]
      BY <2>6 DEF WriteResolves, queueVars, worldVars
    <3>2. ~BeforeDrop /\ ~AwaitedBy(g)
      BY <3>1 DEF SerialInv, Disconnecting, BeforeDrop, AwaitedBy
    <3>3. epoch[popped[g]] = conn
      BY <3>1, <3>2 DEF ReplayInv, AcceptedHere
    <3>4. \A h \in Conns : target'[h] = IF h = g THEN conn ELSE target[h]
      BY <3>1 DEF ManagerTypes
    <3> QED
      BY <3>1, <3>3, <3>4 DEF WrittenWhereAccepted
  <2>7. ASSUME NEW g \in Conns, WriteReturns(g) PROVE WrittenWhereAccepted'
    <3>1. /\ UNCHANGED epoch /\ target'[g] = NoConn
          /\ \A h \in Conns : h # g => /\ target'[h] = target[h]
                                       /\ sender'[h] = sender[h] /\ popped'[h] = popped[h]
      BY <2>7 DEF WriteReturns, WriteNotConnected, WriteSucceeds, WriteFails,
         Queue!SendSucceeds, Queue!SendFails, Queue!SendReturns, worldVars,
         ManagerTypes, QueueInv
    <3> QED
      BY <3>1 DEF WrittenWhereAccepted
  <2>8. ASSUME NEW g \in Conns, SenderExits(g) PROVE WrittenWhereAccepted'
    <3>1. /\ UNCHANGED <<target, epoch, popped>> /\ sender[g] = "select"
          /\ \A h \in Conns : h # g => sender'[h] = sender[h]
      BY <2>8 DEF SenderExits, Queue!StopSeen, worldVars, QueueInv
    <3> QED
      BY <3>1 DEF WrittenWhereAccepted
  <2>9. ASSUME \/ AnswerOnly \/ EnqueueRejected \/ UNCHANGED vars
               \/ \E c \in Conns : \/ ReaderArms(c) \/ ReaderContinues(c) \/ ReaderEnds(c)
                                   \/ ReaderGivesUp(c) \/ PeerCloses(c)
        PROVE  WrittenWhereAccepted'
    <3>1. UNCHANGED <<target, sender, popped, epoch>>
      BY <2>9 DEF AnswerOnly, EnqueueRejected, vars, ReaderArms, ReaderContinues,
         ReaderEnds, ReaderGivesUp, PeerCloses, queueVars, worldVars
    <3> QED
      BY <2>1, <3>1
  <2> QED
    BY <2>2, <2>3, <2>4, <2>5, <2>6, <2>7, <2>8, <2>9
    DEF Next, ConnectSteps, Disconnect, SenderSteps, ReaderSteps, ReaderDisconnects, Procs
<1> QED
  BY <1>1, <1>2, SerialIsSpec, SerialInvHolds, ReplayInvHolds, ManagerTypesHold,
     QueueInvHolds, PTL DEF SerialSpec, Spec
-----------------------------------------------------------------------------
\* The MUD is sent the commands in the order in which they were accepted.
SentInOrder == \A i, j \in DOMAIN sent : i < j => sent[i] < sent[j]

\* With it: what a sender has in hand was accepted after all that was sent.
OrderInv ==
    /\ SentInOrder
    /\ \A g \in Conns : sender[g] = "sending" => \A i \in DOMAIN sent : sent[i] < popped[g]

\* A generation that was told to stop is awaited by the one disconnect, which
\* has left no current generation, so at most one generation is alive.
LEMMA OneLiveSender ==
    ASSUME SerialInv, ReplayInv, QueueInv, NEW g \in Conns, NEW h \in Conns,
           Queue!Live(g), Queue!Live(h)
    PROVE  g = h
<1>1. ASSUME NEW a \in Conns, Queue!Live(a), a \in closedStop
      PROVE  AwaitedBy(a) /\ current = NoConn
  <2>1. AwaitedBy(a)
    BY <1>1 DEF ReplayInv
  <2>2. ~running
    BY <2>1 DEF AwaitedBy, SerialInv
  <2> QED
    BY <2>1, <2>2 DEF QueueInv
<1>2. CASE g \notin closedStop /\ h \notin closedStop
  BY <1>2 DEF QueueInv
<1>3. CASE g \in closedStop \/ h \in closedStop
  <2>1. current = NoConn
    BY <1>1, <1>3
  <2>2. g \in closedStop /\ h \in closedStop
    BY <2>1, ManagerAssumption DEF QueueInv
  <2>3. AwaitedBy(g) /\ AwaitedBy(h)
    BY <1>1, <2>2
  <2> QED
    BY <2>3 DEF AwaitedBy, SerialInv, Busy
<1> QED
  BY <1>2, <1>3

\* When no Connect overlaps a disconnect, commands reach the MUD in the order
\* in which they were accepted, across any number of reconnects.
THEOREM SerialOrder == SerialSpec => []SentInOrder
<1>1. Init => OrderInv
  BY DEF Init, Queue!Init, OrderInv, SentInOrder
<1>2. /\ OrderInv /\ SerialInv /\ ReplayInv /\ TypeOK /\ QueueInv
      /\ Queue!EachCommandOneFate /\ [Next]_vars
      => OrderInv'
  <2> SUFFICES ASSUME OrderInv, SerialInv, ReplayInv, TypeOK, QueueInv,
                      Queue!EachCommandOneFate, [Next]_vars
               PROVE  OrderInv'
    OBVIOUS
  <2>0. sent \in Seq(Cmds)
    BY DEF TypeOK, Queue!TypeOK, Queue!Cmds, Cmds
  <2>1. ASSUME UNCHANGED <<sent, popped>>,
               \A g \in Conns : sender'[g] = "sending" => sender[g] = "sending"
        PROVE  OrderInv'
    BY <2>1 DEF OrderInv, SentInOrder
  <2>2. ASSUME NEW p \in Procs,
               \/ Dial(p) \/ ConnectSteps(p) \/ TakeConn(p) \/ DisconnectSteps(p)
        PROVE  OrderInv'
    <3>1. /\ UNCHANGED <<sent, popped>>
          /\ UNCHANGED sender \/ sender' = [sender EXCEPT ![held[p]] = "select"]
      BY <2>2 DEF Dial, ConnectSteps, ConnectRejected, ConnectInstalls, ConnectAnnounces,
         ConnectPanics, Queue!Start, TakeConn, DisconnectSteps, CloseConn, StopQueue, AwaitSender,
         DisconnectAnnounces, Queue!StopAndDrop, Queue!SenderDone, queueVars
    <3> QED
      BY <2>1, <3>1 DEF QueueInv
  <2>3. ASSUME NEW g \in Conns, SenderTick(g) PROVE OrderInv'
    <3>1. /\ commands # <<>> /\ sent' = sent
          /\ popped' = [popped EXCEPT ![g] = Head(commands)]
          /\ sender' = [sender EXCEPT ![g] = "sending"]
      BY <2>3 DEF SenderTick, Queue!Tick
    <3>2. 1 \in DOMAIN commands /\ Head(commands) = commands[1]
      BY <3>1 DEF QueueInv
    <3>3. Len(commands) \in Nat /\ accepted \in Nat
      BY ManagerAssumption DEF QueueInv
    <3>4. Head(commands) = accepted - Len(commands) + 1
      BY <3>2 DEF Queue!EachCommandOneFate
    <3>5. \A i \in DOMAIN sent : sent[i] \in 1..(accepted - Len(commands))
      BY DEF Queue!EachCommandOneFate, Queue!Elements
    <3>6. \A i \in DOMAIN sent : sent[i] < Head(commands)
      BY <3>3, <3>4, <3>5
    <3>7. \A h \in Conns : /\ h = g => popped'[h] = Head(commands)
                           /\ h # g => sender'[h] = sender[h] /\ popped'[h] = popped[h]
      BY <3>1 DEF QueueInv
    <3>8. \A h \in Conns : sender'[h] = "sending" => \A i \in DOMAIN sent : sent[i] < popped'[h]
      BY <3>6, <3>7 DEF OrderInv
    <3> QED
      BY <3>1, <3>8 DEF OrderInv, SentInOrder
  <2>4. ASSUME NEW g \in Conns, WriteReturns(g) PROVE OrderInv'
    <3>1. /\ sender[g] = "sending" /\ sender' = [sender EXCEPT ![g] = "select"]
          /\ sent' = sent \/ sent' = Append(sent, popped[g])
      BY <2>4 DEF WriteReturns, WriteNotConnected, WriteSucceeds, WriteFails,
         Queue!SendSucceeds, Queue!SendFails, Queue!SendReturns
    <3>2. \A h \in Conns : sender[h] = "sending" => h = g
      BY <3>1, OneLiveSender DEF Queue!Live
    <3>3. \A h \in Conns : sender'[h] # "sending"
      BY <3>1, <3>2 DEF QueueInv
    <3>4. \A i \in DOMAIN sent : sent[i] < popped[g]
      BY <3>1 DEF OrderInv
    <3>5. SentInOrder'
      <4>1. CASE sent' = sent
        BY <4>1 DEF OrderInv, SentInOrder
      <4>2. CASE sent' = Append(sent, popped[g])
        <5>1. /\ Len(sent) \in Nat /\ DOMAIN sent = 1..Len(sent)
              /\ DOMAIN sent' = 1..(Len(sent) + 1)
              /\ \A i \in DOMAIN sent : sent'[i] = sent[i]
              /\ sent'[Len(sent) + 1] = popped[g]
          BY <2>0, <4>2
        <5>2. ASSUME NEW i \in DOMAIN sent', NEW j \in DOMAIN sent', i < j
              PROVE  sent'[i] < sent'[j]
          <6>1. i \in DOMAIN sent /\ sent'[i] = sent[i]
            BY <5>1, <5>2
          <6>2. CASE j = Len(sent) + 1
            BY <3>4, <5>1, <6>1, <6>2
          <6>3. CASE j # Len(sent) + 1
            <7>1. j \in DOMAIN sent /\ sent'[j] = sent[j]
              BY <5>1, <6>3
            <7> QED
              BY <5>2, <6>1, <7>1 DEF OrderInv, SentInOrder
          <6> QED
            BY <6>2, <6>3
        <5> QED
          BY <5>2 DEF SentInOrder
      <4> QED
        BY <3>1, <4>1, <4>2
    <3> QED
      BY <3>3, <3>5 DEF OrderInv
  <2>5. ASSUME NEW g \in Conns, WriteResolves(g) \/ SenderExits(g) PROVE OrderInv'
    <3>1. /\ UNCHANGED <<sent, popped>>
          /\ UNCHANGED sender \/ sender' = [sender EXCEPT ![g] = "exited"]
      BY <2>5 DEF WriteResolves, SenderExits, Queue!StopSeen, queueVars
    <3> QED
      BY <2>1, <3>1 DEF QueueInv
  <2>6. ASSUME \/ Enqueue \/ AnswerOnly \/ EnqueueRejected \/ UNCHANGED vars
               \/ \E c \in Conns : \/ ReaderArms(c) \/ ReaderContinues(c) \/ ReaderEnds(c)
                                   \/ ReaderGivesUp(c) \/ PeerCloses(c)
        PROVE  OrderInv'
    <3>1. UNCHANGED <<sent, popped, sender>>
      BY <2>6 DEF Enqueue, Queue!Enqueue, AnswerOnly, EnqueueRejected, vars, ReaderArms,
         ReaderContinues, ReaderEnds, ReaderGivesUp, PeerCloses, queueVars
    <3> QED
      BY <2>1, <3>1
  <2> QED
    BY <2>2, <2>3, <2>4, <2>5, <2>6
    DEF Next, Disconnect, SenderSteps, ReaderSteps, ReaderDisconnects, Procs
<1>3. OrderInv => SentInOrder
  BY DEF OrderInv
<1> QED
  BY <1>1, <1>2, <1>3, SerialIsSpec, SerialInvHolds, ReplayInvHolds, TypeCorrect,
     QueueInvHolds, CommandsKeepOneFate, PTL DEF SerialSpec, Spec
=============================================================================
