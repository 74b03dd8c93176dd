------------------------------ MODULE HubProofs ------------------------------
(***************************************************************************)
(* Proofs about Hub: removals meet at the client set, the gauge is off by  *)
(* those on their way, and what a client is sent has no gap.               *)
(***************************************************************************)
EXTENDS Hub, SequenceTheorems, FiniteSetTheorems, TLAPS

Removing == {"removing", "deleted", "closed"}

\* What a process in the middle of a call has in hand.
Calls ==
    \A p \in Procs :
        /\ pc[p] \in Removing => /\ victim[p] \in Clients
                                 /\ resume[p] = "sending" \/ (p \in Clients /\ resume[p] = "done")
        /\ (pc[p] = "sending" \/ (pc[p] \in Removing /\ resume[p] = "sending")) =>
               event[p] = [by |-> p, n |-> published[p]] /\ published[p] > 0
        /\ pc[p] \in {"idle", "upgrade", "added", "hello"} => todo[p] = {}

\* A writePump has an event in hand while it writes, and no other time.
Writers ==
    \A c \in Clients :
        /\ writer[c] = "write" <=> inWrite[c] # NoEvent
        /\ pc[c] \in {"upgrade", "added"} => writer[c] = "none"
        /\ \A i \in DOMAIN send[c] : send[c][i].n > 0

\* Nobody knows a client before Add.
Fresh ==
    \A c \in Clients : pc[c] = "upgrade" =>
        /\ c \notin clients /\ c \notin sendClosed
        /\ send[c] = <<>> /\ received[c] = <<>>
        /\ \A p \in Procs : c \notin todo[p] /\ victim[p] # c

HubInv == Calls /\ Writers /\ Fresh
-----------------------------------------------------------------------------
LEMMA ClientsAreProcs == Clients \subseteq Procs /\ Publishers \subseteq Procs
BY DEF Procs

LEMMA HubInvHolds == Spec => [](TypeOK /\ HubInv)
<1> USE HubAssumption, ClientsAreProcs DEF HubInv, Removing
<1>1. Init => TypeOK /\ HubInv
  <2> SUFFICES ASSUME Init PROVE TypeOK /\ HubInv
    OBVIOUS
  <2>1. TypeOK
    BY DEF Init, TypeOK, HandlerLabels, PublisherLabels, NoEvent
  <2>2. Calls
    BY DEF Init, Calls
  <2>3. Writers /\ Fresh
    BY DEF Init, Writers, Fresh
  <2> QED BY <2>1, <2>2, <2>3
<1>2. TypeOK /\ HubInv /\ [Next]_vars => (TypeOK /\ HubInv)'
  <2> SUFFICES ASSUME TypeOK, HubInv, [Next]_vars PROVE (TypeOK /\ HubInv)'
    OBVIOUS
  <2> USE DEF Goto, HandlerLabels, PublisherLabels, writerVars
  <2>1. ASSUME NEW c \in Clients, AddClient(c) PROVE (TypeOK /\ HubInv)'
    <3>1. TypeOK'
      BY <2>1 DEF AddClient, TypeOK
    <3>2. Calls'
      BY <2>1 DEF AddClient, TypeOK, Calls
    <3>3. (Writers /\ Fresh)'
      BY <2>1 DEF AddClient, TypeOK, Writers, Fresh
    <3> QED BY <3>1, <3>2, <3>3
  <2>2. ASSUME NEW c \in Clients, AddReturns(c) PROVE (TypeOK /\ HubInv)'
    <3>1. TypeOK'
      BY <2>2 DEF AddReturns, TypeOK
    <3>2. Calls'
      BY <2>2 DEF AddReturns, TypeOK, Calls
    <3>3. (Writers /\ Fresh)'
      BY <2>2 DEF AddReturns, TypeOK, Writers, Fresh
    <3> QED BY <3>1, <3>2, <3>3
  <2>3. ASSUME NEW p \in Procs, Snapshot(p) PROVE (TypeOK /\ HubInv)'
    <3>0. [by |-> p, n |-> published[p] + 1] \in Events
      BY DEF TypeOK, Events
    <3>1. TypeOK'
      BY <2>3, <3>0 DEF Snapshot, TypeOK
    <3>2. Calls'
      BY <2>3 DEF Snapshot, TypeOK, Calls
    <3>3. (Writers /\ Fresh)'
      BY <2>3 DEF Snapshot, TypeOK, Writers, Fresh
    <3> QED BY <3>1, <3>2, <3>3
  <2>4. ASSUME NEW p \in Procs, NEW c \in Clients, SendBuffered(p, c)
        PROVE (TypeOK /\ HubInv)'
    <3>0. event[p] \in Events /\ event[p].n > 0
      BY <2>4 DEF SendBuffered, TypeOK, Calls, Events
    <3>1. /\ send'[c] = Append(send[c], event[p]) /\ send'[c] \in Seq(Events)
          /\ Len(send'[c]) = Len(send[c]) + 1
          /\ \A i \in DOMAIN send'[c] : send'[c][i].n > 0
      BY <2>4, <3>0, AppendProperties DEF SendBuffered, TypeOK, Writers
    <3>2. send' \in [Clients -> Seq(Events)] /\ \A d \in Clients : d # c => send'[d] = send[d]
      BY <2>4, <3>1 DEF SendBuffered, TypeOK
    <3>3. TypeOK'
      BY <2>4, <3>1, <3>2, LenProperties DEF SendBuffered, TypeOK
    <3>4. Calls'
      BY <2>4 DEF SendBuffered, TypeOK, Calls
    <3>5. (Writers /\ Fresh)'
      BY <2>4, <3>1, <3>2 DEF SendBuffered, TypeOK, Writers, Fresh
    <3> QED BY <3>3, <3>4, <3>5
  <2>5. ASSUME NEW p \in Procs, NEW c \in Clients, SendSlow(p, c)
        PROVE (TypeOK /\ HubInv)'
    <3>1. TypeOK'
      BY <2>5 DEF SendSlow, TypeOK
    <3>2. Calls'
      BY <2>5 DEF SendSlow, TypeOK, Calls
    <3>3. (Writers /\ Fresh)'
      BY <2>5 DEF SendSlow, TypeOK, Writers, Fresh
    <3> QED BY <3>1, <3>2, <3>3
  <2>6. ASSUME NEW p \in Procs, NEW c \in Clients, SendPanics(p, c)
        PROVE (TypeOK /\ HubInv)'
    <3>1. TypeOK'
      BY <2>6 DEF SendPanics, TypeOK
    <3>2. Calls' /\ (Writers /\ Fresh)'
      BY <2>6 DEF SendPanics, TypeOK, Calls, Writers, Fresh
    <3> QED BY <3>1, <3>2
  <2>7. ASSUME NEW p \in Procs, BroadcastReturns(p) PROVE (TypeOK /\ HubInv)'
    <3>1. TypeOK'
      BY <2>7 DEF BroadcastReturns, TypeOK
    <3>2. Calls'
      BY <2>7 DEF BroadcastReturns, TypeOK, Calls
    <3>3. (Writers /\ Fresh)'
      BY <2>7 DEF BroadcastReturns, TypeOK, Writers, Fresh
    <3> QED BY <3>1, <3>2, <3>3
  <2>8. ASSUME NEW c \in Clients, ReadLoopEnds(c) PROVE (TypeOK /\ HubInv)'
    <3>1. TypeOK'
      BY <2>8 DEF ReadLoopEnds, TypeOK
    <3>2. Calls'
      BY <2>8 DEF ReadLoopEnds, TypeOK, Calls
    <3>3. (Writers /\ Fresh)'
      BY <2>8 DEF ReadLoopEnds, TypeOK, Writers, Fresh
    <3> QED BY <3>1, <3>2, <3>3
  <2>9. ASSUME NEW p \in Procs, RemoveSteps(p) PROVE (TypeOK /\ HubInv)'
    <3>0. /\ pc[p] \in Removing /\ victim[p] \in Clients
          /\ resume[p] = "sending" \/ (p \in Clients /\ resume[p] = "done")
      BY <2>9 DEF RemoveSteps, RemoveGone, RemoveDeletes, RemoveClosesSend, RemoveClosesConn, Calls
    <3>1. CASE RemoveGone(p)
      <4>1. TypeOK'
        BY <3>1, <3>0 DEF RemoveGone, RemoveReturns, TypeOK
      <4>2. Calls'
        BY <3>1, <3>0 DEF RemoveGone, RemoveReturns, TypeOK, Calls
      <4>3. (Writers /\ Fresh)'
        BY <3>1, <3>0 DEF RemoveGone, RemoveReturns, TypeOK, Writers, Fresh
      <4> QED BY <4>1, <4>2, <4>3
    <3>2. CASE RemoveDeletes(p)
      <4>1. TypeOK'
        BY <3>2, <3>0 DEF RemoveDeletes, TypeOK
      <4>2. Calls'
        BY <3>2, <3>0 DEF RemoveDeletes, TypeOK, Calls
      <4>3. (Writers /\ Fresh)'
        BY <3>2, <3>0 DEF RemoveDeletes, TypeOK, Writers, Fresh
      <4> QED BY <4>1, <4>2, <4>3
    <3>3. CASE RemoveClosesSend(p)
      <4>1. TypeOK'
        BY <3>3, <3>0 DEF RemoveClosesSend, TypeOK
      <4>2. Calls'
        BY <3>3, <3>0 DEF RemoveClosesSend, TypeOK, Calls
      <4>3. (Writers /\ Fresh)'
        BY <3>3, <3>0 DEF RemoveClosesSend, TypeOK, Writers, Fresh
      <4> QED BY <4>1, <4>2, <4>3
    <3>4. CASE RemoveClosesConn(p)
      <4>1. TypeOK'
        BY <3>4, <3>0 DEF RemoveClosesConn, RemoveReturns, TypeOK
      <4>2. Calls'
        BY <3>4, <3>0 DEF RemoveClosesConn, RemoveReturns, TypeOK, Calls
      <4>3. (Writers /\ Fresh)'
        BY <3>4, <3>0 DEF RemoveClosesConn, RemoveReturns, TypeOK, Writers, Fresh
      <4> QED BY <4>1, <4>2, <4>3
    <3> QED BY <2>9, <3>1, <3>2, <3>3, <3>4 DEF RemoveSteps
  <2>10. ASSUME NEW c \in Clients, WriterTakes(c) PROVE (TypeOK /\ HubInv)'
    <3>0. /\ Head(send[c]) \in Events /\ Head(send[c]) # NoEvent
          /\ Tail(send[c]) \in Seq(Events) /\ Len(Tail(send[c])) = Len(send[c]) - 1
          /\ \A i \in DOMAIN Tail(send[c]) : Tail(send[c])[i].n > 0
      <4>1. send[c] \in Seq(Events) /\ send[c] # <<>>
        BY <2>10 DEF WriterTakes, TypeOK
      <4>2. Len(send[c]) \in Nat \ {0} /\ DOMAIN send[c] = 1..Len(send[c]) /\ Head(send[c]) = send[c][1]
        BY <4>1
      <4>3. Head(send[c]).n > 0
        BY <4>2 DEF Writers
      <4> QED BY <4>1, <4>2, <4>3, HeadTailProperties DEF Writers, NoEvent
    <3>1. TypeOK'
      BY <2>10, <3>0, LenProperties DEF WriterTakes, TypeOK, callVars
    <3>2. Calls' /\ (Writers /\ Fresh)'
      BY <2>10, <3>0 DEF WriterTakes, TypeOK, Calls, Writers, Fresh, callVars
    <3> QED BY <3>1, <3>2
  <2>11. ASSUME NEW c \in Clients, WriterWrites(c) PROVE (TypeOK /\ HubInv)'
    <3>0. inWrite[c] \in Events
      BY <2>11 DEF WriterWrites, TypeOK, Writers
    <3>1. Append(received[c], inWrite[c]) \in Seq(Events)
      BY <3>0, AppendProperties DEF TypeOK
    <3>2. TypeOK'
      BY <2>11, <3>1 DEF WriterWrites, TypeOK, callVars
    <3>3. Calls' /\ (Writers /\ Fresh)'
      BY <2>11 DEF WriterWrites, TypeOK, Calls, Writers, Fresh, callVars
    <3> QED BY <3>2, <3>3
  <2>12. ASSUME NEW c \in Clients, WriterFails(c) \/ WriterEnds(c) PROVE (TypeOK /\ HubInv)'
    <3>1. TypeOK'
      BY <2>12 DEF WriterFails, WriterEnds, TypeOK, callVars
    <3>2. Calls' /\ Fresh'
      BY <2>12 DEF WriterFails, WriterEnds, TypeOK, Calls, Fresh, callVars
    <3>3. /\ writer[c] \in {"range", "write"} /\ UNCHANGED <<send, pc>>
          /\ writer' = [writer EXCEPT ![c] = "exited"]
          /\ inWrite' = [inWrite EXCEPT ![c] = NoEvent]
      BY <2>12 DEF WriterFails, WriterEnds, TypeOK, Writers, callVars
    <3>4. Writers'
      BY <3>3 DEF TypeOK, Writers
    <3> QED BY <3>1, <3>2, <3>4
  <2>13. CASE UNCHANGED vars
    BY <2>13 DEF vars, callVars, TypeOK, Calls, Writers, Fresh
  <2> QED BY <2>1, <2>2, <2>3, <2>4, <2>5, <2>6, <2>7, <2>8, <2>9, <2>10, <2>11, <2>12, <2>13
          DEF Next, BroadcastSteps, WriterSteps
<1> QED BY <1>1, <1>2, PTL DEF Spec

THEOREM TypeCorrect == Spec => []TypeOK
BY HubInvHolds, PTL
-----------------------------------------------------------------------------
\* What the other steps leave alone, for the properties about removals.
LEMMA OtherSteps ==
    ASSUME TypeOK, HubInv, [Next]_vars,
           ~ \E c \in Clients : AddClient(c) \/ AddReturns(c),
           ~ \E p \in Procs : RemoveDeletes(p) \/ RemoveClosesSend(p) \/ RemoveClosesConn(p)
    PROVE  /\ UNCHANGED <<clients, sendClosed, wsConnections>>
           /\ \A q \in Procs : pc[q] # pc'[q] =>
                pc[q] \notin {"added", "deleted", "closed"} /\ pc'[q] \notin {"added", "deleted", "closed"}
           /\ \A q \in Procs : pc[q] \in {"deleted", "closed"} => victim'[q] = victim[q]
<1> USE HubAssumption, ClientsAreProcs DEF Goto, Removing
<1> DEFINE Kept == /\ UNCHANGED <<clients, sendClosed, wsConnections>>
                   /\ \A q \in Procs : pc[q] # pc'[q] =>
                        pc[q] \notin {"added", "deleted", "closed"} /\ pc'[q] \notin {"added", "deleted", "closed"}
                   /\ \A q \in Procs : pc[q] \in {"deleted", "closed"} => victim'[q] = victim[q]
<1>1. ASSUME NEW p \in Procs, Snapshot(p) \/ BroadcastReturns(p) PROVE Kept
  BY <1>1 DEF Snapshot, BroadcastReturns, TypeOK
<1>2. ASSUME NEW p \in Procs, NEW c \in Clients, SendBuffered(p, c) \/ SendPanics(p, c)
      PROVE  Kept
  BY <1>2 DEF SendBuffered, SendPanics, TypeOK
<1>3. ASSUME NEW p \in Procs,
             (\E c \in Clients : SendSlow(p, c)) \/ (p \in Clients /\ ReadLoopEnds(p)) \/ RemoveGone(p)
      PROVE  Kept
  <2>1. /\ UNCHANGED <<clients, sendClosed, wsConnections>>
        /\ pc[p] \in {"sending", "reading", "removing"}
        /\ pc'[p] \in {"removing", "sending", "done"}
        /\ \A q \in Procs \ {p} : pc'[q] = pc[q] /\ victim'[q] = victim[q]
    BY <1>3 DEF SendSlow, ReadLoopEnds, RemoveGone, RemoveReturns, TypeOK, HubInv, Calls
  <2> QED BY <2>1
<1>4. ASSUME NEW c \in Clients, WriterSteps(c) PROVE Kept
  BY <1>4 DEF WriterSteps, WriterTakes, WriterWrites, WriterFails, WriterEnds, callVars
<1>5. ASSUME UNCHANGED vars PROVE Kept
  BY <1>5 DEF vars, callVars
<1> HIDE DEF Kept
<1>6. ASSUME NEW c \in Clients, AddClient(c) \/ AddReturns(c) \/ ReadLoopEnds(c) \/ WriterSteps(c)
      PROVE  Kept
  BY <1>3, <1>4, <1>6
<1>7. ASSUME NEW p \in Procs, Snapshot(p) \/ BroadcastSteps(p) \/ RemoveSteps(p)
      PROVE  Kept
  <2>1. CASE Snapshot(p) \/ BroadcastSteps(p)
    BY <1>1, <1>2, <1>3, <2>1 DEF BroadcastSteps
  <2>2. CASE RemoveSteps(p)
    BY <1>3, <2>2 DEF RemoveSteps
  <2> QED BY <1>7, <2>1, <2>2
<1>8. Kept
  BY <1>5, <1>6, <1>7 DEF Next
<1> QED BY <1>8 DEF Kept

\* hub.go:47-59: of all removals of a client one deletes it and closes its channel.
THEOREM RemovedOnce == Spec => []RemovedByOne
<1> USE HubAssumption, ClientsAreProcs DEF Goto, Removing
<1>1. Init => RemovedByOne
  BY DEF Init, RemovedByOne
<1>2. RemovedByOne /\ TypeOK /\ HubInv /\ [Next]_vars => RemovedByOne'
  <2> SUFFICES ASSUME RemovedByOne, TypeOK, HubInv, [Next]_vars PROVE RemovedByOne'
    OBVIOUS
  <2>1. ASSUME NEW c \in Clients, AddClient(c) PROVE RemovedByOne'
    <3>1. /\ \A q \in Procs : pc'[q] \in {"deleted", "closed"} => pc'[q] = pc[q]
          /\ clients' = clients \union {c} /\ UNCHANGED <<victim, sendClosed>>
          /\ c \notin sendClosed /\ \A q \in Procs : victim[q] # c
      BY <2>1 DEF AddClient, TypeOK, HubInv, Fresh
    <3> QED BY <3>1 DEF RemovedByOne
  <2>2. ASSUME NEW c \in Clients, AddReturns(c) PROVE RemovedByOne'
    <3>1. /\ \A q \in Procs : pc'[q] \in {"deleted", "closed"} => pc'[q] = pc[q]
          /\ UNCHANGED <<clients, victim, sendClosed>>
      BY <2>2 DEF AddReturns, TypeOK
    <3> QED BY <3>1 DEF RemovedByOne
  <2>3. ASSUME NEW p \in Procs, RemoveDeletes(p) PROVE RemovedByOne'
    BY <2>3 DEF RemoveDeletes, RemovedByOne, TypeOK
  <2>4. ASSUME NEW p \in Procs, RemoveClosesSend(p) PROVE RemovedByOne'
    BY <2>4 DEF RemoveClosesSend, RemovedByOne, TypeOK
  <2>5. ASSUME NEW p \in Procs, RemoveClosesConn(p) PROVE RemovedByOne'
    <3>1. /\ pc'[p] \in {"sending", "done"} /\ UNCHANGED <<clients, sendClosed>>
          /\ \A q \in Procs \ {p} : pc'[q] = pc[q] /\ victim'[q] = victim[q]
      BY <2>5 DEF RemoveClosesConn, RemoveReturns, TypeOK, HubInv, Calls
    <3> QED BY <3>1 DEF RemovedByOne
  <2>6. ASSUME ~ \E c \in Clients : AddClient(c) \/ AddReturns(c),
               ~ \E p \in Procs : RemoveDeletes(p) \/ RemoveClosesSend(p) \/ RemoveClosesConn(p)
        PROVE  RemovedByOne'
    <3>1. UNCHANGED <<clients, sendClosed>>
      BY <2>6, OtherSteps
    <3>2. \A q \in Procs : pc'[q] \in {"deleted", "closed"} =>
             pc[q] = pc'[q] /\ victim'[q] = victim[q]
      BY <2>6, OtherSteps
    <3> QED BY <3>1, <3>2 DEF RemovedByOne
  <2> QED BY <2>1, <2>2, <2>3, <2>4, <2>5, <2>6
<1> QED BY <1>1, <1>2, HubInvHolds, PTL DEF Spec
-----------------------------------------------------------------------------
Added == {c \in Clients : pc[c] = "added"}
Deleted == {p \in Procs : pc[p] = "deleted"}
Counted == IsFiniteSet(clients) /\ IsFiniteSet(Added) /\ IsFiniteSet(Deleted)

\* hub.go:41, 56: the gauge is off by the Adds and Removes on their way to it.
THEOREM GaugeFollows == Spec => []GaugeLags
<1> USE HubAssumption, ClientsAreProcs DEF Goto, Removing
<1> DEFINE Inv == Counted /\ GaugeLags
<1>1. Init => Inv
  <2> SUFFICES ASSUME Init PROVE Inv
    OBVIOUS
  <2>1. clients = {} /\ Added = {} /\ Deleted = {} /\ wsConnections = 0
    BY DEF Init, Added, Deleted
  <2>2. Cardinality(Added) = 0 /\ Cardinality(Deleted) = 0 /\ Cardinality(clients) = 0 /\ Counted
    BY <2>1, FS_EmptySet DEF Counted
  <2> QED BY <2>1, <2>2 DEF GaugeLags, Added, Deleted
<1>2. Inv /\ TypeOK /\ HubInv /\ [Next]_vars => Inv'
  <2> SUFFICES ASSUME Inv, TypeOK, HubInv, [Next]_vars PROVE Inv'
    OBVIOUS
  <2>0. /\ Cardinality(clients) \in Nat /\ Cardinality(Added) \in Nat /\ Cardinality(Deleted) \in Nat
        /\ wsConnections = Cardinality(clients) - Cardinality(Added) + Cardinality(Deleted)
    BY FS_CardinalityType DEF Counted, GaugeLags, Added, Deleted
  <2> DEFINE Goal == /\ IsFiniteSet(clients') /\ IsFiniteSet(Added') /\ IsFiniteSet(Deleted')
                     /\ wsConnections' = Cardinality(clients') - Cardinality(Added') + Cardinality(Deleted')
  <2>2. ASSUME NEW c \in Clients, AddClient(c) PROVE Goal
    <3>1. /\ clients' = clients \union {c} /\ c \notin clients
          /\ Added' = Added \union {c} /\ c \notin Added
          /\ Deleted' = Deleted /\ wsConnections' = wsConnections
      BY <2>2 DEF AddClient, TypeOK, HubInv, Fresh, Added, Deleted
    <3>2. /\ IsFiniteSet(clients') /\ Cardinality(clients') = Cardinality(clients) + 1
          /\ IsFiniteSet(Added') /\ Cardinality(Added') = Cardinality(Added) + 1
      BY <3>1, FS_AddElement DEF Counted
    <3> QED BY <2>0, <3>1, <3>2 DEF Counted
  <2>3. ASSUME NEW c \in Clients, AddReturns(c) PROVE Goal
    <3>1. /\ clients' = clients /\ Added' = Added \ {c} /\ c \in Added
          /\ Deleted' = Deleted /\ wsConnections' = wsConnections + 1
      BY <2>3 DEF AddReturns, TypeOK, Added, Deleted
    <3>2. IsFiniteSet(Added') /\ Cardinality(Added') = Cardinality(Added) - 1
      BY <3>1, FS_RemoveElement DEF Counted
    <3> QED BY <2>0, <3>1, <3>2 DEF Counted
  <2>4. ASSUME NEW p \in Procs, RemoveDeletes(p) PROVE Goal
    <3>1. /\ clients' = clients \ {victim[p]} /\ victim[p] \in clients
          /\ Added' = Added /\ Deleted' = Deleted \union {p} /\ p \notin Deleted
          /\ wsConnections' = wsConnections
      BY <2>4 DEF RemoveDeletes, TypeOK, Added, Deleted
    <3>2. IsFiniteSet(clients') /\ Cardinality(clients') = Cardinality(clients) - 1
      BY <3>1, FS_RemoveElement DEF Counted
    <3>3. IsFiniteSet(Deleted') /\ Cardinality(Deleted') = Cardinality(Deleted) + 1
      BY <3>1, FS_AddElement DEF Counted
    <3> QED BY <2>0, <3>1, <3>2, <3>3 DEF Counted
  <2>5. ASSUME NEW p \in Procs, RemoveClosesSend(p) PROVE Goal
    <3>1. /\ clients' = clients /\ Added' = Added /\ Deleted' = Deleted \ {p} /\ p \in Deleted
          /\ wsConnections' = wsConnections - 1
      BY <2>5 DEF RemoveClosesSend, TypeOK, Added, Deleted
    <3>2. IsFiniteSet(Deleted') /\ Cardinality(Deleted') = Cardinality(Deleted) - 1
      BY <3>1, FS_RemoveElement DEF Counted
    <3> QED BY <2>0, <3>1, <3>2 DEF Counted
  <2>6. ASSUME NEW p \in Procs, RemoveClosesConn(p) PROVE Goal
    <3>1. /\ pc[p] = "closed" /\ pc'[p] \in {"sending", "done"} /\ UNCHANGED <<clients, wsConnections>>
          /\ \A q \in Procs \ {p} : pc'[q] = pc[q]
      BY <2>6 DEF RemoveClosesConn, RemoveReturns, TypeOK, HubInv, Calls
    <3>2. Added' = Added /\ Deleted' = Deleted
      BY <3>1 DEF Added, Deleted
    <3> QED BY <2>0, <3>1, <3>2 DEF Counted
  <2>7. ASSUME ~ \E c \in Clients : AddClient(c) \/ AddReturns(c),
               ~ \E p \in Procs : RemoveDeletes(p) \/ RemoveClosesSend(p) \/ RemoveClosesConn(p)
        PROVE  Goal
    <3>1. UNCHANGED <<clients, wsConnections>>
      BY <2>7, OtherSteps
    <3>2. \A q \in Procs : pc[q] # pc'[q] =>
             {pc[q], pc'[q]} \intersect {"added", "deleted", "closed"} = {}
      BY <2>7, OtherSteps
    <3>3. Added' = Added /\ Deleted' = Deleted
      BY <3>2 DEF Added, Deleted
    <3> QED BY <2>0, <3>1, <3>3 DEF Counted
  <2>8. Goal
    BY <2>2, <2>3, <2>4, <2>5, <2>6, <2>7
  <2> QED BY <2>8 DEF Counted, GaugeLags, Added, Deleted
<1> QED BY <1>1, <1>2, HubInvHolds, PTL DEF Spec
-----------------------------------------------------------------------------
\* The last event of p in s, if there is one, is its n-th.
LastIs(p, s, n) ==
    \A i \in DOMAIN s : (s[i].by = p /\ \A k \in DOMAIN s : k > i => s[k].by # p) => s[i].n = n

\* A broadcast reaches a registered client next, or has passed it.
Streams ==
    \A p \in Procs, c \in Clients : writer[c] # "exited" =>
        /\ NoGap(p, Stream(c))
        /\ c \in todo[p] => LastIs(p, Stream(c), published[p] - 1)
        /\ (c \in clients /\ c \notin todo[p] /\ ~ (pc[p] = "removing" /\ victim[p] = c))
               => LastIs(p, Stream(c), published[p])

\* What a step of the writer or a send does to a stream.
LEMMA StreamAppends ==
    ASSUME NEW S, NEW r \in Seq(S), NEW s \in Seq(S), NEW e \in S
    PROVE  r \o Append(s, e) = Append(r \o s, e)
<1>1. /\ Append(s, e) \in Seq(S) /\ Len(Append(s, e)) = Len(s) + 1 /\ Len(r) \in Nat /\ Len(s) \in Nat
      /\ r \o s \in Seq(S) /\ Len(r \o s) = Len(r) + Len(s)
      /\ \A i \in 1..Len(s) : Append(s, e)[i] = s[i]
      /\ Append(s, e)[Len(s) + 1] = e
  BY ConcatProperties, AppendProperties, LenProperties
<1>2. /\ r \o Append(s, e) \in Seq(S) /\ Len(r \o Append(s, e)) = Len(r) + Len(s) + 1
      /\ Append(r \o s, e) \in Seq(S) /\ Len(Append(r \o s, e)) = Len(r) + Len(s) + 1
  BY <1>1, ConcatProperties, AppendProperties
<1>3. ASSUME NEW i \in 1..(Len(r) + Len(s) + 1)
      PROVE  (r \o Append(s, e))[i] = Append(r \o s, e)[i]
  BY <1>1, <1>3, ConcatProperties, AppendProperties
<1> QED BY <1>2, <1>3, SeqEqual

LEMMA StreamTakes ==
    ASSUME NEW S, NEW r \in Seq(S), NEW s \in Seq(S), s # <<>>
    PROVE  r \o <<Head(s)>> \o Tail(s) = r \o <<>> \o s
<1>1. Head(s) \in S /\ Tail(s) \in Seq(S) /\ <<Head(s)>> \in Seq(S)
  BY HeadTailProperties
<1>2. s = <<Head(s)>> \o Tail(s)
  <2>1. <<Head(s)>> \o Tail(s) \in Seq(S) /\ Len(<<Head(s)>> \o Tail(s)) = Len(s)
    BY <1>1, HeadTailProperties, ConcatProperties, LenProperties
  <2>2. ASSUME NEW i \in 1..Len(s) PROVE s[i] = (<<Head(s)>> \o Tail(s))[i]
    BY <1>1, HeadTailProperties, ConcatProperties, LenProperties
  <2> QED BY <2>1, <2>2, SeqEqual
<1>3. r \o <<>> = r
  BY ConcatEmptySeq
<1> QED BY <1>1, <1>2, <1>3, ConcatAssociative

LEMMA StreamWrites ==
    ASSUME NEW S, NEW r \in Seq(S), NEW e \in S
    PROVE  Append(r, e) \o <<>> = r \o <<e>>
<1>1. Append(r, e) \in Seq(S) /\ Append(r, e) = r \o <<e>>
  BY AppendProperties, AppendIsConcat
<1>2. Append(r, e) \o <<>> = Append(r, e)
  BY <1>1, ConcatEmptySeq
<1> QED BY <1>1, <1>2

LEMMA StreamType ==
    ASSUME TypeOK, NEW c \in Clients
    PROVE  Stream(c) \in Seq(Events)
<1>1. (IF inWrite[c] = NoEvent THEN <<>> ELSE <<inWrite[c]>>) \in Seq(Events)
  BY DEF TypeOK
<1> QED BY <1>1, ConcatProperties DEF Stream, TypeOK

LEMMA AppendKeepsOrder ==
    ASSUME NEW s \in Seq(Events), NEW e \in Events, NEW p \in Procs, NoGap(p, s),
           e.by = p => LastIs(p, s, e.n - 1)
    PROVE  NoGap(p, Append(s, e))
<1> DEFINE t == Append(s, e)
<1>1. /\ DOMAIN s = 1..Len(s) /\ DOMAIN t = 1..(Len(s) + 1) /\ Len(s) \in Nat
      /\ t[Len(s) + 1] = e /\ \A i \in 1..Len(s) : t[i] = s[i]
  BY AppendProperties, LenProperties
<1> HIDE DEF t
<1>2. SUFFICES ASSUME NEW i \in DOMAIN t, NEW j \in DOMAIN t, i < j, t[i].by = p, t[j].by = p,
                      \A k \in (i + 1)..(j - 1) : t[k].by # p
               PROVE  t[j].n = t[i].n + 1
  BY DEF NoGap, t
<1>3. CASE j <= Len(s)
  <2>1. i \in DOMAIN s /\ j \in DOMAIN s /\ \A k \in (i + 1)..(j - 1) : s[k] = t[k]
    BY <1>1, <1>2, <1>3
  <2>2. s[i].by = p /\ s[j].by = p /\ \A k \in (i + 1)..(j - 1) : s[k].by # p
    BY <1>1, <1>2, <2>1
  <2>3. s[j].n = s[i].n + 1
    BY <1>2, <2>1, <2>2 DEF NoGap
  <2> QED BY <1>1, <2>1, <2>3
<1>4. CASE j = Len(s) + 1
  <2>1. e.by = p /\ i \in DOMAIN s /\ s[i].by = p /\ \A k \in DOMAIN s : k > i => s[k].by # p
    BY <1>1, <1>2, <1>4
  <2>2. s[i].n = e.n - 1
    BY <2>1 DEF LastIs
  <2>3. e.n \in Nat /\ t[j].n = e.n /\ t[i].n = s[i].n
    BY <1>1, <1>4, <2>1 DEF Events
  <2> QED BY <2>2, <2>3
<1> QED BY <1>1, <1>3, <1>4

LEMMA AppendIsLast ==
    ASSUME NEW s \in Seq(Events), NEW e \in Events
    PROVE  /\ LastIs(e.by, Append(s, e), e.n)
           /\ \A p \in Procs, n \in Int : e.by # p /\ LastIs(p, s, n) => LastIs(p, Append(s, e), n)
<1> DEFINE t == Append(s, e)
<1>1. /\ DOMAIN s = 1..Len(s) /\ DOMAIN t = 1..(Len(s) + 1) /\ Len(s) \in Nat
      /\ t[Len(s) + 1] = e /\ \A i \in 1..Len(s) : t[i] = s[i]
  BY AppendProperties, LenProperties
<1> HIDE DEF t
<1>2. LastIs(e.by, t, e.n)
  BY <1>1 DEF LastIs
<1>3. ASSUME NEW p \in Procs, NEW n \in Int, e.by # p, LastIs(p, s, n) PROVE LastIs(p, t, n)
  BY <1>1, <1>3 DEF LastIs
<1> QED BY <1>2, <1>3 DEF t

\* A step that leaves the streams and the broadcasts alone keeps Streams when
\* it gives no broadcast a client to reach and lets none pass one unsent.
LEMMA StreamsStay ==
    ASSUME Streams,
           \A c \in Clients : writer'[c] # "exited" =>
                writer[c] # "exited" /\ Stream(c)' = Stream(c),
           UNCHANGED published,
           \A p \in Procs, c \in Clients : writer'[c] # "exited" =>
                /\ c \in todo'[p] => c \in todo[p]
                /\ (c \in clients' /\ c \notin todo'[p] /\ ~ (pc'[p] = "removing" /\ victim'[p] = c))
                      => (c \in clients /\ c \notin todo[p] /\ ~ (pc[p] = "removing" /\ victim[p] = c))
    PROVE  Streams'
<1> SUFFICES ASSUME NEW p \in Procs, NEW c \in Clients, writer'[c] # "exited"
             PROVE  /\ NoGap(p, Stream(c)')
                    /\ c \in todo'[p] => LastIs(p, Stream(c)', published'[p] - 1)
                    /\ (c \in clients' /\ c \notin todo'[p] /\ ~ (pc'[p] = "removing" /\ victim'[p] = c))
                           => LastIs(p, Stream(c)', published'[p])
  BY DEF Streams, NoGap, LastIs
<1>1. Stream(c)' = Stream(c) /\ writer[c] # "exited" /\ published' = published
  OBVIOUS
<1> QED BY <1>1 DEF Streams

\* hub.go:61-77 and 88-101: what a client is sent of each publisher has no gap.
THEOREM NoGapInStreams == Spec => []StreamHasNoGap
<1> USE HubAssumption, ClientsAreProcs DEF Goto, Removing
<1>1. Init => Streams
  <2> SUFFICES ASSUME Init, NEW p \in Procs, NEW c \in Clients
               PROVE  NoGap(p, Stream(c)) /\ c \notin todo[p] /\ c \notin clients
    BY DEF Streams
  <2>1. Stream(c) = <<>> \o <<>> \o <<>>
    BY DEF Init, Stream
  <2>2. Stream(c) = <<>>
    BY <2>1
  <2> QED BY <2>2 DEF Init, NoGap
<1>2. Streams /\ TypeOK /\ HubInv /\ [Next]_vars => Streams'
  <2> SUFFICES ASSUME Streams, TypeOK, HubInv, [Next]_vars PROVE Streams'
    OBVIOUS
  <2>1. ASSUME NEW c \in Clients, AddClient(c) PROVE Streams'
    <3>0. /\ UNCHANGED <<send, writer, inWrite, received, todo, published, victim>>
          /\ clients' = clients \union {c}
          /\ \A p \in Procs : pc'[p] = "removing" <=> pc[p] = "removing"
      BY <2>1 DEF AddClient, writerVars, TypeOK
    <3>1. \A d \in Clients : Stream(d)' = Stream(d)
      BY <3>0 DEF Stream
    <3>2. inWrite[c] = NoEvent /\ received[c] = <<>> /\ send[c] = <<>>
      BY <2>1 DEF AddClient, HubInv, Writers, Fresh
    <3>3. Stream(c) = <<>> \o <<>> \o <<>>
      BY <3>2 DEF Stream
    <3>4. Stream(c) = <<>>
      BY <3>3
    <3>5. ASSUME NEW p \in Procs PROVE LastIs(p, Stream(c), published[p])
      BY <3>4 DEF LastIs
    <3>6. SUFFICES ASSUME NEW p \in Procs, NEW d \in Clients, writer'[d] # "exited"
                   PROVE  /\ NoGap(p, Stream(d))
                          /\ d \in todo[p] => LastIs(p, Stream(d), published[p] - 1)
                          /\ (d \in clients' /\ d \notin todo[p] /\ ~ (pc[p] = "removing" /\ victim[p] = d))
                                => LastIs(p, Stream(d), published[p])
      BY <3>0, <3>1 DEF Streams, NoGap, LastIs
    <3> QED BY <3>0, <3>5, <3>6 DEF Streams
  <2>2. ASSUME NEW c \in Clients, AddReturns(c) PROVE Streams'
    <3>1. /\ UNCHANGED <<clients, send, inWrite, received, todo, published, victim>>
          /\ writer' = [writer EXCEPT ![c] = "range"] /\ writer[c] = "none"
          /\ \A p \in Procs : pc'[p] = "removing" <=> pc[p] = "removing"
      BY <2>2 DEF AddReturns, TypeOK, HubInv, Writers
    <3>2. \A d \in Clients : Stream(d)' = Stream(d) /\ (writer'[d] # "exited" => writer[d] # "exited")
      BY <3>1 DEF Stream, TypeOK
    <3> QED BY <3>1, <3>2, StreamsStay
  <2>3. ASSUME NEW p \in Procs, Snapshot(p) PROVE Streams'
    <3>0. /\ UNCHANGED <<clients, send, writer, inWrite, received, victim>>
          /\ todo' = [todo EXCEPT ![p] = clients] /\ published' = [published EXCEPT ![p] = @ + 1]
          /\ todo[p] = {} /\ pc[p] # "removing"
          /\ \A q \in Procs : pc'[q] = "removing" <=> pc[q] = "removing"
      BY <2>3 DEF Snapshot, writerVars, TypeOK, HubInv, Calls
    <3>1. \A d \in Clients : Stream(d)' = Stream(d)
      BY <3>0 DEF Stream
    <3>2. SUFFICES ASSUME NEW q \in Procs, NEW d \in Clients, writer[d] # "exited"
                   PROVE  /\ NoGap(q, Stream(d))
                          /\ d \in todo'[q] => LastIs(q, Stream(d), published'[q] - 1)
                          /\ (d \in clients /\ d \notin todo'[q] /\ ~ (pc[q] = "removing" /\ victim[q] = d))
                                => LastIs(q, Stream(d), published'[q])
      BY <3>0, <3>1 DEF Streams, NoGap, LastIs
    <3>3. CASE q = p
      <4>1. todo'[q] = clients /\ published'[q] = published[q] + 1 /\ published[q] \in Nat
        BY <3>0, <3>3 DEF TypeOK
      <4>2. published'[q] - 1 = published[q]
        BY <4>1
      <4> QED BY <3>0, <3>2, <3>3, <4>1, <4>2 DEF Streams
    <3>4. CASE q # p
      <4>1. todo'[q] = todo[q] /\ published'[q] = published[q]
        BY <3>0, <3>4 DEF TypeOK
      <4> QED BY <3>2, <4>1 DEF Streams
    <3> QED BY <3>3, <3>4
  <2>4. ASSUME NEW p \in Procs, NEW c \in Clients, SendBuffered(p, c) PROVE Streams'
    <3>0. /\ UNCHANGED <<clients, writer, inWrite, received, victim, published, pc>>
          /\ send' = [send EXCEPT ![c] = Append(@, event[p])]
          /\ todo' = [todo EXCEPT ![p] = @ \ {c}] /\ c \in todo[p] /\ pc[p] = "sending"
          /\ event[p] = [by |-> p, n |-> published[p]] /\ published[p] \in Nat
          /\ event[p] \in Events
      BY <2>4 DEF SendBuffered, writerVars, TypeOK, HubInv, Calls, Events
    <3>1. ASSUME NEW d \in Clients, d # c PROVE Stream(d)' = Stream(d)
      <4>1. send'[d] = send[d]
        BY <3>0, <3>1 DEF TypeOK
      <4> QED BY <3>0, <4>1 DEF Stream
    <3>2. Stream(c)' = Append(Stream(c), event[p])
      <4> DEFINE out == received[c] \o (IF inWrite[c] = NoEvent THEN <<>> ELSE <<inWrite[c]>>)
      <4>1. send[c] \in Seq(Events) /\ received[c] \in Seq(Events)
            /\ (IF inWrite[c] = NoEvent THEN <<>> ELSE <<inWrite[c]>>) \in Seq(Events)
        BY DEF TypeOK
      <4>2. Stream(c)' = out \o Append(send[c], event[p]) /\ Stream(c) = out \o send[c]
        BY <3>0 DEF Stream, TypeOK
      <4>3. ASSUME NEW r \in Seq(Events), NEW s \in Seq(Events), NEW e \in Events
            PROVE  r \o Append(s, e) = Append(r \o s, e)
        BY StreamAppends
      <4>4. out \in Seq(Events)
        BY <4>1, ConcatProperties
      <4> HIDE DEF out
      <4> QED BY <3>0, <4>1, <4>2, <4>3, <4>4
    <3>3. SUFFICES ASSUME NEW q \in Procs, NEW d \in Clients, writer[d] # "exited"
                   PROVE  /\ NoGap(q, Stream(d)')
                          /\ d \in todo'[q] => LastIs(q, Stream(d)', published[q] - 1)
                          /\ (d \in clients /\ d \notin todo'[q] /\ ~ (pc[q] = "removing" /\ victim[q] = d))
                                => LastIs(q, Stream(d)', published[q])
      BY <3>0 DEF Streams, NoGap, LastIs
    <3>4. CASE d # c
      <4>1. d \in todo'[q] <=> d \in todo[q]
        BY <3>0, <3>4 DEF TypeOK
      <4> QED BY <3>1, <3>3, <3>4, <4>1 DEF Streams
    <3>5. CASE d = c /\ q = p
      <4>1. NoGap(p, Stream(c)) /\ LastIs(p, Stream(c), published[p] - 1)
        BY <3>0, <3>3, <3>5 DEF Streams
      <4>2. Stream(c) \in Seq(Events) /\ event[p].by = p /\ event[p].n = published[p]
        BY <3>0, StreamType
      <4>3. NoGap(p, Stream(c)')
        BY <3>0, <3>2, <4>1, <4>2, AppendKeepsOrder
      <4>4. LastIs(p, Stream(c)', published[p])
        BY <3>0, <3>2, <4>2, AppendIsLast
      <4>5. d \notin todo'[q]
        BY <3>0, <3>5 DEF TypeOK
      <4> QED BY <3>5, <4>3, <4>4, <4>5
    <3>6. CASE d = c /\ q # p
      <4>1. todo'[q] = todo[q] /\ published[q] \in Int /\ published[q] - 1 \in Int
        BY <3>0, <3>6 DEF TypeOK
      <4>2. Stream(c) \in Seq(Events) /\ event[p].by # q
        BY <3>0, <3>6, StreamType
      <4>3. NoGap(q, Stream(c)')
        BY <3>0, <3>2, <3>3, <3>6, <4>2, AppendKeepsOrder DEF Streams
      <4>4. \A n \in Int : LastIs(q, Stream(c), n) => LastIs(q, Stream(c)', n)
        BY <3>0, <3>2, <4>2, AppendIsLast
      <4> QED BY <3>3, <3>6, <4>1, <4>3, <4>4 DEF Streams
    <3> QED BY <3>4, <3>5, <3>6
  <2>5. ASSUME NEW p \in Procs, NEW c \in Clients, SendSlow(p, c) PROVE Streams'
    <3>1. /\ UNCHANGED <<clients, send, writer, inWrite, received, published>>
          /\ todo' = [todo EXCEPT ![p] = @ \ {c}] /\ pc[p] = "sending"
          /\ pc' = [pc EXCEPT ![p] = "removing"] /\ victim' = [victim EXCEPT ![p] = c]
      BY <2>5 DEF SendSlow, writerVars
    <3>2. \A d \in Clients : Stream(d)' = Stream(d)
      BY <3>1 DEF Stream
    <3>3. ASSUME NEW q \in Procs, NEW d \in Clients
          PROVE  /\ d \in todo'[q] => d \in todo[q]
                 /\ (d \in clients' /\ d \notin todo'[q] /\ ~ (pc'[q] = "removing" /\ victim'[q] = d))
                      => (d \in clients /\ d \notin todo[q] /\ ~ (pc[q] = "removing" /\ victim[q] = d))
      BY <3>1 DEF TypeOK
    <3> QED BY <3>1, <3>2, <3>3, StreamsStay
  <2>6. ASSUME NEW p \in Procs, (\E c \in Clients : SendPanics(p, c)) \/ BroadcastReturns(p)
        PROVE  Streams'
    <3>1. /\ UNCHANGED <<clients, send, writer, inWrite, received, published, todo, victim>>
          /\ \A q \in Procs : pc'[q] = "removing" <=> pc[q] = "removing"
      BY <2>6 DEF SendPanics, BroadcastReturns, writerVars, TypeOK
    <3>2. \A d \in Clients : Stream(d)' = Stream(d)
      BY <3>1 DEF Stream
    <3> QED BY <3>1, <3>2, StreamsStay
  <2>7. ASSUME NEW c \in Clients, ReadLoopEnds(c) PROVE Streams'
    <3>1. /\ UNCHANGED <<clients, send, writer, inWrite, received, published, todo>>
          /\ pc[c] = "reading" /\ \A q \in Procs \ {c} : pc'[q] = pc[q] /\ victim'[q] = victim[q]
      BY <2>7 DEF ReadLoopEnds, writerVars, TypeOK
    <3>2. \A d \in Clients : Stream(d)' = Stream(d)
      BY <3>1 DEF Stream
    <3> QED BY <3>1, <3>2, StreamsStay
  <2>8. ASSUME NEW p \in Procs, RemoveSteps(p) PROVE Streams'
    <3>1. /\ UNCHANGED <<send, writer, inWrite, received, published, todo>>
          /\ pc[p] \in Removing /\ \A q \in Procs \ {p} : pc'[q] = pc[q] /\ victim'[q] = victim[q]
      BY <2>8 DEF RemoveSteps, RemoveGone, RemoveDeletes, RemoveClosesSend, RemoveClosesConn,
                  RemoveReturns, writerVars, TypeOK
    <3>2. /\ clients' \subseteq clients
          /\ \A d \in clients' : pc[p] = "removing" => victim[p] # d
      BY <2>8 DEF RemoveSteps, RemoveGone, RemoveDeletes, RemoveClosesSend, RemoveClosesConn
    <3>3. \A d \in Clients : Stream(d)' = Stream(d)
      BY <3>1 DEF Stream
    <3> QED BY <3>1, <3>2, <3>3, StreamsStay
  <2>9. ASSUME NEW c \in Clients, WriterSteps(c) PROVE Streams'
    <3>1. /\ UNCHANGED <<clients, published, todo, pc, victim>>
          /\ \A d \in Clients \ {c} : /\ writer'[d] = writer[d] /\ send'[d] = send[d]
                                      /\ inWrite'[d] = inWrite[d] /\ received'[d] = received[d]
      BY <2>9 DEF WriterSteps, WriterTakes, WriterWrites, WriterFails, WriterEnds, callVars, TypeOK
    <3>2. \A d \in Clients \ {c} : Stream(d)' = Stream(d)
      BY <3>1 DEF Stream
    <3>3. writer'[c] # "exited" => writer[c] # "exited" /\ Stream(c)' = Stream(c)
      <4>1. CASE WriterTakes(c)
        <5>1. /\ writer[c] = "range" /\ inWrite[c] = NoEvent /\ Head(send[c]) # NoEvent
              /\ send[c] \in Seq(Events) /\ received[c] \in Seq(Events) /\ send[c] # <<>>
          <6>1. writer[c] = "range" /\ send[c] # <<>> /\ send[c] \in Seq(Events) /\ received[c] \in Seq(Events)
            BY <4>1 DEF WriterTakes, TypeOK
          <6>2. Head(send[c]) = send[c][1] /\ 1 \in DOMAIN send[c]
            BY <6>1
          <6> QED BY <6>1, <6>2 DEF HubInv, Writers, NoEvent
        <5>2. received'[c] = received[c] /\ inWrite'[c] = Head(send[c]) /\ send'[c] = Tail(send[c])
          BY <4>1 DEF WriterTakes, TypeOK
        <5>3. Stream(c)' = received[c] \o <<Head(send[c])>> \o Tail(send[c])
              /\ Stream(c) = received[c] \o <<>> \o send[c]
          BY <5>1, <5>2 DEF Stream
        <5> QED BY <5>1, <5>3, StreamTakes
      <4>2. CASE WriterWrites(c)
        <5>1. /\ writer[c] = "write" /\ inWrite[c] # NoEvent /\ inWrite[c] \in Events
              /\ send[c] \in Seq(Events) /\ received[c] \in Seq(Events)
          BY <4>2 DEF WriterWrites, TypeOK, HubInv, Writers
        <5>2. /\ received'[c] = Append(received[c], inWrite[c]) /\ inWrite'[c] = NoEvent
              /\ send'[c] = send[c]
          BY <4>2 DEF WriterWrites, TypeOK
        <5>3. Stream(c)' = Append(received[c], inWrite[c]) \o <<>> \o send[c]
              /\ Stream(c) = received[c] \o <<inWrite[c]>> \o send[c]
          BY <5>1, <5>2 DEF Stream
        <5>4. Append(received[c], inWrite[c]) \o <<>> = received[c] \o <<inWrite[c]>>
          BY <5>1, StreamWrites
        <5> QED BY <5>1, <5>3, <5>4
      <4>3. CASE WriterFails(c) \/ WriterEnds(c)
        BY <4>3 DEF WriterFails, WriterEnds, TypeOK
      <4> QED BY <2>9, <4>1, <4>2, <4>3 DEF WriterSteps
    <3> QED BY <3>1, <3>2, <3>3, StreamsStay
  <2>10. CASE UNCHANGED vars
    <3>1. \A d \in Clients : Stream(d)' = Stream(d)
      BY <2>10 DEF Stream, vars, writerVars
    <3> QED BY <2>10, <3>1, StreamsStay DEF vars, writerVars, callVars
  <2> QED BY <2>1, <2>2, <2>3, <2>4, <2>5, <2>6, <2>7, <2>8, <2>9, <2>10 DEF Next, BroadcastSteps
<1>3. Streams => StreamHasNoGap
  BY DEF Streams, StreamHasNoGap
<1> QED BY <1>1, <1>2, <1>3, HubInvHolds, PTL DEF Spec
==============================================================================
