-------------------------- MODULE CommandQueueProofs --------------------------
(***************************************************************************)
(* Proofs about CommandQueue for any number of generations, stoppers and   *)
(* commands and any depth.                                                 *)
(***************************************************************************)
EXTENDS CommandQueue, TLAPS

\* What pop leaves and takes.
LEMMA PopTypes ==
    ASSUME NEW S, NEW s \in Seq(S), s # <<>>
    PROVE  /\ Head(s) \in S
           /\ Tail(s) \in Seq(S)
           /\ Len(Tail(s)) = Len(s) - 1
           /\ Len(s) \in Nat \ {0}
           /\ Head(s) = s[1]
           /\ \A i \in 1..(Len(s) - 1) : Tail(s)[i] = s[i + 1]
  OBVIOUS

\* The elements of a sequence after an append and in the empty sequence.
LEMMA ElementsOf ==
    /\ Elements(<<>>) = {}
    /\ \A S : \A s \in Seq(S) : Elements(s) \in SUBSET S
    /\ \A S : \A s \in Seq(S), x \in S :
        Elements(Append(s, x)) = Elements(s) \union {x}
<1>1. Elements(<<>>) = {}
  BY DEF Elements
<1>2. ASSUME NEW S, NEW s \in Seq(S) PROVE Elements(s) \in SUBSET S
  BY DEF Elements
<1>3. ASSUME NEW S, NEW s \in Seq(S), NEW x \in S
      PROVE  Elements(Append(s, x)) = Elements(s) \union {x}
  <2>1. /\ DOMAIN Append(s, x) = DOMAIN s \union {Len(s) + 1}
        /\ \A i \in DOMAIN s : Append(s, x)[i] = s[i]
        /\ Append(s, x)[Len(s) + 1] = x
    OBVIOUS
  <2>2. QED
    BY <2>1 DEF Elements
<1>4. QED
  BY <1>1, <1>2, <1>3

\* The queue's fields, its goroutines and its histories keep their types, and
\* the queue its bound, in every step of Start, Enqueue, StopAndDrop and run.
THEOREM TypeCorrect == Spec => []TypeOK
<1>1. ASSUME Init PROVE TypeOK
  <2>1. commands \in Seq(Cmds) /\ sent \in Seq(Cmds) /\ Len(commands) <= MaxDepth
    BY <1>1, QueueAssumption DEF Init
  <2>2. running \in BOOLEAN
    BY <1>1 DEF Init
  <2>3. QED
    BY <1>1, <2>1, <2>2, QueueAssumption DEF Init, TypeOK
<1>2. TypeOK /\ [Next]_queueVars => TypeOK'
  <2> SUFFICES ASSUME TypeOK, [Next]_queueVars PROVE TypeOK'
    OBVIOUS
  <2> USE QueueAssumption DEF TypeOK
  <2>1. ASSUME NEW g \in Gens, Start(g) PROVE TypeOK'
    BY <2>1 DEF Start
  <2>2. CASE Enqueue
    <3>1. commands' \in Seq(Cmds) /\ Len(commands') <= MaxDepth
      BY <2>2 DEF Enqueue, Cmds
    <3>2. QED
      BY <2>2, <3>1 DEF Enqueue
  <2>3. ASSUME NEW p \in Stoppers, StopAndDrop(p) PROVE TypeOK'
    <3>1. /\ commands' \in Seq(Cmds)
          /\ Len(commands') <= MaxDepth
          /\ Len(commands) \in Nat
      BY <2>3 DEF StopAndDrop
    <3>2. dropped' \in SUBSET Cmds
      BY <2>3, ElementsOf DEF StopAndDrop
    <3>3. running' \in BOOLEAN
      BY <2>3 DEF StopAndDrop
    <3>4. CASE running
      <4>1. /\ current' = NoGen
            /\ closedStop' = closedStop \union {current}
            /\ waitsFor' = [waitsFor EXCEPT ![p] = current]
            /\ counted' = [counted EXCEPT ![p] = Len(commands)]
            /\ UNCHANGED <<sender, popped, accepted, sent, failed, droppedMetric>>
        BY <2>3, <3>4 DEF StopAndDrop
      <4>2. closedStop' \in SUBSET Gens
        BY <3>4, <4>1
      <4>3. ~running'
        BY <2>3, <3>4 DEF StopAndDrop
      <4>4. waitsFor' \in [Stoppers -> Gens \union {NoGen}]
        BY <3>4, <4>1
      <4>5. QED
        BY <3>1, <3>2, <3>3, <4>1, <4>2, <4>3, <4>4
    <3>5. CASE ~running
      BY <2>3, <3>1, <3>2, <3>5 DEF StopAndDrop
    <3>6. QED
      BY <3>4, <3>5
  <2>4. ASSUME NEW p \in Stoppers, SenderDone(p) PROVE TypeOK'
    BY <2>4 DEF SenderDone
  <2>5. ASSUME NEW g \in Gens, Tick(g) PROVE TypeOK'
    <3>1. /\ commands' \in Seq(Cmds)
          /\ Len(commands') <= MaxDepth
          /\ Head(commands) \in Cmds
      BY <2>5, PopTypes DEF Tick
    <3>2. /\ popped' \in [Gens -> 0..MaxCmds]
          /\ popped'[g] # 0
          /\ \A h \in Gens \ {g} : popped'[h] = popped[h]
      BY <2>5, <3>1 DEF Tick, Cmds
    <3>3. QED
      BY <2>5, <3>1, <3>2 DEF Tick
  <2>6. ASSUME NEW g \in Gens, SendReturns(g),
               sent' \in Seq(Cmds), failed' \in SUBSET Cmds
        PROVE  TypeOK'
    BY <2>6 DEF SendReturns
  <2>7. ASSUME NEW g \in Gens, SendReturns(g) PROVE popped[g] \in Cmds
    BY <2>7 DEF SendReturns, Cmds
  <2>8. ASSUME NEW g \in Gens, SendSucceeds(g) PROVE TypeOK'
    BY <2>6, <2>7, <2>8 DEF SendSucceeds
  <2>9. ASSUME NEW g \in Gens, SendFails(g) PROVE TypeOK'
    BY <2>6, <2>7, <2>9 DEF SendFails
  <2>10. ASSUME NEW g \in Gens, StopSeen(g) PROVE TypeOK'
    BY <2>10 DEF StopSeen
  <2>11. CASE UNCHANGED queueVars
    BY <2>11 DEF queueVars
  <2>12. QED
    BY <2>1, <2>2, <2>3, <2>4, <2>5, <2>8, <2>9, <2>10, <2>11
    DEF Next, SenderStep, EnqueueRejected
<1>3. QED
  BY <1>1, <1>2, PTL DEF Spec

\* Start and StopAndDrop hand over the stop channels so that exactly the
\* goroutine whose channels the queue holds has not been told to stop.
THEOREM SenderDiscipline == Spec => []OneSenderToStop
<1>1. Init => OneSenderToStop
  BY QueueAssumption, Zenon DEF Init, OneSenderToStop, Live
<1>2. TypeOK /\ OneSenderToStop /\ [Next]_queueVars => OneSenderToStop'
  <2> SUFFICES ASSUME TypeOK, OneSenderToStop, [Next]_queueVars
               PROVE  OneSenderToStop'
    OBVIOUS
  <2> USE QueueAssumption DEF OneSenderToStop, Live
  <2>1. ASSUME NEW g \in Gens, Start(g) PROVE OneSenderToStop'
    BY <2>1 DEF Start, TypeOK
  <2>2. ASSUME NEW p \in Stoppers, StopAndDrop(p) PROVE OneSenderToStop'
    BY <2>2 DEF StopAndDrop, TypeOK
  <2>3. ASSUME NEW g \in Gens, Tick(g) \/ SendReturns(g) \/ StopSeen(g)
        PROVE  OneSenderToStop'
    <3>1. sender[g] \in {"select", "sending"} /\ UNCHANGED <<running, current, closedStop>>
      BY <2>3 DEF Tick, SendReturns, StopSeen
    <3>2. /\ \A h \in Gens \ {g} : sender'[h] = sender[h]
          /\ sender'[g] \in {"select", "sending"}
             \/ (sender'[g] = "exited" /\ g \in closedStop)
      BY <2>3 DEF Tick, SendReturns, StopSeen, TypeOK
    <3>3. QED
      BY <3>1, <3>2 DEF TypeOK
  <2>4. CASE \/ Enqueue \/ \E p \in Stoppers : SenderDone(p)
             \/ UNCHANGED queueVars
    BY <2>4 DEF Enqueue, SenderDone, queueVars
  <2>5. QED
    BY <2>1, <2>2, <2>3, <2>4
    DEF Next, SenderStep, SendSucceeds, SendFails, EnqueueRejected
<1>3. QED
  BY <1>1, <1>2, TypeCorrect, PTL DEF Spec

\* A StopAndDrop waits for a goroutine that was told to stop, and no two of
\* them wait for the same one.
THEOREM StoppersWait == Spec => []WaitsForStopped
<1>1. Init => WaitsForStopped
  BY DEF Init, WaitsForStopped
<1>2. /\ TypeOK /\ OneSenderToStop /\ WaitsForStopped /\ [Next]_queueVars
      => WaitsForStopped'
  <2> SUFFICES ASSUME TypeOK, OneSenderToStop, WaitsForStopped, [Next]_queueVars
               PROVE  WaitsForStopped'
    OBVIOUS
  <2> USE QueueAssumption DEF WaitsForStopped
  <2>1. ASSUME NEW g \in Gens, Start(g) PROVE WaitsForStopped'
    BY <2>1 DEF Start, TypeOK
  <2>2. ASSUME NEW p \in Stoppers, StopAndDrop(p) PROVE WaitsForStopped'
    <3>1. CASE running
      <4>1. current \in Gens /\ current \notin closedStop /\ sender[current] # "none"
        BY <3>1 DEF OneSenderToStop, Live, TypeOK
      <4>2. /\ closedStop' = closedStop \union {current}
            /\ waitsFor' = [waitsFor EXCEPT ![p] = current]
            /\ sender' = sender
        BY <2>2, <3>1 DEF StopAndDrop
      <4>3. QED
        BY <4>1, <4>2 DEF TypeOK
    <3>2. CASE ~running
      BY <2>2, <3>2 DEF StopAndDrop
    <3>3. QED
      BY <3>1, <3>2
  <2>3. ASSUME NEW p \in Stoppers, SenderDone(p) PROVE WaitsForStopped'
    BY <2>3 DEF SenderDone, TypeOK
  <2>4. ASSUME NEW g \in Gens, Tick(g) \/ SendReturns(g) \/ StopSeen(g)
        PROVE  WaitsForStopped'
    BY <2>4 DEF Tick, SendReturns, StopSeen, TypeOK
  <2>5. CASE Enqueue \/ UNCHANGED queueVars
    BY <2>5 DEF Enqueue, queueVars
  <2>6. QED
    BY <2>1, <2>2, <2>3, <2>4, <2>5
    DEF Next, SenderStep, SendSucceeds, SendFails, EnqueueRejected
<1>3. QED
  BY <1>1, <1>2, TypeCorrect, SenderDiscipline, PTL DEF Spec

\* What a sender's steps do to the set of commands in a sender's hand.
LEMMA HandAfter ==
    ASSUME TypeOK, EachCommandOneFate, NEW g \in Gens
    PROVE  /\ Tick(g) => InHand' = InHand \union {Head(commands)}
           /\ SendReturns(g) => /\ popped[g] \in InHand
                                /\ InHand' = InHand \ {popped[g]}
           /\ Start(g) \/ StopSeen(g) => InHand' = InHand
<1>1. ASSUME Tick(g) PROVE InHand' = InHand \union {Head(commands)}
  <2>1. /\ sender'[g] = "sending" /\ popped'[g] = Head(commands)
        /\ sender[g] = "select"
        /\ \A h \in Gens \ {g} : sender'[h] = sender[h] /\ popped'[h] = popped[h]
    BY <1>1 DEF Tick, TypeOK
  <2>2. QED
    BY <2>1 DEF InHand
<1>2. ASSUME SendReturns(g)
      PROVE  popped[g] \in InHand /\ InHand' = InHand \ {popped[g]}
  <2>1. /\ sender[g] = "sending" /\ sender'[g] = "select"
        /\ \A h \in Gens \ {g} : sender'[h] = sender[h] /\ popped'[h] = popped[h]
    BY <1>2 DEF SendReturns, TypeOK
  <2>2. \A h \in Gens \ {g} : sender[h] = "sending" => popped[h] # popped[g]
    BY <2>1 DEF EachCommandOneFate
  <2>3. QED
    BY <2>1, <2>2 DEF InHand
<1>3. ASSUME Start(g) \/ StopSeen(g) PROVE InHand' = InHand
  <2>1. /\ popped' = popped
        /\ \A h \in Gens : sender'[h] = "sending" <=> sender[h] = "sending"
    BY <1>3 DEF Start, StopSeen, TypeOK
  <2>2. QED
    BY <2>1 DEF InHand
<1>4. QED
  BY <1>1, <1>2, <1>3

\* The waiting commands are the latest accepted ones.
LEMMA WaitingCommands ==
    ASSUME TypeOK, EachCommandOneFate
    PROVE  /\ accepted \in Nat /\ Len(commands) \in Nat
           /\ accepted - Len(commands) \in Nat
           /\ Elements(commands) = (accepted - Len(commands) + 1)..accepted
<1>1. accepted \in Nat /\ Len(commands) \in Nat
  BY QueueAssumption DEF TypeOK
<1>2. accepted - Len(commands) \in Nat
  <2>1. CASE Len(commands) = 0
    BY <1>1, <2>1
  <2>2. CASE Len(commands) # 0
    <3>1. 1 \in DOMAIN commands /\ commands[1] \in Cmds
      BY <1>1, <2>2 DEF TypeOK
    <3>2. commands[1] = accepted - Len(commands) + 1
      BY <3>1 DEF EachCommandOneFate
    <3>3. QED
      BY <1>1, <3>1, <3>2, QueueAssumption DEF Cmds
  <2>3. QED
    BY <2>1, <2>2
<1>3. DOMAIN commands = 1..Len(commands)
  BY DEF TypeOK
<1>4. \A i \in DOMAIN commands : commands[i] = accepted - Len(commands) + i
  BY DEF EachCommandOneFate
<1>5. ASSUME NEW k \in (accepted - Len(commands) + 1)..accepted
      PROVE  k \in Elements(commands)
  <2>1. k - (accepted - Len(commands)) \in DOMAIN commands
    BY <1>1, <1>2, <1>3
  <2>2. commands[k - (accepted - Len(commands))] = k
    BY <1>1, <1>2, <1>4, <2>1
  <2>3. QED
    BY <2>1, <2>2 DEF Elements
<1>6. ASSUME NEW k \in Elements(commands)
      PROVE  k \in (accepted - Len(commands) + 1)..accepted
  BY <1>1, <1>2, <1>3, <1>4 DEF Elements
<1>7. QED
  BY <1>1, <1>2, <1>5, <1>6

\* Whatever overlaps, an accepted command has exactly one place: it waits in
\* order, is in one sender's hand, was sent once, failed or was dropped.
THEOREM OneFate == Spec => []EachCommandOneFate
<1>1. Init => EachCommandOneFate
  <2> SUFFICES ASSUME Init PROVE EachCommandOneFate
    OBVIOUS
  <2>1. InHand = {} /\ Elements(sent) = {} /\ failed = {} /\ dropped = {}
    BY ElementsOf DEF Init, InHand
  <2>2. accepted = 0 /\ Len(commands) = 0 /\ 1..(0 - 0) = {}
    BY DEF Init
  <2>3. QED
    BY <2>1, <2>2 DEF Init, EachCommandOneFate
<1>2. TypeOK /\ EachCommandOneFate /\ [Next]_queueVars => EachCommandOneFate'
  <2> SUFFICES ASSUME TypeOK, EachCommandOneFate, [Next]_queueVars
               PROVE  EachCommandOneFate'
    OBVIOUS
  <2> DEFINE settled == accepted - Len(commands)
  <2>0. /\ accepted \in Nat /\ Len(commands) \in Nat /\ settled \in Nat
        /\ Elements(commands) = (settled + 1)..accepted
    BY WaitingCommands
  <2>1. CASE Enqueue
    <3>1. /\ accepted' = accepted + 1
          /\ Len(commands') = Len(commands) + 1
          /\ \A i \in DOMAIN commands' :
                commands'[i] = IF i = Len(commands) + 1 THEN accepted + 1
                                                        ELSE commands[i]
          /\ DOMAIN commands' = 1..(Len(commands) + 1)
          /\ DOMAIN commands = 1..Len(commands)
      BY <2>1 DEF Enqueue, TypeOK, Cmds
    <3>2. settled' = settled
      BY <2>0, <3>1
    <3>3. \A i \in DOMAIN commands' : commands'[i] = settled' + i
      BY <2>0, <3>1, <3>2 DEF EachCommandOneFate
    <3>4. /\ InHand' = InHand
          /\ UNCHANGED <<sender, popped, sent, failed, dropped>>
      BY <2>1 DEF Enqueue, InHand
    <3>5. QED
      BY <3>2, <3>3, <3>4 DEF EachCommandOneFate, Elements
  <2>2. ASSUME NEW p \in Stoppers, StopAndDrop(p) PROVE EachCommandOneFate'
    <3>1. /\ commands' = <<>> /\ accepted' = accepted
          /\ dropped' = dropped \union Elements(commands)
          /\ UNCHANGED <<sender, popped, sent, failed>>
      BY <2>2 DEF StopAndDrop
    <3>2. settled' = accepted /\ InHand' = InHand
      BY <2>0, <3>1 DEF InHand
    <3>3. /\ (1..settled) \union Elements(commands) = 1..accepted
          /\ (1..settled) \intersect Elements(commands) = {}
      BY <2>0, WaitingCommands
    <3>4. QED
      BY <3>1, <3>2, <3>3 DEF EachCommandOneFate, Elements
  <2>3. ASSUME NEW g \in Gens, Tick(g) PROVE EachCommandOneFate'
    <3>1. commands # <<>> /\ commands \in Seq(Cmds) /\ commands' = Tail(commands)
      BY <2>3 DEF Tick, TypeOK
    <3>2. /\ Len(commands') = Len(commands) - 1
          /\ DOMAIN commands' = 1..(Len(commands) - 1)
          /\ DOMAIN commands = 1..Len(commands)
          /\ \A i \in DOMAIN commands' : commands'[i] = commands[i + 1]
          /\ Head(commands) = commands[1]
          /\ 1 \in DOMAIN commands
      BY <3>1, PopTypes
    <3>3. /\ accepted' = accepted
          /\ UNCHANGED <<sent, failed, dropped>>
          /\ popped'[g] = Head(commands) /\ sender'[g] = "sending"
          /\ \A h \in Gens \ {g} : sender'[h] = sender[h] /\ popped'[h] = popped[h]
      BY <2>3 DEF Tick, TypeOK
    <3>4. settled' = settled + 1 /\ Head(commands) = settled + 1
      BY <2>0, <3>2, <3>3 DEF EachCommandOneFate
    <3>5. \A i \in DOMAIN commands' : commands'[i] = settled' + i
      BY <2>0, <3>2, <3>4 DEF EachCommandOneFate
    <3>6. InHand' = InHand \union {settled + 1}
      BY <2>3, <3>4, HandAfter
    <3>7. /\ 1..settled' = (1..settled) \union {settled + 1}
          /\ settled + 1 \notin 1..settled
      BY <2>0, <3>4
    <3>8. \A h \in Gens : sender[h] = "sending" => popped[h] \in 1..settled
      BY DEF EachCommandOneFate, InHand
    <3>9. QED
      BY <3>3, <3>4, <3>5, <3>6, <3>7, <3>8 DEF EachCommandOneFate, Elements
  <2>4. ASSUME NEW g \in Gens, SendReturns(g),
               \/ sent' = Append(sent, popped[g]) /\ failed' = failed
               \/ failed' = failed \union {popped[g]} /\ sent' = sent
        PROVE  EachCommandOneFate'
    <3>1. /\ UNCHANGED <<commands, accepted, dropped>>
          /\ sender'[g] = "select"
          /\ \A h \in Gens \ {g} : sender'[h] = sender[h] /\ popped'[h] = popped[h]
      BY <2>4 DEF SendReturns, TypeOK
    <3>2. popped[g] \in InHand /\ InHand' = InHand \ {popped[g]}
      BY <2>4, HandAfter
    <3>3. CASE sent' = Append(sent, popped[g]) /\ failed' = failed
      <4>1. sent \in Seq(Cmds) /\ popped[g] \in Cmds
        BY <2>4 DEF TypeOK, SendReturns, Cmds
      <4>2. Elements(sent') = Elements(sent) \union {popped[g]}
        BY <3>3, <4>1, ElementsOf
      <4>3. popped[g] \notin Elements(sent)
        BY <3>2 DEF EachCommandOneFate
      <4>4. /\ DOMAIN sent' = DOMAIN sent \union {Len(sent) + 1}
            /\ sent'[Len(sent) + 1] = popped[g]
            /\ \A i \in DOMAIN sent : sent'[i] = sent[i]
        BY <3>3, <4>1
      <4>5. \A i, j \in DOMAIN sent' : sent'[i] = sent'[j] => i = j
        BY <4>3, <4>4 DEF EachCommandOneFate, Elements
      <4>6. QED
        BY <3>1, <3>2, <3>3, <4>2, <4>5 DEF EachCommandOneFate
    <3>4. CASE failed' = failed \union {popped[g]} /\ sent' = sent
      BY <3>1, <3>2, <3>4 DEF EachCommandOneFate, Elements
    <3>5. QED
      BY <2>4, <3>3, <3>4
  <2>5. ASSUME NEW g \in Gens, Start(g) \/ StopSeen(g)
        PROVE  EachCommandOneFate'
    <3>1. InHand' = InHand
      BY <2>5, HandAfter
    <3>2. /\ UNCHANGED <<commands, accepted, popped, sent, failed, dropped>>
          /\ \A h \in Gens : sender'[h] = "sending" => sender[h] = "sending"
      BY <2>5 DEF Start, StopSeen, TypeOK
    <3>3. QED
      BY <3>1, <3>2 DEF EachCommandOneFate, Elements
  <2>6. CASE (\E p \in Stoppers : SenderDone(p)) \/ UNCHANGED queueVars
    BY <2>6 DEF SenderDone, queueVars, EachCommandOneFate, InHand, Elements
  <2>7. QED
    BY <2>1, <2>2, <2>3, <2>4, <2>5, <2>6
    DEF Next, SenderStep, SendSucceeds, SendFails, EnqueueRejected
<1>3. QED
  BY <1>1, <1>2, TypeCorrect, PTL DEF Spec

\* The queue implements the ledger: each step of Start, Enqueue, StopAndDrop,
\* pop and the sender function is a step of the ledger or invisible to it.
THEOREM QueueImplementsLedger == Spec => ImplementsLedger
<1>1. Init => Ledger!Init
  BY DEF Init, Ledger!Init, InHand
<1>2. TypeOK /\ EachCommandOneFate /\ [Next]_queueVars
      => [Ledger!Next]_Ledger!vars
  <2> SUFFICES ASSUME TypeOK, EachCommandOneFate, [Next]_queueVars
               PROVE  [Ledger!Next]_Ledger!vars
    OBVIOUS
  <2>1. ASSUME Enqueue PROVE Ledger!Accept
    BY <2>1 DEF Enqueue, Ledger!Accept, InHand
  <2>2. ASSUME NEW p \in Stoppers, StopAndDrop(p)
        PROVE  Ledger!DropAll \/ UNCHANGED Ledger!vars
    <3>1. /\ dropped' = dropped \union Elements(commands)
          /\ commands' = <<>>
          /\ InHand' = InHand
          /\ UNCHANGED <<accepted, sent, failed>>
      BY <2>2 DEF StopAndDrop, InHand
    <3>2. CASE commands # <<>>
      BY <3>1, <3>2 DEF Ledger!DropAll, Ledger!Elements, Elements
    <3>3. CASE commands = <<>>
      BY <3>1, <3>3, ElementsOf DEF Ledger!vars
    <3>4. QED
      BY <3>2, <3>3
  <2>3. ASSUME NEW g \in Gens, Tick(g) PROVE Ledger!Take
    <3>1. InHand' = InHand \union {Head(commands)}
      BY <2>3, HandAfter
    <3>2. QED
      BY <2>3, <3>1 DEF Tick, Ledger!Take
  <2>4. ASSUME NEW g \in Gens, SendReturns(g)
        PROVE  popped[g] \in InHand /\ InHand' = InHand \ {popped[g]}
    BY <2>4, HandAfter
  <2>5. ASSUME NEW g \in Gens, SendSucceeds(g) PROVE Ledger!Deliver(popped[g])
    BY <2>4, <2>5 DEF SendSucceeds, SendReturns, Ledger!Deliver
  <2>6. ASSUME NEW g \in Gens, SendFails(g) PROVE Ledger!Fail(popped[g])
    BY <2>4, <2>6 DEF SendFails, SendReturns, Ledger!Fail
  <2>7. ASSUME NEW g \in Gens, Start(g) \/ StopSeen(g)
        PROVE  UNCHANGED Ledger!vars
    <3>1. InHand' = InHand
      BY <2>7, HandAfter
    <3>2. QED
      BY <2>7, <3>1 DEF Start, StopSeen, Ledger!vars
  <2>8. CASE (\E p \in Stoppers : SenderDone(p)) \/ UNCHANGED queueVars
    BY <2>8 DEF SenderDone, queueVars, Ledger!vars, InHand
  <2>9. CASE \E g \in Gens : SendSucceeds(g) \/ SendFails(g)
    <3>1. PICK g \in Gens : SendSucceeds(g) \/ SendFails(g)
      BY <2>9
    <3>2. popped[g] \in InHand
      BY <2>4, <3>1 DEF SendSucceeds, SendFails
    <3>3. QED
      BY <2>5, <2>6, <3>1, <3>2 DEF Ledger!Next
  <2>10. QED
    BY <2>1, <2>2, <2>3, <2>7, <2>8, <2>9
    DEF Next, SenderStep, EnqueueRejected, Ledger!Next
<1>3. QED
  BY <1>1, <1>2, TypeCorrect, OneFate, PTL DEF Spec, ImplementsLedger, Ledger!Spec
=============================================================================
