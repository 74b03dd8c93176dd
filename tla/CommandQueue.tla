---------------------------- MODULE CommandQueue -----------------------------
(***************************************************************************)
(* backend/internal/gateway/queue.go: the outbound command queue and its   *)
(* sender goroutines.                                                      *)
(*                                                                         *)
(* Start creates a goroutine with a stop and a done channel of its own; a  *)
(* member of Gens names one such generation.  StopAndDrop runs in any      *)
(* goroutine (a member of Stoppers), empties the queue under the mutex,    *)
(* closes the stop channel of the current generation and waits for its     *)
(* done channel.  Every action below is one critical section of q.mu, one  *)
(* channel operation or the outcome of one call of the sender function.    *)
(*                                                                         *)
(* close(stopCh) follows the unlock in the code; only the goroutine that   *)
(* took the channel can close it and a generation whose channel is still   *)
(* open behaves like one whose select prefers the ticker, so it is part of *)
(* the critical section here.                                              *)
(***************************************************************************)
EXTENDS Naturals, Sequences, FiniteSets

CONSTANTS
    Gens,       \* generations of the sender goroutine (bounds Start)
    NoGen,      \* the nil stop and done channels
    Stoppers,   \* goroutines that may call StopAndDrop
    MaxDepth,   \* q.maxDepth
    MaxCmds     \* bound of the model: commands accepted in a behaviour

ASSUME QueueAssumption ==
    /\ NoGen \notin Gens
    /\ MaxDepth \in Nat
    /\ MaxCmds \in Nat

VARIABLES
    commands,       \* q.commands
    running,        \* q.running
    current,        \* whose channels q.stopCh and q.doneCh are
    closedStop,     \* generations whose stop channel is closed
    sender,         \* where each generation's goroutine is
    popped,         \* the command a generation is sending (0: none)
    waitsFor,       \* the generation whose doneCh a StopAndDrop waits for
    counted,        \* the local "dropped" of a StopAndDrop
    accepted,       \* commands accepted so far; command k is the k-th
    sent,           \* commands the sender function returned nil for
    failed,         \* commands it returned an error for
    dropped,        \* commands StopAndDrop removed
    droppedMetric   \* gateway_queue_dropped_total

queueVars == <<commands, running, current, closedStop, sender, popped,
               waitsFor, counted, accepted, sent, failed, dropped,
               droppedMetric>>

Cmds == 1..MaxCmds

Elements(s) == {s[i] : i \in DOMAIN s}

Init ==
    /\ commands = <<>>
    /\ running = FALSE
    /\ current = NoGen
    /\ closedStop = {}
    /\ sender = [g \in Gens |-> "none"]
    /\ popped = [g \in Gens |-> 0]
    /\ waitsFor = [p \in Stoppers |-> NoGen]
    /\ counted = [p \in Stoppers |-> 0]
    /\ accepted = 0
    /\ sent = <<>>
    /\ failed = {}
    /\ dropped = {}
    /\ droppedMetric = 0

(***************************************************************************)
(* Operations of the queue's users.                                        *)
(***************************************************************************)

\* Mutant of Start: no test of q.running.
StartAgain(g) ==
    /\ sender[g] = "none"
    /\ running' = TRUE
    /\ current' = g
    /\ sender' = [sender EXCEPT ![g] = "select"]
    /\ UNCHANGED <<commands, closedStop, popped, waitsFor, counted, accepted,
                   sent, failed, dropped, droppedMetric>>

\* Start returns early when a generation is running: g is then not created.
Start(g) ==
    /\ sender[g] = "none"
    /\ IF running
       THEN UNCHANGED <<running, current, sender>>
       ELSE /\ running' = TRUE
            /\ current' = g
            /\ sender' = [sender EXCEPT ![g] = "select"]
    /\ UNCHANGED <<commands, closedStop, popped, waitsFor, counted, accepted,
                   sent, failed, dropped, droppedMetric>>

\* Mutant of Enqueue: no test of q.maxDepth.
EnqueueUnbounded ==
    /\ accepted < MaxCmds
    /\ commands' = Append(commands, accepted + 1)
    /\ accepted' = accepted + 1
    /\ UNCHANGED <<running, current, closedStop, sender, popped, waitsFor,
                   counted, sent, failed, dropped, droppedMetric>>

Enqueue ==
    /\ accepted < MaxCmds
    /\ Len(commands) < MaxDepth
    /\ commands' = Append(commands, accepted + 1)
    /\ accepted' = accepted + 1
    /\ UNCHANGED <<running, current, closedStop, sender, popped, waitsFor,
                   counted, sent, failed, dropped, droppedMetric>>

\* ErrQueueFull: nothing is queued.
EnqueueRejected ==
    /\ Len(commands) >= MaxDepth
    /\ UNCHANGED queueVars

\* Mutant of StopAndDrop: stopCh is not closed.
StopAndDropLeavesOpen(p) ==
    /\ waitsFor[p] = NoGen
    /\ dropped' = dropped \union Elements(commands)
    /\ commands' = <<>>
    /\ IF running
       THEN /\ running' = FALSE
            /\ current' = NoGen
            /\ waitsFor' = [waitsFor EXCEPT ![p] = current]
            /\ counted' = [counted EXCEPT ![p] = Len(commands)]
       ELSE UNCHANGED <<running, current, waitsFor, counted>>
    /\ UNCHANGED <<closedStop, sender, popped, accepted, sent, failed,
                   droppedMetric>>

\* The critical section of StopAndDrop.  With no generation running it
\* returns at once and the dropped commands reach no metric.
StopAndDrop(p) ==
    /\ waitsFor[p] = NoGen
    /\ dropped' = dropped \union Elements(commands)
    /\ commands' = <<>>
    /\ IF running
       THEN /\ running' = FALSE
            /\ current' = NoGen
            /\ closedStop' = closedStop \union {current}
            /\ waitsFor' = [waitsFor EXCEPT ![p] = current]
            /\ counted' = [counted EXCEPT ![p] = Len(commands)]
       ELSE UNCHANGED <<running, current, closedStop, waitsFor, counted>>
    /\ UNCHANGED <<sender, popped, accepted, sent, failed, droppedMetric>>

\* <-doneCh, then the metric.
SenderDone(p) ==
    /\ waitsFor[p] # NoGen
    /\ sender[waitsFor[p]] = "exited"
    /\ droppedMetric' = droppedMetric + counted[p]
    /\ waitsFor' = [waitsFor EXCEPT ![p] = NoGen]
    /\ counted' = [counted EXCEPT ![p] = 0]
    /\ UNCHANGED <<commands, running, current, closedStop, sender, popped,
                   accepted, sent, failed, dropped>>

(***************************************************************************)
(* The sender goroutine.  Tick stays enabled in a stopped generation: its  *)
(* select may have taken the ticker before stopCh was closed and pop only  *)
(* now, and when both are ready after a send it picks either.  A tick that *)
(* finds the queue empty changes nothing.                                  *)
(***************************************************************************)
\* Mutant of Tick: pop does not shift the queue.
TickKeeps(g) ==
    /\ sender[g] = "select"
    /\ commands # <<>>
    /\ popped' = [popped EXCEPT ![g] = Head(commands)]
    /\ sender' = [sender EXCEPT ![g] = "sending"]
    /\ UNCHANGED <<commands, running, current, closedStop, waitsFor, counted,
                   accepted, sent, failed, dropped, droppedMetric>>

Tick(g) ==
    /\ sender[g] = "select"
    /\ commands # <<>>
    /\ popped' = [popped EXCEPT ![g] = Head(commands)]
    /\ commands' = Tail(commands)
    /\ sender' = [sender EXCEPT ![g] = "sending"]
    /\ UNCHANGED <<running, current, closedStop, waitsFor, counted, accepted,
                   sent, failed, dropped, droppedMetric>>

SendReturns(g) ==
    /\ sender[g] = "sending"
    /\ popped' = [popped EXCEPT ![g] = 0]
    /\ sender' = [sender EXCEPT ![g] = "select"]
    /\ UNCHANGED <<commands, running, current, closedStop, waitsFor, counted,
                   accepted, dropped, droppedMetric>>

SendSucceeds(g) ==
    /\ SendReturns(g)
    /\ sent' = Append(sent, popped[g])
    /\ UNCHANGED failed

SendFails(g) ==
    /\ SendReturns(g)
    /\ failed' = failed \union {popped[g]}
    /\ UNCHANGED sent

\* case <-stopCh, then the deferred close(doneCh)
StopSeen(g) ==
    /\ sender[g] = "select"
    /\ g \in closedStop
    /\ sender' = [sender EXCEPT ![g] = "exited"]
    /\ UNCHANGED <<commands, running, current, closedStop, popped, waitsFor,
                   counted, accepted, sent, failed, dropped, droppedMetric>>

SenderStep(g) == Tick(g) \/ SendSucceeds(g) \/ SendFails(g) \/ StopSeen(g)

Next ==
    \/ \E g \in Gens : Start(g) \/ SenderStep(g)
    \/ Enqueue
    \/ EnqueueRejected
    \/ \E p \in Stoppers : StopAndDrop(p) \/ SenderDone(p)

Spec == Init /\ [][Next]_queueVars
-----------------------------------------------------------------------------
Live(g) == sender[g] \in {"select", "sending"}

TypeOK ==
    /\ commands \in Seq(Cmds)
    /\ Len(commands) <= MaxDepth
    /\ running \in BOOLEAN
    /\ current \in IF running THEN Gens ELSE {NoGen}
    /\ closedStop \in SUBSET Gens
    /\ sender \in [Gens -> {"none", "select", "sending", "exited"}]
    /\ popped \in [Gens -> 0..MaxCmds]
    /\ \A g \in Gens : sender[g] = "sending" => popped[g] # 0
    /\ waitsFor \in [Stoppers -> Gens \union {NoGen}]
    /\ counted \in [Stoppers -> Nat]
    /\ accepted \in 0..MaxCmds
    /\ sent \in Seq(Cmds)
    /\ failed \in SUBSET Cmds
    /\ dropped \in SUBSET Cmds
    /\ droppedMetric \in Nat

InHand == {popped[g] : g \in {h \in Gens : sender[h] = "sending"}}

\* The queue keeps the ledger's promise whoever calls it, however many
\* senders and stoppers overlap (Start, Enqueue, StopAndDrop, pop).
Ledger == INSTANCE CommandLedger WITH queue <- commands, inHand <- InHand

ImplementsLedger == Ledger!Spec

\* Start and StopAndDrop hand the channels over under the mutex: the queue
\* holds the channels of the only generation that runs without having been
\* told to stop, and of none when it is stopped, so every goroutine ever
\* started is stopped by somebody and none is stopped before it starts.
OneSenderToStop ==
    /\ running <=> current # NoGen
    /\ \A g \in Gens : (Live(g) /\ g \notin closedStop) <=> g = current
    /\ \A g \in closedStop : sender[g] # "none"

\* Nobody waits on a doneCh that will not be closed: the generation a
\* StopAndDrop waits for was started, was told to stop, and no other
\* StopAndDrop waits for it.
WaitsForStopped ==
    \A p \in Stoppers : waitsFor[p] # NoGen =>
        /\ waitsFor[p] \in closedStop
        /\ sender[waitsFor[p]] # "none"
        /\ \A r \in Stoppers \ {p} : waitsFor[r] # waitsFor[p]

\* pop takes from the head what Enqueue appends at the tail: the queue is
\* the unbroken run of the latest accepted commands, and every earlier one
\* has exactly one fate (in a sender's hand, sent once, failed or dropped).
EachCommandOneFate ==
    LET settled == accepted - Len(commands) IN
    /\ \A i \in DOMAIN commands : commands[i] = settled + i
    /\ \A i, j \in DOMAIN sent : sent[i] = sent[j] => i = j
    /\ InHand \union Elements(sent) \union failed \union dropped = 1..settled
    /\ InHand \intersect (Elements(sent) \union failed \union dropped) = {}
    /\ Elements(sent) \intersect (failed \union dropped) = {}
    /\ failed \intersect dropped = {}
    /\ \A g, h \in Gens : /\ sender[g] = "sending" /\ sender[h] = "sending"
                          /\ popped[g] = popped[h]
                          => g = h
=============================================================================
