---------------------------- MODULE CommandLedger ----------------------------
(***************************************************************************)
(* What the gateway promises about the player's commands, with no          *)
(* goroutines, locks or connections: an accepted command waits in a        *)
(* bounded queue, is taken once from its head, and ends sent, failed or    *)
(* dropped, exactly one of them.                                           *)
(*                                                                         *)
(* Commands are named by their acceptance number: k is the k-th command    *)
(* Enqueue answered "accepted" to.                                         *)
(***************************************************************************)
EXTENDS Naturals, Sequences

CONSTANTS
    MaxDepth,   \* GATEWAY_QUEUE_MAX_DEPTH
    MaxCmds     \* bound of the model: commands accepted in a behaviour

VARIABLES
    accepted,   \* how many commands were accepted
    queue,      \* waiting commands, next one first
    inHand,     \* taken from the queue, outcome not known yet
    sent,       \* handed to the MUD, in the order it happened
    failed,     \* reported as queue.send_failed
    dropped     \* removed unsent by a disconnect

vars == <<accepted, queue, inHand, sent, failed, dropped>>

Cmds == 1..MaxCmds

Elements(s) == {s[i] : i \in DOMAIN s}

Init ==
    /\ accepted = 0
    /\ queue = <<>>
    /\ inHand = {}
    /\ sent = <<>>
    /\ failed = {}
    /\ dropped = {}

Accept ==
    /\ accepted < MaxCmds
    /\ Len(queue) < MaxDepth
    /\ accepted' = accepted + 1
    /\ queue' = Append(queue, accepted + 1)
    /\ UNCHANGED <<inHand, sent, failed, dropped>>

Take ==
    /\ queue # <<>>
    /\ inHand' = inHand \union {Head(queue)}
    /\ queue' = Tail(queue)
    /\ UNCHANGED <<accepted, sent, failed, dropped>>

Deliver(k) ==
    /\ k \in inHand
    /\ inHand' = inHand \ {k}
    /\ sent' = Append(sent, k)
    /\ UNCHANGED <<accepted, queue, failed, dropped>>

Fail(k) ==
    /\ k \in inHand
    /\ inHand' = inHand \ {k}
    /\ failed' = failed \union {k}
    /\ UNCHANGED <<accepted, queue, sent, dropped>>

DropAll ==
    /\ queue # <<>>
    /\ dropped' = dropped \union Elements(queue)
    /\ queue' = <<>>
    /\ UNCHANGED <<accepted, inHand, sent, failed>>

Next ==
    \/ Accept
    \/ Take
    \/ \E k \in inHand : Deliver(k) \/ Fail(k)
    \/ DropAll

Spec == Init /\ [][Next]_vars
=============================================================================
