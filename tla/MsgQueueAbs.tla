---------------------------- MODULE MsgQueueAbs ----------------------------
(***************************************************************************)
(* What a message queue promises its clients: a bounded sequence.  A       *)
(* normal message goes to its end, an urgent one to its front, and a       *)
(* receiver gets the message at the front, which then is gone.             *)
(***************************************************************************)
EXTENDS Naturals, Sequences

CONSTANTS
    Messages,     \* what may be sent
    Nothing       \* no message

VARIABLES
    capacity,     \* the largest number of messages in the queue
    queue,        \* the messages in the queue
    delivered     \* what the last receiver got

absVars == <<capacity, queue, delivered>>

AbsInit == capacity \in Nat /\ queue = <<>> /\ delivered = Nothing

Send(m) ==
    /\ Len(queue) < capacity
    /\ queue' = Append(queue, m)
    /\ UNCHANGED <<capacity, delivered>>

SendUrgent(m) ==
    /\ Len(queue) < capacity
    /\ queue' = <<m>> \o queue
    /\ UNCHANGED <<capacity, delivered>>

Receive ==
    /\ queue # <<>>
    /\ delivered' = Head(queue)
    /\ queue' = Tail(queue)
    /\ UNCHANGED capacity

AbsNext == Receive \/ \E m \in Messages : Send(m) \/ SendUrgent(m)

AbsSpec == AbsInit /\ [][AbsNext]_absVars
=============================================================================
