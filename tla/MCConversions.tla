--------------------------- MODULE MCConversions ---------------------------
(***************************************************************************)
(* Small instances of Timeout and Priority for TLC.  The two have nothing  *)
(* to do with each other, so nobody waits once there are priorities.  The  *)
(* priorities are the real ones; time has few microseconds to a tick, few  *)
(* ticks to a second and small integers, so that every sum on either side  *)
(* of a second, and of an overflow, occurs.                                *)
(***************************************************************************)
EXTENDS Timeout, Priority

CONSTANTS a, b

\* Both ends of the range and its middle, and priorities that are refused.
SomePriorities == {-200, -1, 300} \cup 0 .. 8 \cup 126 .. 131 \cup 246 .. 256

Init == TimeoutInit /\ PriorityInit

NoPriorities == \A t \in Tasks : ~Exists(t)

Next ==
    \/ TimeoutNext /\ (NoPriorities \/ at' = "idle") /\ UNCHANGED priorityVars
    \/ PriorityNext /\ at = "idle" /\ UNCHANGED timeoutVars

Spec == Init /\ [][Next]_<<timeoutVars, priorityVars>> /\ TimeoutFairness
=============================================================================
