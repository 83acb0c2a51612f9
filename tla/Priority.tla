------------------------------ MODULE Priority ------------------------------
(***************************************************************************)
(* The VxWorks priorities of tasks, 0 (highest) to 255, and the POSIX      *)
(* priorities that taskInit and taskPrioritySet give their threads.        *)
(***************************************************************************)
EXTENDS Integers

CONSTANTS
    Tasks,
    NoTask,         \* what a task that does not exist has for a priority
    MinPriority,    \* sched_get_priority_min
    MaxPriority,    \* sched_get_priority_max
    Requests        \* the priorities that are asked for, legal or not

MinV2ptPriority == 255
MaxV2ptPriority == 0

\* The ranges of SCHED_FIFO and SCHED_RR.
ASSUME PriorityAssumption ==
    /\ MinPriority = 1 /\ MaxPriority = 99
    /\ Requests \subseteq Int /\ NoTask \notin Int

VARIABLES
    vxwPriority,    \* vxw_priority of each task
    prvPriority     \* its prv_priority.sched_priority

priorityVars == <<vxwPriority, prvPriority>>

PriorityInit ==
    /\ vxwPriority = [t \in Tasks |-> NoTask]
    /\ prvPriority = [t \in Tasks |-> NoTask]

-----------------------------------------------------------------------------
Legal(v) == MaxV2ptPriority <= v /\ v <= MinV2ptPriority

\* Mutant of Telescoped: first divided, then multiplied.
TelescopedFirst(v) == ((MinV2ptPriority - v) \div (MinV2ptPriority + 1)) * MaxPriority

\* The inverted priority, scaled.  Above 255 it is negative, and clipped below.
Telescoped(v) == ((MinV2ptPriority - v) * MaxPriority) \div (MinV2ptPriority + 1)

TranslatePriority(v) ==
    IF Telescoped(v) < 0 THEN MinPriority
    ELSE LET p == Telescoped(v) % (MaxPriority - 1)
         IN IF p < MinPriority THEN MinPriority ELSE p

\* The task is not linked into the list if its priority is refused.
TaskInit(t, v) ==
    /\ vxwPriority[t] = NoTask
    /\ Legal(v)
    /\ vxwPriority' = [vxwPriority EXCEPT ![t] = v]
    /\ prvPriority' = [prvPriority EXCEPT ![t] = TranslatePriority(v)]

\* The priority is changed even if it is refused.
TaskPrioritySet(t, v) ==
    /\ vxwPriority[t] # NoTask
    /\ vxwPriority' = [vxwPriority EXCEPT ![t] = v]
    /\ prvPriority' = [prvPriority EXCEPT ![t] = TranslatePriority(v)]

PriorityNext == \E t \in Tasks, v \in Requests : TaskInit(t, v) \/ TaskPrioritySet(t, v)

PrioritySpec == PriorityInit /\ [][PriorityNext]_priorityVars

-----------------------------------------------------------------------------
Exists(t) == vxwPriority[t] # NoTask

\* Whatever is asked for, no task gets one of the two levels that are reserved
\* for the scheduler lock and for the exception task, or none at all.  Proved of
\* every priority, and checked by no run.
ReservedLevels ==
    \A t \in Tasks : Exists(t) => prvPriority[t] \in MinPriority .. MaxPriority - 2

\* The highest two VxWorks priorities become the lowest.  Below them a task never
\* runs at a lower level than one with a larger number, and above the last
\* six three numbers of difference are a difference of level.
OrderKept ==
    \A t, u \in Tasks :
        /\ Exists(t) /\ Exists(u)
        /\ 2 <= vxwPriority[t] /\ vxwPriority[t] < vxwPriority[u]
        => /\ prvPriority[t] >= prvPriority[u]
           /\ vxwPriority[t] <= 249 /\ vxwPriority[t] + 3 <= vxwPriority[u]
                => prvPriority[t] > prvPriority[u]
=============================================================================
