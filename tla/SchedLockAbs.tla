---------------------------- MODULE SchedLockAbs ----------------------------
(***************************************************************************)
(* What taskLock/taskUnlock promise: a recursive lock with one owner.      *)
(* The nesting counter saturates at MaxDepth, as an unsigned long that     *)
(* refuses to wrap does, and an owner that dies gives the lock up.         *)
(* Other modules use this lock as their scheduler lock.                    *)
(***************************************************************************)
EXTENDS Naturals

CONSTANTS
    Threads,     \* every thread that may call taskLock
    NULL,        \* no thread
    MaxDepth     \* the largest value of the nesting counter

VARIABLES
    owner,       \* the thread that has the scheduler locked, or NULL
    depth        \* nested taskLock calls of the owner

absVars == <<owner, depth>>

AbsInit == owner = NULL /\ depth = 0

Lock(t) ==
    /\ owner \in {NULL, t}
    /\ owner' = t
    /\ depth' = IF depth = MaxDepth THEN depth ELSE depth + 1

Unlock(t) ==
    /\ owner = t
    /\ depth' = depth - 1
    /\ owner' = IF depth = 1 THEN NULL ELSE t

\* The owner's thread ends.
Die(t) == owner = t /\ owner' = NULL /\ depth' = 0

AbsNext == \E t \in Threads : Lock(t) \/ Unlock(t) \/ Die(t)

AbsSpec == AbsInit /\ [][AbsNext]_absVars
=============================================================================
