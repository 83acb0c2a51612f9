---------------------------- MODULE MCSchedLock ----------------------------
(***************************************************************************)
(* Small instances of SchedLock for TLC: a root task and one or two more,  *)
(* at most one foreign thread, one or two priorities below MaxPrio.        *)
(***************************************************************************)
EXTENDS SchedLock

CONSTANTS r, a, b, x

AllCalls == CallNames
\* Calls by which no thread ends and none returns from under the lock.
QuietCalls == {"taskLock", "taskUnlock", "taskActivate", "kernelTimeSlice"}
=============================================================================
