------------------------------ MODULE TaskLife ------------------------------
(***************************************************************************)
(* The life of tasks in lib/ltaskLib.c: taskSpawn, taskSafe, taskUnsafe,   *)
(* taskDelete, taskDeleteForce, taskRestart of another task, and the end   *)
(* of a task whose entry point returns.                                    *)
(*                                                                         *)
(* A task stands for its control block and for the thread that runs it.    *)
(* Control blocks are not allocated twice, but task ids are reused.        *)
(***************************************************************************)
EXTENDS Integers, Sequences

CONSTANTS
    Tasks,
    Root,                                   \* the task that exists from the start
    NULL,
    Spawners, Deleters, Forcers, Restarters, Protectors, \* who makes which call
    Enders,                                 \* tasks whose entry point may return
    MaxSafe                                 \* bound: nested calls of taskSafe

ASSUME LifeAssumption ==
    /\ NULL \notin Tasks /\ Root \in Tasks
    /\ Spawners \cup Deleters \cup Forcers \cup Restarters \cup Protectors \cup Enders
         \subseteq Tasks
    /\ MaxSafe \in Nat

VARIABLES
    up,               \* the process has not crashed
    block,            \* each control block: none, raw, linked, freed
    list,             \* task_list
    id,               \* taskid; 0 stands for the provisional one
    safe,             \* delete_safe_count
    susp,             \* the tasks ever linked at first_susp: only emptiness is read
    tdelete, dbcst,   \* holders of tdelete_lock and dbcst_lock of each task
    locker, level,    \* the scheduler lock
    pc, call,         \* where each thread is, in which call
    cancelled         \* threads with a cancellation pending

blocks == <<block, list, id>>
pends == <<safe, susp>>
mutexes == <<tdelete, dbcst>>
sched == <<locker, level>>
vars == <<up, block, list, id, safe, susp, tdelete, dbcst, locker, level, pc, call,
          cancelled>>

Sched == INSTANCE SchedLockAbs WITH
            Threads <- Tasks, owner <- locker, depth <- level, MaxDepth <- 2

\* The call a thread executes: the id it was given, or computed in taskSpawn,
\* and the control block it works on.
NoCall == [op |-> "none", tid |-> 0, task |-> NULL]

Init ==
    /\ up = TRUE
    /\ block = [t \in Tasks |-> IF t = Root THEN "linked" ELSE "none"]
    /\ list = <<Root>>
    /\ id = [t \in Tasks |-> IF t = Root THEN 1 ELSE 0]
    /\ safe = [t \in Tasks |-> 0]
    /\ susp = [t \in Tasks |-> {}]
    /\ tdelete = [t \in Tasks |-> NULL] /\ dbcst = [t \in Tasks |-> NULL]
    /\ Sched!AbsInit
    /\ pc = [t \in Tasks |-> IF t = Root THEN "run" ELSE "none"]
    /\ call = [t \in Tasks |-> NoCall]
    /\ cancelled = {}

-----------------------------------------------------------------------------
Goto(t, place) == pc' = [pc EXCEPT ![t] = place]

\* A call returns.  The thread of a task whose entry point has returned ends.
Return(p, t) ==
    /\ pc' = [p EXCEPT ![t] = IF call[t].op = "return" THEN "dead" ELSE "run"]
    /\ call' = [call EXCEPT ![t] = NoCall]

\* taskUnlock, which does nothing for a thread that has not locked the scheduler.
Unlock(t) == IF locker = t THEN Sched!Unlock(t) ELSE UNCHANGED sched

\* taskUnlock twice.
UnlockTwice(t) ==
    IF locker = t /\ level = 2
      THEN locker' = NULL /\ level' = 0
      ELSE Unlock(t)

\* task_for: the first task of the list with this id.
TaskFor(i) ==
    IF i # 0 /\ \E k \in DOMAIN list : id[list[k]] = i
      THEN list[CHOOSE k \in DOMAIN list :
                  /\ id[list[k]] = i
                  /\ \A j \in 1 .. k - 1 : id[list[j]] # i]
      ELSE NULL

\* Mutant of NewTid: the highest id, off by one.
HighestTid ==
    LET ids == {id[list[k]] : k \in DOMAIN list} \cup {0}
    IN CHOOSE m \in ids : \A i \in ids : i <= m

\* new_tid: one more than the highest id in the list.
NewTid ==
    LET ids == {id[list[k]] : k \in DOMAIN list} \cup {0}
    IN 1 + CHOOSE m \in ids : \A i \in ids : i <= m

\* The list without task t.
Without(t) ==
    IF \E k \in DOMAIN list : list[k] = t
      THEN LET k == CHOOSE k \in DOMAIN list : list[k] = t
           IN [j \in 1 .. Len(list) - 1 |-> IF j < k THEN list[j] ELSE list[j + 1]]
      ELSE list

\* task_delete
Erase(t) ==
    /\ list' = Without(t)
    /\ block' = [block EXCEPT ![t] = "freed"]
    /\ UNCHANGED id

\* The process dies of an invalid address.
Crash ==
    /\ up' = FALSE
    /\ UNCHANGED <<blocks, pends, mutexes, sched, pc, call, cancelled>>

-----------------------------------------------------------------------------
\* A call begins.  Bound: not by a thread that a failed taskRestart has left
\* with the scheduler locked.
Begin(t, place, c) ==
    /\ pc[t] = "run" /\ block[t] = "linked" /\ locker # t
    /\ Goto(t, place)
    /\ call' = [call EXCEPT ![t] = c]
    /\ UNCHANGED <<up, id, list, pends, mutexes, sched, cancelled>>

Ids == {id[t] : t \in Tasks} \ {0}

Call(t, name, who) ==
    /\ t \in who
    /\ \E i \in Ids : Begin(t, "lock", [op |-> name, tid |-> i, task |-> NULL])
    /\ UNCHANGED block

CallDelete(t) == Call(t, "taskDelete", Deleters)
CallForce(t) == Call(t, "taskDeleteForce", Forcers)
CallRestart(t) == Call(t, "taskRestart", Restarters)

CallSafe(t) ==
    /\ t \in Protectors /\ safe[t] < MaxSafe
    /\ Begin(t, "lock", [op |-> "taskSafe", tid |-> 0, task |-> t])
    /\ UNCHANGED block

CallUnsafe(t) ==
    /\ t \in Protectors
    /\ Begin(t, "lock", [op |-> "taskUnsafe", tid |-> 0, task |-> t])
    /\ UNCHANGED block

\* taskSpawn allocates a control block and computes its id from a list that
\* it reads without a lock.
CallSpawn(t) ==
    /\ t \in Spawners
    /\ \E n \in Tasks :
         /\ block[n] = "none"
         /\ Begin(t, "init", [op |-> "taskSpawn", tid |-> NewTid, task |-> n])
         /\ block' = [block EXCEPT ![n] = "raw"]

\* task_wrapper after the entry point has returned.  If the task has deleted
\* itself, the id is read from freed memory: what it was, or no task's.
EntryReturns(t) ==
    /\ t \in Enders /\ pc[t] = "run" /\ locker # t
    /\ \E i \in {id[t]} \cup (IF block[t] = "freed" THEN {0} ELSE {}) :
         call' = [call EXCEPT ![t] = [op |-> "return", tid |-> i, task |-> NULL]]
    /\ Goto(t, "lock")
    /\ UNCHANGED <<up, blocks, pends, mutexes, sched, cancelled>>

-----------------------------------------------------------------------------
\* taskSpawn, continued: taskInit, under task_list_lock.
SpawnInit(t) ==
    /\ pc[t] = "init"
    /\ list' = Append(list, call[t].task)
    /\ block' = [block EXCEPT ![call[t].task] = "linked"]
    /\ Goto(t, "setId")
    /\ UNCHANGED <<up, id, pends, mutexes, sched, call, cancelled>>

\* taskInit refuses the priority; taskSpawn goes on to taskActivate.
SpawnRefused(t) ==
    /\ pc[t] = "init"
    /\ block' = [block EXCEPT ![call[t].task] = "freed"]
    /\ Goto(t, "lock")
    /\ UNCHANGED <<up, list, id, pends, mutexes, sched, call, cancelled>>

SpawnSetId(t) ==
    /\ pc[t] = "setId"
    /\ id' = [id EXCEPT ![call[t].task] = call[t].tid]
    /\ Goto(t, "lock")
    /\ UNCHANGED <<up, block, list, pends, mutexes, sched, call, cancelled>>

\* t asks for the scheduler lock in its call, which is not yet nested.
Locking(t, ops) == pc[t] = "lock" /\ call[t].op \in ops /\ locker = NULL

\* taskActivate, which runs a task that it finds DEAD.
SpawnActivate(t) ==
    /\ Locking(t, {"taskSpawn"})
    /\ LET n == TaskFor(call[t].tid)
       IN Return(IF n # NULL /\ pc[n] = "none" THEN [pc EXCEPT ![n] = "run"] ELSE pc, t)
    /\ UNCHANGED <<up, blocks, pends, mutexes, sched, cancelled>>

\* pthread_create fails.
SpawnFails(t) ==
    /\ Locking(t, {"taskSpawn"})
    /\ TaskFor(call[t].tid) # NULL /\ pc[TaskFor(call[t].tid)] = "none"
    /\ Erase(TaskFor(call[t].tid))
    /\ Return(pc, t)
    /\ UNCHANGED <<up, pends, mutexes, sched, cancelled>>

-----------------------------------------------------------------------------
\* taskSafe and taskUnsafe lock the scheduler ...
ProtectLock(t) ==
    /\ Locking(t, {"taskSafe", "taskUnsafe"})
    /\ Sched!Lock(t)
    /\ Goto(t, "protect")
    /\ UNCHANGED <<up, blocks, pends, mutexes, call, cancelled>>

\* Mutant of Protecting: the count is changed without the scheduler lock.
ProtectingUnlocked(t, name) ==
    /\ pc[t] \in {"lock", "protect"} /\ call[t].op = name
    /\ tdelete[t] = NULL
    /\ Unlock(t)

\* ... and then tdelete_lock.
Protecting(t, name) ==
    /\ pc[t] = "protect" /\ call[t].op = name
    /\ tdelete[t] = NULL
    /\ Unlock(t)

Safe(t) ==
    /\ Protecting(t, "taskSafe")
    /\ safe' = [safe EXCEPT ![t] = @ + 1]
    /\ Return(pc, t)
    /\ UNCHANGED <<up, blocks, susp, mutexes, cancelled>>

\* Mutant of Unsafe: the count is not tested before it is decremented.
UnsafeUnchecked(t) ==
    /\ Protecting(t, "taskUnsafe")
    /\ safe[t] # 1
    /\ safe' = [safe EXCEPT ![t] = @ - 1]
    /\ Return(pc, t)
    /\ UNCHANGED <<up, blocks, susp, mutexes, cancelled>>

\* A task that is still protected, or was not.
Unsafe(t) ==
    /\ Protecting(t, "taskUnsafe")
    /\ safe[t] # 1
    /\ safe' = [safe EXCEPT ![t] = IF @ > 0 THEN @ - 1 ELSE 0]
    /\ Return(pc, t)
    /\ UNCHANGED <<up, blocks, susp, mutexes, cancelled>>

\* A task just made deletable.
UnsafeLast(t) ==
    /\ Protecting(t, "taskUnsafe")
    /\ safe[t] = 1
    /\ safe' = [safe EXCEPT ![t] = 0]
    /\ Goto(t, "notify")
    /\ UNCHANGED <<up, blocks, susp, mutexes, call, cancelled>>

-----------------------------------------------------------------------------
\* notify_task_delete, from taskUnsafe for the task itself and from
\* taskDeleteForce.

\* Nobody pends.
NotifyNobody(t) ==
    /\ pc[t] = "notify" /\ susp[call[t].task] = {}
    /\ IF call[t].op = "taskUnsafe"
         THEN Return(pc, t)
         ELSE Goto(t, "cancel") /\ UNCHANGED call
    /\ UNCHANGED <<up, blocks, pends, mutexes, sched, cancelled>>

NotifyLock(t) ==
    /\ pc[t] = "notify" /\ susp[call[t].task] # {}
    /\ dbcst[call[t].task] = NULL
    /\ dbcst' = [dbcst EXCEPT ![call[t].task] = t]
    /\ Goto(t, "bcast")
    /\ UNCHANGED <<up, blocks, pends, tdelete, sched, call, cancelled>>

\* Mutant of BroadcastDeletable: pthread_cond_signal to another task's waiters.
BroadcastOther(n, p) == p

\* pthread_cond_broadcast of t_deletable of task n
BroadcastDeletable(n, p) ==
    [u \in Tasks |-> IF p[u] = "pendWait" /\ call[u].task = n THEN "pendWoken" ELSE p[u]]

NotifyBroadcast(t) ==
    /\ pc[t] = "bcast" /\ tdelete[call[t].task] = NULL
    /\ pc' = [BroadcastDeletable(call[t].task, pc) EXCEPT ![t] = "bcastTest"]
    /\ UNCHANGED <<up, blocks, pends, mutexes, sched, call, cancelled>>

\* The list is never found empty: see PendReturn.
NotifyWait(t) ==
    /\ pc[t] = "bcastTest" /\ susp[call[t].task] # {}
    /\ dbcst' = [dbcst EXCEPT ![call[t].task] = NULL]
    /\ Goto(t, "bcastWait")
    /\ UNCHANGED <<up, blocks, pends, tdelete, sched, call, cancelled>>

\* A spurious wake-up: nothing signals delete_bcplt, since nobody empties a list.
NotifyWake(t) ==
    /\ pc[t] = "bcastWait" /\ dbcst[call[t].task] = NULL
    /\ dbcst' = [dbcst EXCEPT ![call[t].task] = t]
    /\ Goto(t, "bcastTest")
    /\ UNCHANGED <<up, blocks, pends, tdelete, sched, call, cancelled>>

-----------------------------------------------------------------------------
\* taskDeleteForce, called by the user, by task_wrapper or by taskDelete, which
\* has locked the scheduler before.
ForceLocks(t) ==
    \/ Locking(t, {"taskDeleteForce", "return"})
    \/ pc[t] = "force"

ForceMiss(t) ==
    /\ ForceLocks(t)
    /\ TaskFor(call[t].tid) = NULL
    /\ Return(pc, t)
    /\ IF pc[t] = "force" THEN Unlock(t) ELSE UNCHANGED sched
    /\ UNCHANGED <<up, blocks, pends, mutexes, cancelled>>

ForceHit(t) ==
    /\ ForceLocks(t)
    /\ TaskFor(call[t].tid) # NULL
    /\ Sched!Lock(t)
    /\ call' = [call EXCEPT ![t].task = TaskFor(call[t].tid)]
    /\ Goto(t, "notify")
    /\ UNCHANGED <<up, blocks, pends, mutexes, cancelled>>

Cancels(t) == pc[t] = "cancel" /\ call[t].task # t

\* A task that is linked but has no thread, not yet or no longer.
CancelNoThread(t) == Cancels(t) /\ pc[call[t].task] \in {"none", "lost"} /\ Crash

Cancel(t) ==
    /\ Cancels(t) /\ pc[call[t].task] \notin {"none", "lost"}
    /\ cancelled' = IF pc[call[t].task] = "dead" THEN cancelled
                                                 ELSE cancelled \cup {call[t].task}
    /\ Goto(t, "join")
    /\ UNCHANGED <<up, blocks, pends, mutexes, sched, call>>

\* Mutant of Joined: pthread_cancel is not followed by pthread_join.
NotJoined(t) == pc[t] = "join"

\* pthread_join returns.
Joined(t) == pc[t] = "join" /\ pc[call[t].task] = "dead"

DeleteOther(t) ==
    /\ Joined(t) /\ call[t].op # "taskRestart"
    /\ Erase(call[t].task)
    /\ IF call[t].op = "taskDelete" THEN UnlockTwice(t) ELSE Unlock(t)
    /\ Return(pc, t)
    /\ UNCHANGED <<up, pends, mutexes, cancelled>>

\* The thread of a task that deletes itself goes on.
DeleteSelf(t) ==
    /\ pc[t] = "cancel" /\ call[t].task = t
    /\ Erase(t)
    /\ UnlockTwice(t)
    /\ Return(pc, t)
    /\ UNCHANGED <<up, pends, mutexes, cancelled>>

-----------------------------------------------------------------------------
\* taskDelete
DeleteMiss(t) ==
    /\ Locking(t, {"taskDelete"})
    /\ TaskFor(call[t].tid) = NULL
    /\ Return(pc, t)
    /\ UNCHANGED <<up, blocks, pends, mutexes, sched, cancelled>>

DeleteHit(t) ==
    /\ Locking(t, {"taskDelete"})
    /\ TaskFor(call[t].tid) # NULL
    /\ Sched!Lock(t)
    /\ call' = [call EXCEPT ![t].task = TaskFor(call[t].tid)]
    /\ Goto(t, "deletable")
    /\ UNCHANGED <<up, blocks, pends, mutexes, cancelled>>

\* delete_safe_count is read under tdelete_lock.
DeleteTests(t) == pc[t] = "deletable" /\ tdelete[call[t].task] = NULL

DeleteForce(t) ==
    /\ DeleteTests(t) /\ safe[call[t].task] = 0
    /\ Goto(t, "force")
    /\ UNCHANGED <<up, blocks, pends, mutexes, sched, call, cancelled>>

DeleteRefused(t) ==
    /\ DeleteTests(t) /\ safe[t] > 0 /\ call[t].task = t
    /\ Unlock(t)
    /\ Return(pc, t)
    /\ UNCHANGED <<up, blocks, pends, mutexes, cancelled>>

DeletePends(t) == DeleteTests(t) /\ safe[call[t].task] > 0 /\ call[t].task # t

\* task_pend_delete
Pend(t) ==
    /\ DeletePends(t)
    /\ susp' = [susp EXCEPT ![call[t].task] = @ \cup {t}]
    /\ Goto(t, "pendLock")
    /\ UNCHANGED <<up, blocks, safe, mutexes, sched, call, cancelled>>

\* link_susp_task comes to a task that was deleted and not unlinked.  Which of
\* the tasks ever linked the list still leads to is not kept.
PendWild(t) ==
    /\ DeletePends(t)
    /\ \E u \in susp[call[t].task] : block[u] = "freed"
    /\ Crash

PendLock(t) ==
    /\ pc[t] = "pendLock" /\ tdelete[call[t].task] = NULL
    /\ tdelete' = [tdelete EXCEPT ![call[t].task] = t]
    /\ Unlock(t)
    /\ Goto(t, "pendTest")
    /\ UNCHANGED <<up, blocks, pends, dbcst, call, cancelled>>

PendSleep(t) ==
    /\ pc[t] = "pendTest" /\ safe[call[t].task] > 0
    /\ tdelete' = [tdelete EXCEPT ![call[t].task] = NULL]
    /\ Goto(t, "pendWait")
    /\ UNCHANGED <<up, blocks, pends, dbcst, sched, call, cancelled>>

\* Woken up, by a broadcast or for no reason.
PendWake(t) ==
    /\ pc[t] \in {"pendWait", "pendWoken"} /\ tdelete[call[t].task] = NULL
    /\ tdelete' = [tdelete EXCEPT ![call[t].task] = t]
    /\ Goto(t, "pendTest")
    /\ UNCHANGED <<up, blocks, pends, dbcst, sched, call, cancelled>>

PendOver(t) ==
    /\ pc[t] = "pendTest" /\ safe[call[t].task] = 0
    /\ Goto(t, "relock")
    /\ UNCHANGED <<up, blocks, pends, mutexes, sched, call, cancelled>>

\* With both locks the task would leave the list of the semaphore it waits for.
\* It waits for none, stays in the list of the other task, and so is not the
\* last one to leave it.
PendReturn(t) ==
    /\ pc[t] = "relock" /\ locker = NULL
    /\ tdelete' = [tdelete EXCEPT ![call[t].task] = NULL]
    /\ Return(pc, t)
    /\ UNCHANGED <<up, blocks, pends, dbcst, sched, cancelled>>

-----------------------------------------------------------------------------
\* taskRestart of another task; it returns with the scheduler locked if it
\* does not find the task.
RestartMiss(t) ==
    /\ Locking(t, {"taskRestart"})
    /\ TaskFor(call[t].tid) = NULL
    /\ Sched!Lock(t)
    /\ Return(pc, t)
    /\ UNCHANGED <<up, blocks, pends, mutexes, cancelled>>

RestartOther(t) ==
    /\ Locking(t, {"taskRestart"})
    /\ TaskFor(call[t].tid) \notin {NULL, t}
    /\ Sched!Lock(t)
    /\ call' = [call EXCEPT ![t].task = TaskFor(call[t].tid)]
    /\ Goto(t, "cancel")
    /\ UNCHANGED <<up, blocks, pends, mutexes, cancelled>>

\* The restart of the calling task is the subject of SchedLock and Watchdog.
RestartSelf(t) ==
    /\ Locking(t, {"taskRestart"})
    /\ TaskFor(call[t].tid) = t
    /\ Return(pc, t)
    /\ UNCHANGED <<up, blocks, pends, mutexes, sched, cancelled>>

\* A new thread for the old control block, whose delete_safe_count stays.
Restarted(t) ==
    /\ Joined(t) /\ call[t].op = "taskRestart"
    /\ Unlock(t)
    /\ Return([pc EXCEPT ![call[t].task] = "run"], t)
    /\ UNCHANGED <<up, blocks, pends, mutexes, cancelled>>

\* pthread_create fails: the task stays in the list, READY and without a thread.
RestartFails(t) ==
    /\ Joined(t) /\ call[t].op = "taskRestart"
    /\ Unlock(t)
    /\ Return([pc EXCEPT ![call[t].task] = "lost"], t)
    /\ UNCHANGED <<up, blocks, pends, mutexes, cancelled>>

-----------------------------------------------------------------------------
\* The places where a cancelled thread ends: user code, taskLock, and the waits
\* on condition variables.  Its cleanup handlers unlock what it has locked.
Die(t) ==
    /\ t \in cancelled
    /\ pc[t] \in {"run", "lock", "relock", "pendWait", "bcastWait"}
    /\ Goto(t, "dead")
    /\ call' = [call EXCEPT ![t] = NoCall]
    /\ cancelled' = cancelled \ {t}
    /\ tdelete' = [n \in Tasks |-> IF tdelete[n] = t THEN NULL ELSE tdelete[n]]
    /\ IF locker = t THEN Sched!Die(t) ELSE UNCHANGED sched
    /\ UNCHANGED <<up, blocks, pends, dbcst>>

Calls(t) ==
    \/ CallDelete(t) \/ CallForce(t) \/ CallRestart(t) \/ CallSafe(t) \/ CallUnsafe(t)
    \/ CallSpawn(t) \/ EntryReturns(t)

Progress(t) ==
    \/ SpawnInit(t) \/ SpawnSetId(t) \/ SpawnActivate(t)
    \/ ProtectLock(t) \/ Safe(t) \/ Unsafe(t) \/ UnsafeLast(t)
    \/ NotifyNobody(t) \/ NotifyLock(t) \/ NotifyBroadcast(t) \/ NotifyWait(t)
    \/ ForceMiss(t) \/ ForceHit(t) \/ Cancel(t) \/ DeleteOther(t) \/ DeleteSelf(t)
    \/ DeleteMiss(t) \/ DeleteHit(t) \/ DeleteForce(t) \/ DeleteRefused(t)
    \/ Pend(t) \/ PendLock(t) \/ PendSleep(t) \/ PendOver(t) \/ PendReturn(t)
    \/ (pc[t] = "pendWoken" /\ PendWake(t))
    \/ RestartMiss(t) \/ RestartOther(t) \/ RestartSelf(t) \/ Restarted(t) \/ Die(t)

Next ==
    /\ up
    /\ \E t \in Tasks :
         \/ Calls(t) \/ Progress(t)
         \/ SpawnRefused(t) \/ SpawnFails(t) \/ RestartFails(t)
         \/ PendWake(t) \/ NotifyWake(t) \/ CancelNoThread(t) \/ PendWild(t)

Spec == Init /\ [][Next]_vars

\* A thread that can go on does so, and gets a mutex that is free again and again.
FairSpec == Spec /\ \A t \in Tasks : SF_vars(up /\ Progress(t))

-----------------------------------------------------------------------------
Places == {"none", "lost", "run", "dead", "init", "setId", "lock", "protect", "notify",
           "bcast", "bcastTest", "bcastWait", "force", "cancel", "join", "deletable", "pendLock",
           "pendTest", "pendWait", "pendWoken", "relock"}

Ops == {"none", "taskSpawn", "taskSafe", "taskUnsafe", "taskDelete", "taskDeleteForce",
        "taskRestart", "return"}

TypeOK ==
    /\ up \in BOOLEAN
    /\ block \in [Tasks -> {"none", "raw", "linked", "freed"}]
    /\ list \in Seq(Tasks)
    /\ id \in [Tasks -> Nat]
    /\ safe \in [Tasks -> Nat]
    /\ susp \in [Tasks -> SUBSET Tasks]
    /\ tdelete \in [Tasks -> Tasks \cup {NULL}] /\ dbcst \in [Tasks -> Tasks \cup {NULL}]
    /\ locker \in Tasks \cup {NULL} /\ level \in 0 .. 2
    /\ pc \in [Tasks -> Places]
    /\ call \in [Tasks -> [op : Ops, tid : Nat, task : Tasks \cup {NULL}]]
    /\ cancelled \in SUBSET Tasks

\* The places between the decision of a deletion and its end.
Deleting == {"force", "notify", "bcast", "bcastTest", "bcastWait", "cancel", "join"}

\* The places of task_pend_delete.
Pended(t) == pc[t] \in {"pendLock", "pendTest", "pendWait", "pendWoken", "relock"}

\* taskDelete, once it has found a task deletable, deletes it in that state: the
\* task cannot protect itself in between.
ProtectedSpared ==
    \A t \in Tasks :
        call[t].op = "taskDelete" /\ pc[t] \in Deleting => safe[call[t].task] = 0

\* No thread works on a control block that has been freed, whoever else deletes
\* or restarts the same task.
TargetsLive ==
    \A t \in Tasks :
        pc[t] \in Deleting \cup {"deletable"} \/ Pended(t) => block[call[t].task] = "linked"

\* Tasks in the list have different ids, if one task spawns all others.
UniqueIds ==
    \A i, j \in DOMAIN list : id[list[i]] = id[list[j]] /\ id[list[i]] # 0 => i = j

PendedForNothing(t) == Pended(t) /\ safe[call[t].task] = 0

\* A task that pends in taskDelete goes on when the other task has become
\* deletable, provided that those who lock the scheduler unlock it.
PendedReturns ==
    \A t \in Deleters :
        []<>(locker = NULL) => (PendedForNothing(t) ~> (~PendedForNothing(t) \/ ~up))
=============================================================================
