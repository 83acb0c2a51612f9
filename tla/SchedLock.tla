------------------------------ MODULE SchedLock ------------------------------
(***************************************************************************)
(* The scheduler lock of lib/ltaskLib.c (taskLock, taskUnlock) and the     *)
(* operations that run under it and touch priorities or threads:           *)
(* taskPrioritySet, kernelTimeSlice, taskActivate, taskRestart, and a task *)
(* whose entry point returns.                                              *)
(*                                                                         *)
(* Everything done while v2pthread_task_lock or task_list_lock is held is  *)
(* one step: no code blocks while holding task_list_lock, and the only     *)
(* thing awaited while holding v2pthread_task_lock is task_list_lock.      *)
(*                                                                         *)
(* The program starts as main_impl.c starts it: the root task has a thread *)
(* of its own, which runs task_wrapper and has its cleanup handler.  After *)
(* v2lin_init the root task is the thread that called it, without handler; *)
(* what is said here of a root task that restarts itself does not apply.   *)
(***************************************************************************)
EXTENDS Naturals

CONSTANTS
    Tasks,       \* task control blocks, each with at most one thread
    Foreign,     \* POSIX threads without one: my_task() is NULL for them
    Root,        \* the root task, the one that runs first (under task_wrapper)
    NULL,        \* no thread, no task
    Prios,       \* the values translate_priority returns
    MaxPrio,     \* sched_get_priority_max
    ULongMax,    \* the largest unsigned long, where taskLock_level saturates
    Calls        \* the library calls that threads make

Threads == Tasks \cup Foreign

ASSUME ThreadAssumption ==
    /\ Root \in Tasks
    /\ Tasks \cap Foreign = {}
    /\ NULL \notin Threads

ASSUME NumberAssumption ==
    /\ MaxPrio \in Nat /\ MaxPrio > 1
    /\ ULongMax \in Nat /\ ULongMax > 0
    /\ Prios \subseteq 1 .. MaxPrio - 2

CallNames == {"taskLock", "taskUnlock", "taskPrioritySet", "kernelTimeSlice",
              "taskActivate", "taskRestart", "return"}

ASSUME CallAssumption == Calls \subseteq CallNames

VARIABLES
    locker,      \* thread that has the scheduler locked, or NULL
    level,       \* taskLock_level
    pc,          \* where each thread is
    op,          \* the call each thread is executing
    prv,         \* prv_priority of each task
    attr,        \* priority in the pthread attributes of each task
    real,        \* priority the kernel schedules the task's thread at
    tstate,      \* DEAD before taskActivate, READY, RESTART, GONE once freed
    inherited    \* tasks whose thread priority was not set since creation

vars == <<locker, level, pc, op, prv, attr, real, tstate, inherited>>

PCs == {"none", "run", "lock", "wait", "boost", "body", "unlock"}

NoCall == [name |-> "none", tid |-> NULL, pri |-> 0, held |-> 0]

Ops == [name : CallNames \cup {"none"}, tid : Tasks \cup {NULL},
        pri : Prios \cup {0}, held : 0 .. ULongMax]

Init ==
    /\ locker = NULL /\ level = 0
    /\ pc = [t \in Threads |-> IF t \in Foreign \cup {Root} THEN "run" ELSE "none"]
    /\ op = [t \in Threads |-> NoCall]
    /\ prv \in {p \in [Tasks -> Prios \cup {MaxPrio}] :
                  \A t \in Tasks : p[t] = MaxPrio <=> t = Root}
    /\ attr = prv
    /\ real = [t \in Threads |-> IF t = Root THEN MaxPrio ELSE 0]
    /\ tstate = [t \in Tasks |-> IF t = Root THEN "READY" ELSE "DEAD"]
    /\ inherited = {}

-----------------------------------------------------------------------------
\* my_task() finds the caller's control block while it is in task_list.
HasTcb(t) == t \in Tasks /\ tstate[t] # "GONE"

\* Levels of the scheduler lock that t holds.
Held(t) == IF locker = t THEN level ELSE 0

Enter(t, name, tid, pri) ==
    /\ pc[t] = "run"
    /\ name \in Calls
    /\ op' = [op EXCEPT ![t] = [name |-> name, tid |-> tid, pri |-> pri,
                                held |-> Held(t)]]
    /\ pc' = [pc EXCEPT ![t] = IF name = "taskUnlock" THEN "unlock" ELSE "lock"]
    /\ UNCHANGED <<locker, level, prv, attr, real, tstate, inherited>>

CallTaskLock(t) == Enter(t, "taskLock", NULL, 0)
CallTaskUnlock(t) == Enter(t, "taskUnlock", NULL, 0)
CallTaskPrioritySet(t) ==
    \E tid \in Tasks, pri \in Prios : Enter(t, "taskPrioritySet", tid, pri)
CallKernelTimeSlice(t) == Enter(t, "kernelTimeSlice", NULL, 0)
CallTaskActivate(t) == \E tid \in Tasks : Enter(t, "taskActivate", tid, 0)

\* taskRestart(0) names the caller, any other id here is unknown.
CallTaskRestart(t) ==
    \E tid \in {NULL} \cup ({t} \cap Tasks) : Enter(t, "taskRestart", tid, 0)

\* Mutants of Broadcast: the call is missing, or is pthread_cond_signal.
WakeNobody(p) == p
WakeOne(p) ==
    IF \E u \in Threads : p[u] = "wait"
      THEN [p EXCEPT ![CHOOSE u \in Threads : p[u] = "wait"] = "lock"]
      ELSE p

\* pthread_cond_broadcast(&taskLock_change)
Broadcast(p) == [u \in Threads |-> IF p[u] = "wait" THEN "lock" ELSE p[u]]

\* Mutants of Grant: the level does not saturate, or the code counts the outermost call twice.
GrantUnbounded(t) ==
    /\ pc[t] = "lock"
    /\ locker \in {NULL, t}
    /\ locker' = t
    /\ level' = level + 1
    /\ pc' = [Broadcast(pc) EXCEPT ![t] = "boost"]
    /\ UNCHANGED <<op, prv, attr, real, tstate, inherited>>

GrantCountsTwice(t) ==
    /\ pc[t] = "lock"
    /\ locker \in {NULL, t}
    /\ locker' = t
    /\ level' = IF level = 0 THEN 2 ELSE level
    /\ pc' = [Broadcast(pc) EXCEPT ![t] = "boost"]
    /\ UNCHANGED <<op, prv, attr, real, tstate, inherited>>

\* The scheduler is unlocked, or locked by the caller.
Grant(t) ==
    /\ pc[t] = "lock"
    /\ locker \in {NULL, t}
    /\ locker' = t
    /\ level' = IF level = ULongMax THEN level ELSE level + 1
    /\ pc' = [Broadcast(pc) EXCEPT ![t] = "boost"]
    /\ UNCHANGED <<op, prv, attr, real, tstate, inherited>>

\* Somebody else has it locked: wait for taskLock_change.
Wait(t) ==
    /\ pc[t] = "lock"
    /\ locker \notin {NULL, t}
    /\ pc' = [pc EXCEPT ![t] = "wait"]
    /\ UNCHANGED <<locker, level, op, prv, attr, real, tstate, inherited>>

\* pthread_cond_wait may return without a broadcast.
Spurious(t) ==
    /\ pc[t] = "wait"
    /\ pc' = [pc EXCEPT ![t] = "lock"]
    /\ UNCHANGED <<locker, level, op, prv, attr, real, tstate, inherited>>

\* taskLock's second half, under task_list_lock: run at max_priority.
Boost(t) ==
    /\ pc[t] = "boost"
    /\ IF HasTcb(t)
         THEN /\ attr' = [attr EXCEPT ![t] = MaxPrio]
              /\ real' = [real EXCEPT ![t] = MaxPrio]
         ELSE UNCHANGED <<attr, real>>
    /\ pc' = [pc EXCEPT ![t] = IF op[t].name = "taskLock" THEN "run" ELSE "body"]
    /\ op' = [op EXCEPT ![t] = IF op[t].name = "taskLock" THEN NoCall ELSE op[t]]
    /\ UNCHANGED <<locker, level, prv, tstate, inherited>>

\* Where a thread is after its call: one whose control block is gone ends.
Returned(t) == IF t \in Tasks /\ ~HasTcb(t) THEN "none" ELSE "run"

\* The locker's outermost taskUnlock restores its priority, unlocks the
\* scheduler and wakes the threads that wait for it.
UnlockOutermost(t) ==
    /\ pc[t] = "unlock"
    /\ locker = t
    /\ level <= 1
    /\ locker' = NULL /\ level' = 0
    /\ pc' = [Broadcast(pc) EXCEPT ![t] = Returned(t)]
    /\ IF HasTcb(t)
         THEN /\ attr' = [attr EXCEPT ![t] = prv[t]]
              /\ real' = [real EXCEPT ![t] = prv[t]]
              /\ inherited' = inherited \ {t}
         ELSE UNCHANGED <<attr, real, inherited>>
    /\ op' = [op EXCEPT ![t] = NoCall]
    /\ UNCHANGED <<prv, tstate>>

\* A nested taskUnlock only counts, and one by another thread does nothing.
UnlockNested(t) ==
    /\ pc[t] = "unlock"
    /\ locker = t => level > 1
    /\ level' = IF locker = t THEN level - 1 ELSE level
    /\ pc' = [pc EXCEPT ![t] = Returned(t)]
    /\ op' = [op EXCEPT ![t] = NoCall]
    /\ UNCHANGED <<locker, prv, attr, real, tstate, inherited>>

-----------------------------------------------------------------------------
\* The bodies of the calls, between their taskLock and their taskUnlock.
InBody(t, name) == pc[t] = "body" /\ op[t].name = name

\* Mutant of ToUnlock: the call returns without unlocking the scheduler.
ToRun(t) == pc' = [pc EXCEPT ![t] = "run"]

ToUnlock(t) == pc' = [pc EXCEPT ![t] = "unlock"]

\* The caller's own new priority takes effect in its taskUnlock.  For a task
\* that has no thread, real stands for nothing until one is created.
TaskPrioritySet(t) ==
    LET tid == op[t].tid
    IN /\ InBody(t, "taskPrioritySet")
       /\ ToUnlock(t)
       /\ IF HasTcb(tid)
            THEN prv' = [prv EXCEPT ![tid] = op[t].pri]
            ELSE UNCHANGED prv
       /\ IF HasTcb(tid) /\ tid # t
            THEN /\ attr' = [attr EXCEPT ![tid] = op[t].pri]
                 /\ real' = [real EXCEPT ![tid] = op[t].pri]
                 /\ inherited' = inherited \ {tid}
            ELSE UNCHANGED <<attr, real, inherited>>
       /\ UNCHANGED <<locker, level, op, tstate>>

\* Mutant of KernelTimeSlice: all threads get the caller's attributes.
KernelTimeSliceOfCaller(t) ==
    /\ InBody(t, "kernelTimeSlice")
    /\ t \in Tasks
    /\ ToUnlock(t)
    /\ real' = [u \in Threads |-> IF HasTcb(u) THEN attr[t] ELSE real[u]]
    /\ UNCHANGED <<locker, level, op, prv, attr, tstate, inherited>>

\* Every task's thread gets the priority in its attributes.
KernelTimeSlice(t) ==
    /\ InBody(t, "kernelTimeSlice")
    /\ ToUnlock(t)
    /\ real' = [u \in Threads |-> IF HasTcb(u) THEN attr[u] ELSE real[u]]
    /\ UNCHANGED <<locker, level, op, prv, attr, tstate, inherited>>

\* pthread_create with attributes that say PTHREAD_INHERIT_SCHED, the
\* default: the new thread gets the caller's priority of this moment.
TaskActivate(t) ==
    LET tid == op[t].tid
    IN /\ InBody(t, "taskActivate")
       /\ IF tstate[tid] = "DEAD"
            THEN /\ tstate' = [tstate EXCEPT ![tid] = "READY"]
                 /\ pc' = [pc EXCEPT ![t] = "unlock", ![tid] = "run"]
                 /\ real' = [real EXCEPT ![tid] = real[t]]
                 /\ inherited' = inherited \cup {tid}
            ELSE /\ ToUnlock(t)
                 /\ UNCHANGED <<tstate, real, inherited>>
       /\ UNCHANGED <<locker, level, op, prv, attr>>

\* pthread_create fails: the control block is deleted.
TaskActivateFails(t) ==
    /\ InBody(t, "taskActivate")
    /\ tstate[op[t].tid] = "DEAD"
    /\ tstate' = [tstate EXCEPT ![op[t].tid] = "GONE"]
    /\ ToUnlock(t)
    /\ UNCHANGED <<locker, level, op, prv, attr, real, inherited>>

\* Mutant of Cleanup: a thread that ends keeps the scheduler locked.
NoCleanup(t) == UNCHANGED <<locker, level>>

\* task_wrapper_cleanup: a thread that ends gives the scheduler lock up,
\* without telling the threads that wait for it.  Every task's thread has pushed
\* this handler in task_wrapper; Foreign threads, which have not, never end here.
Cleanup(t) ==
    /\ locker' = IF locker = t THEN NULL ELSE locker
    /\ level' = IF locker = t THEN 0 ELSE level

\* taskRestart(0): the thread ends inside the call, holding the lock, which its
\* cleanup handler gives up.  The root task has the handler in main_impl.c only:
\* after v2lin_init the lock would stay with a thread that is gone.
TaskRestartSelf(t) ==
    /\ InBody(t, "taskRestart")
    /\ op[t].tid = t
    /\ HasTcb(t)
    /\ Cleanup(t)
    /\ pc' = [pc EXCEPT ![t] = "none"]
    /\ op' = [op EXCEPT ![t] = NoCall]
    /\ tstate' = [tstate EXCEPT ![t] = "RESTART"]
    /\ UNCHANGED <<prv, attr, real, inherited>>

\* taskRestart of an id that is not known returns from under the lock.
TaskRestartUnknown(t) ==
    /\ InBody(t, "taskRestart")
    /\ op[t].tid = NULL
    /\ pc' = [pc EXCEPT ![t] = "run"]
    /\ op' = [op EXCEPT ![t] = NoCall]
    /\ UNCHANGED <<locker, level, prv, attr, real, tstate, inherited>>

\* self_starter, on the exception task's thread, one level below MaxPrio:
\* the new thread inherits that thread's priority, not the attributes'.
SelfStarter(t) ==
    /\ tstate[t] = "RESTART"
    /\ tstate' = [tstate EXCEPT ![t] = "READY"]
    /\ pc' = [pc EXCEPT ![t] = "run"]
    /\ real' = [real EXCEPT ![t] = MaxPrio - 1]
    /\ inherited' = inherited \cup {t}
    /\ UNCHANGED <<locker, level, op, prv, attr>>

\* The entry point of a task returns: task_wrapper runs the cleanup handler
\* and then taskDeleteForce on the task itself.
Return(t) ==
    /\ pc[t] = "run"
    /\ "return" \in Calls
    /\ t \in Tasks \ {Root}
    /\ Cleanup(t)
    /\ pc' = [pc EXCEPT ![t] = "lock"]
    /\ op' = [op EXCEPT ![t] = [name |-> "return", tid |-> t, pri |-> 0, held |-> 0]]
    /\ UNCHANGED <<prv, attr, real, tstate, inherited>>

\* task_delete: out of task_list, so the taskUnlock that follows finds no
\* task whose priority to restore.
DeleteSelf(t) ==
    /\ InBody(t, "return")
    /\ tstate' = [tstate EXCEPT ![t] = "GONE"]
    /\ ToUnlock(t)
    /\ UNCHANGED <<locker, level, op, prv, attr, real, inherited>>

Call(t) ==
    \/ CallTaskLock(t) \/ CallTaskUnlock(t) \/ CallTaskPrioritySet(t)
    \/ CallKernelTimeSlice(t) \/ CallTaskActivate(t) \/ CallTaskRestart(t)

\* The steps of a call that has begun.
Progress(t) ==
    \/ Grant(t) \/ Wait(t) \/ Boost(t)
    \/ UnlockOutermost(t) \/ UnlockNested(t)
    \/ TaskPrioritySet(t) \/ KernelTimeSlice(t) \/ TaskActivate(t)
    \/ TaskActivateFails(t) \/ TaskRestartSelf(t) \/ TaskRestartUnknown(t)
    \/ DeleteSelf(t)

Next ==
    \/ \E t \in Threads : Call(t) \/ Progress(t) \/ Spurious(t)
    \/ \E t \in Tasks : Return(t) \/ SelfStarter(t)

Spec == Init /\ [][Next]_vars

\* Threads finish the calls they begin, and a client that has the scheduler
\* locked unlocks it.
Fairness ==
    /\ \A t \in Threads : WF_vars(Progress(t))
    /\ \A t \in Threads : WF_vars(locker = t /\ CallTaskUnlock(t))
    /\ \A t \in Tasks : WF_vars(SelfStarter(t))

FairSpec == Spec /\ Fairness

-----------------------------------------------------------------------------
TypeOK ==
    /\ locker \in Threads \cup {NULL}
    /\ level \in 0 .. ULongMax
    /\ pc \in [Threads -> PCs]
    /\ op \in [Threads -> Ops]
    /\ prv \in [Tasks -> Prios \cup {MaxPrio}]
    /\ attr \in [Tasks -> Prios \cup {MaxPrio}]
    /\ real \in [Threads -> 0 .. MaxPrio]
    /\ tstate \in [Tasks -> {"DEAD", "READY", "RESTART", "GONE"}]
    /\ inherited \in SUBSET Tasks

\* A thread between the taskLock and the taskUnlock of a library call is the
\* one that has the scheduler locked, so no two threads are in such a section;
\* the lock is never left without an owner, or with an owner that has ended.
MutualExclusion ==
    /\ locker = NULL <=> level = 0
    /\ \A t \in Threads :
         /\ pc[t] \in {"boost", "body"} => locker = t
         /\ pc[t] = "unlock" /\ op[t].name # "taskUnlock" => locker = t
         /\ pc[t] = "none" => locker # t

\* "Ensures that only one thread at a time gets to run at max_priority": a
\* task runs above (or below) its own priority only while it has the scheduler
\* locked, if anything has set its thread's priority since the thread started
\* and its entry point has not returned.  The attributes, from which
\* kernelTimeSlice takes priorities, agree.
PriorityDiscipline ==
    \A t \in Tasks \ inherited :
        /\ tstate[t] = "READY"
        /\ op[t].name # "return"
        /\ locker # t
        => real[t] = prv[t] /\ attr[t] = prv[t]

\* A thread sleeps in taskLock only while somebody else has the scheduler
\* locked: whoever unlocks it has woken every sleeper.
NoLostWakeup == \A t \in Threads : pc[t] = "wait" => locker \notin {NULL, t}

\* A call other than taskLock and taskUnlock returns with the scheduler locked
\* exactly as deeply as when it was entered.
BalancedStep ==
    \A t \in Threads :
        /\ op[t].name \notin {"none", "taskLock", "taskUnlock"}
        /\ op[t].held < ULongMax
        /\ pc'[t] = "run"
        => Held(t)' = op[t].held

CallsAreBalanced == [][BalancedStep]_vars

\* A thread that waits in taskLock is woken up.
WaiterWoken == \A t \in Threads : pc[t] = "wait" ~> pc[t] # "wait"

\* taskLock and taskUnlock implement the recursive lock of SchedLockAbs; the
\* owner gives it up when its level reaches zero.
Abs == INSTANCE SchedLockAbs WITH owner <- locker, depth <- level,
                                  MaxDepth <- ULongMax
ImplementsLock == Abs!AbsSpec
=============================================================================
