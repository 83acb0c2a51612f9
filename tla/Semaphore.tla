----------------------------- MODULE Semaphore -----------------------------
(***************************************************************************)
(* One semaphore of lib/lsemLib.c, from its creation by semBCreate,        *)
(* semCCreate or semMCreate until semDelete frees it, and the threads that *)
(* call semGive, semTake, semFlush and semDelete on it.                    *)
(*                                                                         *)
(* A step is what a thread does between two points where it may have to    *)
(* wait: for sem_list_lock, sem_lock, smdel_lock or the scheduler lock, on *)
(* the condition variables sem_send and smdel_cplt, or in taskDelay.       *)
(* semLock is written only by the steps after which the mutex stays held.  *)
(***************************************************************************)
EXTENDS Integers, Sequences, FiniteSets

CONSTANTS
    Tasks,         \* threads with a task control block
    Foreign,       \* POSIX threads without one: my_task() is NULL
    NULL,
    Kinds,         \* the kinds of semaphore that may be created
    InitCounts,    \* arguments of semCCreate
    Waits,         \* the max_wait arguments that semTake is called with
    SemCalls,      \* the calls that threads make
    MaxTokens,     \* bound: no semGive when that many tokens could be there
    MaxRecursion,  \* bound: depth to which an owner takes a mutex again
    MaxDebt        \* bound: no semTake once that many takes had no token

Threads == Tasks \cup Foreign

ASSUME ThreadAssumption == Tasks \cap Foreign = {} /\ NULL \notin Threads

ASSUME ArgumentAssumption ==
    /\ Kinds \subseteq {"BINARY", "COUNTING", "MUTEX"}
    /\ InitCounts \subseteq Nat
    /\ Waits \subseteq {"FOREVER", "TIMED", "NO_WAIT"}
    /\ SemCalls \subseteq {"semGive", "semTake", "semFlush", "semDelete"}

VARIABLES
    kind,          \* SEM_TYPE_MASK of flags
    status,        \* linked into sem_list, unlinked, or freed
    token,         \* token_count
    rlevel,        \* recursion_level
    currentOwner,  \* current_owner, a task or NULL
    susp,          \* the tasks linked at first_susp
    sendType,      \* send_type
    listLock,      \* holder of sem_list_lock
    semLock,       \* holder of sem_lock
    smdelLock,     \* holder of smdel_lock
    locker, level, \* the scheduler lock
    pc, op,        \* where each thread is, and in which call
    wait,          \* max_wait of its semTake
    expired,       \* its timeout is in the past
    ret,           \* retcode in wait_for_token
    credit,        \* history: initial tokens + gives - takes that return OK
    held           \* history: takes minus gives of a mutex that return OK

locks == <<listLock, semLock, smdelLock>>
sched == <<locker, level>>
data == <<kind, status, token, rlevel, currentOwner, susp, sendType>>
local == <<wait, expired, ret>>
told == <<credit, held>>
vars == <<kind, status, token, rlevel, currentOwner, susp, sendType, listLock,
          semLock, smdelLock, locker, level, pc, op, wait, expired, ret, credit,
          held>>

Sched == INSTANCE SchedLockAbs WITH owner <- locker, depth <- level, MaxDepth <- 1

\* new_sem, and the initial state or count that each create call passes it.
InitialCount(k) ==
    CASE k = "BINARY" -> {0, 1} [] k = "COUNTING" -> InitCounts [] k = "MUTEX" -> {1}

Init ==
    /\ kind \in Kinds
    /\ token \in InitialCount(kind)
    /\ status = "linked" /\ sendType = "SEND"
    /\ rlevel = 0 /\ currentOwner = NULL /\ susp = <<>>
    /\ listLock = NULL /\ semLock = NULL /\ smdelLock = NULL
    /\ Sched!AbsInit
    /\ pc = [t \in Threads |-> "idle"]
    /\ op = [t \in Threads |-> "none"]
    /\ wait = [t \in Threads |-> "FOREVER"]
    /\ expired = [t \in Threads |-> FALSE]
    /\ ret = [t \in Threads |-> "OK"]
    /\ credit = token
    /\ held = [t \in Threads |-> 0]

-----------------------------------------------------------------------------
MyTask(t) == IF t \in Tasks THEN t ELSE NULL

Killed == sendType \in {"FLUSH", "KILLD"}

Goto(t, place) == pc' = [pc EXCEPT ![t] = place]

\* The outcome of the call is settled: what the caller is told of it.
Settle(t, error) ==
    LET gain == CASE error = "OK" /\ op[t] = "semGive" -> 1
                  [] error = "OK" /\ op[t] = "semTake" -> -1
                  [] OTHER -> 0
    IN /\ credit' = credit + gain
       /\ held' = IF kind = "MUTEX" THEN [held EXCEPT ![t] = @ - gain] ELSE held

\* The call returns, the other threads being at p.
Return(p, t) ==
    /\ pc' = [p EXCEPT ![t] = "idle"]
    /\ op' = [op EXCEPT ![t] = "none"]
    /\ wait' = [wait EXCEPT ![t] = "FOREVER"]
    /\ expired' = [expired EXCEPT ![t] = FALSE]
    /\ ret' = [ret EXCEPT ![t] = "OK"]

Finish(t, error) == Settle(t, error) /\ Return(pc, t)

Begin(t, name) ==
    /\ pc[t] = "idle"
    /\ name \in SemCalls
    /\ Goto(t, "find")
    /\ op' = [op EXCEPT ![t] = name]
    /\ UNCHANGED <<data, locks, sched, told>>

CallGive(t) ==
    /\ token + Cardinality({u \in Threads : op[u] = "semGive"}) < MaxTokens
    /\ Begin(t, "semGive")
    /\ UNCHANGED local

\* With NO_WAIT the timeout is the present.
CallTake(t) ==
    /\ credit > -MaxDebt
    /\ ~(kind = "MUTEX" /\ currentOwner = MyTask(t) /\ rlevel >= MaxRecursion)
    /\ Begin(t, "semTake")
    /\ \E w \in Waits :
         /\ wait' = [wait EXCEPT ![t] = w]
         /\ expired' = [expired EXCEPT ![t] = (w = "NO_WAIT")]
    /\ ret' = [ret EXCEPT ![t] = "OK"]

CallFlush(t) == Begin(t, "semFlush") /\ UNCHANGED local
CallDelete(t) == Begin(t, "semDelete") /\ UNCHANGED local

\* sem_find_lock: the semaphore is looked up under sem_list_lock, which stays
\* held while the caller waits for sem_lock.
FindMiss(t) ==
    /\ pc[t] = "find"
    /\ listLock = NULL
    /\ status # "linked"
    /\ Finish(t, "ID_ERROR")
    /\ UNCHANGED <<data, locks, sched>>

FindHit(t) ==
    /\ pc[t] = "find"
    /\ listLock = NULL
    /\ status = "linked"
    /\ listLock' = t
    /\ Goto(t, "found")
    /\ UNCHANGED <<data, semLock, smdelLock, sched, op, local, told>>

\* sem_find_lock gets sem_lock and lets go of sem_list_lock.
Found(t, name) ==
    /\ pc[t] = "found"
    /\ op[t] = name
    /\ semLock = NULL
    /\ listLock' = NULL

\* Mutant of BroadcastSend: pthread_cond_signal.
SignalSend(p) ==
    IF \E u \in Threads : p[u] = "cond"
      THEN [p EXCEPT ![CHOOSE u \in Threads : p[u] = "cond"] = "woken"]
      ELSE p

\* pthread_cond_broadcast(&sem_send)
BroadcastSend(p) == [u \in Threads |-> IF p[u] = "cond" THEN "woken" ELSE p[u]]

-----------------------------------------------------------------------------
\* semGive

\* Mutant of NotOwner: semGive does not look at current_owner.
NeverNotOwner(t) == FALSE

NotOwner(t) == kind = "MUTEX" /\ currentOwner # MyTask(t)

GiveRefused(t) ==
    /\ Found(t, "semGive")
    /\ NotOwner(t)
    /\ Finish(t, "INVALID_OPERATION")
    /\ UNCHANGED <<data, semLock, smdelLock, sched>>

\* The broadcast is sent only if a task is linked at first_susp.
Give(t) ==
    /\ Found(t, "semGive")
    /\ ~NotOwner(t)
    /\ IF rlevel > 0
         THEN /\ rlevel' = rlevel - 1
              /\ token' = IF rlevel = 1 THEN token + 1 ELSE token
              /\ currentOwner' = IF rlevel = 1 THEN NULL ELSE currentOwner
         ELSE /\ token' = token + 1
              /\ UNCHANGED <<rlevel, currentOwner>>
    /\ Settle(t, "OK")
    /\ Return(IF susp = <<>> THEN pc ELSE BroadcastSend(pc), t)
    /\ UNCHANGED <<kind, status, susp, sendType, semLock, smdelLock, sched>>

-----------------------------------------------------------------------------
\* semTake

\* Mutant of TakeRecursive: any task may take an owned mutex again.
TakeRecursiveByAnyone(t) ==
    /\ Found(t, "semTake")
    /\ kind = "MUTEX"
    /\ currentOwner # NULL
    /\ rlevel' = rlevel + 1
    /\ Finish(t, "OK")
    /\ UNCHANGED <<kind, status, token, currentOwner, susp, sendType, semLock,
                   smdelLock, sched>>

TakeRecursive(t) ==
    /\ Found(t, "semTake")
    /\ kind = "MUTEX"
    /\ currentOwner = MyTask(t)
    /\ rlevel' = rlevel + 1
    /\ Finish(t, "OK")
    /\ UNCHANGED <<kind, status, token, currentOwner, susp, sendType, semLock,
                   smdelLock, sched>>

\* link_susp_task; a foreign thread has nothing to link.
TakeLink(t) ==
    /\ Found(t, "semTake")
    /\ kind # "MUTEX" \/ currentOwner # MyTask(t)
    /\ susp' = IF t \in Tasks THEN Append(susp, t) ELSE susp
    /\ semLock' = t
    /\ Goto(t, "check")
    /\ UNCHANGED <<kind, status, token, rlevel, currentOwner, sendType, smdelLock,
                   sched, op, local, told>>

\* t runs waiting_on_sem, having just linked itself or woken up.
CanCheck(t) ==
    \/ pc[t] = "check" /\ semLock = t
    \/ pc[t] = "woken" /\ semLock = NULL

\* t is back from the taskDelay in waiting_on_sem: it tests neither the send
\* type again nor, if its timeout has passed, the token count.
CanRecheck(t) == pc[t] = "delay" /\ semLock = NULL

\* Mutant of SignalForMe: the token is for whoever comes first.
SignalForAnyone(t) == TRUE

\* signal_for_my_task: an empty list has the head NULL, a foreign thread's task.
SignalForMe(t) == IF susp = <<>> THEN t \in Foreign ELSE Head(susp) = t

\* unlink_susp_task: the list without its entry for t, if it has one (it never
\* has two).
Unlinked(s, t) ==
    IF \E i \in DOMAIN s : s[i] = t
      THEN LET i == CHOOSE i \in DOMAIN s : s[i] = t
           IN [j \in 1 .. Len(s) - 1 |-> IF j < i THEN s[j] ELSE s[j + 1]]
      ELSE s

\* wait_for_token's end.  After a flush or a deletion the last one to leave
\* goes on to report that, still holding sem_lock.
Leave(t, retcode, tokens) ==
    LET left == Unlinked(susp, t)
        error == IF sendType = "KILLD" THEN "ID_ERROR"
                 ELSE IF retcode = "ETIMEDOUT" /\ wait[t] = "TIMED" THEN "TIMEOUT"
                 ELSE "OK"
    IN /\ token' = tokens
       /\ susp' = left
       /\ IF Killed /\ left = <<>>
            THEN Goto(t, "notify") /\ semLock' = t /\ UNCHANGED <<op, local>>
            ELSE Return(pc, t) /\ semLock' = NULL
       /\ Settle(t, error)
       /\ IF ~Killed /\ retcode = "OK"
            THEN /\ currentOwner' = MyTask(t)
                 /\ rlevel' = IF kind = "MUTEX" THEN rlevel + 1 ELSE rlevel
            ELSE UNCHANGED <<currentOwner, rlevel>>
       /\ UNCHANGED <<kind, status, sendType, listLock, smdelLock, sched>>

\* sem_lock is released while the thread waits at place.
Sleep(t, place) ==
    /\ Goto(t, place)
    /\ semLock' = NULL
    /\ UNCHANGED <<data, listLock, smdelLock, sched, op, local, told>>

\* Mutant of StillWaiting: the result of the wait is lost, the end looks like
\* that of a wait which got a token.
StillWaitingOK(t) ==
    IF ret[t] = "ETIMEDOUT" THEN Leave(t, "OK", token) ELSE Sleep(t, "cond")

\* waiting_on_sem reports no token: the end if the wait has timed out.
StillWaiting(t) ==
    IF ret[t] = "ETIMEDOUT" THEN Leave(t, "ETIMEDOUT", token) ELSE Sleep(t, "cond")

CheckKilled(t) == CanCheck(t) /\ Killed /\ Leave(t, "OK", token)

\* Mutant of CheckToken: an off-by-one in the test of the token count.
CheckTokenOrNone(t) ==
    /\ CanCheck(t)
    /\ ~Killed
    /\ token >= 0
    /\ SignalForMe(t)
    /\ Leave(t, "OK", token - 1)

CheckToken(t) ==
    /\ CanCheck(t)
    /\ ~Killed
    /\ token > 0
    /\ SignalForMe(t)
    /\ Leave(t, "OK", token - 1)

CheckNotMine(t) ==
    /\ CanCheck(t)
    /\ ~Killed
    /\ token > 0
    /\ ~SignalForMe(t)
    /\ Sleep(t, "delay")

CheckNoToken(t) == CanCheck(t) /\ ~Killed /\ token = 0 /\ StillWaiting(t)

\* Mutant of RecheckExpired: a token is taken although the wait is reported to
\* have timed out.
RecheckExpiredTakes(t) ==
    /\ CanRecheck(t)
    /\ wait[t] # "FOREVER" /\ expired[t]
    /\ token > 0
    /\ Leave(t, "ETIMEDOUT", token - 1)

RecheckExpired(t) ==
    /\ CanRecheck(t)
    /\ wait[t] # "FOREVER" /\ expired[t]
    /\ StillWaiting(t)

Rechecks(t) == CanRecheck(t) /\ (wait[t] = "FOREVER" \/ ~expired[t])

RecheckToken(t) ==
    Rechecks(t) /\ token > 0 /\ SignalForMe(t) /\ Leave(t, "OK", token - 1)

RecheckNoToken(t) == Rechecks(t) /\ token = 0 /\ StillWaiting(t)

\* The deadline passes.
Expire(t) ==
    /\ pc[t] \in {"cond", "woken", "delay"}
    /\ wait[t] = "TIMED" /\ ~expired[t]
    /\ expired' = [expired EXCEPT ![t] = TRUE]
    /\ UNCHANGED <<data, locks, sched, pc, op, wait, ret, told>>

\* pthread_cond_timedwait returns ETIMEDOUT.
TimedOut(t) ==
    /\ pc[t] = "cond"
    /\ wait[t] # "FOREVER" /\ expired[t]
    /\ ret' = [ret EXCEPT ![t] = "ETIMEDOUT"]
    /\ Goto(t, "woken")
    /\ UNCHANGED <<data, locks, sched, op, wait, expired, told>>

\* A condition variable may wake a thread for no reason.
Spurious(t) ==
    /\ pc[t] \in {"cond", "drainWait"}
    /\ Goto(t, IF pc[t] = "cond" THEN "woken" ELSE "drainWoken")
    /\ UNCHANGED <<data, locks, sched, op, local, told>>

\* Mutant of Notify: send_type is not reset.
NotifyKeepsType(t) ==
    /\ pc[t] = "notify"
    /\ smdelLock = NULL
    /\ pc' = [u \in Threads |->
                CASE u = t -> "release"
                  [] u # t /\ pc[u] = "drainWait" -> "drainWoken"
                  [] OTHER -> pc[u]]
    /\ UNCHANGED <<data, locks, sched, op, local, told>>

\* The last waiter reports a flush or a deletion under smdel_lock ...
Notify(t) ==
    /\ pc[t] = "notify"
    /\ smdelLock = NULL
    /\ sendType' = "SEND"
    /\ pc' = [u \in Threads |->
                CASE u = t -> "release"
                  [] u # t /\ pc[u] = "drainWait" -> "drainWoken"
                  [] OTHER -> pc[u]]
    /\ UNCHANGED <<kind, status, token, rlevel, currentOwner, susp, locks, sched,
                   op, local, told>>

\* ... and then returns from semTake, unlocking sem_lock.
Release(t) ==
    /\ pc[t] = "release"
    /\ semLock' = NULL
    /\ Return(pc, t)
    /\ UNCHANGED <<data, listLock, smdelLock, sched, told>>

-----------------------------------------------------------------------------
\* semFlush and semDelete

FlushRefused(t) ==
    /\ Found(t, "semFlush")
    /\ kind = "MUTEX"
    /\ Finish(t, "INVALID_OPERATION")
    /\ UNCHANGED <<data, semLock, smdelLock, sched>>

\* Both keep sem_lock while they wait for the scheduler lock.
FlushOrDelete(t) ==
    /\ \/ Found(t, "semFlush") /\ kind # "MUTEX"
       \/ Found(t, "semDelete")
    /\ semLock' = t
    /\ Goto(t, "sched")
    /\ UNCHANGED <<data, smdelLock, sched, op, local, told>>

\* With no task waiting a flush is done, and never unlocks sem_lock.
SchedLocked(t) ==
    /\ pc[t] = "sched"
    /\ Sched!Lock(t)
    /\ Goto(t, IF susp # <<>> THEN "announce"
               ELSE IF op[t] = "semFlush" THEN "unsched" ELSE "unlink")
    /\ UNCHANGED <<data, locks, op, local, told>>

\* Mutant of Announce: semDelete says FLUSH, as semFlush does.
AnnounceFlush(t) ==
    /\ pc[t] = "announce"
    /\ smdelLock = NULL
    /\ smdelLock' = t
    /\ sendType' = "FLUSH"
    /\ semLock' = NULL
    /\ pc' = [BroadcastSend(pc) EXCEPT ![t] = "drain"]
    /\ UNCHANGED <<kind, status, token, rlevel, currentOwner, susp, listLock, sched,
                   op, local, told>>

Announce(t) ==
    /\ pc[t] = "announce"
    /\ smdelLock = NULL
    /\ smdelLock' = t
    /\ sendType' = IF op[t] = "semFlush" THEN "FLUSH" ELSE "KILLD"
    /\ semLock' = NULL
    /\ pc' = [BroadcastSend(pc) EXCEPT ![t] = "drain"]
    /\ UNCHANGED <<kind, status, token, rlevel, currentOwner, susp, listLock, sched,
                   op, local, told>>

\* first_susp is read without sem_lock, until no task is linked there.
DrainWait(t) ==
    /\ pc[t] = "drain"
    /\ susp # <<>>
    /\ smdelLock' = NULL
    /\ Goto(t, "drainWait")
    /\ UNCHANGED <<data, listLock, semLock, sched, op, local, told>>

DrainAgain(t) ==
    /\ pc[t] = "drainWoken"
    /\ smdelLock = NULL
    /\ smdelLock' = t
    /\ Goto(t, "drain")
    /\ UNCHANGED <<data, listLock, semLock, sched, op, local, told>>

\* semDelete goes on with smdel_lock held.
Drained(t) ==
    /\ pc[t] = "drain"
    /\ susp = <<>>
    /\ IF op[t] = "semFlush"
         THEN smdelLock' = NULL /\ Goto(t, "unsched")
         ELSE smdelLock' = smdelLock /\ Goto(t, "unlink")
    /\ UNCHANGED <<data, listLock, semLock, sched, op, local, told>>

\* unlink_smcb
Unlink(t) ==
    /\ pc[t] = "unlink"
    /\ listLock = NULL
    /\ status' = IF status = "linked" THEN "unlinked" ELSE status
    /\ Goto(t, "free")
    /\ UNCHANGED <<kind, token, rlevel, currentOwner, susp, sendType, locks, sched,
                   op, local, told>>

Free(t) ==
    /\ pc[t] = "free"
    /\ status' = "freed"
    /\ Goto(t, "unsched")
    /\ UNCHANGED <<kind, token, rlevel, currentOwner, susp, sendType, locks, sched,
                   op, local, told>>

SchedUnlocked(t) ==
    /\ pc[t] = "unsched"
    /\ Sched!Unlock(t)
    /\ Finish(t, "OK")
    /\ UNCHANGED <<data, locks>>

-----------------------------------------------------------------------------
\* The places at which a thread reads or writes the control block next.
Touching == {"check", "woken", "delay", "notify", "release", "sched", "announce",
             "drain", "drainWoken", "unlink", "free"}

\* What a thread does next with a control block that was freed is not defined:
\* it may find it as it was, which the other actions cover, or never come back.
UseFreed(t) ==
    /\ status = "freed"
    /\ pc[t] \in Touching
    /\ Goto(t, "lost")
    /\ UNCHANGED <<data, locks, sched, op, local, told>>

Call(t) == CallGive(t) \/ CallTake(t) \/ CallFlush(t) \/ CallDelete(t)

\* The steps of a call in progress that are the code's own.
Progress(t) ==
    \/ FindMiss(t) \/ FindHit(t) \/ GiveRefused(t) \/ Give(t)
    \/ TakeRecursive(t) \/ TakeLink(t)
    \/ CheckKilled(t) \/ CheckToken(t) \/ CheckNotMine(t) \/ CheckNoToken(t)
    \/ RecheckExpired(t) \/ RecheckToken(t) \/ RecheckNoToken(t)
    \/ TimedOut(t) \/ Notify(t) \/ Release(t)
    \/ FlushRefused(t) \/ FlushOrDelete(t) \/ SchedLocked(t) \/ Announce(t)
    \/ DrainWait(t) \/ DrainAgain(t) \/ Drained(t)
    \/ Unlink(t) \/ Free(t) \/ SchedUnlocked(t)

Next == \E t \in Threads :
            Call(t) \/ Progress(t) \/ Expire(t) \/ Spurious(t) \/ UseFreed(t)

Spec == Init /\ [][Next]_vars

\* A thread that can go on does so, one that finds a mutex free again and again
\* gets it, and time passes.
Fairness == \A t \in Threads : SF_vars(Progress(t)) /\ WF_vars(Expire(t))

FairSpec == Spec /\ Fairness

-----------------------------------------------------------------------------
PCs == Touching \cup {"idle", "find", "found", "cond", "drainWait", "unsched", "lost"}

TypeOK ==
    /\ kind \in {"BINARY", "COUNTING", "MUTEX"}
    /\ status \in {"linked", "unlinked", "freed"}
    /\ token \in Nat /\ rlevel \in Nat
    /\ currentOwner \in Tasks \cup {NULL}
    /\ susp \in Seq(Tasks)
    /\ sendType \in {"SEND", "FLUSH", "KILLD"}
    /\ listLock \in Threads \cup {NULL} /\ semLock \in Threads \cup {NULL}
    /\ smdelLock \in Threads \cup {NULL} /\ locker \in Threads \cup {NULL}
    /\ level \in 0 .. 1
    /\ pc \in [Threads -> PCs]
    /\ op \in [Threads -> {"none", "semGive", "semTake", "semFlush", "semDelete"}]
    /\ wait \in [Threads -> {"FOREVER", "TIMED", "NO_WAIT"}]
    /\ expired \in [Threads -> BOOLEAN]
    /\ ret \in [Threads -> {"OK", "ETIMEDOUT"}]
    /\ credit \in Int
    /\ held \in [Threads -> Int]

\* A task sleeps in semTake only while there is neither a token nor a flush or
\* deletion it should learn of: no give, and no check, loses a wake-up.
NoLostWakeup ==
    \A t \in Threads :
        pc[t] = "cond" /\ ~expired[t] => token = 0 /\ sendType = "SEND"

\* For binary and counting semaphores: the tokens left are those that the
\* return values of the calls leave, so that an OK from semTake is one token
\* taken and anything else is none.
TokensMatchReturns == kind # "MUTEX" => token = credit

\* No token disappears without a semTake that returned OK for it.
NoTokenLost == kind # "MUTEX" => token >= credit

\* Every semTake that returned OK had a token.
TakesAreBacked == kind # "MUTEX" => token <= credit

\* A mutex belongs to one task at a time, the one whose semTake calls returned
\* OK more often than its semGive calls, and is available otherwise.
MutexExclusion ==
    kind = "MUTEX" =>
        /\ \A t \in Threads : held[t] = IF currentOwner = t THEN rlevel ELSE 0
        /\ currentOwner = NULL <=> rlevel = 0
        /\ token = IF currentOwner = NULL THEN 1 ELSE 0

\* At most one thread believes that it owns the mutex.
OneOwner ==
    kind = "MUTEX" => \A t, u \in Threads : held[t] > 0 /\ held[u] > 0 => t = u

\* A flush does not outlive its flush: while send_type says FLUSH the flusher
\* still waits for the tasks, or the last task is about to reset it.  Otherwise
\* a later semTake would return at once, as if it had a token.
NoStaleFlush ==
    sendType = "FLUSH" =>
        \E t \in Threads : pc[t] \in {"drain", "drainWait", "drainWoken", "notify"}

\* The semaphore as the queue of SemaphoreAbs.
Queue == INSTANCE SemaphoreAbs WITH
            Waiters <- Tasks, tokens <- token, queue <- susp,
            patient <- {t \in Tasks : wait[t] = "FOREVER" /\
                                      \E i \in DOMAIN susp : susp[i] = t}

\* A semaphore that is only given and taken implements that queue: semTake
\* serves the tasks in the order in which they were linked at first_susp, one
\* token each, and a task that waits forever leaves only with a token, however
\* the woken tasks overtake each other.
ImplementsQueue == Queue!AbsSpec

\* And it keeps the promise to serve: the task that is first in the list and
\* waits forever is not left waiting while there are tokens.
QueueServes == Queue!AbsFair
=============================================================================
