------------------------------ MODULE MsgQueue ------------------------------
(***************************************************************************)
(* One message queue of lib/lmsgQLib.c, from msgQCreate until msgQDelete   *)
(* frees it, and the tasks that call msgQSend, msgQReceive, msgQNumMsgs    *)
(* and msgQDelete on it.                                                   *)
(*                                                                         *)
(* A step is what a task does between two points where it may have to wait *)
(* or where it looks at the queue without queue_lock, as a sender that     *)
(* waits for space does.                                                   *)
(***************************************************************************)
EXTENDS Integers, Sequences, FiniteSets

CONSTANTS
    Tasks,
    NULL,
    Senders, Receivers, Counters, Deleters, \* the tasks that make each call
    Prio,                                   \* sched_priority of each task
    Msgs,                                   \* the messages
    Sizes, Orders,                          \* arguments of msgQCreate
    SendWaits, RecvWaits, Pris, Fits,       \* arguments of the other calls
    MaxBacklog                              \* bound: no msgQSend once that many
                                            \* messages are queued

ASSUME TaskAssumption ==
    /\ NULL \notin Tasks
    /\ Senders \cup Receivers \cup Counters \cup Deleters \subseteq Tasks
    /\ Prio \in [Tasks -> Int]

ASSUME QueueAssumption ==
    /\ Sizes \subseteq Nat
    /\ MaxBacklog \in Nat
    /\ NULL \notin Msgs
    /\ Orders \subseteq {"FIFO", "PRIORITY"}
    /\ SendWaits \cup RecvWaits \subseteq {"FOREVER", "TIMED", "NO_WAIT"}
    /\ Pris \subseteq {"NORMAL", "URGENT"}
    /\ Fits \subseteq BOOLEAN

VARIABLES
    size,             \* msgs_per_queue
    order,            \* pend order of the queue
    status,           \* linked into mqueue_list, unlinked, or freed
    ring, head, tail, \* the extent, queue_head and queue_tail
    count,            \* msg_count
    sendType,         \* send_type
    readers,          \* the tasks linked at first_susp
    writers,          \* the tasks linked at first_write_susp
    listLock,         \* holder of mqueue_list_lock
    queueLock,        \* holder of queue_lock
    qdletLock,        \* holder of qdlet_lock
    qfullLock,        \* qfull_lock is locked, whoever locked it
    locker, level,    \* the scheduler lock
    pc, op, arg,      \* where each task is, in which call, its arguments
    expired,          \* its timeout is in the past
    ret,              \* retcode
    delivered,        \* the message that the last receiver copied
    doomed            \* history: tasks that were waiting when send_type became
                      \* KILLD and have not been unlinked since

fixed == <<size, order>>
ringVars == <<ring, head, tail, count>>
lists == <<readers, writers>>
locks == <<listLock, queueLock, qdletLock, qfullLock>>
sched == <<locker, level>>
local == <<op, arg, expired, ret>>
history == <<delivered, doomed>>
vars == <<size, order, status, ring, head, tail, count, sendType, readers, writers,
          listLock, queueLock, qdletLock, qfullLock, locker, level, pc, op, arg,
          expired, ret, delivered, doomed>>

Sched == INSTANCE SchedLockAbs WITH
            Threads <- Tasks, owner <- locker, depth <- level, MaxDepth <- 1

\* data_extent_for: one slot more than the queue has messages.
Slots == 0 .. size

NoArg == [msg |-> NULL, pri |-> "NORMAL", wait |-> "FOREVER", fits |-> TRUE]

\* msgQCreate
Init ==
    /\ size \in Sizes /\ order \in Orders
    /\ status = "linked" /\ sendType = "SEND"
    /\ ring = [i \in Slots |-> NULL] /\ head = 0 /\ tail = 0 /\ count = 0
    /\ readers = <<>> /\ writers = <<>>
    /\ listLock = NULL /\ queueLock = NULL /\ qdletLock = NULL
    /\ qfullLock = FALSE
    /\ Sched!AbsInit
    /\ pc = [t \in Tasks |-> "idle"]
    /\ op = [t \in Tasks |-> "none"]
    /\ arg = [t \in Tasks |-> NoArg]
    /\ expired = [t \in Tasks |-> FALSE]
    /\ ret = [t \in Tasks |-> "OK"]
    /\ delivered = NULL
    /\ doomed = {}

-----------------------------------------------------------------------------
Goto(t, place) == pc' = [pc EXCEPT ![t] = place]

\* The call returns, the other tasks being at p.
Return(p, t) ==
    /\ pc' = [p EXCEPT ![t] = "idle"]
    /\ op' = [op EXCEPT ![t] = "none"]
    /\ arg' = [arg EXCEPT ![t] = NoArg]
    /\ expired' = [expired EXCEPT ![t] = FALSE]
    /\ ret' = [ret EXCEPT ![t] = "OK"]

Killed == sendType = "KILLD"

Timed(t) == arg[t].wait # "FOREVER"

\* Mutant of BroadcastSend: pthread_cond_signal.
SignalSend(p) ==
    IF \E u \in Tasks : p[u] = "cond"
      THEN [p EXCEPT ![CHOOSE u \in Tasks : p[u] = "cond"] = "woken"]
      ELSE p

\* pthread_cond_broadcast of queue_send, queue_space and qdlet_cmplt
BroadcastSend(p) == [u \in Tasks |-> IF p[u] = "cond" THEN "woken" ELSE p[u]]
BroadcastSpace(p) ==
    [u \in Tasks |-> IF p[u] = "spaceCond" THEN "spaceWoken" ELSE p[u]]
BroadcastComplete(p) ==
    [u \in Tasks |-> IF p[u] = "drainWait" THEN "drainWoken" ELSE p[u]]

\* The task that a list selects is its first one, or its first one of the
\* highest priority.
Selected(s, t) ==
    \E i \in DOMAIN s :
        /\ s[i] = t
        /\ IF order = "FIFO" THEN i = 1
           ELSE /\ \A j \in DOMAIN s : Prio[s[j]] <= Prio[t]
                /\ \A j \in 1 .. i - 1 : Prio[s[j]] < Prio[t]

\* unlink_susp_task: the list without its entry for t, if it has one.
Unlinked(s, t) ==
    IF \E i \in DOMAIN s : s[i] = t
      THEN LET i == CHOOSE i \in DOMAIN s : s[i] = t
           IN [j \in 1 .. Len(s) - 1 |-> IF j < i THEN s[j] ELSE s[j + 1]]
      ELSE s

\* Mutant of Up: the wrap forgets the extra slot.
UpShort(i) == IF i + 1 >= size THEN 0 ELSE i + 1

\* The pointers rotate through the extent.
Up(i) == IF i = size THEN 0 ELSE i + 1
Down(i) == IF i = 0 THEN size ELSE i - 1

SendMsgTo(m) ==
    /\ ring' = [ring EXCEPT ![tail] = m]
    /\ tail' = Up(tail)
    /\ count' = count + 1
    /\ sendType' = "SEND"
    /\ UNCHANGED head

UrgentMsgTo(m) ==
    /\ ring' = [ring EXCEPT ![Down(head)] = m]
    /\ head' = Down(head)
    /\ count' = count + 1
    /\ sendType' = "URGNT"
    /\ UNCHANGED tail

FetchMsg ==
    /\ delivered' = ring[head]
    /\ ring' = [ring EXCEPT ![head] = NULL]
    /\ head' = Up(head)
    /\ count' = count - 1
    /\ UNCHANGED tail

-----------------------------------------------------------------------------
\* The calls and mqueue_find_lock, which waits for queue_lock with the list
\* locked.
Begin(t, name, args) ==
    /\ pc[t] = "idle"
    /\ Goto(t, "find")
    /\ op' = [op EXCEPT ![t] = name]
    /\ arg' = [arg EXCEPT ![t] = args]
    /\ expired' = [expired EXCEPT ![t] = (args.wait = "NO_WAIT")]
    /\ UNCHANGED <<fixed, status, ringVars, sendType, lists, locks, sched, ret, history>>

CallSend(t) ==
    /\ t \in Senders
    /\ count < MaxBacklog
    /\ \E m \in Msgs, p \in Pris, w \in SendWaits, f \in Fits :
         Begin(t, "msgQSend", [msg |-> m, pri |-> p, wait |-> w, fits |-> f])

\* With NO_WAIT the timeout is the present.
CallReceive(t) ==
    /\ t \in Receivers
    /\ \E w \in RecvWaits, f \in Fits :
         Begin(t, "msgQReceive", [NoArg EXCEPT !.wait = w, !.fits = f])

CallNumMsgs(t) == t \in Counters /\ Begin(t, "msgQNumMsgs", NoArg)
CallDelete(t) == t \in Deleters /\ Begin(t, "msgQDelete", NoArg)

FindMiss(t) ==
    /\ pc[t] = "find"
    /\ listLock = NULL
    /\ status # "linked"
    /\ Return(pc, t)
    /\ UNCHANGED <<fixed, status, ringVars, sendType, lists, locks, sched, history>>

FindHit(t) ==
    /\ pc[t] = "find"
    /\ listLock = NULL
    /\ status = "linked"
    /\ listLock' = t
    /\ Goto(t, "found")
    /\ UNCHANGED <<fixed, status, ringVars, sendType, lists, queueLock, qdletLock,
                   qfullLock, sched, local, history>>

Enter(t) ==
    /\ pc[t] = "found"
    /\ queueLock = NULL
    /\ queueLock' = t
    /\ listLock' = NULL
    /\ Goto(t, "locked")
    /\ UNCHANGED <<fixed, status, ringVars, sendType, lists, qdletLock, qfullLock,
                   sched, local, history>>

Entered(t, name) == pc[t] = "locked" /\ op[t] = name

\* S_msgQLib_INVALID_MSG_LENGTH
BadLength(t) ==
    /\ pc[t] = "locked"
    /\ ~arg[t].fits
    /\ queueLock' = NULL
    /\ Return(pc, t)
    /\ UNCHANGED <<fixed, status, ringVars, sendType, lists, listLock, qdletLock,
                   qfullLock, sched, history>>

NumMsgs(t) ==
    /\ Entered(t, "msgQNumMsgs")
    /\ queueLock' = NULL
    /\ Return(pc, t)
    /\ UNCHANGED <<fixed, status, ringVars, sendType, lists, listLock, qdletLock,
                   qfullLock, sched, history>>

-----------------------------------------------------------------------------
\* msgQSend

\* A receiver waits at a queue of length zero.
Handover == size = 0 /\ readers # <<>>

\* An urgent message may have the extra slot.
Accepts(t) ==
    \/ count < size
    \/ count = size /\ (Handover \/ arg[t].pri = "URGENT")

SendNow(t) ==
    /\ Entered(t, "msgQSend") /\ arg[t].fits
    /\ Accepts(t)
    /\ IF arg[t].pri = "URGENT" /\ ~(count = size /\ Handover)
         THEN UrgentMsgTo(arg[t].msg) ELSE SendMsgTo(arg[t].msg)
    /\ queueLock' = NULL
    /\ Return(BroadcastSend(pc), t)
    /\ UNCHANGED <<fixed, status, lists, listLock, qdletLock, qfullLock, sched, history>>

SendRefused(t) ==
    /\ Entered(t, "msgQSend") /\ arg[t].fits
    /\ ~Accepts(t) /\ arg[t].wait = "NO_WAIT"
    /\ queueLock' = NULL
    /\ Return(pc, t)
    /\ UNCHANGED <<fixed, status, ringVars, sendType, lists, listLock, qdletLock,
                   qfullLock, sched, history>>

\* waitToSend, up to its first look at the queue without queue_lock.  It does
\* not lock qfull_lock.
SendWait(t) ==
    /\ Entered(t, "msgQSend") /\ arg[t].fits
    /\ ~Accepts(t) /\ arg[t].wait # "NO_WAIT"
    /\ writers' = Append(writers, t)
    /\ queueLock' = NULL
    /\ Goto(t, "space")
    /\ UNCHANGED <<fixed, status, ringVars, sendType, readers, listLock, qdletLock,
                   qfullLock, sched, local, history>>

-----------------------------------------------------------------------------
\* waiting_on_q_space and the wait on queue_space: every look is a step.

\* A look, or what follows from it: t goes to place with the result r, and
\* qfull_lock is locked afterwards or not.
Look(t, place, r, lock) ==
    /\ Goto(t, place)
    /\ ret' = [ret EXCEPT ![t] = r]
    /\ qfullLock' = lock
    /\ UNCHANGED <<fixed, status, ringVars, sendType, lists, listLock, queueLock,
                   qdletLock, sched, op, arg, expired, history>>

SpaceKilled(t) == pc[t] = "space" /\ Killed /\ Look(t, "relock", "OK", qfullLock)

SpaceAlive(t) == pc[t] = "space" /\ ~Killed /\ Look(t, "loop", ret[t], qfullLock)

\* Mutant of Space: an off-by-one in the test for space.
SpaceOrFull == count <= size \/ Handover

Space == count <= size - 1 \/ Handover

SpaceFree(t) == pc[t] = "loop" /\ Space /\ Look(t, "mine", ret[t], qfullLock)

\* No space for this task: the end if the wait has timed out.
NoSpace(t, lock) ==
    Look(t, IF ret[t] = "ETIMEDOUT" THEN "relock" ELSE "doze", ret[t], lock)

SpaceNone(t) == pc[t] = "loop" /\ ~Space /\ NoSpace(t, qfullLock)

SpaceMine(t) ==
    pc[t] = "mine" /\ Selected(writers, t) /\ Look(t, "relock", "OK", qfullLock)

SpaceNotMine(t) ==
    pc[t] = "mine" /\ ~Selected(writers, t) /\ Look(t, "spaceDelay", ret[t], FALSE)

\* After the delay send_type is not tested again.
SpaceDelayed(t) ==
    /\ pc[t] = "spaceDelay"
    /\ ~qfullLock
    /\ IF Timed(t) /\ expired[t] THEN NoSpace(t, TRUE)
                                 ELSE Look(t, "loop", ret[t], TRUE)

\* pthread_cond_wait unlocks qfull_lock, whether or not this task locked it ...
SpaceSleep(t) == pc[t] = "doze" /\ Look(t, "spaceCond", ret[t], FALSE)

\* ... and locks it before it returns.
SpaceWake(t) ==
    pc[t] = "spaceWoken" /\ ~qfullLock /\ Look(t, "space", ret[t], TRUE)

-----------------------------------------------------------------------------
\* waitToSend's end, under queue_lock.  It never unlocks qfull_lock.

\* t leaves the lists because the queue is being deleted.  The last one to do
\* so goes on to notify_if_delete_complete, still holding queue_lock.
LeaveKilled(t, r, w) ==
    /\ readers' = r /\ writers' = w /\ doomed' = doomed \ {t}
    /\ IF r = <<>> /\ w = <<>>
         THEN Goto(t, "notify") /\ queueLock' = t /\ UNCHANGED local
         ELSE Return(pc, t) /\ queueLock' = NULL
    /\ UNCHANGED <<fixed, status, ringVars, sendType, listLock, qdletLock, qfullLock,
                   sched, delivered>>

Relock(t) == pc[t] = "relock" /\ queueLock = NULL

RelockKilled(t) ==
    Relock(t) /\ Killed /\ LeaveKilled(t, readers, Unlinked(writers, t))

RelockTimedOut(t) ==
    /\ Relock(t) /\ ~Killed /\ ret[t] = "ETIMEDOUT"
    /\ writers' = Unlinked(writers, t) /\ doomed' = doomed \ {t}
    /\ Return(pc, t)
    /\ UNCHANGED <<fixed, status, ringVars, sendType, readers, locks, sched, delivered>>

\* The space that was seen is taken for granted.
RelockSend(t) ==
    /\ Relock(t) /\ ~Killed /\ ret[t] = "OK"
    /\ writers' = Unlinked(writers, t) /\ doomed' = doomed \ {t}
    /\ IF arg[t].pri = "URGENT" THEN UrgentMsgTo(arg[t].msg) ELSE SendMsgTo(arg[t].msg)
    /\ Return(BroadcastSend(pc), t)
    /\ UNCHANGED <<fixed, status, readers, locks, sched, delivered>>

\* notify_if_delete_complete, and the end of the call.
Notify(t) ==
    /\ pc[t] = "notify"
    /\ qdletLock = NULL
    /\ queueLock' = NULL
    /\ Return(BroadcastComplete(pc), t)
    /\ UNCHANGED <<fixed, status, ringVars, sendType, lists, listLock, qdletLock,
                   qfullLock, sched, history>>

-----------------------------------------------------------------------------
\* msgQReceive

\* link_susp_task; at a queue of length zero the senders are to be alerted.
RecvLink(t) ==
    /\ Entered(t, "msgQReceive") /\ arg[t].fits
    /\ readers' = Append(readers, t)
    /\ Goto(t, IF size = 0 /\ writers # <<>> THEN "handshake" ELSE "check")
    /\ UNCHANGED <<fixed, status, ringVars, sendType, writers, locks, sched, local,
                   history>>

Handshake(t) ==
    /\ pc[t] = "handshake"
    /\ ~qfullLock
    /\ pc' = [BroadcastSpace(pc) EXCEPT ![t] = "check"]
    /\ UNCHANGED <<fixed, status, ringVars, sendType, lists, locks, sched, local,
                   history>>

\* t runs waiting_on_q_msg, having just linked itself or woken up.
CanCheck(t) ==
    \/ pc[t] = "check" /\ queueLock = t
    \/ pc[t] = "woken" /\ queueLock = NULL

\* t is back from the taskDelay in waiting_on_q_msg: send_type is not tested
\* again.
CanRecheck(t) == pc[t] = "delay" /\ queueLock = NULL

Overdue(t) == Timed(t) /\ expired[t]

\* t is at the head of the loop of waiting_on_q_msg.
Looks(t) == (CanCheck(t) /\ ~Killed) \/ (CanRecheck(t) /\ ~Overdue(t))

\* queue_lock is released while t waits at place.
Sleep(t, place) ==
    /\ Goto(t, place)
    /\ queueLock' = NULL
    /\ UNCHANGED <<fixed, status, ringVars, sendType, lists, listLock, qdletLock,
                   qfullLock, sched, local, history>>

\* Mutant of RecvTimedOut: the task stays linked.
RecvTimedOutLinked(t) ==
    /\ Return(pc, t)
    /\ queueLock' = NULL
    /\ UNCHANGED <<fixed, status, ringVars, sendType, lists, listLock, qdletLock,
                   qfullLock, sched, history>>

RecvTimedOut(t) ==
    /\ readers' = Unlinked(readers, t) /\ doomed' = doomed \ {t}
    /\ Return(pc, t)
    /\ queueLock' = NULL
    /\ UNCHANGED <<fixed, status, ringVars, sendType, writers, listLock, qdletLock,
                   qfullLock, sched, delivered>>

\* No message for t: the end if the wait has timed out.
NoMsg(t) ==
    \/ ret[t] = "OK" /\ Sleep(t, "cond")
    \/ ret[t] = "ETIMEDOUT" /\ ~Killed /\ RecvTimedOut(t)
    \/ ret[t] = "ETIMEDOUT" /\ Killed /\ LeaveKilled(t, Unlinked(readers, t), writers)

RecvKilled(t) ==
    CanCheck(t) /\ Killed /\ LeaveKilled(t, Unlinked(readers, t), writers)

RecvNone(t) == Looks(t) /\ count = 0 /\ NoMsg(t)

RecvExpired(t) == CanRecheck(t) /\ Overdue(t) /\ NoMsg(t)

RecvNotMine(t) ==
    Looks(t) /\ count > 0 /\ ~Selected(readers, t) /\ Sleep(t, "delay")

\* A message for t.  If a deletion began during the delay it is not fetched.
RecvMineKilled(t) ==
    /\ Looks(t) /\ count > 0 /\ Selected(readers, t)
    /\ Killed
    /\ LeaveKilled(t, Unlinked(readers, t), writers)

\* Mutant of RecvMine: an off-by-one in the test of the message count.
RecvMineOrNone(t) ==
    /\ Looks(t) /\ count >= 0 /\ Selected(readers, t)
    /\ ~Killed
    /\ readers' = Unlinked(readers, t) /\ doomed' = doomed \ {t}
    /\ FetchMsg
    /\ Return(pc, t) /\ queueLock' = NULL
    /\ UNCHANGED <<fixed, status, sendType, writers, listLock, qdletLock, qfullLock,
                   sched>>

\* fetch_msg_from, up to the point where it locks qfull_lock to tell senders.
RecvMine(t) ==
    /\ Looks(t) /\ count > 0 /\ Selected(readers, t)
    /\ ~Killed
    /\ readers' = Unlinked(readers, t) /\ doomed' = doomed \ {t}
    /\ FetchMsg
    /\ IF writers # <<>> /\ count - 1 <= size - 1
         THEN Goto(t, "alert") /\ queueLock' = t /\ UNCHANGED local
         ELSE Return(pc, t) /\ queueLock' = NULL
    /\ UNCHANGED <<fixed, status, sendType, writers, listLock, qdletLock, qfullLock,
                   sched>>

Alert(t) ==
    /\ pc[t] = "alert"
    /\ ~qfullLock
    /\ queueLock' = NULL
    /\ Return(BroadcastSpace(pc), t)
    /\ UNCHANGED <<fixed, status, ringVars, sendType, lists, listLock, qdletLock,
                   qfullLock, sched, history>>

-----------------------------------------------------------------------------
\* Time, and condition variables that wake a task for no reason.
Expire(t) ==
    /\ pc[t] \in {"cond", "delay", "spaceCond", "spaceDelay"}
    /\ arg[t].wait = "TIMED" /\ ~expired[t]
    /\ expired' = [expired EXCEPT ![t] = TRUE]
    /\ UNCHANGED <<fixed, status, ringVars, sendType, lists, locks, sched, pc, op, arg,
                   ret, history>>

Wakes(t, r) ==
    /\ pc' = [pc EXCEPT ![t] = CASE pc[t] = "cond" -> "woken"
                                 [] pc[t] = "spaceCond" -> "spaceWoken"
                                 [] pc[t] = "drainWait" -> "drainWoken"]
    /\ ret' = [ret EXCEPT ![t] = r]
    /\ UNCHANGED <<fixed, status, ringVars, sendType, lists, locks, sched, op, arg,
                   expired, history>>

TimedOut(t) ==
    pc[t] \in {"cond", "spaceCond"} /\ Timed(t) /\ expired[t] /\ Wakes(t, "ETIMEDOUT")

Spurious(t) == pc[t] \in {"cond", "spaceCond", "drainWait"} /\ Wakes(t, ret[t])

-----------------------------------------------------------------------------
\* msgQDelete, which waits for the scheduler lock with queue_lock held.

DeletePlaces == {"sched", "announce", "announceSpace", "drain", "drainWait",
                 "drainWoken", "unlink", "free", "unsched"}

\* The tasks that the first deletion of the queue finds waiting.
Doom(t) ==
    IF status = "linked" /\ \A u \in Tasks \ {t} : pc[u] \notin DeletePlaces
      THEN {u \in Tasks : \/ \E i \in DOMAIN readers : readers[i] = u
                          \/ \E i \in DOMAIN writers : writers[i] = u}
      ELSE doomed

Kill(t) ==
    /\ Entered(t, "msgQDelete")
    /\ sendType' = "KILLD"
    /\ doomed' = Doom(t)
    /\ Goto(t, "sched")
    /\ UNCHANGED <<fixed, status, ringVars, lists, locks, sched, local, delivered>>

Waiting == readers # <<>> \/ writers # <<>>

\* The rest of msgQDelete changes nothing but locks, its own place and the
\* places of the tasks that it wakes.
Deleting(p, t, place) ==
    /\ pc' = [p EXCEPT ![t] = place]
    /\ UNCHANGED <<fixed, ringVars, sendType, lists, qfullLock, local, history>>

SchedLocked(t) ==
    /\ pc[t] = "sched"
    /\ Sched!Lock(t)
    /\ IF Waiting THEN Deleting(pc, t, "announce") /\ UNCHANGED queueLock
                  ELSE Deleting(pc, t, "unlink") /\ queueLock' = NULL
    /\ UNCHANGED <<status, listLock, qdletLock>>

Announce(t) ==
    /\ pc[t] = "announce"
    /\ qdletLock = NULL
    /\ qdletLock' = t
    /\ queueLock' = NULL
    /\ Deleting(BroadcastSend(pc), t, "announceSpace")
    /\ UNCHANGED <<status, listLock, sched>>

AnnounceSpace(t) ==
    /\ pc[t] = "announceSpace"
    /\ ~qfullLock
    /\ Deleting(BroadcastSpace(pc), t, "drain")
    /\ UNCHANGED <<status, listLock, queueLock, qdletLock, sched>>

\* Mutant of StillPending: the loop's condition as it once was.
BothPending == readers # <<>> /\ writers # <<>>

\* The lists are read without queue_lock.
StillPending == Waiting

DrainWait(t) ==
    /\ pc[t] = "drain"
    /\ StillPending
    /\ qdletLock' = NULL
    /\ Deleting(pc, t, "drainWait")
    /\ UNCHANGED <<status, listLock, queueLock, sched>>

DrainAgain(t) ==
    /\ pc[t] = "drainWoken"
    /\ qdletLock = NULL
    /\ qdletLock' = t
    /\ Deleting(pc, t, "drain")
    /\ UNCHANGED <<status, listLock, queueLock, sched>>

Drained(t) ==
    /\ pc[t] = "drain"
    /\ ~StillPending
    /\ qdletLock' = NULL
    /\ Deleting(pc, t, "unlink")
    /\ UNCHANGED <<status, listLock, queueLock, sched>>

\* unlink_qcb
Unlink(t) ==
    /\ pc[t] = "unlink"
    /\ listLock = NULL
    /\ status' = IF status = "linked" THEN "unlinked" ELSE status
    /\ Deleting(pc, t, "free")
    /\ UNCHANGED <<listLock, queueLock, qdletLock, sched>>

Free(t) ==
    /\ pc[t] = "free"
    /\ status' = "freed"
    /\ Deleting(pc, t, "unsched")
    /\ UNCHANGED <<listLock, queueLock, qdletLock, sched>>

SchedUnlocked(t) ==
    /\ pc[t] = "unsched"
    /\ Sched!Unlock(t)
    /\ Return(pc, t)
    /\ UNCHANGED <<fixed, status, ringVars, sendType, lists, locks, history>>

\* The places at which a task reads or writes the control block next.
Touching == {"locked", "space", "loop", "mine", "doze", "spaceWoken", "spaceDelay",
             "relock", "notify", "handshake", "check", "woken", "delay", "alert",
             "sched", "announce", "announceSpace", "drain", "drainWoken", "unlink",
             "free"}

\* What a task does next with a control block that was freed is not defined: it
\* may find it as it was, which the other actions cover, or never come back.
UseFreed(t) ==
    /\ status = "freed"
    /\ pc[t] \in Touching
    /\ Goto(t, "lost")
    /\ UNCHANGED <<fixed, status, ringVars, sendType, lists, locks, sched, local,
                   history>>

-----------------------------------------------------------------------------
Call(t) == CallSend(t) \/ CallReceive(t) \/ CallNumMsgs(t) \/ CallDelete(t)

\* The steps of a call in progress that are the code's own.
Progress(t) ==
    \/ FindMiss(t) \/ FindHit(t) \/ Enter(t) \/ BadLength(t) \/ NumMsgs(t)
    \/ SendNow(t) \/ SendRefused(t) \/ SendWait(t)
    \/ SpaceKilled(t) \/ SpaceAlive(t) \/ SpaceFree(t) \/ SpaceNone(t)
    \/ SpaceMine(t) \/ SpaceNotMine(t) \/ SpaceDelayed(t)
    \/ SpaceSleep(t) \/ SpaceWake(t)
    \/ RelockKilled(t) \/ RelockTimedOut(t) \/ RelockSend(t) \/ Notify(t)
    \/ RecvLink(t) \/ Handshake(t) \/ RecvKilled(t) \/ RecvNone(t) \/ RecvExpired(t)
    \/ RecvNotMine(t) \/ RecvMineKilled(t) \/ RecvMine(t) \/ Alert(t)
    \/ TimedOut(t) \/ Kill(t) \/ SchedLocked(t) \/ Announce(t) \/ AnnounceSpace(t)
    \/ DrainWait(t) \/ DrainAgain(t) \/ Drained(t)
    \/ Unlink(t) \/ Free(t) \/ SchedUnlocked(t)

Next == \E t \in Tasks :
            Call(t) \/ Progress(t) \/ Expire(t) \/ Spurious(t) \/ UseFreed(t)

Spec == Init /\ [][Next]_vars

\* A task that can go on does so, one that finds a mutex free again and again
\* gets it, and time passes.
Fairness == \A t \in Tasks : SF_vars(Progress(t)) /\ WF_vars(Expire(t))

FairSpec == Spec /\ Fairness

-----------------------------------------------------------------------------
PCs == Touching \cup {"idle", "find", "found", "cond", "spaceCond", "drainWait",
                      "unsched", "lost"}

TypeOK ==
    /\ size \in Nat /\ order \in {"FIFO", "PRIORITY"}
    /\ status \in {"linked", "unlinked", "freed"}
    /\ ring \in [Slots -> Msgs \cup {NULL}]
    /\ head \in Slots /\ tail \in Slots
    /\ count \in Nat
    /\ sendType \in {"SEND", "URGNT", "KILLD"}
    /\ readers \in Seq(Tasks) /\ writers \in Seq(Tasks)
    /\ listLock \in Tasks \cup {NULL} /\ queueLock \in Tasks \cup {NULL}
    /\ qdletLock \in Tasks \cup {NULL} /\ locker \in Tasks \cup {NULL}
    /\ qfullLock \in BOOLEAN
    /\ level \in 0 .. 1
    /\ pc \in [Tasks -> PCs]
    /\ op \in [Tasks -> {"none", "msgQSend", "msgQReceive", "msgQNumMsgs", "msgQDelete"}]
    /\ arg \in [Tasks -> [msg : Msgs \cup {NULL}, pri : {"NORMAL", "URGENT"},
                          wait : {"FOREVER", "TIMED", "NO_WAIT"}, fits : BOOLEAN]]
    /\ expired \in [Tasks -> BOOLEAN]
    /\ ret \in [Tasks -> {"OK", "ETIMEDOUT"}]
    /\ delivered \in Msgs \cup {NULL}
    /\ doomed \in SUBSET Tasks

\* No receiver whose time is not up sleeps on queue_send while the queue holds a
\* message: every send is announced, under the mutex of that wait, to all.
NoSleepBesideMessage ==
    \A t \in Tasks : pc[t] = "cond" /\ ~expired[t] => count = 0

\* The tasks that will send without another look at the space.
Granted == {t \in Tasks : pc[t] = "mine" \/ (pc[t] = "relock" /\ ret[t] = "OK")}

\* Senders that act on a message count they have read before can overfill the
\* queue, but by no more than one message each, and urgent ones by one more.
OverfillBounded ==
    count + Cardinality(Granted)
        <= size + Cardinality(Senders) - (IF "URGENT" \in Pris THEN 0 ELSE 1)

\* No message is written to a slot that holds another one.
NoOverwrite == count <= size + 1

\* Whoever waited when the queue was deleted has been unlinked before the queue
\* is freed.
DrainedBeforeFree == status = "freed" => doomed = {}

\* As long as no sender waits for space, the first receiver in line for a
\* message leaves the line.
ReceiverServed ==
    \A t \in Receivers :
        (order = "FIFO" /\ count > 0 /\ readers # <<>> /\ Head(readers) = t)
            ~> \/ readers = <<>> \/ Head(readers) # t
               \/ writers # <<>> \/ status # "linked"

\* The ring implements a bounded sequence.
Contents ==
    [i \in 1 .. count |-> ring[IF head + i - 1 > size THEN head + i - 2 - size
                                                         ELSE head + i - 1]]
Channel == INSTANCE MsgQueueAbs WITH
            Messages <- Msgs, Nothing <- NULL, capacity <- size + 1, queue <- Contents
ImplementsChannel == Channel!AbsSpec
=============================================================================
