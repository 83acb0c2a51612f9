# v2lin in TLA+

v2lin lets programs written for VxWorks run on Linux: each VxWorks task becomes a
POSIX thread, and `lib/` implements the VxWorks calls (tasks, semaphores, message
queues, watchdog timers) on top of mutexes and condition variables.  This directory
holds TLA+ models of that library, the TLC runs that check them and the TLAPS proofs
about them.  `PROJECT.json` lists the components, the runs, the source lines behind
every definition, the hazards and the theorems.

## The system

| part | source | state | operations |
|---|---|---|---|
| scheduler lock | `ltaskLib.c` | `locker`, `taskLock_level`, condition variable `taskLock_change` | `taskLock`, `taskUnlock`, the cleanup handler of a thread |
| priorities, activation, restart | `ltaskLib.c`, `lkernelLib.c`, `lwdLib.c` | `prv_priority`, `attr` and thread priority of each task, `state` | `taskInit`, `taskActivate`, `taskPrioritySet`, `kernelTimeSlice`, `taskRestart`, `selfRestart` |
| task list | `ltaskLib.c` | `task_list`, ids | `taskSpawn`, `new_tid`, lookups |
| deletion | `ltaskLib.c` | `delete_safe_count`, `first_susp` of a task | `taskDelete`, `taskDeleteForce`, `taskSafe`, `taskUnsafe` |
| semaphores | `lsemLib.c` | token count, recursion level, owner, list of suspended tasks, `send_type`, three mutexes | `sem?Create`, `semGive`, `semTake`, `semFlush`, `semDelete` |
| message queues | `lmsgQLib.c` | ring of messages, lists of waiting senders and receivers | `msgQCreate`, `msgQSend`, `msgQReceive`, `msgQDelete` |
| watchdogs | `lwdLib.c`, `lkernelLib.c` | list of timers with their remaining ticks | `wdCreate`, `wdStart`, `wdCancel`, `wdDelete`, the exception task's tick |
| start-up, clock, tracing, stubs | the other files | | |

How they interact.  Nearly every call that changes a task brackets its work with
`taskLock` and `taskUnlock`; `semFlush` and `semDelete` do so as well, with a
semaphore's mutex already held.  Semaphores, queues and deletion share the lists of
suspended tasks of `ltaskLib.c` (`link_susp_task`, `unlink_susp_task`,
`signal_for_my_task`).  A task that restarts itself is started again by a watchdog, on
the exception task's thread.  A thread that v2lin did not create has no task control
block: `my_task()` returns NULL for it.

What is hard.  Everything runs in preemptive threads.  The scheduler lock is not a
mutex that is held but a flag protected by one, so that threads sleep and wake while it
is "held"; waiters of a semaphore wake all at once and sort out among themselves who
gets the token, releasing the mutex for a tick while it is somebody else's turn; flush
and deletion wait for the waiters, who report back through a second mutex; control
blocks are freed while others look at them.

What makes the parts correct.  The scheduler lock: one owner, no lost wake-up, a task
runs at its own priority when it has not locked the scheduler, calls leave the lock as
they found it.  Semaphores: return values that account for the tokens, no task asleep
beside a token, first come first served, one owner of a mutex, flushes that neither
linger nor lose tokens.  Message queues: every message is received once, in order, none
is overwritten, no receiver sleeps beside a message, and a queue is freed only after its
waiters have left.  Timeouts: never early, and over when they are due.  Priorities: their
order survives the translation.  Deletion: a protected task is not deleted by
`taskDelete`, nobody works on a control block that is gone, and whoever waits for a task
to become deletable is told.  Watchdogs: nobody locks a timer that was freed, every
tick services every timer once, a started timer expires, a task that restarts itself is
started again.

## The modules

| module | what it is |
|---|---|
| `SchedLockAbs` | what the scheduler lock promises: a recursive lock whose owner may die |
| `SchedLock` | `taskLock`, `taskUnlock` and the calls that run under them |
| `SchedLock_proofs` | its theorems |
| `SemaphoreAbs` | what a semaphore promises: a count of tokens and a queue of tasks |
| `Semaphore` | one semaphore and the threads that use it; it takes its scheduler lock from `SchedLockAbs` |
| `Semaphore_proofs` | its theorems |
| `Watchdog` | the timers, the threads that use them and the exception task |
| `Watchdog_proofs` | its theorems |
| `MsgQueueAbs` | what a message queue promises: a bounded sequence |
| `MsgQueue` | one message queue and the tasks that use it; its scheduler lock is `SchedLockAbs` |
| `MsgQueue_proofs` | its theorems |
| `TaskLife` | creation, protection, deletion and restart of tasks, with cancellation; its scheduler lock is `SchedLockAbs` |
| `TaskLife_proofs` | its theorems |
| `Timeout` | a deadline: how it is computed, waited for and compared with the clock |
| `Priority` | the translation of VxWorks priorities |
| `Conversions_proofs` | the theorems of these two |
| `MCSchedLock`, `MCSemaphore`, `MCWatchdog`, `MCMsgQueue`, `MCTaskLife`, `MCConversions` | model values, sets of calls and symmetry for TLC |

### SchedLock

`locker` and `level` are `locker` and `taskLock_level`.  `prv`, `attr` and `real` are the
three places where a task's priority is kept: its control block, its pthread attributes,
and the kernel.  A thread's `pc` says where it is: running its own code (`run`), about
to lock (`lock`), asleep on `taskLock_change` (`wait`), between the two halves of
`taskLock` (`boost`), in the body of a call (`body`), about to unlock (`unlock`), or
without a thread (`none`).  Each call is `Call...`, then `Grant` or `Wait`, `Boost`, its
body, and `UnlockOutermost` or `UnlockNested`.  What runs under `v2pthread_task_lock` or
`task_list_lock` is one step, because no code sleeps while it holds the second, and the
only thing awaited with the first is the second.  `taskLock_change` may wake a thread
for no reason (`Spurious`).  `level` saturates at `ULongMax` as the `unsigned long` does.

`inherited` is the set of tasks whose thread still runs at the priority that its creator
had: `pthread_create` gets attributes in which `PTHREAD_INHERIT_SCHED` is the default.

The models take the program to be started by `main_impl.c`, where the root task has a
thread of its own that runs `task_wrapper`.  That matters to `Cleanup`, the handler which
`task_wrapper` pushes (`ltaskLib.c:684`) and which gives up the scheduler lock of a thread
that ends.  After `v2lin_init` (`lkernelLib.c:175-182`) the root task is the thread that
called it and has no such handler: its `taskRestart(0)` would end it with the lock
(`ltaskLib.c:1449`), and `locker` would stay at a thread that is gone.  The properties that
say otherwise (`MutualExclusion`, `ImplementsLock` and their theorems) hold for the start-up
of `main_impl.c`.  Foreign threads have no handler either; they never end in the model.
`taskRestart` is modelled for the caller itself and for an unknown id; to restart
another task it cancels that task's thread, which is in `TaskLife`.

### Semaphore

A step is what a thread does between two points where it may have to wait.  `find` and
`found` are the two mutexes of `sem_find_lock`; `check` is `waiting_on_sem` after
`link_susp_task`; `cond` is the sleep on `sem_send`, `woken` the way back from it, and
`delay` the `taskDelay` of a waiter whose turn it is not; `notify` and `release` are the
last waiter's report of a flush or a deletion; `sched` to `unsched` are `semFlush` and
`semDelete`.  A waiter that comes back from `delay` continues in the loop of
`waiting_on_sem`, where it tests the timeout and the tokens but not `send_type`
(`RecheckExpired`, `RecheckToken`, `RecheckNoToken`); if there is a token for somebody
else it goes back to the delay, which changes nothing.  `wait` is the `max_wait` given,
`expired` says whether the deadline has passed, `ret` is `retcode`.

Two variables are history: `credit` counts initial tokens plus gives minus takes that
returned OK, and `held` the same for each thread and a mutex.  They are changed where
the result of a call is settled, and only properties read them.  `Settle` and
`SchedLockAbs` have no lines in the map for this reason.

After `semDelete` has freed the control block, a thread that still uses it finds it as
it was, or is led astray and never comes back (`UseFreed`): that the block is used at all is
not judged by any property.  Options that every create
call refuses with ENOSYS (priority queueing, deletion and inversion safety) are left
out; with them go `priority_inversion` and the calls to `taskSafe` and `taskUnsafe`.
The field `waiting` of a task is written by `semTake` and read by task deletion only.

### Watchdog

`list` is `wdog_list`, `heap` the timers that are allocated, so that an address can be
freed and handed out again while others still have it.  A call goes through `list`
(about to lock `wdog_list_lock` in `wdog_valid`), `own` (about to lock `wdog_lock`, with
the list locked) and, in `wdDelete`, `unlink` (about to lock the list again, with
`wdog_lock` held); `link` is `link_wdog`.  What is done under `wdog_lock` alone is one
step.  The exception task is in `delay` between ticks; a walk takes it through `list` and
`own` for each timer, and through `fire` (after the unlock, before `timeout_func` is
read) and `handler` for one that expires.  `nxt` is the `next` of `process_tick_for`
while a timeout function runs.  A timeout function makes one watchdog call or none.
`func[w]` is a client's function, or a task `t` for `self_starter` with argument `t`.

`due` and `served` are history: the timers in the list since before the walk that it has
still to service, and those that it has serviced.  When the timer that is next in the walk is
deleted, the walk ends at it (`WdogInvalid`), and `due` is emptied there: what
`TickServesAll` says is that no timer is skipped for any other reason.

### MsgQueue

`ring`, `head`, `tail` and `count` are the extent, `queue_head`, `queue_tail` and
`msg_count`; the extent has one slot more than `msgs_per_queue`.  A step is what a task
does between two points where it may have to wait, or where it looks at the queue without
`queue_lock`, which a sender that waits for space does all the time.

- `find`, `found`, `locked`: the two mutexes of `mqueue_find_lock`, and the call's entry;
- `space`, `loop`, `mine`, `doze`, `spaceDelay`: the tests of `waiting_on_q_space`, one
  step each, because other tasks run between them; `spaceCond`, `spaceWoken` the wait on
  `queue_space` in `waitToSend`; `relock` the way back to `queue_lock`;
- `handshake`: a receiver that lets the senders know that it waits; `check`, `cond`,
  `woken`, `delay`: `waiting_on_q_msg` and the wait on `queue_send`; `alert`: a receiver
  that has made space and tells the senders, with `queue_lock` held;
- `notify`: the last waiter's report of a deletion; `sched` to `unsched`: `msgQDelete`.

`qfullLock` is a boolean: `waitToSend` waits on `queue_space` with a mutex that it has not
locked, and `pthread_cond_wait` unlocks it whoever holds it.  `delivered` is what the last
receiver copied, `doomed` the tasks that were waiting when a deletion began; only
properties read them.  Messages are values: their bytes are left out, and a length that
does not fit is `fits = FALSE`.  Priorities are constant.

### TaskLife

A task stands for its control block and for its thread.  `block` is the life of the
control block (`none`, `raw` after `ts_malloc`, `linked`, `freed`), `list` is
`task_list`, `id` the `taskid`, with 0 for the provisional one that no lookup matches.
`safe` is `delete_safe_count`, `susp` the tasks at `first_susp`, `tdelete` and `dbcst` the
holders of the two mutexes.  A block is not allocated twice, but ids are: `new_tid` takes
the highest one in the list plus one.

A call starts at `lock` (about to call `taskLock`).  `taskSpawn` goes through `init`
(the id is computed, the task not linked) and `setId` (linked, with its provisional id).
`taskSafe` and `taskUnsafe` pass `protect`.  `taskDelete` passes `deletable` (about to
lock `tdelete_lock`) and then either `force`, into `taskDeleteForce`, or `pendLock`,
`pendTest`, `pendWait`, `pendWoken` and `relock`, which are `task_pend_delete`.
`notify`, `bcast`, `bcastTest` and `bcastWait` are `notify_task_delete`; `cancel` and
`join` the end of the other thread.  `Die` is a cancelled thread at a cancellation point,
with its cleanup handlers.  A thread whose task has deleted itself goes on (the
`pthread_exit` is commented out), and can only return from its entry point.

Left out: a deleted task that waits for a semaphore, which `task_delete` unlinks there;
`ts_malloc` that fails; calls by a thread that has the scheduler locked.  The root task is
treated like the others although its block is static.  `link_susp_task` shares one link
between all lists a task was ever put into; `susp` keeps who was linked, since the code
tests only whether the list is empty, and a walk over it may meet any task in it that was
freed (`PendWild`).

### Timeout and Priority

`Timeout` counts in microseconds and has the code's arithmetic: ints that wrap around, a
carry that is made above a second but not at a second, and the two ways of comparing a
deadline with the clock (`time_expired` in `lsemLib.c`, the microseconds left in
`lmsgQLib.c`).  One task waits, in the loop that looks for something and
then calls `pthread_cond_timedwait` (`cond`; `spin` once the call has been refused with
EINVAL), or in the `taskDelay` in which it lets others go first (`delay`).  The look comes
before the first call, so a task gets to `delay` whether or not `pthread_cond_timedwait`
would accept its deadline (`NotForUs`), and the deadline exactly on a second, which it
refuses, is compared with the clock there like any other.  `Priority` is `translate_priority` with the real numbers, and
the two calls that store its result.

## The runs

| run | instance | what it shows |
|---|---|---|
| `lock_all` | a root task, a task, a foreign thread; all calls; `level` saturates at 2 | types, `MutualExclusion`, `PriorityDiscipline`, and that the code implements `SchedLockAbs` |
| `lock_quiet` | three tasks, calls by which no thread ends; fairness | `NoLostWakeup`, `CallsAreBalanced`, `WaiterWoken` |
| `sem_take` | three tasks, all kinds, waits with and without timeout; fairness | types, `NoLostWakeup`, `TokensMatchReturns`, `MutexExclusion`, and that the code implements `SemaphoreAbs`: its steps (`ImplementsQueue`) and its fairness (`QueueServes`) |
| `sem_flush` | three tasks, all kinds, also NO_WAIT | `NoTokenLost`, `NoStaleFlush` |
| `sem_delete` | three tasks, all kinds | `TakesAreBacked`, `OneOwner` |
| `wd_walk` | a task and timeout functions that make all calls, three timers | types, `LockedIsLive`, `TickServesAll`, `ServedOnce` |
| `msgq_live` | a sender that does not wait, two receivers, normal and urgent messages; fairness | that the code implements `MsgQueueAbs`, and `ReceiverServed` |
| `msgq_wait` | two senders that wait for space, one receiver | `OverfillBounded`, and `NoOverwrite`, which with two senders of normal messages follows from it |
| `msgq_delete` | all calls, two deleters, queues of length 0 and 1 | types, `NoSleepBesideMessage`, `DrainedBeforeFree` |
| `task_life` | a root task that spawns, deletes and restarts two tasks that protect themselves, end and delete; fairness | types, `ProtectedSpared`, `TargetsLive`, `UniqueIds`, `PendedReturns` |
| `conversions` | waits on both sides of a second and of an overflow; both ends and the middle of the priorities; fairness | `ExpiredWhenDue`, `NeverEarly`, `SpinsOnlyOnTheSecond`, `WaitEnds`, `OrderKept` |
| `wd_live` | two tasks, one of which restarts itself, two timers, no `wdDelete` by clients; fairness | `TimersTick`, `RestartHappens` |

The models show more that no run asks for, because a property that forbids it fails as the
code does.

Scheduler lock.  A task that restarts itself gives the lock up without a broadcast
(`Cleanup`), and the waiters sleep on; `WaiterWoken` is asked of calls by which no thread ends.  `taskRestart` of an unknown id returns with the
scheduler locked (so `lock_quiet` leaves `taskRestart` out).  A new task runs at
`max_priority` although it has not locked the scheduler (`inherited`).

Semaphores.  `semTake` with NO_WAIT returns OK without a token.  Two flushers and a waiter
deadlock.  A waiter blocks on `smdel_lock`, which `semDelete` never unlocks.  A POSIX
thread asleep in `semTake` is not woken by `semGive`, and a free mutex looks like its own
to it; therefore the runs have `Foreign = {}`, and only the theorem `SemaphoreTypes` covers
foreign threads.  `semDelete` and `semGive` each hold the mutex the other one needs.
`semFlush` of a semaphore without waiters leaves `sem_lock` locked (so deadlock is not
checked in the runs that flush or delete).  A full binary semaphore takes another token.

Message queues.  `waitToSend` looks for space and then waits on `queue_space` without ever
having locked `qfull_lock`: a receiver that makes space between the two broadcasts to
nobody, and the sender sleeps beside free space, although the comment at
`lmsgQLib.c:691-692` says that it "sends the queue message if sufficient space becomes
available within the allotted waiting interval".  A sender that was woken keeps
`qfull_lock` for good, and a receiver that holds `queue_lock` waits for it (`Alert`).
Senders act on a message count that they have read before: with three of them, with an
urgent message beside a waiting sender, or in a queue of length zero, a message is
overwritten.  A message sent after `msgQDelete` has begun erases KILLD, and the receivers
sleep through the deletion, while a sender that the deletion has woken sends although there
is no space, over another message if the first one was urgent.  A receiver that comes back
from `taskDelay` sleeps through it too, since it does not look at `send_type` again.  Two deleters deadlock on `queue_lock` and the scheduler lock.

Tasks.  `taskDelete` of a protected task waits until the task is deletable and then returns
OK without deleting it, although `tests/test_tasks.c:136-138` expects the deletion to
proceed.  The waiting task never leaves `first_susp` (it unlinks itself from the list of
its semaphore, if any), so `notify_task_delete` waits for good, in `taskUnsafe` or, with the
scheduler locked, in `taskDeleteForce`; and a later `taskDelete` may walk over the freed
block of a task that was deleted meanwhile.  A woken waiter holds `tdelete_lock` and wants
the scheduler lock, `taskSafe`, `taskUnsafe` and `taskDelete` hold the scheduler lock and
want `tdelete_lock`.  A thread whose task has deleted itself reads its id from the freed
block when it returns, and if the id was given to another task, deletes that one.  Two
tasks that spawn at the same time get one id for two tasks, of which one is never
activated.  `taskDelete` of a task that is linked but not yet activated cancels thread 0
(`CancelNoThread`), and so does one after a `taskRestart` whose `pthread_create` failed.  A
restarted task keeps its `delete_safe_count`.

Timeouts and priorities.  A deadline of exactly a second is refused by
`pthread_cond_timedwait`, and the loop calls it again and again with the mutex locked, as
long as there is nothing for another task that would send it into `taskDelay`.  A
wait of more than 214748 ticks overflows.  The VxWorks priorities 0 and 1, the highest,
become the lowest, and the last six all become level 1.  `taskPrioritySet` refuses an
illegal priority but has changed it already.

Watchdogs.  A walk and a
`wdDelete` of the timer it has come to deadlock, and so do the restarts of two tasks within a tick
(so `wd_live` has one such task and no `wdDelete` by clients, and `wd_walk` does not check
deadlock); between `fire` and the call of the function another thread may cancel, restart
or delete the timer, and in the last case freed memory is called (`FireFreed`).

Bounds.  Three threads are enough for a locker, a waiter and a third that interferes,
and for a queue in which somebody is neither first nor last.  `ULongMax = 2` reaches
nesting and saturation.  `MaxTokens = 2` reaches a state with more tokens than takers
and one with fewer; `MaxRecursion = 2` the difference between the outermost and the
inner levels of a mutex; `MaxDebt` only stops a run in which NO_WAIT takes or flushes
return OK without end.  Three timers are enough for one to be deleted, one to come
after it and one to be served before; `Delays = {4}` starts a timer for two ticks, so that
it is ticked without expiring and then expires.  In `MsgQueue` a queue of one message has two slots, which is
enough for the ring to wrap around and to be overfilled; `MaxBacklog` stops callers once
that many messages are queued.  `TaskLife` has a task that deletes, one that is deleted and
one that interferes; `MaxSafe = 1` is enough because only the change between zero and one
is noticed by others.  `Timeout` has six microseconds to a second, two to a tick and
integers up to 15, so that every residue, a carry of several seconds and an overflow occur;
`MaxStart` and `MaxClock` bound the clock, which runs long enough for every wait that does
not overflow.  All bounds but that of the clock are guards of the calls, not of the code's own steps.
Tasks are symmetric in `Semaphore`, and addresses in `Watchdog`; symmetry is used only where no liveness is checked.

Fairness.  A thread that can continue the call it is in does so: the kernel schedules
runnable threads (weak fairness of `Progress` in `SchedLock`).  In `Semaphore` it is
strong: a thread that waits for a mutex which becomes free again and again gets it at
last, as glibc's futex queue provides in practice; `Watchdog` assumes the same of its two
kinds of mutexes, `MsgQueue` and `TaskLife` of theirs, and `Watchdog` that ticks pass and
timeout functions return (`Walk`).  `PendedReturns` has a condition of its own, that the
scheduler is unlocked again and again; the deadlocks described above are the cases in which it is not.
In `Timeout` the clock runs, and a task whose time is up is not woken for others for ever.  Time passes (`Expire`).  In
`SchedLock` a client that has locked the scheduler unlocks it; without that no waiter
could be promised anything.  No call is ever assumed to be made otherwise, and
condition variables are not assumed to wake anybody spuriously.

Every property of a passing run has a mutant in `PROJECT.json`: an operator beside the
definition it replaces, changed as a slip in the code would change it (a broadcast that
is a signal, a missing reset, an ownership test left out), under which TLC finds the
property violated.

## The proofs

The theorems hold for any set of threads and any values of the other constants that
satisfy the assumptions named in the modules.

`SchedLock_proofs`.  The inductive invariant is `LockInv`: the types, `MutualExclusion`,
and two parts that tie the control state to the rest: `CallInv` (which `pc` goes with
which call) and `ThreadInv` (which task has a thread).  The second is
needed because a thread that has ended must not be the locker, and because a task whose
control block is gone must not be found by `taskUnlock`.  From it follow
`TypeCorrect`, `SchedulerLockExclusive`, `PrioritiesRestored` (with the priority
discipline as a further conjunct), `NoWakeupLost` (for calls by which no thread ends) and
`Refinement`: the code implements `SchedLockAbs`, each step being a `Lock`, an `Unlock`,
a `Die` or a stutter.  `CallsKeepDepth` is an action property: a call that is not a
`taskLock` or a `taskUnlock` gives back the one level it takes.  It assumes `NoRestart`, since
`taskRestart` of an unknown id does not; tasks that return are covered, unlike in the run.
`DepthInv` says what the level is at every place of such a call; `DepthOthers`, that no
step of another thread changes the levels a thread holds, and `DepthOwn`, what the
thread's own steps do.

`Semaphore_proofs`.  `SemaphoreTypes` holds for every use of a semaphore.  `NoWakeupLost`,
`ReturnsCountTokens`, `MutexOwned` and `SemaphoreIsQueue` assume `GiveAndTake`: tasks only,
`semGive` and `semTake` only, no NO_WAIT; the failures described above show that none of
these can be dropped.  The inductive invariant
`QuietInv` adds to the types that every thread inside `wait_for_token` is linked at
`first_susp` (so `semGive` may skip the broadcast when the list is empty), that a
timeout is only ever seen by a call that has one, and what the counters are.
`NoWakeupLost`, `ReturnsCountTokens` and `MutexOwned` follow.  The lemma
`UnlinkedIsList` carries the one fact about lists that is needed: unlinking a task keeps
the others.  `SemaphoreIsQueue` adds `SuspInv`, that a task is linked at most once and only
while it waits, so that unlinking a task takes exactly its entry out of the queue
(`UnlinkedOnce`): an arrival is `Arrive`, a give `Give`, a take `Serve`, a timeout `Abandon`,
and everything else a stutter.

The other four theorems are about flushes and deletions and drop as many of these
conditions as their properties allow.  They share `CallInv`: which call is in progress at
which place, that only calls that are made can have set `send_type`, and that a call
without a timeout does not time out.  `TokensKept` and `FlushEnds` assume only
`NeverDeleted`: a take that meets a deletion may have taken a token and still returns an
error, and a deletion sets `send_type` too.  `FlushInv`, for the second, says that the
threads at certain places have `sem_lock`, and that a flush that is on has either a task in
the list and its flusher at the wait for it, or the task that is about to reset it.
`TakesHaveTokens` assumes `NeverFlushed` (no flush, no NO_WAIT: the two ways in which
`semTake` returns OK without a token) and allows deletion.  `MutexHasOneOwner` assumes
`TasksWait` (tasks only, no NO_WAIT) and allows every call; `OwnerInv` keeps
`current_owner`, the recursion level and the history of takes and gives together, and only
bounds the token count, which a deletion may change.

`Watchdog_proofs`.  `LockedTimersLive`: whoever has found a timer and waits for its lock,
or has it, has a timer that is linked and allocated.  The invariant `WdogInv` adds to the types that
the list has no repetitions and only allocated timers, and that a new timer belongs to one
thread until it is linked (`ListInv`), and which lock a thread at `own` or `unlink` holds
(`HoldInv`).  The argument is in `UnlinkKeeps`: a timer is freed only with
`wdog_list_lock`, so nobody is between the search and the lock, and only by the holder of
its `wdog_lock`, so no second thread deletes it.  It is the price of this safety that `wdDelete` waits
for the list lock with a timer's lock held, which is the deadlock above.

`WalkServesAll` and `WalkServesOnce` are about the walk of `process_timer_list`, which
other threads append to and delete from between two timers.  A timer is `Ahead` of the walk
if it is the next one or behind that in the list.  `WalkInv` (theorem `WalkInOrder`) says
that what the walk owes is ahead, that what it has serviced is not, and that a timer about
to be linked has not been serviced, though its memory may have been that of another one.
The lemmas `AppendAhead`, `UnlinkedAhead` and `AfterAhead` say what linking a timer,
unlinking one and going on to the next do to that order, in a list without repetitions.
Nothing is assumed beyond the constants' types.

`MsgQueue_proofs`.  `QueueTypes` and `ReceiversAwake` hold for every use of a queue.  For
the second, every step is shown to be one of two kinds (`Starts`: a call begins;
`Facts`: the other tasks stay or wake up, the own place and grant change as the code
says), so that the invariants need a case per kind and not per action.  The
argument is that `send_msg_to` and `urgent_msg_to` broadcast under `queue_lock`, and that a receiver
goes to sleep only under `queue_lock` with no message.  `OverfillIsBounded` assumes `PlainQueue`
(nobody deletes it, its length is not zero, finitely many senders; a sender woken by a
deletion counts on space that nobody has looked for, so the bound fails with one): `FillInv` counts the
senders that have been granted space and not used it.  `NothingOverwritten` and
`RingIsChannel` add `FewSenders`, one sender or two without urgent messages, and the ring
invariant `tail = Wrap(size, head + count)`; `RingAppend`, `RingPrepend` and `RingTail`
say what the three operations on the ring do to the sequence it holds.  `DrainedFirst` holds
for every use again.  `DoomInv` says that a task which a deletion found waiting is in one of
the lists until it unlinks itself, and that none is left when the queue is out of
`mqueue_list` or a deleter is at `unlink` or `free`.  The lists are read without `queue_lock`
there, and tasks may join them at any time; neither matters, because nobody unlinks another
task (`UnlinkedKeepsOthers`), so that lists found empty once have lost everyone doomed.

`Conversions_proofs`.  `ReservedLevels` (which no run checks) and `OrderKept` from bounds on the scaled
priority.  For time, `DeadlineRight` says that the deadline of a wait that does not overflow
stands for the time at which the wait is due, and has at most a second's worth of
microseconds; `ComparedRight` that both libraries' comparisons are then comparisons of
times, a deadline with exactly a second's worth included, which a task in `taskDelay` may
have.  Second, tick and integer width are arbitrary.

`TaskLife_proofs`.  Every step is one thread's: `Facts` says what it leaves to the others
(it wakes them up or starts one), so each invariant needs a case per action for the thread
itself and none for the rest.  `LifeTypes` rests on `CallInv`, which call goes with which
place and where a thread has the scheduler locked, and on the well-order of the natural
numbers (`Least`, `Greatest`), from which `TaskForFinds` and `NewTidAbove` say what
`task_for` and `new_tid` return.  `LifeTargets` adds `LinkInv`: the list has each linked
block once, and a thread that works on a block has the scheduler locked, or is linked at
the block's `first_susp`, or is the block's own task.  `NobodyWorks` is the argument:
`task_delete` runs with the scheduler locked, after `notify_task_delete` has found
`first_susp` empty and `pthread_join` has ended the task's thread, which excludes all
three.  `LifeIds` and `LifeSpared` assume `OneSpawner`, that one task makes all the calls of
`taskSpawn`: two that compute their id from the same list give it to two tasks.  `IdInv`
adds that the id which `taskSpawn` has computed stays above those in the list, that a task
without an id is not found, and that the task found by `taskDelete` keeps its id, so that
`taskDeleteForce`, which looks the id up again, deletes the task whose
`delete_safe_count` was tested.

Only model-checked: liveness under fairness (`WaiterWoken`, `QueueServes`, `TimersTick`,
`RestartHappens`, `ReceiverServed`, `PendedReturns`, `WaitEnds`), which needs ENABLED and is
beyond this prover.  Every invariant, action property and refinement of steps that a run
checks is stated by a theorem, under the assumptions named above.

## Plan

1. done: the scheduler lock, priorities and restart; semaphores; watchdogs; message
   queues; creation, protection, deletion and restart of tasks; timeouts and priorities.
2. done: a theorem for every safety property of the runs.  Still worth proving: how far a
   queue of length zero is overfilled.
3. The deletion of a task that waits for a semaphore or a queue would compose `TaskLife` with
   `Semaphore`.

Not to be modelled: tracing and listings (output only), the stubs, and the clock, which
reads `/proc/uptime`.
