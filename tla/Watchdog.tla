------------------------------ MODULE Watchdog ------------------------------
(***************************************************************************)
(* The watchdog timers of lib/lwdLib.c: the list of timers, the threads    *)
(* that create, start, cancel and delete them, and the exception task of   *)
(* lib/lkernelLib.c, which walks the list once per tick and calls the      *)
(* timeout functions of the timers that expire.                            *)
(*                                                                         *)
(* A step is what a thread does between two points where it may have to    *)
(* wait, for wdog_list_lock or for the wdog_lock of a timer, or where the  *)
(* code lets others in.  A wdog_lock is held from one step to the next     *)
(* only by wdDelete, and wdog_list_lock only by wdog_valid.                *)
(***************************************************************************)
EXTENDS Integers, Sequences, FiniteSets

CONSTANTS
    Tasks,      \* threads that use watchdogs
    Restarters, \* those that restart themselves
    Exc,        \* the exception task
    NULL,
    Wdogs,      \* the addresses that ts_malloc can return
    Funcs,      \* timeout functions of the clients
    Delays,     \* the delay arguments of wdStart
    WdCalls     \* the calls that threads make

Threads == Tasks \cup {Exc}

ASSUME WatchdogAssumption ==
    /\ Exc \notin Tasks /\ Restarters \subseteq Tasks
    /\ NULL \notin Wdogs \cup Funcs \cup Threads
    /\ Funcs \cap Tasks = {}
    /\ Delays \subseteq Int
    /\ WdCalls \subseteq
         {"wdCreate", "wdStart", "wdCancel", "wdDelete", "selfRestart"}

VARIABLES
    list,        \* wdog_list
    heap,        \* the watchdogs that are allocated
    ticks,       \* ticks_remaining of each
    func,        \* its timeout_func, NULL while that is not set; a task t is
                 \* self_starter called with t
    listLock,    \* holder of wdog_list_lock
    wdogLock,    \* holder of the wdog_lock of each
    restartWdog, \* restart_wdog
    known,       \* the ids that clients have got from wdCreate
    pc, call,    \* where each thread is, and in which call
    nxt,         \* next, in process_tick_for
    due,         \* history: timers in the list since before this walk that it
                 \* still has to service
    served       \* history: those that it has serviced

timers == <<list, heap, ticks, func>>
locks == <<listLock, wdogLock>>
history == <<due, served>>
vars == <<list, heap, ticks, func, listLock, wdogLock, restartWdog, known, pc,
          call, nxt, due, served>>

Linked == {list[i] : i \in DOMAIN list}

\* A call on timer w; n and f are the ticks and the function for wdStart.
Do(op, w, n, f) == [op |-> op, w |-> w, n |-> n, f |-> f]
NoCall == Do("none", NULL, 0, NULL)

Init ==
    /\ list = <<>> /\ heap = {} /\ known = {}
    /\ ticks = [w \in Wdogs |-> 0]
    /\ func = [w \in Wdogs |-> NULL]
    /\ listLock = NULL
    /\ wdogLock = [w \in Wdogs |-> NULL]
    /\ restartWdog = NULL
    /\ pc = [t \in Threads |-> IF t = Exc THEN "delay" ELSE "idle"]
    /\ call = [t \in Threads |-> NoCall]
    /\ nxt = NULL
    /\ due = {} /\ served = {}

-----------------------------------------------------------------------------
Goto(t, place, c) ==
    /\ pc' = [pc EXCEPT ![t] = place]
    /\ call' = [call EXCEPT ![t] = c]

\* process_timer_list, having serviced the timers in s, goes on to w, or is
\* through and the exception task delays for a tick.
Visit(w, s) ==
    /\ IF w = NULL THEN Goto(Exc, "delay", NoCall)
                   ELSE Goto(Exc, "list", Do("tick", w, 0, NULL))
    /\ nxt' = NULL
    /\ served' = IF w = NULL THEN {} ELSE s

\* The end of a call.  The exception task makes calls only from a timeout
\* function, which returns to process_timer_list after one call.
Done(t) ==
    IF t = Exc THEN Visit(nxt, served)
               ELSE Goto(t, "idle", NoCall) /\ UNCHANGED <<nxt, served>>

\* self_starter's pthread_create for task u.  If u has a thread all the same, a
\* second one runs beside it, which is not represented.
StartThread(u) ==
    /\ pc' = [t \in Threads |-> IF t = Exc THEN "started"
                               ELSE IF t = u /\ pc[t] = "none" THEN "idle"
                               ELSE pc[t]]
    /\ UNCHANGED <<call, nxt, served>>

\* selfRestart's end is that of its thread, after which the task has none.
\* self_starter goes on to start one for it, whether or not it has found a
\* timer to delete.
EndCall(t) ==
    \/ /\ call[t].op = "selfRestart"
       /\ Goto(t, "none", NoCall)
       /\ UNCHANGED <<nxt, served>>
    \/ call[t].op = "selfStarter" /\ StartThread(call[t].f)
    \/ call[t].op \notin {"selfRestart", "selfStarter"} /\ Done(t)

-----------------------------------------------------------------------------
\* Mutant of StartTicks: without the lower limit.
HalfTicks(delay) == delay \div 2

\* The ticks for which wdStart starts a timer.
StartTicks(delay) == IF delay \div 2 < 1 THEN 1 ELSE delay \div 2

\* Bound: a timeout function makes at most one call.
CanCall(t, name) == pc[t] \in {"idle", "handler"} /\ name \in WdCalls

Begin(t, c) ==
    /\ CanCall(t, c.op)
    /\ Goto(t, "list", c)
    /\ UNCHANGED <<timers, locks, restartWdog, known, nxt, history>>

CallStart(t) ==
    \E w \in known, d \in Delays, f \in Funcs :
        Begin(t, Do("wdStart", w, StartTicks(d), f))

CallCancel(t) == \E w \in known : Begin(t, Do("wdCancel", w, 0, NULL))

CallDelete(t) == \E w \in known : Begin(t, Do("wdDelete", w, 0, NULL))

\* ts_malloc, and the initialisation of a new timer; its function is not set.
Allocate(w) ==
    /\ w \notin heap
    /\ heap' = heap \cup {w}
    /\ ticks' = [ticks EXCEPT ![w] = 0]
    /\ served' = served \ {w}
    /\ UNCHANGED <<list, func, locks, restartWdog, nxt, due>>

CallCreate(t) ==
    \E w \in Wdogs :
        /\ CanCall(t, "wdCreate")
        /\ Allocate(w)
        /\ Goto(t, "link", Do("wdCreate", w, 0, NULL))
        /\ UNCHANGED known

\* taskRestart calls selfRestart with the scheduler locked: one at a time.
CanRestart(t) ==
    /\ t \in Restarters
    /\ CanCall(t, "selfRestart")
    /\ \A u \in Threads : call[u].op # "selfRestart"

CallRestart(t) ==
    \E w \in Wdogs :
        /\ CanRestart(t)
        /\ Allocate(w)
        /\ known' = known \ {w}
        /\ Goto(t, "link", Do("selfRestart", w, StartTicks(1), t))

\* Without memory wdCreate returns NULL, and the task is not started again.
RestartWithoutMemory(t) ==
    /\ CanRestart(t)
    /\ heap = Wdogs
    /\ restartWdog' = NULL
    /\ Goto(t, "none", NoCall)
    /\ UNCHANGED <<timers, locks, known, nxt, history>>

\* link_wdog.  selfRestart goes on to start the new timer.
LinkWdog(t) ==
    LET w == call[t].w
    IN /\ pc[t] = "link"
       /\ listLock = NULL
       /\ list' = Append(list, w)
       /\ IF call[t].op = "wdCreate"
            THEN /\ known' = known \cup {w}
                 /\ Done(t)
                 /\ UNCHANGED restartWdog
            ELSE /\ restartWdog' = w
                 /\ Goto(t, "list", call[t])
                 /\ UNCHANGED <<known, nxt, served>>
       /\ UNCHANGED <<heap, ticks, func, locks, due>>

-----------------------------------------------------------------------------
\* wdog_valid: the timer is looked up under wdog_list_lock, which stays held
\* while the caller waits for wdog_lock.
WdogValid(t) ==
    /\ pc[t] = "list"
    /\ listLock = NULL
    /\ call[t].w \in Linked
    /\ listLock' = t
    /\ Goto(t, "own", call[t])
    /\ UNCHANGED <<timers, wdogLock, restartWdog, known, nxt, history>>

First(s) == IF s = <<>> THEN NULL ELSE s[1]

\* Mutant of AfterInvalid: the walk starts over.
FromTheHead == First(list)

\* Where a walk goes on that finds its timer gone: nowhere.
AfterInvalid == NULL

\* The timer is not in the list: the call fails, and a walk ends.
WdogInvalid(t) ==
    /\ pc[t] = "list"
    /\ listLock = NULL
    /\ call[t].w \notin Linked
    /\ IF call[t].op = "tick" THEN Visit(AfterInvalid, served) ELSE EndCall(t)
    /\ UNCHANGED <<timers, locks, restartWdog, known, due>>

Owns(t, ops) ==
    /\ pc[t] = "own"
    /\ call[t].op \in ops
    /\ wdogLock[call[t].w] = NULL
    /\ listLock' = NULL

WdStart(t) ==
    LET c == call[t]
    IN /\ Owns(t, {"wdStart", "selfRestart"})
       /\ ticks' = [ticks EXCEPT ![c.w] = c.n]
       /\ func' = [func EXCEPT ![c.w] = c.f]
       /\ EndCall(t)
       /\ UNCHANGED <<list, heap, wdogLock, restartWdog, known, due>>

WdCancel(t) ==
    /\ Owns(t, {"wdCancel"})
    /\ ticks' = [ticks EXCEPT ![call[t].w] = 0]
    /\ Done(t)
    /\ UNCHANGED <<list, heap, func, wdogLock, restartWdog, known, due>>

\* wdDelete keeps wdog_lock and waits for wdog_list_lock again.
WdDelete(t) ==
    /\ Owns(t, {"wdDelete", "selfStarter"})
    /\ wdogLock' = [wdogLock EXCEPT ![call[t].w] = t]
    /\ Goto(t, "unlink", call[t])
    /\ UNCHANGED <<timers, restartWdog, known, nxt, history>>

\* The timer that the walk will come to next.
Cursor ==
    IF pc[Exc] \in {"list", "own"} /\ call[Exc].op = "tick" THEN call[Exc].w
    ELSE IF pc[Exc] = "delay" THEN NULL ELSE nxt

\* unlink_wdog: the list without w.
Unlinked(s, w) ==
    IF \E i \in DOMAIN s : s[i] = w
      THEN LET i == CHOOSE i \in DOMAIN s : s[i] = w
           IN [j \in 1 .. Len(s) - 1 |-> IF j < i THEN s[j] ELSE s[j + 1]]
      ELSE s

\* Mutant of MayUnlink: the list is changed without its lock.
UnlinkAnyTime == TRUE

\* unlink_wdog locks wdog_list_lock.
MayUnlink == listLock = NULL

\* unlink_wdog, and the rest of wdDelete: unlock, and free the memory, whose
\* contents mean nothing from then on.  If the walk was to go on with this
\* timer, it will end there, and the timers behind it are not due any more.
UnlinkWdog(t) ==
    LET w == call[t].w
    IN /\ pc[t] = "unlink"
       /\ MayUnlink
       /\ list' = Unlinked(list, w)
       /\ heap' = heap \ {w}
       /\ wdogLock' = [wdogLock EXCEPT ![w] = NULL]
       /\ ticks' = [ticks EXCEPT ![w] = 0]
       /\ func' = [func EXCEPT ![w] = NULL]
       /\ known' = known \ {w}
       /\ due' = IF w = Cursor THEN {} ELSE due \ {w}
       /\ EndCall(t)
       /\ UNCHANGED <<listLock, restartWdog>>

-----------------------------------------------------------------------------
\* Mutant of After: the last timer is never reached.
AfterButLast(s, w) ==
    LET i == CHOOSE i \in DOMAIN s : s[i] = w
    IN IF i < Len(s) - 1 THEN s[i + 1] ELSE NULL

\* The next field of w.
After(s, w) ==
    LET i == CHOOSE i \in DOMAIN s : s[i] = w
    IN IF i < Len(s) THEN s[i + 1] ELSE NULL

\* process_timer_list reads the head of the list without its lock.
Tick ==
    /\ pc[Exc] = "delay"
    /\ Visit(First(list), {})
    /\ due' = Linked
    /\ UNCHANGED <<timers, locks, restartWdog, known>>

\* Mutants of TicksLeft: no test for zero, or one for the last tick too early.
TicksUnchecked(n) == n - 1
TicksAboveOne(n) == IF n > 1 THEN n - 1 ELSE n

\* The ticks that remain after one more.
TicksLeft(n) == IF n > 0 THEN n - 1 ELSE 0

\* process_tick_for a timer that is valid, up to its pthread_mutex_unlock.
ProcessTick(t) ==
    LET w == call[t].w
        left == TicksLeft(ticks[w])
        expires == ticks[w] > 0 /\ left = 0 /\ func[w] # NULL
    IN /\ Owns(t, {"tick"})
       /\ ticks' = [ticks EXCEPT ![w] = left]
       /\ due' = due \ {w}
       /\ IF expires
            THEN /\ Goto(t, "fire", call[t])
                 /\ nxt' = After(list, w)
                 /\ served' = served \cup (due \cap {w})
            ELSE Visit(After(list, w), served \cup (due \cap {w}))
       /\ UNCHANGED <<list, heap, func, wdogLock, restartWdog, known>>

\* timeout_func is read and called with no mutex held.  self_starter begins by
\* deleting whatever restart_wdog points to.
Fire ==
    LET f == func[call[Exc].w]
    IN /\ pc[Exc] = "fire"
       /\ IF f \in Tasks
            THEN Goto(Exc, "list", Do("selfStarter", restartWdog, 0, f))
            ELSE Goto(Exc, "handler", NoCall)
       /\ UNCHANGED <<timers, locks, restartWdog, known, nxt, history>>

\* If the timer has been freed by then, timeout_func may still be there, or
\* what is called may be anything.
FireFreed ==
    /\ pc[Exc] = "fire"
    /\ func[call[Exc].w] = NULL
    /\ Goto(Exc, "lost", NoCall)
    /\ UNCHANGED <<timers, locks, restartWdog, known, nxt, history>>

\* A timeout function that makes no call, or self_starter, returns.
HandlerReturns ==
    /\ pc[Exc] \in {"handler", "started"}
    /\ Visit(nxt, served)
    /\ UNCHANGED <<timers, locks, restartWdog, known, due>>

-----------------------------------------------------------------------------
Call(t) ==
    \/ CallCreate(t) \/ CallStart(t) \/ CallCancel(t) \/ CallDelete(t)
    \/ CallRestart(t) \/ RestartWithoutMemory(t)

\* The steps of a call that has begun.
Progress(t) ==
    \/ LinkWdog(t) \/ WdogValid(t) \/ WdogInvalid(t)
    \/ WdStart(t) \/ WdCancel(t) \/ WdDelete(t) \/ UnlinkWdog(t)
    \/ ProcessTick(t)

Walk == Tick \/ Fire \/ HandlerReturns

Next == Walk \/ FireFreed \/ \E t \in Threads : Call(t) \/ Progress(t)

Spec == Init /\ [][Next]_vars

\* A thread that waits for a mutex which becomes free again and again gets it,
\* ticks pass, and a timeout function returns.
Fairness == WF_vars(Walk) /\ \A t \in Threads : SF_vars(Progress(t))

FairSpec == Spec /\ Fairness

-----------------------------------------------------------------------------
PCs == {"idle", "link", "list", "own", "unlink", "none", "delay", "fire",
        "handler", "started", "lost"}

Ops == WdCalls \cup {"none", "tick", "selfStarter"}

\* The types of the variables.
TypeOK ==
    /\ list \in Seq(Wdogs)
    /\ heap \subseteq Wdogs /\ known \subseteq Wdogs
    /\ ticks \in [Wdogs -> Nat]
    /\ func \in [Wdogs -> Funcs \cup Tasks \cup {NULL}]
    /\ listLock \in Threads \cup {NULL}
    /\ wdogLock \in [Wdogs -> Threads \cup {NULL}]
    /\ restartWdog \in Wdogs \cup {NULL}
    /\ pc \in [Threads -> PCs]
    /\ call \in [Threads -> [op : Ops, w : Wdogs \cup {NULL}, n : Nat,
                             f : Funcs \cup Tasks \cup {NULL}]]
    /\ nxt \in Wdogs \cup {NULL}
    /\ due \subseteq Wdogs /\ served \subseteq Wdogs

\* Whoever waits for or holds the wdog_lock of a timer finds the timer in the
\* list and its memory allocated, and a timer is unlinked by one wdDelete only:
\* between wdog_valid's search and the call's last use of the timer no wdDelete
\* frees it, although wdDelete gives wdog_list_lock up in between.
LockedIsLive ==
    \A t \in Threads :
        pc[t] \in {"own", "unlink"} =>
            /\ call[t].w \in Linked \cap heap
            /\ \A u \in Threads \ {t} :
                 pc[t] = "unlink" /\ pc[u] = "unlink" => call[u].w # call[t].w

\* exception_task: "ALL timers must be handled during a single 10 msec system
\* clock tick".  When the walk is through, every timer that was in the list all
\* the time has been serviced, whatever was appended, cancelled or deleted
\* meanwhile, unless the very timer that was next in the walk was deleted.
TickServesAll == pc[Exc] = "delay" => due = {}

\* process_tick_for: no walk services a timer twice, also when timers are
\* deleted and their memory is linked again behind the walk's back.
ServedOnce ==
    pc[Exc] = "own" /\ call[Exc].op = "tick" => call[Exc].w \notin served

\* A timer that was started is ticked, and so expires, unless it is cancelled,
\* started again or deleted first: the exception task comes round to every
\* timer.  Clients do not delete timers here: wdDelete can deadlock with a walk.
TimersTick ==
    \A w \in Wdogs :
        \A n \in 1 .. 2 :
            w \in Linked /\ ticks[w] = n ~> w \notin Linked \/ ticks[w] # n

\* selfRestart: a task that has ended to restart itself is started again, if
\* there was memory for its timer: the timer expires, self_starter deletes it
\* and starts the task.  One task restarts itself here: a second one would
\* overwrite restart_wdog.
RestartHappens ==
    \A t \in Restarters :
        pc[t] = "none" /\ restartWdog # NULL ~> pc[t] = "idle"
=============================================================================
