------------------------------ MODULE Timeout ------------------------------
(***************************************************************************)
(* The arithmetic of a wait with a timeout, which semTake, msgQSend and    *)
(* msgQReceive share: from a number of ticks to a deadline on the clock,   *)
(* from the deadline to the answer that the time is up.                    *)
(*                                                                         *)
(* One task waits for something that does not come.  In a loop it looks    *)
(* for it (waiting_on_sem, waiting_on_q_space, waiting_on_q_msg) and then  *)
(* calls pthread_cond_timedwait.  If the look finds what is meant for      *)
(* another task, it passes through the taskDelay that lets others go       *)
(* first, after which the code compares the deadline with the clock        *)
(* itself, whether or not pthread_cond_timedwait would accept it.          *)
(* Nanoseconds are counted in thousands, as the code makes them.           *)
(***************************************************************************)
EXTENDS Integers

CONSTANTS
    Second,   \* microseconds per second
    Tick,     \* V2PT_TICK * 1000, microseconds per tick
    IntMax,   \* largest value of an int
    Waits,    \* the max_wait arguments, NO_WAIT (0) among them
    MaxStart, \* bound: the wait begins no later
    MaxClock  \* bound: the clock stops there

ASSUME TimeAssumption ==
    /\ Second \in Nat \ {0} /\ Tick \in Nat \ {0} /\ IntMax \in Nat
    /\ Waits \subseteq Nat
    /\ MaxStart \in Nat /\ MaxClock \in Nat

VARIABLES
    clock,    \* the time of day, in microseconds
    library,  \* whose comparison of deadline and clock is used
    ticks,    \* max_wait
    started,  \* history: the time of day when the deadline was computed
    timeout,  \* the deadline: tv_sec and tv_nsec / 1000
    at        \* where the task is: in the loop around pthread_cond_timedwait
              \* ("cond"; "spin" once the call has been refused), in the
              \* delay, done

timeoutVars == <<clock, library, ticks, started, timeout, at>>

\* gettimeofday
Now == [sec |-> clock \div Second, usec |-> clock % Second]

TimeoutInit ==
    /\ clock \in 0 .. MaxStart
    /\ library \in {"lsemLib", "lmsgQLib"}
    /\ ticks = 0 /\ started = 0 /\ timeout = [sec |-> 0, usec |-> 0]
    /\ at = "idle"

-----------------------------------------------------------------------------
\* A product of ints, which wraps around.
Int32(n) == ((n + IntMax + 1) % (2 * (IntMax + 1))) - (IntMax + 1)

\* Mutant of Carried: the seconds are counted but not taken away.
NotCarried(s, u) ==
    IF u > Second THEN [sec |-> s + u \div Second, usec |-> u]
                  ELSE [sec |-> s, usec |-> u]

\* Mutant of Carried: the seconds are dropped.
CarryLost(s, u) == [sec |-> s, usec |-> IF u > Second THEN u % Second ELSE u]

\* More than a second's worth of microseconds is carried, a second is not.
Carried(s, u) ==
    IF u > Second THEN [sec |-> s + u \div Second, usec |-> u % Second]
                  ELSE [sec |-> s, usec |-> u]

Deadline(w) == Carried(Now.sec, Int32(w * Tick) + Now.usec)

StartWait(w) ==
    /\ at = "idle" /\ clock <= MaxStart
    /\ ticks' = w /\ started' = clock
    /\ timeout' = IF w = 0 THEN Now ELSE Deadline(w)
    /\ at' = "cond"
    /\ UNCHANGED <<clock, library>>

-----------------------------------------------------------------------------
\* pthread_cond_timedwait refuses a deadline that is not a time, with EINVAL:
\* the task looks and calls it again, with the mutex still locked.
Valid == 0 <= timeout.usec /\ timeout.usec < Second

Reached ==
    \/ timeout.sec < Now.sec
    \/ timeout.sec = Now.sec /\ timeout.usec <= Now.usec

Goes(from, to) ==
    /\ at = from /\ at' = to
    /\ UNCHANGED <<clock, library, ticks, started, timeout>>

Refused == ~Valid /\ Goes("cond", "spin")

TimesOut == Valid /\ Reached /\ Goes("cond", "done")

\* What the look finds is meant for another task: at the first look, before
\* any pthread_cond_timedwait, when woken, or after a call that was refused.
NotForUs == Goes("cond", "delay") \/ Goes("spin", "delay")

\* Mutant of TimeExpired: a deadline that is not in normal form loses a second.
TimeExpiredModulo ==
    \/ timeout.sec < Now.sec
    \/ timeout.sec = Now.sec /\ timeout.usec % Second <= Now.usec

\* time_expired
TimeExpired ==
    IF timeout.sec < Now.sec THEN TRUE
    ELSE IF timeout.sec > Now.sec THEN FALSE
    ELSE timeout.usec <= Now.usec

\* The microseconds that are left, in waiting_on_q_space and waiting_on_q_msg.
TimeLeft ==
    IF timeout.usec > Now.usec
      THEN IF timeout.sec < Now.sec THEN 0
           ELSE timeout.usec - Now.usec + (timeout.sec - Now.sec) * Second
      ELSE IF timeout.sec - 1 < Now.sec THEN 0
           ELSE timeout.usec + Second - Now.usec + (timeout.sec - 1 - Now.sec) * Second

Expired == IF library = "lsemLib" THEN TimeExpired ELSE TimeLeft = 0

\* Back from the delay: the time is up, or what there was has gone.
TimeIsUp == Expired /\ Goes("delay", "cond")
TakenByOther == ~Expired /\ Goes("delay", "cond")

Elapse ==
    /\ clock < MaxClock
    /\ clock' = clock + 1
    /\ UNCHANGED <<library, ticks, started, timeout, at>>

-----------------------------------------------------------------------------
TimeoutNext ==
    \/ \E w \in Waits : StartWait(w)
    \/ Refused \/ TimesOut \/ NotForUs \/ TimeIsUp \/ TakenByOther
    \/ Elapse

TimeoutSpec == TimeoutInit /\ [][TimeoutNext]_timeoutVars

\* Time passes, and a task whose time is up is not woken for others for ever.
TimeoutFairness ==
    /\ WF_timeoutVars(Elapse) /\ WF_timeoutVars(TimeIsUp) /\ SF_timeoutVars(TimesOut)

-----------------------------------------------------------------------------
\* The time at which the wait should be over.
Due == started + ticks * Tick

\* The deadline is a whole second, the next one.
OnTheSecond == (started % Second) + ticks * Tick = Second

\* The product does not overflow.
InRange == ticks * Tick <= IntMax

\* While a task is in its delay, time_expired and the queues' loops say that its
\* time is up when it is, neither before nor later.  The deadline exactly on the
\* next second, which is not in normal form and which pthread_cond_timedwait
\* refuses, is compared like the others; only waits that overflow are left out.
ExpiredWhenDue == at = "delay" /\ InRange => (Expired <=> clock >= Due)

\* A wait that ends with ETIMEDOUT has taken as long as was asked for.
NeverEarly == at = "done" /\ InRange => clock >= Due

\* Only a deadline exactly on the next second is refused, for which the task
\* spins with the mutex locked whenever there is nothing for others.
SpinsOnlyOnTheSecond == at = "spin" /\ InRange => OnTheSecond

\* A wait for which the arithmetic comes out right.
ProperWait == at = "cond" /\ InRange /\ ~OnTheSecond

\* Every wait but those that overflow or are refused ends.
WaitEnds == ProperWait ~> at = "done"
=============================================================================
