------------------------ MODULE Conversions_proofs ------------------------
(***************************************************************************)
(* What the arithmetic of Timeout and Priority comes to for every clock,   *)
(* tick and second, and for every VxWorks priority.                        *)
(***************************************************************************)
EXTENDS Timeout, Priority, TLAPS

-----------------------------------------------------------------------------
\* Priorities

LEMMA LevelBounds ==
    ASSUME NEW v \in Int
    PROVE  TranslatePriority(v) \in 1 .. 97
  BY PriorityAssumption
     DEF TranslatePriority, Telescoped, MinV2ptPriority

LEMMA LevelOrder ==
    ASSUME NEW v \in Int, NEW u \in Int, 2 <= v, v < u
    PROVE  /\ TranslatePriority(v) >= TranslatePriority(u)
           /\ v <= 249 /\ v + 3 <= u => TranslatePriority(v) > TranslatePriority(u)
  BY PriorityAssumption
     DEF TranslatePriority, Telescoped, MinV2ptPriority

PriorityInv ==
    /\ vxwPriority \in [Tasks -> Int \cup {NoTask}]
    /\ prvPriority \in [Tasks -> Int \cup {NoTask}]
    /\ \A t \in Tasks :
          vxwPriority[t] # NoTask => prvPriority[t] = TranslatePriority(vxwPriority[t])

LEMMA PriorityInductive == PrioritySpec => []PriorityInv
<1>1. PriorityInit => PriorityInv
  BY DEF PriorityInit, PriorityInv
<1>2. PriorityInv /\ [PriorityNext]_priorityVars => PriorityInv'
  <2> SUFFICES ASSUME PriorityInv, [PriorityNext]_priorityVars PROVE PriorityInv'
    OBVIOUS
  <2>1. ASSUME NEW t \in Tasks, NEW v \in Requests,
               TaskInit(t, v) \/ TaskPrioritySet(t, v)
        PROVE  PriorityInv'
    <3>1. v \in Int /\ TranslatePriority(v) \in Int
      BY PriorityAssumption, LevelBounds
    <3>2. /\ vxwPriority' = [vxwPriority EXCEPT ![t] = v]
          /\ prvPriority' = [prvPriority EXCEPT ![t] = TranslatePriority(v)]
      BY <2>1 DEF TaskInit, TaskPrioritySet
    <3> HIDE DEF TranslatePriority
    <3> QED
      BY <3>1, <3>2 DEF PriorityInv
  <2>2. CASE UNCHANGED priorityVars
    BY <2>2 DEF priorityVars, PriorityInv
  <2> QED
    BY <2>1, <2>2 DEF PriorityNext
<1> QED
  BY <1>1, <1>2, PTL DEF PrioritySpec

(***************************************************************************)
(* Whatever priorities taskInit and taskPrioritySet are asked for, legal   *)
(* or not, translate_priority never gives a task one of the two reserved   *)
(* levels.                                                                 *)
(***************************************************************************)
THEOREM LevelsReserved == PrioritySpec => []ReservedLevels
<1>1. PriorityInv => ReservedLevels
  <2> SUFFICES ASSUME PriorityInv, NEW t \in Tasks, vxwPriority[t] # NoTask
               PROVE  prvPriority[t] \in MinPriority .. MaxPriority - 2
    BY DEF ReservedLevels, Exists
  <2>1. vxwPriority[t] \in Int /\ prvPriority[t] = TranslatePriority(vxwPriority[t])
    BY DEF PriorityInv
  <2> QED
    BY <2>1, LevelBounds, PriorityAssumption
<1> QED
  BY <1>1, PriorityInductive, PTL

(***************************************************************************)
(* translate_priority keeps the order of all VxWorks priorities but the    *)
(* two highest, and tells apart those that are three numbers apart, down   *)
(* to 249.                                                                 *)
(***************************************************************************)
THEOREM PrioritiesOrdered == PrioritySpec => []OrderKept
<1>1. PriorityInv => OrderKept
  <2> SUFFICES ASSUME PriorityInv, NEW t \in Tasks, NEW u \in Tasks,
                      vxwPriority[t] # NoTask, vxwPriority[u] # NoTask,
                      2 <= vxwPriority[t], vxwPriority[t] < vxwPriority[u]
               PROVE  /\ prvPriority[t] >= prvPriority[u]
                      /\ vxwPriority[t] <= 249 /\ vxwPriority[t] + 3 <= vxwPriority[u]
                            => prvPriority[t] > prvPriority[u]
    BY DEF OrderKept, Exists
  <2>1. /\ vxwPriority[t] \in Int /\ prvPriority[t] = TranslatePriority(vxwPriority[t])
        /\ vxwPriority[u] \in Int /\ prvPriority[u] = TranslatePriority(vxwPriority[u])
    BY DEF PriorityInv
  <2> QED
    BY <2>1, LevelOrder
<1> QED
  BY <1>1, PriorityInductive, PTL

-----------------------------------------------------------------------------
\* Timeouts

LEMMA DivMod ==
    ASSUME NEW x \in Nat, NEW n \in Nat \ {0}
    PROVE  /\ x \div n \in Nat /\ x % n \in Nat /\ x % n < n
           /\ x = n * (x \div n) + (x % n)
  OBVIOUS

LEMMA CarryKeepsTime ==
    ASSUME NEW n \in Nat \ {0}, NEW s \in Nat, NEW u \in Nat
    PROVE  n * (s + (u \div n)) + (u % n) = n * s + u
<1>1. \A q \in Nat : n * (s + q) = n * s + n * q
  OBVIOUS
<1>2. u \div n \in Nat /\ u % n \in Nat /\ u = n * (u \div n) + (u % n)
  BY DivMod
<1>3. n * s \in Nat /\ n * (u \div n) \in Nat
  BY <1>2
<1>4. n * (s + (u \div n)) = n * s + n * (u \div n)
  BY <1>1, <1>2
<1> QED
  BY <1>2, <1>3, <1>4

LEMMA Small ==
    ASSUME NEW x \in Nat, NEW n \in Nat \ {0}, x < n
    PROVE  x % n = x
<1>1. x = n * (x \div n) + (x % n) /\ x \div n \in Nat /\ x % n \in Nat
  BY DivMod
<1>2. x \div n = 0
  BY <1>1
<1> QED
  BY <1>1, <1>2

\* Seconds first, microseconds second, if there are no more of them than n.
LEMMA Lexicographic ==
    ASSUME NEW n \in Nat \ {0}, NEW s \in Int, NEW u \in Int, NEW c \in Int,
           NEW d \in Int, 0 <= u, u <= n, 0 <= d, d < n
    PROVE  (s < c \/ (s = c /\ u <= d)) <=> n * s + u <= n * c + d
<1>1. CASE s < c
  <2>1. n * (c - s - 1) >= 0
    BY <1>1
  <2>2. n * (c - s - 1) = n * c - n * s - n
    OBVIOUS
  <2> QED
    BY <1>1, <2>1, <2>2
<1>2. CASE s = c
  BY <1>2
<1>3. CASE s > c
  <2>1. n * (s - c - 1) >= 0
    BY <1>3
  <2>2. n * (s - c - 1) = n * s - n * c - n
    OBVIOUS
  <2> QED
    BY <1>3, <2>1, <2>2
<1> QED
  BY <1>1, <1>2, <1>3

\* The deadline is what was asked for, in a form in which only a deadline on the
\* second has too many microseconds.
DeadlineRight ==
    at # "idle" /\ InRange =>
        /\ Second * timeout.sec + timeout.usec = Due
        /\ 0 <= timeout.usec /\ timeout.usec <= Second
        /\ timeout.usec = Second => OnTheSecond

TimeoutInv ==
    /\ clock \in Nat /\ started \in Nat /\ ticks \in Nat
    /\ timeout \in [sec : Int, usec : Int]
    /\ at \in {"idle", "cond", "delay", "spin", "done"}
    /\ DeadlineRight
    /\ at = "spin" => ~Valid
    /\ NeverEarly

LEMMA NowRight ==
    ASSUME clock \in Nat
    PROVE  /\ Now.sec \in Nat /\ Now.usec \in Nat /\ Now.usec < Second
           /\ clock = Second * Now.sec + Now.usec
           /\ Now.usec = clock % Second
  BY DivMod, TimeAssumption DEF Now

\* Deadline computes what was asked for unless the product overflows.
LEMMA DeadlineComputed ==
    ASSUME clock \in Nat, NEW w \in Nat, w * Tick <= IntMax
    PROVE  /\ Second * Deadline(w).sec + Deadline(w).usec = clock + w * Tick
           /\ 0 <= Deadline(w).usec /\ Deadline(w).usec <= Second
           /\ Deadline(w).usec = Second => (clock % Second) + w * Tick = Second
           /\ Deadline(w) \in [sec : Int, usec : Int]
<1> DEFINE p == w * Tick
           u == p + Now.usec
<1>1. p \in Nat
  BY TimeAssumption
<1> HIDE DEF p
<1>2. Int32(p) = p
  <2>1. p + IntMax + 1 < 2 * (IntMax + 1)
    BY <1>1, TimeAssumption DEF p
  <2>2. (p + IntMax + 1) % (2 * (IntMax + 1)) = p + IntMax + 1
    BY <2>1, <1>1, Small, TimeAssumption
  <2> QED
    BY <2>2, <1>1, TimeAssumption DEF Int32
<1>3. Deadline(w) = Carried(Now.sec, u)
  BY <1>2 DEF Deadline, p
<1>4. /\ Now.sec \in Nat /\ Now.usec \in Nat /\ Now.usec = clock % Second
      /\ clock = Second * Now.sec + Now.usec
  BY NowRight
<1>5. u \in Nat
  BY <1>1, <1>4
<1>6. CASE u > Second
  <2> HIDE DEF u
  <2>1. u \div Second \in Nat /\ u % Second \in Nat /\ u % Second < Second
    BY <1>5, DivMod, TimeAssumption
  <2>2. /\ Deadline(w).sec = Now.sec + (u \div Second) /\ Deadline(w).usec = u % Second
        /\ Deadline(w) \in [sec : Int, usec : Int]
    BY <1>3, <1>4, <1>6, <2>1 DEF Carried
  <2>3. Second * (Now.sec + (u \div Second)) + (u % Second) = Second * Now.sec + u
    BY <1>4, <1>5, CarryKeepsTime, TimeAssumption
  <2>4. Second * Now.sec + u = clock + p
    BY <1>1, <1>4, TimeAssumption DEF u
  <2>5. 0 <= u % Second /\ u % Second <= Second /\ u % Second # Second
    BY <2>1, TimeAssumption
  <2> QED
    BY <2>2, <2>3, <2>4, <2>5 DEF p
<1>7. CASE ~(u > Second)
  <2>1. Deadline(w) = [sec |-> Now.sec, usec |-> u]
    BY <1>3, <1>7 DEF Carried
  <2>2. /\ Deadline(w).sec = Now.sec /\ Deadline(w).usec = u
        /\ Deadline(w) \in [sec : Int, usec : Int]
    BY <2>1, <1>4, <1>5
  <2>3. Second * Now.sec + u = clock + p
    BY <1>1, <1>4, TimeAssumption
  <2>4. 0 <= u /\ u <= Second
    BY <1>5, <1>7, TimeAssumption
  <2>5. u = Second => (clock % Second) + p = Second
    BY <1>1, <1>4, TimeAssumption
  <2> QED
    BY <2>2, <2>3, <2>4, <2>5 DEF p
<1> QED
  BY <1>6, <1>7

\* With such a deadline the comparisons of both libraries, and the one in
\* pthread_cond_timedwait, find out whether it is due.
LEMMA ComparedRight ==
    ASSUME TimeoutInv, at # "idle", InRange
    PROVE  /\ Reached <=> clock >= Due
           /\ Expired <=> clock >= Due
<1> DEFINE s == timeout.sec  u == timeout.usec  c == Now.sec  d == Now.usec
<1>1. /\ s \in Int /\ u \in Int /\ 0 <= u /\ u <= Second
      /\ Second * s + u = Due
  BY DEF TimeoutInv, DeadlineRight
<1>2. /\ c \in Nat /\ d \in Nat /\ d < Second
      /\ clock = Second * c + d
  BY NowRight DEF TimeoutInv
<1> HIDE DEF s, u, c, d
<1>3. (s < c \/ (s = c /\ u <= d)) <=> clock >= Due
  BY <1>1, <1>2, Lexicographic, TimeAssumption
<1>4. Reached <=> (s < c \/ (s = c /\ u <= d))
  BY DEF Reached, s, u, c, d
<1>5. TimeExpired <=> (s < c \/ (s = c /\ u <= d))
  BY <1>1, <1>2 DEF TimeExpired, s, u, c, d
<1>6. TimeLeft = 0 <=> (s < c \/ (s = c /\ u <= d))
  <2>1. CASE u > d
    <3>1. TimeLeft = IF s < c THEN 0 ELSE u - d + (s - c) * Second
      BY <2>1 DEF TimeLeft, s, u, c, d
    <3>2. s >= c => (s - c) * Second >= 0
      BY <1>1, <1>2, TimeAssumption
    <3>3. (s - c) * Second \in Int
      BY <1>1, <1>2, TimeAssumption
    <3> QED
      BY <2>1, <3>1, <3>2, <3>3, <1>1, <1>2
  <2>2. CASE ~(u > d)
    <3>1. TimeLeft = IF s - 1 < c THEN 0 ELSE u + Second - d + (s - 1 - c) * Second
      BY <2>2 DEF TimeLeft, s, u, c, d
    <3>2. s - 1 >= c => (s - 1 - c) * Second >= 0
      BY <1>1, <1>2, TimeAssumption
    <3>3. (s - 1 - c) * Second \in Int
      BY <1>1, <1>2, TimeAssumption
    <3> QED
      BY <2>2, <3>1, <3>2, <3>3, <1>1, <1>2, TimeAssumption
  <2> QED
    BY <2>1, <2>2
<1> QED
  BY <1>3, <1>4, <1>5, <1>6 DEF Expired

LEMMA StartWaitKeeps ==
    ASSUME TimeoutInv, NEW w \in Waits, StartWait(w)
    PROVE  TimeoutInv'
<1>1. /\ w \in Nat /\ clock \in Nat
      /\ clock' = clock /\ started' = clock /\ ticks' = w /\ at' = "cond"
      /\ timeout' = IF w = 0 THEN Now ELSE Deadline(w)
  BY TimeAssumption DEF StartWait, TimeoutInv
<1>2. timeout' \in [sec : Int, usec : Int]
  <2>1. Now \in [sec : Int, usec : Int]
    BY <1>1, NowRight DEF Now
  <2>2. w * Tick \in Nat /\ Int32(w * Tick) \in Int
    BY <1>1, TimeAssumption DEF Int32
  <2>3. Int32(w * Tick) + Now.usec \in Int
    BY <1>1, <2>2, NowRight
  <2>4. ASSUME NEW u \in Int PROVE Carried(Now.sec, u) \in [sec : Int, usec : Int]
    BY <1>1, NowRight, TimeAssumption DEF Carried
  <2> QED
    BY <1>1, <2>1, <2>3, <2>4 DEF Deadline
<1>3. DeadlineRight'
  <2> SUFFICES ASSUME w * Tick <= IntMax
               PROVE  /\ Second * timeout'.sec + timeout'.usec = clock + w * Tick
                      /\ 0 <= timeout'.usec /\ timeout'.usec <= Second
                      /\ timeout'.usec = Second => (clock % Second) + w * Tick = Second
    BY <1>1 DEF DeadlineRight, InRange, Due, OnTheSecond
  <2>1. CASE w = 0
    <3>1. timeout'.sec = Now.sec /\ timeout'.usec = Now.usec
      BY <1>1, <2>1
    <3>2. w * Tick = 0
      BY <2>1, TimeAssumption
    <3> QED
      BY <1>1, <3>1, <3>2, NowRight, TimeAssumption
  <2>2. CASE w # 0
    BY <1>1, <2>2, DeadlineComputed
  <2> QED
    BY <2>1, <2>2
<1> QED
  BY <1>1, <1>2, <1>3 DEF TimeoutInv, NeverEarly

LEMMA TimeoutInductive == TimeoutSpec => []TimeoutInv
<1>1. TimeoutInit => TimeoutInv
  BY TimeAssumption DEF TimeoutInit, TimeoutInv, DeadlineRight, NeverEarly
<1>2. TimeoutInv /\ [TimeoutNext]_timeoutVars => TimeoutInv'
  <2> SUFFICES ASSUME TimeoutInv, [TimeoutNext]_timeoutVars PROVE TimeoutInv'
    OBVIOUS
  <2>1. ASSUME NEW w \in Waits, StartWait(w) PROVE TimeoutInv'
    BY <2>1, StartWaitKeeps
  <2>2. CASE Refused
    BY <2>2 DEF Refused, Goes, TimeoutInv, DeadlineRight, NeverEarly, InRange, Due,
                OnTheSecond, Valid
  <2>3. CASE TimesOut
    <3>1. InRange => clock >= Due
      BY <2>3, ComparedRight DEF TimesOut, Goes
    <3> QED
      BY <2>3, <3>1 DEF TimesOut, Goes, TimeoutInv, DeadlineRight, NeverEarly, InRange,
                        Due, OnTheSecond, Valid
  <2>4. CASE NotForUs \/ TimeIsUp \/ TakenByOther
    BY <2>4 DEF NotForUs, TimeIsUp, TakenByOther, Goes, TimeoutInv, DeadlineRight,
                NeverEarly, InRange, Due, OnTheSecond, Valid
  <2>5. CASE Elapse
    <3>1. Due \in Int
      BY TimeAssumption DEF Due, TimeoutInv
    <3>2. UNCHANGED <<started, ticks, timeout, at, Due>> /\ clock' = clock + 1
      BY <2>5 DEF Elapse, Due
    <3> QED
      BY <3>1, <3>2 DEF TimeoutInv, DeadlineRight, NeverEarly, InRange, OnTheSecond,
                        Valid
  <2>6. CASE UNCHANGED timeoutVars
    BY <2>6 DEF timeoutVars, TimeoutInv, DeadlineRight, NeverEarly, InRange, Due,
                OnTheSecond, Valid
  <2> QED
    BY <2>1, <2>2, <2>3, <2>4, <2>5, <2>6 DEF TimeoutNext
<1> QED
  BY <1>1, <1>2, PTL DEF TimeoutSpec

(***************************************************************************)
(* A task that comes back from the taskDelay of waiting_on_sem,            *)
(* waiting_on_q_space or waiting_on_q_msg is told that its time is up      *)
(* exactly when it is due: for every length of a tick and of a second,     *)
(* every time of day and every wait whose product does not overflow an     *)
(* int.  That includes the deadline that comes to a whole second and is    *)
(* not carried, which both time_expired and the queues' loops compare      *)
(* although pthread_cond_timedwait refuses it.                             *)
(***************************************************************************)
THEOREM ExpiryExact == TimeoutSpec => []ExpiredWhenDue
<1>1. TimeoutInv => ExpiredWhenDue
  BY ComparedRight DEF ExpiredWhenDue
<1> QED
  BY <1>1, TimeoutInductive, PTL

(***************************************************************************)
(* pthread_cond_timedwait, called with that deadline, never returns        *)
(* ETIMEDOUT before the ticks that the caller asked for are over.          *)
(***************************************************************************)
THEOREM TimeoutNeverEarly == TimeoutSpec => []NeverEarly
<1>1. TimeoutInv => NeverEarly
  BY DEF TimeoutInv
<1> QED
  BY <1>1, TimeoutInductive, PTL

(***************************************************************************)
(* The only deadline that pthread_cond_timedwait refuses is one for which  *)
(* the microseconds add up to a second exactly, which the code does not    *)
(* carry.                                                                  *)
(***************************************************************************)
THEOREM RefusedOnTheSecond == TimeoutSpec => []SpinsOnlyOnTheSecond
<1>1. TimeoutInv => SpinsOnlyOnTheSecond
  <2> SUFFICES ASSUME TimeoutInv, at = "spin", InRange PROVE OnTheSecond
    BY DEF SpinsOnlyOnTheSecond
  <2>1. /\ ~(0 <= timeout.usec /\ timeout.usec < Second)
        /\ 0 <= timeout.usec /\ timeout.usec <= Second /\ timeout.usec \in Int
        /\ timeout.usec = Second => OnTheSecond
    BY DEF TimeoutInv, DeadlineRight, Valid
  <2>2. timeout.usec = Second
    BY <2>1, TimeAssumption
  <2> QED
    BY <2>1, <2>2
<1> QED
  BY <1>1, TimeoutInductive, PTL
=============================================================================
