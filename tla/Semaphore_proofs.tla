-------------------------- MODULE Semaphore_proofs --------------------------
(***************************************************************************)
(* Proofs about Semaphore, for any number of threads and every value of    *)
(* the other constants.                                                    *)
(***************************************************************************)
EXTENDS Semaphore, SequenceTheorems, TLAPS

USE ThreadAssumption, ArgumentAssumption DEF Threads

\* Unlinking a task leaves a list of tasks, and all the other tasks in it.
LEMMA UnlinkedIsList ==
    ASSUME NEW s \in Seq(Tasks), NEW t
    PROVE  /\ Unlinked(s, t) \in Seq(Tasks)
           /\ \A u \in Tasks \ {t} :
                (\E i \in DOMAIN s : s[i] = u) =>
                    \E i \in DOMAIN Unlinked(s, t) : Unlinked(s, t)[i] = u
<1>1. CASE ~ \E i \in DOMAIN s : s[i] = t
  BY <1>1 DEF Unlinked
<1>2. CASE \E i \in DOMAIN s : s[i] = t
  <2> DEFINE k == CHOOSE i \in DOMAIN s : s[i] = t
             r == [j \in 1 .. Len(s) - 1 |-> IF j < k THEN s[j] ELSE s[j + 1]]
  <2>1. Unlinked(s, t) = r
    BY <1>2 DEF Unlinked
  <2>2. k \in 1 .. Len(s) /\ s[k] = t
    BY <1>2
  <2> HIDE DEF k
  <2>3. r \in Seq(Tasks) /\ DOMAIN r = 1 .. Len(s) - 1
    BY <2>2
  <2>4. ASSUME NEW u \in Tasks \ {t}, NEW i \in DOMAIN s, s[i] = u
        PROVE  \E j \in DOMAIN r : r[j] = u
    <3>1. CASE i < k
      BY <2>2, <2>4, <3>1
    <3>2. CASE i > k
      <4>1. i - 1 \in 1 .. Len(s) - 1 /\ ~(i - 1 < k) /\ (i - 1) + 1 = i
        BY <2>2, <3>2
      <4> QED BY <2>4, <4>1
    <3> QED BY <2>2, <2>4, <3>1, <3>2
  <2> QED BY <2>1, <2>3, <2>4
<1> QED BY <1>1, <1>2

-----------------------------------------------------------------------------
\* The type invariant, by the groups of variables that steps change together.
ControlTypes ==
    /\ pc \in [Threads -> PCs]
    /\ op \in [Threads -> {"none", "semGive", "semTake", "semFlush", "semDelete"}]

LocalTypes ==
    /\ wait \in [Threads -> {"FOREVER", "TIMED", "NO_WAIT"}]
    /\ expired \in [Threads -> BOOLEAN]
    /\ ret \in [Threads -> {"OK", "ETIMEDOUT"}]

ToldTypes == credit \in Int /\ held \in [Threads -> Int]

DataTypes ==
    /\ kind \in {"BINARY", "COUNTING", "MUTEX"}
    /\ status \in {"linked", "unlinked", "freed"}
    /\ token \in Nat /\ rlevel \in Nat
    /\ currentOwner \in Tasks \cup {NULL}
    /\ susp \in Seq(Tasks)
    /\ sendType \in {"SEND", "FLUSH", "KILLD"}

LockTypes ==
    /\ listLock \in Threads \cup {NULL} /\ semLock \in Threads \cup {NULL}
    /\ smdelLock \in Threads \cup {NULL}

SchedTypes ==
    /\ locker \in Threads \cup {NULL} /\ level \in 0 .. 1
    /\ locker = NULL <=> level = 0

TypeInv == ControlTypes /\ LocalTypes /\ ToldTypes /\ DataTypes /\ LockTypes /\ SchedTypes

\* The groups together are the type invariant.
LEMMA TypeInvIsTypeOK == TypeInv => TypeOK
BY DEF TypeInv, TypeOK, ControlTypes, LocalTypes, ToldTypes, DataTypes, LockTypes,
       SchedTypes

\* What leaves the variables of a group alone keeps their types.
LEMMA UnchangedTypes ==
    /\ ControlTypes /\ UNCHANGED <<pc, op>> => ControlTypes'
    /\ LocalTypes /\ UNCHANGED local => LocalTypes'
    /\ ToldTypes /\ UNCHANGED told => ToldTypes'
    /\ DataTypes /\ UNCHANGED data => DataTypes'
    /\ LockTypes /\ UNCHANGED locks => LockTypes'
    /\ SchedTypes /\ UNCHANGED sched => SchedTypes'
<1>1. ControlTypes /\ UNCHANGED <<pc, op>> => ControlTypes'
  BY DEF ControlTypes
<1>2. LocalTypes /\ UNCHANGED local => LocalTypes'
  BY DEF LocalTypes, local
<1>3. ToldTypes /\ UNCHANGED told => ToldTypes'
  BY DEF ToldTypes, told
<1>4. DataTypes /\ UNCHANGED data => DataTypes'
  BY DEF DataTypes, data
<1>5. LockTypes /\ UNCHANGED locks => LockTypes'
  BY DEF LockTypes, locks
<1>6. SchedTypes /\ UNCHANGED sched => SchedTypes'
  BY DEF SchedTypes, sched
<1> QED BY <1>1, <1>2, <1>3, <1>4, <1>5, <1>6

\* Moving one thread keeps the types.
LEMMA GotoTypes ==
    ASSUME ControlTypes, NEW t \in Threads, NEW place \in PCs, Goto(t, place),
           UNCHANGED op
    PROVE  ControlTypes'
BY DEF ControlTypes, Goto

\* Returning from a call keeps the types.
LEMMA ReturnTypes ==
    ASSUME ControlTypes, LocalTypes, NEW t \in Threads, NEW p \in [Threads -> PCs],
           Return(p, t)
    PROVE  ControlTypes' /\ LocalTypes'
<1>1. ControlTypes'
  BY DEF ControlTypes, Return, PCs
<1>2. LocalTypes'
  BY DEF LocalTypes, Return
<1> QED BY <1>1, <1>2

\* So does settling the outcome of a call,
LEMMA SettleTypes ==
    ASSUME ToldTypes, NEW t \in Threads, NEW error, Settle(t, error)
    PROVE  ToldTypes'
BY DEF ToldTypes, Settle

\* and waking all the threads that sleep on sem_send.
LEMMA BroadcastTypes == pc \in [Threads -> PCs] => BroadcastSend(pc) \in [Threads -> PCs]
BY DEF BroadcastSend, PCs, Touching

\* The last step of semTake keeps the types.
LEMMA LeaveTypes ==
    ASSUME TypeInv, NEW t \in Threads, NEW retcode, NEW tokens \in Nat,
           Leave(t, retcode, tokens)
    PROVE  TypeInv'
<1> USE DEF TypeInv
<1>1. Unlinked(susp, t) \in Seq(Tasks)
  BY UnlinkedIsList DEF DataTypes
<1>2. DataTypes'
  BY <1>1 DEF Leave, DataTypes, MyTask
<1>3. LockTypes'
  BY DEF Leave, LockTypes
<1>4. ToldTypes'
  <2>1. \E error : Settle(t, error)
    BY DEF Leave
  <2> QED BY <2>1, SettleTypes
<1>5. ControlTypes' /\ LocalTypes'
  <2>1. CASE Return(pc, t)
    BY <2>1, ReturnTypes DEF ControlTypes
  <2>2. CASE Goto(t, "notify") /\ UNCHANGED <<op, local>>
    BY <2>2, GotoTypes, UnchangedTypes DEF PCs, Touching
  <2> QED BY <2>1, <2>2 DEF Leave
<1> QED
  BY <1>2, <1>3, <1>4, <1>5, UnchangedTypes DEF Leave

\* A thread that goes to sleep keeps the types.
LEMMA SleepTypes ==
    ASSUME TypeInv, NEW t \in Threads, NEW place \in PCs, Sleep(t, place)
    PROVE  TypeInv'
<1>1. LockTypes'
  BY DEF TypeInv, Sleep, LockTypes
<1> QED
  BY <1>1, GotoTypes, UnchangedTypes DEF TypeInv, Sleep

\* A thread that finds no token leaves or goes to sleep.
LEMMA StillWaitingTypes ==
    ASSUME TypeInv, NEW t \in Threads, StillWaiting(t)
    PROVE  TypeInv'
<1>1. Leave(t, "ETIMEDOUT", token) \/ Sleep(t, "cond")
  BY DEF StillWaiting
<1>2. token \in Nat /\ "cond" \in PCs
  BY DEF TypeInv, DataTypes, PCs
<1> QED
  BY <1>1, <1>2, LeaveTypes, SleepTypes

\* Finishing a call keeps the types that it touches.
LEMMA FinishTypes ==
    ASSUME TypeInv, NEW t \in Threads, NEW error, Finish(t, error)
    PROVE  ControlTypes' /\ LocalTypes' /\ ToldTypes'
BY ReturnTypes, SettleTypes DEF Finish, TypeInv, ControlTypes

\* Beginning a call keeps the types, but for the locals that it may set.
LEMMA BeginTypes ==
    ASSUME TypeInv, NEW t \in Threads, NEW name, Begin(t, name), LocalTypes'
    PROVE  TypeInv'
<1>1. ControlTypes'
  BY DEF Begin, Goto, TypeInv, ControlTypes, PCs
<1> QED
  BY <1>1, UnchangedTypes DEF TypeInv, Begin

\* Every step of the semaphore keeps the types.
LEMMA TypeStep == TypeInv /\ [Next]_vars => TypeInv'
<1> SUFFICES ASSUME TypeInv, [Next]_vars PROVE TypeInv'
  OBVIOUS
<1>0. CASE UNCHANGED vars
  <2>1. UNCHANGED <<pc, op>> /\ UNCHANGED local /\ UNCHANGED told /\ UNCHANGED data
        /\ UNCHANGED locks /\ UNCHANGED sched
    BY <1>0 DEF vars, local, told, data, locks, sched
  <2> QED BY <2>1, UnchangedTypes DEF TypeInv
<1>1. ASSUME NEW t \in Threads, Call(t) PROVE TypeInv'
  <2>1. CASE CallGive(t)
    BY <2>1, BeginTypes, UnchangedTypes DEF CallGive, TypeInv
  <2>2. CASE CallTake(t)
    <3>1. LocalTypes'
      BY <2>2 DEF CallTake, TypeInv, LocalTypes
    <3> QED BY <2>2, <3>1, BeginTypes DEF CallTake
  <2>3. CASE CallFlush(t) \/ CallDelete(t)
    BY <2>3, BeginTypes, UnchangedTypes DEF CallFlush, CallDelete, TypeInv
  <2> QED BY <1>1, <2>1, <2>2, <2>3 DEF Call
<1>2. ASSUME NEW t \in Threads, FindMiss(t) \/ GiveRefused(t) \/ FlushRefused(t)
      PROVE  TypeInv'
  <2>1. \E error : Finish(t, error)
    BY <1>2 DEF FindMiss, GiveRefused, FlushRefused
  <2>2. ControlTypes' /\ LocalTypes' /\ ToldTypes'
    BY <2>1, FinishTypes
  <2>3. LockTypes' /\ UNCHANGED data /\ UNCHANGED sched
    BY <1>2 DEF FindMiss, GiveRefused, FlushRefused, Found, TypeInv, LockTypes, locks
  <2> QED BY <2>2, <2>3, UnchangedTypes DEF TypeInv
<1>3. ASSUME NEW t \in Threads, FindHit(t) PROVE TypeInv'
  <2>1. LockTypes'
    BY <1>3 DEF FindHit, TypeInv, LockTypes
  <2>2. ControlTypes'
    BY <1>3, GotoTypes DEF FindHit, TypeInv, PCs
  <2> QED BY <1>3, <2>1, <2>2, UnchangedTypes DEF FindHit, TypeInv
<1>4. ASSUME NEW t \in Threads, Give(t) PROVE TypeInv'
  <2>1. DataTypes'
    BY <1>4 DEF Give, TypeInv, DataTypes
  <2>2. LockTypes'
    BY <1>4 DEF Give, Found, TypeInv, LockTypes
  <2>3. ControlTypes' /\ LocalTypes'
    <3>1. PICK p \in {pc, BroadcastSend(pc)} : Return(p, t)
      BY <1>4 DEF Give
    <3>2. p \in [Threads -> PCs]
      BY <3>1, BroadcastTypes DEF TypeInv, ControlTypes
    <3> QED BY <3>1, <3>2, ReturnTypes DEF TypeInv
  <2>4. ToldTypes'
    BY <1>4, SettleTypes DEF Give, TypeInv
  <2> QED BY <1>4, <2>1, <2>2, <2>3, <2>4, UnchangedTypes DEF Give, TypeInv
<1>5. ASSUME NEW t \in Threads, TakeRecursive(t) PROVE TypeInv'
  <2>1. DataTypes'
    BY <1>5 DEF TakeRecursive, TypeInv, DataTypes
  <2>2. LockTypes'
    BY <1>5 DEF TakeRecursive, Found, TypeInv, LockTypes
  <2>3. ControlTypes' /\ LocalTypes' /\ ToldTypes'
    BY <1>5, FinishTypes DEF TakeRecursive
  <2> QED BY <1>5, <2>1, <2>2, <2>3, UnchangedTypes DEF TakeRecursive, TypeInv
<1>6. ASSUME NEW t \in Threads, TakeLink(t) PROVE TypeInv'
  <2>1. DataTypes'
    BY <1>6 DEF TakeLink, TypeInv, DataTypes
  <2>2. LockTypes'
    BY <1>6 DEF TakeLink, Found, TypeInv, LockTypes
  <2>3. ControlTypes'
    BY <1>6, GotoTypes DEF TakeLink, TypeInv, PCs, Touching
  <2> QED BY <1>6, <2>1, <2>2, <2>3, UnchangedTypes DEF TakeLink, TypeInv
<1>7. ASSUME NEW t \in Threads,
             CheckKilled(t) \/ CheckToken(t) \/ CheckNotMine(t) \/ CheckNoToken(t)
             \/ RecheckExpired(t) \/ RecheckToken(t) \/ RecheckNoToken(t)
      PROVE  TypeInv'
  <2>1. \/ Leave(t, "OK", token)
        \/ token > 0 /\ Leave(t, "OK", token - 1)
        \/ Sleep(t, "delay") \/ StillWaiting(t)
    BY <1>7 DEF CheckKilled, CheckToken, CheckNotMine, CheckNoToken, RecheckExpired,
                RecheckToken, RecheckNoToken
  <2>2. token \in Nat /\ "delay" \in PCs
    BY DEF TypeInv, DataTypes, PCs, Touching
  <2>3. CASE token > 0 /\ Leave(t, "OK", token - 1)
    <3>1. token - 1 \in Nat
      BY <2>2, <2>3
    <3> QED BY <2>3, <3>1, LeaveTypes
  <2> QED BY <2>1, <2>2, <2>3, LeaveTypes, SleepTypes, StillWaitingTypes
<1>8. ASSUME NEW t \in Threads, Expire(t) PROVE TypeInv'
  <2>1. LocalTypes'
    BY <1>8 DEF Expire, TypeInv, LocalTypes
  <2> QED BY <1>8, <2>1, UnchangedTypes DEF Expire, TypeInv
<1>9. ASSUME NEW t \in Threads, TimedOut(t) PROVE TypeInv'
  <2>1. LocalTypes'
    BY <1>9 DEF TimedOut, TypeInv, LocalTypes
  <2>2. ControlTypes'
    BY <1>9, GotoTypes DEF TimedOut, TypeInv, PCs, Touching
  <2> QED BY <1>9, <2>1, <2>2, UnchangedTypes DEF TimedOut, TypeInv
<1>10. ASSUME NEW t \in Threads, Spurious(t) \/ UseFreed(t) PROVE TypeInv'
  <2>1. \E place \in {"woken", "drainWoken", "lost"} : Goto(t, place) /\ UNCHANGED op
    BY <1>10 DEF Spurious, UseFreed
  <2>2. ControlTypes'
    BY <2>1, GotoTypes DEF TypeInv, PCs, Touching
  <2> QED BY <1>10, <2>2, UnchangedTypes DEF Spurious, UseFreed, TypeInv
<1>11. ASSUME NEW t \in Threads, Notify(t) PROVE TypeInv'
  <2>1. ControlTypes'
    BY <1>11 DEF Notify, TypeInv, ControlTypes, PCs, Touching
  <2>2. DataTypes'
    BY <1>11 DEF Notify, TypeInv, DataTypes
  <2> QED BY <1>11, <2>1, <2>2, UnchangedTypes DEF Notify, TypeInv
<1>12. ASSUME NEW t \in Threads, Release(t) PROVE TypeInv'
  <2>1. LockTypes'
    BY <1>12 DEF Release, TypeInv, LockTypes
  <2>2. ControlTypes' /\ LocalTypes'
    BY <1>12, ReturnTypes DEF Release, TypeInv, ControlTypes
  <2> QED BY <1>12, <2>1, <2>2, UnchangedTypes DEF Release, TypeInv
<1>13. ASSUME NEW t \in Threads, FlushOrDelete(t) PROVE TypeInv'
  <2>1. LockTypes'
    BY <1>13 DEF FlushOrDelete, Found, TypeInv, LockTypes
  <2>2. ControlTypes'
    BY <1>13, GotoTypes DEF FlushOrDelete, TypeInv, PCs, Touching
  <2> QED BY <1>13, <2>1, <2>2, UnchangedTypes DEF FlushOrDelete, TypeInv
<1>14. ASSUME NEW t \in Threads, SchedLocked(t) PROVE TypeInv'
  <2>1. SchedTypes'
    BY <1>14 DEF SchedLocked, Sched!Lock, TypeInv, SchedTypes
  <2>2. ControlTypes'
    BY <1>14 DEF SchedLocked, Goto, TypeInv, ControlTypes, PCs, Touching
  <2> QED BY <1>14, <2>1, <2>2, UnchangedTypes DEF SchedLocked, TypeInv
<1>15. ASSUME NEW t \in Threads, Announce(t) PROVE TypeInv'
  <2>1. LockTypes'
    BY <1>15 DEF Announce, TypeInv, LockTypes
  <2>2. DataTypes'
    BY <1>15 DEF Announce, TypeInv, DataTypes
  <2>3. ControlTypes'
    BY <1>15, BroadcastTypes DEF Announce, TypeInv, ControlTypes, PCs, Touching
  <2> QED BY <1>15, <2>1, <2>2, <2>3, UnchangedTypes DEF Announce, TypeInv
<1>16. ASSUME NEW t \in Threads, DrainWait(t) \/ DrainAgain(t) \/ Drained(t)
       PROVE  TypeInv'
  <2>1. LockTypes'
    BY <1>16 DEF DrainWait, DrainAgain, Drained, TypeInv, LockTypes
  <2>2. \E place \in {"drainWait", "drain", "unsched", "unlink"} :
            Goto(t, place) /\ UNCHANGED op
    BY <1>16 DEF DrainWait, DrainAgain, Drained
  <2>3. ControlTypes'
    BY <2>2, GotoTypes DEF TypeInv, PCs, Touching
  <2> QED
    BY <1>16, <2>1, <2>3, UnchangedTypes DEF DrainWait, DrainAgain, Drained, TypeInv
<1>17. ASSUME NEW t \in Threads, Unlink(t) \/ Free(t) PROVE TypeInv'
  <2>1. DataTypes'
    BY <1>17 DEF Unlink, Free, TypeInv, DataTypes
  <2>2. \E place \in {"free", "unsched"} : Goto(t, place) /\ UNCHANGED op
    BY <1>17 DEF Unlink, Free
  <2>3. ControlTypes'
    BY <2>2, GotoTypes DEF TypeInv, PCs, Touching
  <2> QED BY <1>17, <2>1, <2>3, UnchangedTypes DEF Unlink, Free, TypeInv
<1>18. ASSUME NEW t \in Threads, SchedUnlocked(t) PROVE TypeInv'
  <2>1. SchedTypes'
    BY <1>18 DEF SchedUnlocked, Sched!Unlock, TypeInv, SchedTypes
  <2>2. ControlTypes' /\ LocalTypes' /\ ToldTypes'
    BY <1>18, FinishTypes DEF SchedUnlocked
  <2> QED BY <1>18, <2>1, <2>2, UnchangedTypes DEF SchedUnlocked, TypeInv
<1> QED
  BY <1>0, <1>1, <1>2, <1>3, <1>4, <1>5, <1>6, <1>7, <1>8, <1>9, <1>10, <1>11,
     <1>12, <1>13, <1>14, <1>15, <1>16, <1>17, <1>18 DEF Next, Progress

\* A new semaphore has the types.
LEMMA TypeInit == Init => TypeInv
<1> SUFFICES ASSUME Init PROVE TypeInv
  OBVIOUS
<1> USE DEF Init
<1>1. ControlTypes
  BY DEF ControlTypes, PCs
<1>2. DataTypes
  BY DEF DataTypes, InitialCount
<1>3. LocalTypes /\ LockTypes
  BY DEF LocalTypes, LockTypes
<1>4. SchedTypes
  BY DEF SchedTypes, Sched!AbsInit
<1>5. ToldTypes
  BY <1>2 DEF ToldTypes, DataTypes
<1> QED BY <1>1, <1>2, <1>3, <1>4, <1>5 DEF TypeInv

\* The type invariant holds for every use of a semaphore, its flush and its
\* deletion included: its token count, recursion level and list of suspended
\* tasks stay what lib/lsemLib.c declares them to be.
THEOREM SemaphoreTypes == Spec => []TypeOK
<1>1. Spec => []TypeInv
  BY TypeInit, TypeStep, PTL DEF Spec
<1> QED BY <1>1, TypeInvIsTypeOK, PTL

-----------------------------------------------------------------------------
(***************************************************************************)
(* A semaphore that tasks only give and take, and that nobody takes with   *)
(* NO_WAIT: the semaphore as the library's clients mostly use it.          *)
(***************************************************************************)
GiveAndTake ==
    /\ Foreign = {}
    /\ SemCalls \subseteq {"semGive", "semTake"}
    /\ Waits \subseteq {"FOREVER", "TIMED"}

Listed(t) == \E i \in DOMAIN susp : susp[i] = t

\* The part of the inductive invariant that says where threads are.  A thread
\* in wait_for_token is linked at first_susp: this is why semGive may leave the
\* broadcast out when the list is empty.
PlaceInv ==
    /\ sendType = "SEND" /\ status = "linked"
    /\ \A t \in Threads :
         /\ op[t] \in {"none", "semGive", "semTake"}
         /\ pc[t] \in {"idle", "find", "found", "check", "woken", "delay", "cond"}
         /\ pc[t] \in {"check", "woken", "delay", "cond"} =>
                op[t] = "semTake" /\ Listed(t)
         /\ wait[t] # "NO_WAIT"
         /\ ret[t] = "ETIMEDOUT" => wait[t] = "TIMED"

\* The part that says what the counters are.
CountInv ==
    /\ kind # "MUTEX" => rlevel = 0
    /\ TokensMatchReturns
    /\ MutexExclusion

QuietInv == TypeInv /\ PlaceInv /\ CountInv /\ NoLostWakeup

\* A new semaphore satisfies it.
LEMMA QuietInit == Init => QuietInv
<1> SUFFICES ASSUME Init PROVE QuietInv
  OBVIOUS
<1>1. TypeInv
  BY TypeInit
<1>2. PlaceInv
  BY DEF Init, PlaceInv
<1>3. CountInv
  BY DEF Init, CountInv, InitialCount, TokensMatchReturns, MutexExclusion
<1>4. NoLostWakeup
  BY DEF Init, NoLostWakeup
<1> QED BY <1>1, <1>2, <1>3, <1>4 DEF QuietInv

\* The end of a semTake, with a token or after its timeout.
LEMMA LeaveQuiet ==
    ASSUME GiveAndTake, QuietInv, NEW t \in Threads, NEW retcode, NEW tokens,
           op[t] = "semTake", Leave(t, retcode, tokens),
           \/ retcode = "OK" /\ token > 0 /\ tokens = token - 1
           \/ retcode = "ETIMEDOUT" /\ ret[t] = "ETIMEDOUT" /\ tokens = token
    PROVE  PlaceInv' /\ CountInv' /\ NoLostWakeup'
<1> USE DEF QuietInv
<1>1. /\ ~Killed
      /\ t \in Tasks /\ MyTask(t) = t
      /\ retcode = "ETIMEDOUT" => wait[t] = "TIMED"
      /\ ControlTypes /\ LocalTypes /\ ToldTypes /\ DataTypes
  BY DEF PlaceInv, Killed, GiveAndTake, MyTask, TypeInv
<1>2. /\ Return(pc, t)
      /\ Settle(t, IF retcode = "OK" THEN "OK" ELSE "TIMEOUT")
      /\ susp' = Unlinked(susp, t) /\ token' = tokens
      /\ UNCHANGED <<kind, status, sendType>>
  BY <1>1 DEF Leave, PlaceInv
<1>3. PlaceInv'
  <2>1. \A u \in Threads \ {t} : Listed(u) => Listed(u)'
    BY <1>1, <1>2, UnlinkedIsList DEF Listed, DataTypes, GiveAndTake
  <2> QED BY <1>1, <1>2, <2>1 DEF PlaceInv, Return, ControlTypes, LocalTypes
<1>4. CountInv'
  <2>1. CASE retcode = "OK"
    <3>1. currentOwner' = t /\ rlevel' = IF kind = "MUTEX" THEN rlevel + 1 ELSE rlevel
      BY <1>1, <2>1 DEF Leave
    <3>2. /\ credit' = credit - 1
          /\ held' = IF kind = "MUTEX" THEN [held EXCEPT ![t] = @ - (-1)] ELSE held
      BY <1>1, <1>2, <2>1 DEF Settle, ToldTypes
    <3> QED
      BY <1>1, <1>2, <2>1, <3>1, <3>2 DEF CountInv, TokensMatchReturns,
         MutexExclusion, ToldTypes, DataTypes
  <2>2. CASE retcode = "ETIMEDOUT"
    <3>1. UNCHANGED <<currentOwner, rlevel, token>>
      BY <1>1, <2>2 DEF Leave
    <3>2. UNCHANGED <<credit, held>>
      BY <1>1, <1>2, <2>2 DEF Settle, ToldTypes
    <3> QED
      BY <1>2, <3>1, <3>2 DEF CountInv, TokensMatchReturns, MutexExclusion
  <2> QED BY <2>1, <2>2
<1>5. NoLostWakeup'
  BY <1>1, <1>2 DEF NoLostWakeup, Return, ControlTypes, LocalTypes, DataTypes
<1> QED BY <1>3, <1>4, <1>5

\* A thread of the semaphore goes to sleep, on sem_send only if there is no
\* token or if its timeout has passed.
LEMMA SleepQuiet ==
    ASSUME QuietInv, NEW t \in Threads, NEW place, Sleep(t, place),
           pc[t] \in {"check", "woken", "delay"},
           \/ place = "delay"
           \/ place = "cond" /\ (token = 0 \/ expired[t])
    PROVE  PlaceInv' /\ CountInv' /\ NoLostWakeup'
<1> USE DEF QuietInv
<1>1. PlaceInv'
  BY DEF PlaceInv, Sleep, Goto, data, local, TypeInv, ControlTypes, Listed
<1>2. CountInv'
  BY DEF CountInv, TokensMatchReturns, MutexExclusion, Sleep, data, told
<1>3. NoLostWakeup'
  BY DEF NoLostWakeup, PlaceInv, Sleep, Goto, data, local, TypeInv, ControlTypes
<1> QED BY <1>1, <1>2, <1>3

\* No step of a give or a take breaks the invariant.
LEMMA QuietStep == GiveAndTake /\ QuietInv /\ [Next]_vars => QuietInv'
<1> SUFFICES ASSUME GiveAndTake, QuietInv, [Next]_vars
             PROVE  PlaceInv' /\ CountInv' /\ NoLostWakeup'
  BY TypeStep DEF QuietInv
<1> USE DEF QuietInv
<1>a. /\ ControlTypes /\ LocalTypes /\ ToldTypes /\ DataTypes
      /\ \A t \in Threads : t \in Tasks /\ MyTask(t) = t /\ t # NULL
      /\ ~Killed
  BY DEF TypeInv, GiveAndTake, MyTask, PlaceInv, Killed
<1>0. CASE UNCHANGED vars
  BY <1>0 DEF vars, PlaceInv, Listed, CountInv, TokensMatchReturns, MutexExclusion,
              NoLostWakeup
<1>1. ASSUME NEW t \in Threads, Call(t)
      PROVE  PlaceInv' /\ CountInv' /\ NoLostWakeup'
  <2>1. PICK name \in {"semGive", "semTake"} :
            Begin(t, name) /\ (UNCHANGED local \/ CallTake(t))
    BY <1>1 DEF Call, CallGive, CallTake, CallFlush, CallDelete, Begin, GiveAndTake
  <2>2. PlaceInv'
    <3>1. \A u \in Threads : wait'[u] # "NO_WAIT" /\ (ret'[u] = "ETIMEDOUT" => wait'[u] = "TIMED")
      BY <1>a, <2>1 DEF CallTake, local, LocalTypes, PlaceInv, GiveAndTake
    <3> QED BY <1>a, <2>1, <3>1 DEF PlaceInv, Begin, Goto, ControlTypes, data, Listed
  <2>3. CountInv'
    BY <2>1 DEF CountInv, TokensMatchReturns, MutexExclusion, Begin, data, told
  <2>4. NoLostWakeup'
    <3>1. \A u \in Threads \ {t} : expired'[u] = expired[u]
      BY <1>a, <2>1 DEF CallTake, local, LocalTypes
    <3> QED BY <1>a, <2>1, <3>1 DEF NoLostWakeup, Begin, Goto, ControlTypes, data
  <2> QED BY <2>2, <2>3, <2>4
<1>2. ASSUME NEW t \in Threads, FindHit(t)
      PROVE  PlaceInv' /\ CountInv' /\ NoLostWakeup'
  <2>1. PlaceInv'
    BY <1>2, <1>a DEF FindHit, PlaceInv, Goto, data, local, ControlTypes, Listed
  <2>2. CountInv'
    BY <1>2 DEF FindHit, CountInv, TokensMatchReturns, MutexExclusion, data, told
  <2>3. NoLostWakeup'
    BY <1>2, <1>a DEF FindHit, NoLostWakeup, Goto, data, local, ControlTypes
  <2> QED BY <2>1, <2>2, <2>3
<1>3. ASSUME NEW t \in Threads, GiveRefused(t)
      PROVE  PlaceInv' /\ CountInv' /\ NoLostWakeup'
  <2>1. Settle(t, "INVALID_OPERATION") /\ Return(pc, t) /\ UNCHANGED data
    BY <1>3 DEF GiveRefused, Finish
  <2>2. PlaceInv'
    BY <2>1, <1>a DEF PlaceInv, Return, data, ControlTypes, LocalTypes, Listed
  <2>3. CountInv'
    <3>1. UNCHANGED <<credit, held>>
      BY <1>a, <2>1 DEF Settle, ToldTypes
    <3> QED BY <2>1, <3>1 DEF CountInv, TokensMatchReturns, MutexExclusion, data
  <2>4. NoLostWakeup'
    BY <2>1, <1>a DEF NoLostWakeup, Return, data, ControlTypes, LocalTypes
  <2> QED BY <2>2, <2>3, <2>4
<1>4. ASSUME NEW t \in Threads, Give(t)
      PROVE  PlaceInv' /\ CountInv' /\ NoLostWakeup'
  <2> DEFINE p == IF susp = <<>> THEN pc ELSE BroadcastSend(pc)
  <2>1. /\ Settle(t, "OK") /\ Return(p, t) /\ op[t] = "semGive"
        /\ UNCHANGED <<kind, status, susp, sendType>>
    BY <1>4 DEF Give, Found
  <2>2. /\ p \in [Threads -> PCs]
        /\ \A u \in Threads : p[u] \in {pc[u], "woken"} /\ (p[u] # pc[u] => pc[u] = "cond")
    BY <1>a, BroadcastTypes DEF ControlTypes, BroadcastSend
  <2>3. \A u \in Threads : p[u] # "cond"
    BY <1>a DEF PlaceInv, Listed, BroadcastSend, DataTypes
  <2> HIDE DEF p
  <2>4. PlaceInv'
    BY <2>1, <2>2, <1>a DEF PlaceInv, Return, ControlTypes, LocalTypes, Listed
  <2>5. CountInv'
    <3>1. /\ credit' = credit + 1
          /\ held' = IF kind = "MUTEX" THEN [held EXCEPT ![t] = @ - 1] ELSE held
      BY <1>a, <2>1 DEF Settle, ToldTypes
    <3>2. CASE kind # "MUTEX"
      BY <1>4, <1>a, <2>1, <3>1, <3>2 DEF Give, CountInv, TokensMatchReturns,
         MutexExclusion, ToldTypes, DataTypes
    <3>3. CASE kind = "MUTEX"
      <4>1. currentOwner = t /\ rlevel > 0 /\ token = 0
        BY <1>4, <1>a, <3>3 DEF Give, NotOwner, CountInv, MutexExclusion, DataTypes
      <4>2. /\ rlevel' = rlevel - 1
            /\ token' = IF rlevel = 1 THEN 1 ELSE 0
            /\ currentOwner' = IF rlevel = 1 THEN NULL ELSE t
        BY <1>4, <4>1 DEF Give
      <4> QED
        BY <1>a, <2>1, <3>1, <3>3, <4>1, <4>2 DEF CountInv, TokensMatchReturns,
           MutexExclusion, ToldTypes, DataTypes
    <3> QED BY <3>2, <3>3
  <2>6. NoLostWakeup'
    BY <2>1, <2>2, <2>3 DEF NoLostWakeup, Return
  <2> QED BY <2>4, <2>5, <2>6
<1>5. ASSUME NEW t \in Threads, TakeRecursive(t)
      PROVE  PlaceInv' /\ CountInv' /\ NoLostWakeup'
  <2>1. /\ Settle(t, "OK") /\ Return(pc, t) /\ op[t] = "semTake"
        /\ kind = "MUTEX" /\ currentOwner = t /\ rlevel' = rlevel + 1
        /\ UNCHANGED <<kind, status, susp, sendType, token, currentOwner>>
    BY <1>5, <1>a DEF TakeRecursive, Found, Finish
  <2>2. PlaceInv'
    BY <2>1, <1>a DEF PlaceInv, Return, ControlTypes, LocalTypes, Listed
  <2>3. CountInv'
    <3>1. held' = [held EXCEPT ![t] = @ - (-1)]
      BY <1>a, <2>1 DEF Settle, ToldTypes
    <3> QED
      BY <1>a, <2>1, <3>1 DEF CountInv, TokensMatchReturns, MutexExclusion, ToldTypes,
         DataTypes
  <2>4. NoLostWakeup'
    BY <2>1, <1>a DEF NoLostWakeup, Return, ControlTypes, LocalTypes
  <2> QED BY <2>2, <2>3, <2>4
<1>6. ASSUME NEW t \in Threads, TakeLink(t)
      PROVE  PlaceInv' /\ CountInv' /\ NoLostWakeup'
  <2>1. \A u \in Threads : (Listed(u) \/ u = t) => Listed(u)'
    <3>1. susp' = Append(susp, t) /\ susp \in Seq(Tasks) /\ t \in Tasks
      BY <1>6, <1>a DEF TakeLink, DataTypes
    <3>2. /\ Len(susp) + 1 \in DOMAIN susp' /\ susp'[Len(susp) + 1] = t
          /\ \A i \in DOMAIN susp : i \in DOMAIN susp' /\ susp'[i] = susp[i]
      BY <3>1
    <3> QED BY <3>2 DEF Listed
  <2>2. PlaceInv'
    BY <1>6, <1>a, <2>1 DEF TakeLink, Found, PlaceInv, Goto, local, ControlTypes
  <2>3. CountInv'
    BY <1>6 DEF TakeLink, CountInv, TokensMatchReturns, MutexExclusion, told
  <2>4. NoLostWakeup'
    BY <1>6, <1>a DEF TakeLink, NoLostWakeup, Goto, local, ControlTypes
  <2> QED BY <2>2, <2>3, <2>4
<1>7. ASSUME NEW t \in Threads,
             CheckToken(t) \/ CheckNotMine(t) \/ CheckNoToken(t)
             \/ RecheckExpired(t) \/ RecheckToken(t) \/ RecheckNoToken(t)
      PROVE  PlaceInv' /\ CountInv' /\ NoLostWakeup'
  <2>1. pc[t] \in {"check", "woken", "delay"} /\ op[t] = "semTake"
    BY <1>7 DEF CheckToken, CheckNotMine, CheckNoToken, RecheckExpired, RecheckToken,
                RecheckNoToken, Rechecks, CanCheck, CanRecheck, PlaceInv
  <2>2. \/ token > 0 /\ Leave(t, "OK", token - 1)
        \/ ret[t] = "ETIMEDOUT" /\ Leave(t, "ETIMEDOUT", token)
        \/ Sleep(t, "delay")
        \/ Sleep(t, "cond") /\ (token = 0 \/ expired[t])
    BY <1>7 DEF CheckToken, CheckNotMine, CheckNoToken, RecheckExpired, RecheckToken,
                RecheckNoToken, StillWaiting
  <2> QED BY <2>1, <2>2, LeaveQuiet, SleepQuiet
<1>8. ASSUME NEW t \in Threads, Expire(t) \/ TimedOut(t) \/ Spurious(t)
      PROVE  PlaceInv' /\ CountInv' /\ NoLostWakeup'
  <2>1. CountInv'
    BY <1>8 DEF Expire, TimedOut, Spurious, CountInv, TokensMatchReturns,
                MutexExclusion, data, told
  <2>2. CASE Expire(t)
    BY <2>1, <2>2, <1>a DEF Expire, PlaceInv, Listed, NoLostWakeup, data, LocalTypes
  <2>3. CASE TimedOut(t)
    <3>1. PlaceInv'
      <4>1. wait[t] = "TIMED"
        BY <2>3, <1>a DEF TimedOut, PlaceInv, LocalTypes
      <4> QED
        BY <2>3, <4>1, <1>a DEF TimedOut, PlaceInv, Listed, Goto, data, LocalTypes,
           ControlTypes
    <3>2. NoLostWakeup'
      BY <2>3, <1>a DEF TimedOut, NoLostWakeup, Goto, data, ControlTypes
    <3> QED BY <2>1, <3>1, <3>2
  <2>4. CASE Spurious(t)
    <3>1. pc[t] = "cond" /\ Goto(t, "woken") /\ UNCHANGED data /\ UNCHANGED local
          /\ UNCHANGED op
      BY <2>4 DEF Spurious, PlaceInv
    <3>2. PlaceInv'
      BY <3>1, <1>a DEF PlaceInv, Listed, Goto, data, local, ControlTypes
    <3>3. NoLostWakeup'
      BY <3>1, <1>a DEF NoLostWakeup, Goto, data, local, ControlTypes
    <3> QED BY <2>1, <3>2, <3>3
  <2> QED BY <1>8, <2>2, <2>3, <2>4
<1>9. ASSUME NEW t \in Threads,
             FindMiss(t) \/ CheckKilled(t) \/ Notify(t) \/ Release(t)
             \/ FlushRefused(t) \/ FlushOrDelete(t) \/ SchedLocked(t) \/ Announce(t)
             \/ DrainWait(t) \/ DrainAgain(t) \/ Drained(t)
             \/ Unlink(t) \/ Free(t) \/ SchedUnlocked(t) \/ UseFreed(t)
      PROVE  FALSE
  BY <1>9, <1>a DEF PlaceInv, FindMiss, CheckKilled, Notify, Release, FlushRefused,
     FlushOrDelete, Found, SchedLocked, Announce, DrainWait, DrainAgain, Drained,
     Unlink, Free, SchedUnlocked, UseFreed
<1> QED
  BY <1>0, <1>1, <1>2, <1>3, <1>4, <1>5, <1>6, <1>7, <1>8, <1>9 DEF Next, Progress

\* semGive never loses a wake-up: a task that sleeps in semTake, its timeout
\* not yet passed, has no token to take, although semGive skips the broadcast
\* when no task is linked, and a woken task may find its token gone.
THEOREM NoWakeupLost ==
    ASSUME GiveAndTake
    PROVE  Spec => []NoLostWakeup
<1>1. QuietInv => NoLostWakeup
  BY DEF QuietInv
<1> QED BY QuietInit, QuietStep, <1>1, PTL DEF Spec

\* The return values tell the truth: tokens are gained and lost only by the
\* calls that say so, a timeout that races with a semGive included.
THEOREM ReturnsCountTokens ==
    ASSUME GiveAndTake
    PROVE  Spec => []TokensMatchReturns
<1>1. QuietInv => TokensMatchReturns
  BY DEF QuietInv, CountInv
<1> QED BY QuietInit, QuietStep, <1>1, PTL DEF Spec

\* A mutex semaphore has one owner, and counts how often it has been taken.
THEOREM MutexOwned ==
    ASSUME GiveAndTake
    PROVE  Spec => []MutexExclusion
<1>1. QuietInv => MutexExclusion
  BY DEF QuietInv, CountInv
<1> QED BY QuietInit, QuietStep, <1>1, PTL DEF Spec

-----------------------------------------------------------------------------
(***************************************************************************)
(* The semaphore under flushes and deletions.  Whatever the clients call,  *)
(* a thread is in the call that its place belongs to, and what it was told *)
(* to wait for is one of the arguments that clients pass.                  *)
(***************************************************************************)
InTake == {"check", "woken", "delay", "cond", "notify", "release"}
InFlush == {"sched", "announce", "drain", "drainWait", "drainWoken", "unlink",
            "free", "unsched"}

CallOK(t) ==
    /\ pc[t] \in InTake => op[t] = "semTake"
    /\ pc[t] \in InFlush => /\ op[t] \in {"semFlush", "semDelete"}
                            /\ op[t] = "semFlush" => kind # "MUTEX"
    /\ op[t] \in SemCalls \cup {"none"}
    /\ wait[t] \in Waits \cup {"FOREVER"}
    /\ ret[t] = "ETIMEDOUT" => wait[t] # "FOREVER"

TypeSent ==
    /\ sendType = "FLUSH" => "semFlush" \in SemCalls /\ kind # "MUTEX"
    /\ sendType = "KILLD" => "semDelete" \in SemCalls

CallInv ==
    /\ \A t \in Threads : CallOK(t)
    /\ TypeSent
    /\ kind # "MUTEX" => rlevel = 0

\* Flushing, where nothing is deleted.  A thread at one of the places below has
\* sem_lock, so that a thread that is to announce a flush still has the task in
\* the list that it has found there; and while a flush is on either a task is
\* still in the list or the last one is about to report the flush.
Holding == {"check", "sched", "announce", "notify", "release"}
Draining == {"drain", "drainWait", "drainWoken"}

FlushInv ==
    /\ status = "linked" /\ sendType # "KILLD"
    /\ \A t \in Threads : pc[t] \in Holding => semLock = t
    /\ \A t \in Threads : pc[t] = "announce" => susp # <<>>
    /\ \A t \in Threads : pc[t] \notin {"unlink", "free"}
    /\ sendType = "FLUSH" =>
         \/ susp # <<>> /\ \E t \in Threads : pc[t] \in Draining
         \/ \E t \in Threads : pc[t] = "notify"

\* Who owns a mutex whose deletion may take its token away.
OwnerInv ==
    kind = "MUTEX" =>
        /\ \A t \in Threads : held[t] = IF currentOwner = t THEN rlevel ELSE 0
        /\ currentOwner = NULL <=> rlevel = 0
        /\ token <= IF currentOwner = NULL THEN 1 ELSE 0

NeverDeleted == "semDelete" \notin SemCalls

\* A thread that goes on in its call is still in it,
LEMMA GotoCall ==
    ASSUME ControlTypes, CallInv, NEW t \in Threads, NEW place, Goto(t, place),
           UNCHANGED <<kind, op, wait, ret>>,
           place \in InTake => pc[t] \in InTake \/ op[t] = "semTake",
           place \in InFlush => pc[t] \in InFlush
    PROVE  \A u \in Threads : CallOK(u)'
BY DEF ControlTypes, CallInv, CallOK, Goto

\* one that returns is in none,
LEMMA ReturnCall ==
    ASSUME ControlTypes, LocalTypes, CallInv, NEW t \in Threads, UNCHANGED kind,
           NEW p \in [Threads -> PCs], Return(p, t),
           \A u \in Threads : p[u] = pc[u] \/ (pc[u] = "cond" /\ p[u] = "woken")
    PROVE  \A u \in Threads : CallOK(u)'
BY DEF ControlTypes, LocalTypes, CallInv, CallOK, Return, InTake, InFlush

\* and the end of semTake is either.
LEMMA LeaveCall ==
    ASSUME TypeInv, CallInv, NEW t \in Threads, NEW retcode, NEW tokens,
           op[t] = "semTake", Leave(t, retcode, tokens)
    PROVE  CallInv'
<1>1. ControlTypes /\ LocalTypes /\ DataTypes /\ UNCHANGED <<kind, sendType>>
  BY DEF TypeInv, Leave
<1>2. \A u \in Threads : CallOK(u)'
  <2>1. CASE Return(pc, t)
    BY <1>1, <2>1, ReturnCall DEF ControlTypes
  <2>2. CASE Goto(t, "notify") /\ UNCHANGED <<op, local>>
    BY <1>1, <2>2, GotoCall DEF local, InTake, InFlush
  <2> QED BY <2>1, <2>2 DEF Leave
<1>3. kind # "MUTEX" => rlevel' = 0
  BY DEF Leave, CallInv
<1> QED BY <1>1, <1>2, <1>3 DEF CallInv, TypeSent

\* Every step keeps a thread in the call that its place belongs to.
LEMMA CallStep == TypeInv /\ CallInv /\ [Next]_vars => CallInv'
<1> SUFFICES ASSUME TypeInv, CallInv, [Next]_vars PROVE CallInv'
  OBVIOUS
<1>a. ControlTypes /\ LocalTypes /\ DataTypes
  BY DEF TypeInv
<1>0. CASE UNCHANGED vars
  BY <1>0 DEF vars, CallInv, CallOK, TypeSent
<1>1. ASSUME NEW t \in Threads, Call(t) PROVE CallInv'
  <2>1. PICK name \in SemCalls : Begin(t, name) /\ (UNCHANGED local \/ CallTake(t))
    BY <1>1 DEF Call, CallGive, CallTake, CallFlush, CallDelete, Begin
  <2>2. \A u \in Threads : /\ wait'[u] \in Waits \cup {"FOREVER"}
                           /\ ret'[u] = "ETIMEDOUT" => wait'[u] # "FOREVER"
    BY <1>a, <2>1 DEF CallTake, local, LocalTypes, CallInv, CallOK
  <2>3. \A u \in Threads : /\ u # t => pc'[u] = pc[u] /\ op'[u] = op[u]
                           /\ u = t => pc'[u] = "find" /\ op'[u] = name
    BY <1>a, <2>1 DEF Begin, Goto, ControlTypes
  <2>4. UNCHANGED data
    BY <2>1 DEF Begin
  <2>5. \A u \in Threads : CallOK(u)'
    BY <2>2, <2>3, <2>4 DEF CallInv, CallOK, InTake, InFlush, data
  <2> QED BY <2>4, <2>5 DEF CallInv, TypeSent, data
<1>2. ASSUME NEW t \in Threads,
             FindMiss(t) \/ GiveRefused(t) \/ FlushRefused(t) \/ SchedUnlocked(t)
             \/ Release(t)
      PROVE  CallInv'
  <2>1. Return(pc, t) /\ UNCHANGED data
    BY <1>2 DEF FindMiss, GiveRefused, FlushRefused, SchedUnlocked, Release, Finish
  <2>2. \A u \in Threads : CallOK(u)'
    BY <1>a, <2>1, ReturnCall DEF ControlTypes, data
  <2> QED BY <2>1, <2>2 DEF CallInv, TypeSent, data
<1>3. ASSUME NEW t \in Threads,
             FindHit(t) \/ TakeLink(t) \/ Spurious(t) \/ UseFreed(t)
             \/ DrainWait(t) \/ DrainAgain(t) \/ Drained(t) \/ Unlink(t) \/ Free(t)
             \/ SchedLocked(t)
      PROVE  CallInv'
  <2>1. UNCHANGED <<kind, op, wait, ret, sendType, rlevel>>
    BY <1>3 DEF FindHit, TakeLink, Spurious, UseFreed, DrainWait, DrainAgain, Drained,
                Unlink, Free, SchedLocked, data, local
  <2>2. \E place \in PCs :
          /\ Goto(t, place)
          /\ place \in InTake => pc[t] \in InTake \/ op[t] = "semTake"
          /\ place \in InFlush => pc[t] \in InFlush
    BY <1>3 DEF FindHit, TakeLink, Found, Spurious, UseFreed, DrainWait, DrainAgain,
                Drained, Unlink, Free, SchedLocked, PCs, Touching, InTake, InFlush
  <2>3. \A u \in Threads : CallOK(u)'
    BY <1>a, <2>1, <2>2, GotoCall
  <2> QED BY <2>1, <2>3 DEF CallInv, TypeSent
<1>4. ASSUME NEW t \in Threads, FlushOrDelete(t) PROVE CallInv'
  <2>1. /\ op[t] \in {"semFlush", "semDelete"} /\ (op[t] = "semFlush" => kind # "MUTEX")
        /\ Goto(t, "sched") /\ UNCHANGED <<kind, op, wait, ret, sendType, rlevel>>
    BY <1>4 DEF FlushOrDelete, Found, data, local
  <2>2. \A u \in Threads : CallOK(u)'
    BY <1>a, <2>1 DEF ControlTypes, CallInv, CallOK, Goto, InTake, InFlush
  <2> QED BY <2>1, <2>2 DEF CallInv, TypeSent
<1>5. ASSUME NEW t \in Threads, Give(t) PROVE CallInv'
  <2>1. PICK p \in {pc, BroadcastSend(pc)} : Return(p, t)
    BY <1>5 DEF Give
  <2>2. /\ p \in [Threads -> PCs]
        /\ \A u \in Threads : p[u] = pc[u] \/ (pc[u] = "cond" /\ p[u] = "woken")
    BY <1>a, <2>1, BroadcastTypes DEF ControlTypes, BroadcastSend
  <2>3. UNCHANGED <<kind, sendType>> /\ (kind # "MUTEX" => rlevel' = 0)
    BY <1>5 DEF Give, CallInv
  <2>4. \A u \in Threads : CallOK(u)'
    BY <1>a, <2>1, <2>2, <2>3, ReturnCall
  <2> QED BY <2>3, <2>4 DEF CallInv, TypeSent
<1>6. ASSUME NEW t \in Threads, TakeRecursive(t) PROVE CallInv'
  <2>1. Return(pc, t) /\ kind = "MUTEX" /\ UNCHANGED <<kind, sendType>>
    BY <1>6 DEF TakeRecursive, Finish
  <2>2. \A u \in Threads : CallOK(u)'
    BY <1>a, <2>1, ReturnCall DEF ControlTypes
  <2> QED BY <2>1, <2>2 DEF CallInv, TypeSent
<1>7. ASSUME NEW t \in Threads,
             CheckKilled(t) \/ CheckToken(t) \/ CheckNotMine(t) \/ CheckNoToken(t)
             \/ RecheckExpired(t) \/ RecheckToken(t) \/ RecheckNoToken(t)
      PROVE  CallInv'
  <2>1. pc[t] \in InTake /\ op[t] = "semTake"
    BY <1>7 DEF CheckKilled, CheckToken, CheckNotMine, CheckNoToken, RecheckExpired,
                RecheckToken, RecheckNoToken, Rechecks, CanCheck, CanRecheck, CallInv,
                CallOK, InTake
  <2>2. \/ Leave(t, "OK", token) \/ Leave(t, "OK", token - 1)
        \/ Leave(t, "ETIMEDOUT", token)
        \/ \E place \in {"delay", "cond"} : Sleep(t, place)
    BY <1>7 DEF CheckKilled, CheckToken, CheckNotMine, CheckNoToken, RecheckExpired,
                RecheckToken, RecheckNoToken, StillWaiting
  <2>3. ASSUME NEW place \in {"delay", "cond"}, Sleep(t, place) PROVE CallInv'
    <3>1. Goto(t, place) /\ UNCHANGED <<kind, op, wait, ret, sendType, rlevel>>
      BY <2>3 DEF Sleep, data, local
    <3>2. \A u \in Threads : CallOK(u)'
      BY <1>a, <2>1, <3>1, GotoCall DEF InTake, InFlush
    <3> QED BY <3>1, <3>2 DEF CallInv, TypeSent
  <2> QED BY <2>1, <2>2, <2>3, LeaveCall
<1>8. ASSUME NEW t \in Threads, Expire(t) \/ TimedOut(t) PROVE CallInv'
  <2>1. UNCHANGED <<kind, op, wait, sendType, rlevel>>
    BY <1>8 DEF Expire, TimedOut, data
  <2>2. \/ pc' = pc /\ ret' = ret
        \/ /\ pc[t] = "cond" /\ wait[t] # "FOREVER" /\ Goto(t, "woken")
           /\ ret' = [ret EXCEPT ![t] = "ETIMEDOUT"]
    BY <1>8 DEF Expire, TimedOut
  <2>3. \A u \in Threads : CallOK(u)'
    BY <1>a, <2>1, <2>2 DEF CallInv, CallOK, Goto, ControlTypes, LocalTypes, InTake,
                            InFlush
  <2> QED BY <2>1, <2>3 DEF CallInv, TypeSent
<1>9. ASSUME NEW t \in Threads, Notify(t) PROVE CallInv'
  <2>1. /\ sendType' = "SEND" /\ UNCHANGED <<kind, op, wait, ret, rlevel>>
        /\ \A u \in Threads : \/ pc'[u] = pc[u]
                              \/ u = t /\ pc[u] = "notify" /\ pc'[u] = "release"
                              \/ pc[u] = "drainWait" /\ pc'[u] = "drainWoken"
    BY <1>9 DEF Notify, local
  <2>2. \A u \in Threads : CallOK(u)'
    BY <2>1 DEF CallInv, CallOK, InTake, InFlush
  <2> QED BY <2>1, <2>2 DEF CallInv, TypeSent
<1>10. ASSUME NEW t \in Threads, Announce(t) PROVE CallInv'
  <2>1. /\ pc[t] = "announce" /\ UNCHANGED <<kind, op, wait, ret, rlevel>>
        /\ sendType' = IF op[t] = "semFlush" THEN "FLUSH" ELSE "KILLD"
    BY <1>10 DEF Announce, local
  <2>2. \A u \in Threads : \/ pc'[u] = pc[u]
                           \/ u = t /\ pc'[u] = "drain"
                           \/ pc[u] = "cond" /\ pc'[u] = "woken"
    BY <1>10 DEF Announce, BroadcastSend
  <2>3. \A u \in Threads : CallOK(u)'
    BY <2>1, <2>2 DEF CallInv, CallOK, InTake, InFlush
  <2>4. TypeSent'
    BY <2>1 DEF CallInv, CallOK, TypeSent, InFlush
  <2> QED BY <2>1, <2>3, <2>4 DEF CallInv
<1> QED
  BY <1>0, <1>1, <1>2, <1>3, <1>4, <1>5, <1>6, <1>7, <1>8, <1>9, <1>10
     DEF Next, Progress

\* It does so in a new semaphore.
LEMMA CallInit == Init => CallInv
BY DEF Init, CallInv, CallOK, TypeSent, InTake, InFlush

-----------------------------------------------------------------------------
counters == <<token, rlevel, currentOwner, credit, held>>

\* Only semGive, a recursive take and the end of wait_for_token move a counter
\* or tell a caller that it has given or got a token.
LEMMA CounterSteps ==
    ASSUME TypeInv, CallInv, [Next]_vars
    PROVE  /\ UNCHANGED kind
           /\ \/ UNCHANGED counters
              \/ \E t \in Threads : Give(t) \/ TakeRecursive(t)
              \/ \E t \in Threads :
                   /\ op[t] = "semTake"
                   /\ \/ Killed /\ Leave(t, "OK", token)
                      \/ token > 0 /\ Leave(t, "OK", token - 1)
                      \/ ret[t] = "ETIMEDOUT" /\ Leave(t, "ETIMEDOUT", token)
<1>a. ControlTypes /\ ToldTypes
  BY DEF TypeInv
<1>0. CASE UNCHANGED vars
  BY <1>0 DEF vars, counters
<1>1. ASSUME NEW t \in Threads, Call(t) PROVE UNCHANGED <<kind, counters>>
  BY <1>1 DEF Call, CallGive, CallTake, CallFlush, CallDelete, Begin, data, told,
              counters
<1>2. ASSUME NEW t \in Threads,
             FindMiss(t) \/ GiveRefused(t) \/ FlushRefused(t) \/ SchedUnlocked(t)
      PROVE  UNCHANGED <<kind, counters>>
  <2>1. PICK error : Settle(t, error)
                     /\ (error # "OK" \/ op[t] \in {"semFlush", "semDelete"})
    BY <1>2 DEF FindMiss, GiveRefused, FlushRefused, SchedUnlocked, Finish, CallInv,
                CallOK, InFlush
  <2>2. UNCHANGED <<credit, held>>
    BY <1>a, <2>1 DEF Settle, ToldTypes
  <2> QED
    BY <1>2, <2>2 DEF FindMiss, GiveRefused, FlushRefused, SchedUnlocked, data, counters
<1>3. ASSUME NEW t \in Threads,
             FindHit(t) \/ TakeLink(t) \/ Spurious(t) \/ UseFreed(t) \/ Expire(t)
             \/ TimedOut(t) \/ Notify(t) \/ Release(t) \/ FlushOrDelete(t)
             \/ SchedLocked(t) \/ Announce(t)
             \/ DrainWait(t) \/ DrainAgain(t) \/ Drained(t) \/ Unlink(t) \/ Free(t)
      PROVE  UNCHANGED <<kind, counters>>
  BY <1>3 DEF FindHit, TakeLink, Spurious, UseFreed, Expire, TimedOut, Notify, Release,
              FlushOrDelete, SchedLocked, Announce, DrainWait, DrainAgain, Drained,
              Unlink, Free, data, told, counters
<1>4. ASSUME NEW t \in Threads, Give(t) \/ TakeRecursive(t) PROVE UNCHANGED kind
  BY <1>4 DEF Give, TakeRecursive
<1>5. ASSUME NEW t \in Threads,
             CheckKilled(t) \/ CheckToken(t) \/ CheckNotMine(t) \/ CheckNoToken(t)
             \/ RecheckExpired(t) \/ RecheckToken(t) \/ RecheckNoToken(t)
      PROVE  /\ UNCHANGED kind
             /\ \/ UNCHANGED counters
                \/ /\ op[t] = "semTake"
                   /\ \/ Killed /\ Leave(t, "OK", token)
                      \/ token > 0 /\ Leave(t, "OK", token - 1)
                      \/ ret[t] = "ETIMEDOUT" /\ Leave(t, "ETIMEDOUT", token)
  <2>1. op[t] = "semTake"
    BY <1>5 DEF CheckKilled, CheckToken, CheckNotMine, CheckNoToken, RecheckExpired,
                RecheckToken, RecheckNoToken, Rechecks, CanCheck, CanRecheck, CallInv,
                CallOK, InTake
  <2>2. \/ Killed /\ Leave(t, "OK", token)
        \/ token > 0 /\ Leave(t, "OK", token - 1)
        \/ ret[t] = "ETIMEDOUT" /\ Leave(t, "ETIMEDOUT", token)
        \/ \E place \in {"delay", "cond"} : Sleep(t, place)
    BY <1>5 DEF CheckKilled, CheckToken, CheckNotMine, CheckNoToken, RecheckExpired,
                RecheckToken, RecheckNoToken, StillWaiting
  <2>3. ASSUME NEW place, Sleep(t, place) PROVE UNCHANGED <<kind, counters>>
    BY <2>3 DEF Sleep, data, told, counters
  <2>4. ASSUME NEW r, NEW n, Leave(t, r, n) PROVE UNCHANGED kind
    BY <2>4 DEF Leave
  <2> QED BY <2>1, <2>2, <2>3, <2>4
<1> QED
  BY <1>0, <1>1, <1>2, <1>3, <1>4, <1>5 DEF Next, Progress

\* The history variables after a call whose outcome is settled.
LEMMA SettleEffect ==
    ASSUME ToldTypes, NEW t \in Threads, NEW error, Settle(t, error)
    PROVE  /\ error = "OK" /\ op[t] = "semGive" =>
                /\ credit' = credit + 1
                /\ kind = "MUTEX" => held' = [held EXCEPT ![t] = @ - 1]
           /\ error = "OK" /\ op[t] = "semTake" =>
                /\ credit' = credit - 1
                /\ kind = "MUTEX" => held' = [held EXCEPT ![t] = @ + 1]
           /\ error # "OK" => UNCHANGED <<credit, held>>
<1>1. \A i \in Int : i - (-1) = i + 1 /\ i + (-1) = i - 1 /\ i + 0 = i /\ i - 0 = i
  OBVIOUS
<1>2. held[t] \in Int /\ credit \in Int
  BY DEF ToldTypes
<1>3. ASSUME error = "OK", op[t] = "semGive"
      PROVE  /\ credit' = credit + 1
             /\ kind = "MUTEX" => held' = [held EXCEPT ![t] = @ - 1]
  BY <1>3 DEF Settle
<1>4. ASSUME error = "OK", op[t] = "semTake"
      PROVE  /\ credit' = credit - 1
             /\ kind = "MUTEX" => held' = [held EXCEPT ![t] = @ + 1]
  BY <1>1, <1>2, <1>4 DEF Settle
<1>5. ASSUME error # "OK" PROVE UNCHANGED <<credit, held>>
  BY <1>1, <1>2, <1>5 DEF Settle, ToldTypes
<1> QED BY <1>3, <1>4, <1>5

\* What the caller of semTake is told.
LEMMA LeaveEffect ==
    ASSUME TypeInv, CallInv, NEW t \in Threads, NEW retcode \in {"OK", "ETIMEDOUT"},
           NEW tokens, op[t] = "semTake", Leave(t, retcode, tokens)
    PROVE  /\ token' = tokens
           /\ sendType = "KILLD" => UNCHANGED <<credit, held>>
           /\ sendType # "KILLD" /\ (retcode = "OK" \/ wait[t] # "TIMED") =>
                /\ credit' = credit - 1
                /\ kind = "MUTEX" => held' = [held EXCEPT ![t] = @ + 1]
           /\ retcode = "ETIMEDOUT" /\ wait[t] = "TIMED" => UNCHANGED <<credit, held>>
<1> DEFINE error == IF sendType = "KILLD" THEN "ID_ERROR"
                    ELSE IF retcode = "ETIMEDOUT" /\ wait[t] = "TIMED" THEN "TIMEOUT"
                    ELSE "OK"
<1>1. token' = tokens /\ Settle(t, error)
  BY DEF Leave
<1>2. ToldTypes
  BY DEF TypeInv
<1>3. /\ error = "OK" <=> sendType # "KILLD" /\ (retcode = "OK" \/ wait[t] # "TIMED")
  OBVIOUS
<1> HIDE DEF error
<1> QED BY <1>1, <1>2, <1>3, SettleEffect

\* A give of a binary or counting semaphore adds a token and says so.
LEMMA GiveEffect ==
    ASSUME TypeInv, CallInv, NEW t \in Threads, Give(t), kind # "MUTEX"
    PROVE  token' = token + 1 /\ credit' = credit + 1
<1>1. ToldTypes /\ Settle(t, "OK") /\ op[t] = "semGive" /\ token' = token + 1
  BY DEF TypeInv, Give, Found, CallInv
<1> QED BY <1>1, SettleEffect

-----------------------------------------------------------------------------
\* A semaphore that is never deleted loses no token, flushes included: whoever
\* takes one is told OK, for any threads and any arguments of semTake.
LEMMA NoTokenLostStep ==
    ASSUME NeverDeleted, TypeInv, CallInv, NoTokenLost, [Next]_vars
    PROVE  NoTokenLost'
<1>1. token \in Nat /\ credit \in Int /\ sendType # "KILLD"
  BY DEF TypeInv, DataTypes, ToldTypes, CallInv, TypeSent, NeverDeleted
<1> SUFFICES ASSUME kind # "MUTEX", kind' = kind PROVE token' >= credit'
  BY CounterSteps DEF NoTokenLost
<1>2. CASE UNCHANGED counters
  BY <1>2 DEF counters, NoTokenLost
<1>3. ASSUME NEW t \in Threads, Give(t) PROVE token' >= credit'
  BY <1>1, <1>3, GiveEffect DEF NoTokenLost
<1>4. ASSUME NEW t \in Threads, TakeRecursive(t) PROVE FALSE
  BY <1>4 DEF TakeRecursive
<1>5. ASSUME NEW t \in Threads, op[t] = "semTake",
             \/ Leave(t, "OK", token)
             \/ Leave(t, "OK", token - 1)
             \/ Leave(t, "ETIMEDOUT", token)
      PROVE  token' >= credit'
  <2>1. CASE Leave(t, "OK", token)
    BY <1>1, <1>5, <2>1, LeaveEffect DEF NoTokenLost
  <2>2. CASE Leave(t, "OK", token - 1)
    BY <1>1, <1>5, <2>2, LeaveEffect DEF NoTokenLost
  <2>3. CASE Leave(t, "ETIMEDOUT", token)
    BY <1>1, <1>5, <2>3, LeaveEffect DEF NoTokenLost
  <2> QED BY <1>5, <2>1, <2>2, <2>3
<1> QED BY <1>2, <1>3, <1>4, <1>5, CounterSteps

\* No token of a semaphore that is never deleted disappears without a semTake
\* that returned OK for it, whatever else its threads call, semFlush included.
THEOREM TokensKept ==
    ASSUME NeverDeleted
    PROVE  Spec => []NoTokenLost
<1>1. Init => TypeInv /\ CallInv /\ NoTokenLost
  <2>1. Init => NoTokenLost
    BY TypeInit DEF Init, NoTokenLost, TypeInv, DataTypes
  <2> QED BY <2>1, TypeInit, CallInit
<1>2. TypeInv /\ CallInv /\ NoTokenLost /\ [Next]_vars
          => (TypeInv /\ CallInv /\ NoTokenLost)'
  BY TypeStep, CallStep, NoTokenLostStep
<1> QED BY <1>1, <1>2, PTL DEF Spec

-----------------------------------------------------------------------------
\* A semaphore that is never flushed and never taken with NO_WAIT: the calls
\* that return OK without a token are those two.
NeverFlushed == "semFlush" \notin SemCalls /\ "NO_WAIT" \notin Waits

\* A take that is told OK has taken a token, also while the semaphore is being
\* deleted: a wait that timed out, or met the deletion, is told so.
LEMMA TakesAreBackedStep ==
    ASSUME NeverFlushed, TypeInv, CallInv, TakesAreBacked, [Next]_vars
    PROVE  TakesAreBacked'
<1>1. token \in Nat /\ credit \in Int /\ (Killed => sendType = "KILLD")
  BY DEF TypeInv, DataTypes, ToldTypes, CallInv, TypeSent, NeverFlushed, Killed
<1> SUFFICES ASSUME kind # "MUTEX", kind' = kind PROVE token' <= credit'
  BY CounterSteps DEF TakesAreBacked
<1>2. CASE UNCHANGED counters
  BY <1>2 DEF counters, TakesAreBacked
<1>3. ASSUME NEW t \in Threads, Give(t) PROVE token' <= credit'
  BY <1>1, <1>3, GiveEffect DEF TakesAreBacked
<1>4. ASSUME NEW t \in Threads, TakeRecursive(t) PROVE FALSE
  BY <1>4 DEF TakeRecursive
<1>5. ASSUME NEW t \in Threads, op[t] = "semTake",
             \/ Killed /\ Leave(t, "OK", token)
             \/ token > 0 /\ Leave(t, "OK", token - 1)
             \/ ret[t] = "ETIMEDOUT" /\ Leave(t, "ETIMEDOUT", token)
      PROVE  token' <= credit'
  <2>1. CASE Killed /\ Leave(t, "OK", token)
    BY <1>1, <1>5, <2>1, LeaveEffect DEF TakesAreBacked
  <2>2. CASE token > 0 /\ Leave(t, "OK", token - 1)
    BY <1>1, <1>5, <2>2, LeaveEffect DEF TakesAreBacked
  <2>3. CASE ret[t] = "ETIMEDOUT" /\ Leave(t, "ETIMEDOUT", token)
    <3>1. wait[t] = "TIMED"
      BY <2>3 DEF CallInv, CallOK, NeverFlushed
    <3> QED BY <1>1, <1>5, <2>3, <3>1, LeaveEffect DEF TakesAreBacked
  <2> QED BY <1>5, <2>1, <2>2, <2>3
<1> QED BY <1>2, <1>3, <1>4, <1>5, CounterSteps

\* Every semTake that returned OK had a token, although the semaphore may be
\* deleted at any time, as long as nobody flushes it or takes it with NO_WAIT.
THEOREM TakesHaveTokens ==
    ASSUME NeverFlushed
    PROVE  Spec => []TakesAreBacked
<1>1. Init => TypeInv /\ CallInv /\ TakesAreBacked
  <2>1. Init => TakesAreBacked
    BY TypeInit DEF Init, TakesAreBacked, TypeInv, DataTypes
  <2> QED BY <2>1, TypeInit, CallInit
<1>2. TypeInv /\ CallInv /\ TakesAreBacked /\ [Next]_vars
          => (TypeInv /\ CallInv /\ TakesAreBacked)'
  BY TypeStep, CallStep, TakesAreBackedStep
<1> QED BY <1>1, <1>2, PTL DEF Spec

-----------------------------------------------------------------------------
\* A semaphore that tasks use, none of them with NO_WAIT: to current_owner a
\* POSIX thread without a task looks like nobody.
TasksWait == Foreign = {} /\ "NO_WAIT" \notin Waits

\* The owner of a mutex is known at every step, its deletion included, which
\* may take the token away but makes nobody else the owner.
LEMMA OwnerStep ==
    ASSUME TasksWait, TypeInv, CallInv, OwnerInv, [Next]_vars
    PROVE  OwnerInv'
<1>1. /\ token \in Nat /\ rlevel \in Nat /\ held \in [Threads -> Int]
      /\ ToldTypes
      /\ \A t \in Threads : t \in Tasks /\ MyTask(t) = t /\ t # NULL
  BY DEF TypeInv, DataTypes, ToldTypes, TasksWait, MyTask
<1> SUFFICES ASSUME kind = "MUTEX", kind' = kind PROVE OwnerInv'
  BY CounterSteps DEF OwnerInv
<1>2. Killed => sendType = "KILLD"
  BY DEF Killed, CallInv, TypeSent
<1>3. CASE UNCHANGED counters
  BY <1>3 DEF counters, OwnerInv
<1>4. ASSUME NEW t \in Threads, Give(t) PROVE OwnerInv'
  <2>1. currentOwner = t /\ rlevel > 0 /\ token = 0
    BY <1>1, <1>4 DEF Give, NotOwner, OwnerInv
  <2>2. /\ rlevel' = rlevel - 1
        /\ token' = IF rlevel = 1 THEN 1 ELSE 0
        /\ currentOwner' = IF rlevel = 1 THEN NULL ELSE t
    BY <1>4, <2>1 DEF Give
  <2>3. held' = [held EXCEPT ![t] = @ - 1]
    BY <1>1, <1>4, SettleEffect DEF Give, Found
  <2> QED BY <1>1, <2>1, <2>2, <2>3 DEF OwnerInv
<1>5. ASSUME NEW t \in Threads, TakeRecursive(t) PROVE OwnerInv'
  <2>1. /\ currentOwner = t /\ rlevel' = rlevel + 1
        /\ UNCHANGED <<token, currentOwner>>
    BY <1>1, <1>5 DEF TakeRecursive
  <2>2. held' = [held EXCEPT ![t] = @ + 1]
    BY <1>1, <1>5, SettleEffect DEF TakeRecursive, Finish, Found
  <2> QED BY <1>1, <2>1, <2>2 DEF OwnerInv
<1>6. ASSUME NEW t \in Threads, op[t] = "semTake", Killed,
             Leave(t, "OK", token) \/ (token > 0 /\ Leave(t, "OK", token - 1))
      PROVE  OwnerInv'
  <2>1. UNCHANGED <<currentOwner, rlevel>>
    BY <1>6 DEF Leave
  <2>2. UNCHANGED held /\ token' \in {token, token - 1}
    BY <1>2, <1>6, LeaveEffect
  <2> QED BY <1>1, <2>1, <2>2 DEF OwnerInv
<1>7. ASSUME NEW t \in Threads, op[t] = "semTake", ~Killed,
             token > 0, Leave(t, "OK", token - 1)
      PROVE  OwnerInv'
  <2>1. currentOwner = NULL /\ rlevel = 0 /\ token = 1
    BY <1>1, <1>7 DEF OwnerInv
  <2>2. currentOwner' = t /\ rlevel' = 1
    BY <1>1, <1>7, <2>1 DEF Leave
  <2>3. token' = 0 /\ held' = [held EXCEPT ![t] = @ + 1]
    BY <1>7, <2>1, LeaveEffect DEF Killed
  <2> QED BY <1>1, <2>1, <2>2, <2>3 DEF OwnerInv
<1>8. ASSUME NEW t \in Threads, op[t] = "semTake",
             ret[t] = "ETIMEDOUT", Leave(t, "ETIMEDOUT", token)
      PROVE  OwnerInv'
  <2>1. wait[t] = "TIMED"
    BY <1>8 DEF CallInv, CallOK, TasksWait
  <2>2. UNCHANGED <<token, held>>
    BY <1>8, <2>1, LeaveEffect
  <2>3. UNCHANGED <<currentOwner, rlevel>>
    BY <1>8 DEF Leave
  <2> QED BY <2>2, <2>3 DEF OwnerInv
<1> QED BY <1>3, <1>4, <1>5, <1>6, <1>7, <1>8, CounterSteps

\* At most one task believes that it owns a mutex, whatever calls are made on
\* it, its deletion included, as long as only tasks use it and none of them
\* takes it with NO_WAIT.
THEOREM MutexHasOneOwner ==
    ASSUME TasksWait
    PROVE  Spec => []OneOwner
<1>1. Init => TypeInv /\ CallInv /\ OwnerInv
  <2>1. Init => OwnerInv
    BY DEF Init, OwnerInv, InitialCount
  <2> QED BY <2>1, TypeInit, CallInit
<1>2. TypeInv /\ CallInv /\ OwnerInv /\ [Next]_vars => (TypeInv /\ CallInv /\ OwnerInv)'
  BY TypeStep, CallStep, OwnerStep
<1>3. OwnerInv => OneOwner
  BY DEF OwnerInv, OneOwner
<1> QED BY <1>1, <1>2, <1>3, PTL DEF Spec

-----------------------------------------------------------------------------
\* A step of a thread that has nothing to do with a flush: the list and the
\* send type stay, and sem_lock goes only to t, or to nobody from t.
LEMMA CalmStep ==
    ASSUME FlushInv, NEW t \in Threads,
           UNCHANGED <<susp, sendType, status>>,
           \A u \in Threads \ {t} :
               pc'[u] = pc[u] \/ (pc[u] = "cond" /\ pc'[u] = "woken"),
           pc[t] \notin Draining \cup {"notify"},
           pc'[t] \notin {"announce", "unlink", "free"},
           pc'[t] \in Holding => semLock' = t,
           semLock' = semLock \/ semLock \in {t, NULL}
    PROVE  FlushInv'
<1>1. \A u \in Threads \ {t} : pc'[u] \in Holding =>
          pc[u] = pc'[u] /\ semLock = u /\ semLock' = u
  BY DEF FlushInv, Holding
<1>2. \A u \in Threads : pc'[u] \in Holding => semLock' = u
  BY <1>1
<1>3. \A u \in Threads : pc[u] \in Draining \cup {"notify"} => pc'[u] = pc[u]
  BY DEF Draining
<1>4. sendType' = "FLUSH" =>
         \/ susp' # <<>> /\ \E u \in Threads : pc'[u] \in Draining
         \/ \E u \in Threads : pc'[u] = "notify"
  BY <1>3 DEF FlushInv
<1>5. \A u \in Threads : pc'[u] = "announce" => susp' # <<>>
  BY DEF FlushInv
<1>6. \A u \in Threads : pc'[u] \notin {"unlink", "free"}
  BY DEF FlushInv
<1> QED BY <1>2, <1>4, <1>5, <1>6 DEF FlushInv

\* The last task to leave wait_for_token in a flush goes on to report it.
LEMMA LeaveFlush ==
    ASSUME TypeInv, FlushInv, NEW t \in Threads, NEW retcode, NEW tokens,
           pc[t] \in {"check", "woken", "delay"}, semLock \in {t, NULL},
           Leave(t, retcode, tokens)
    PROVE  FlushInv'
<1> DEFINE left == Unlinked(susp, t)
<1>1. /\ susp' = left /\ UNCHANGED <<sendType, status>>
      /\ \/ /\ Killed /\ left = <<>> /\ semLock' = t /\ pc'[t] = "notify"
            /\ \A u \in Threads \ {t} : pc'[u] = pc[u]
         \/ /\ ~(Killed /\ left = <<>>) /\ semLock' = NULL /\ pc'[t] = "idle"
            /\ \A u \in Threads \ {t} : pc'[u] = pc[u]
  BY DEF Leave, Goto, Return, TypeInv, ControlTypes
<1> HIDE DEF left
<1>2. \A u \in Threads \ {t} : pc'[u] \notin Holding
  BY <1>1 DEF FlushInv
<1>3. \A u \in Threads : pc'[u] \in Holding => semLock' = u
  BY <1>1, <1>2 DEF Holding
<1>4. \A u \in Threads : pc'[u] \notin {"announce", "unlink", "free"}
  BY <1>1, <1>2 DEF FlushInv, Holding
<1>5. sendType' = "FLUSH" =>
         \/ susp' # <<>> /\ \E u \in Threads : pc'[u] \in Draining
         \/ \E u \in Threads : pc'[u] = "notify"
  <2> SUFFICES ASSUME sendType = "FLUSH", left # <<>>
               PROVE  \E u \in Threads : pc'[u] \in Draining
    BY <1>1 DEF Killed
  <2>1. \A u \in Threads : pc[u] # "notify"
    BY <1>1, <1>2 DEF Holding
  <2>2. PICK u \in Threads : pc[u] \in Draining
    BY <2>1 DEF FlushInv
  <2> QED BY <1>1, <2>2 DEF Draining
<1> QED BY <1>1, <1>3, <1>4, <1>5 DEF FlushInv

\* Every step keeps the invariant of a flush.
LEMMA FlushStep ==
    ASSUME NeverDeleted, TypeInv, CallInv, FlushInv, [Next]_vars
    PROVE  FlushInv'
<1>a. ControlTypes /\ susp \in Seq(Tasks)
  BY DEF TypeInv, DataTypes
<1>0. CASE UNCHANGED vars
  BY <1>0 DEF vars, FlushInv
<1>1. ASSUME NEW t \in Threads, Call(t) \/ FindHit(t) \/ Expire(t) \/ TimedOut(t)
      PROVE  FlushInv'
  <2>1. UNCHANGED <<susp, sendType, status, semLock>>
    BY <1>1 DEF Call, CallGive, CallTake, CallFlush, CallDelete, Begin, FindHit, Expire,
                TimedOut, data, locks
  <2>2. /\ \A u \in Threads \ {t} : pc'[u] = pc[u]
        /\ pc'[t] \in {"find", "found", "woken"} \/ pc' = pc
        /\ pc[t] \in {"idle", "find", "cond", "woken", "delay"}
    BY <1>1, <1>a DEF Call, CallGive, CallTake, CallFlush, CallDelete, Begin, FindHit,
                      Expire, TimedOut, Goto, ControlTypes
  <2> QED BY <2>1, <2>2, CalmStep DEF Holding, Draining
<1>2. ASSUME NEW t \in Threads,
             FindMiss(t) \/ GiveRefused(t) \/ FlushRefused(t) \/ SchedUnlocked(t)
             \/ TakeRecursive(t) \/ Give(t)
      PROVE  FlushInv'
  <2>1. UNCHANGED <<susp, sendType, status, semLock>>
    BY <1>2 DEF FindMiss, GiveRefused, FlushRefused, SchedUnlocked, TakeRecursive, Give,
                data, locks
  <2>2. pc[t] \in {"find", "found", "unsched"}
    BY <1>2 DEF FindMiss, GiveRefused, FlushRefused, SchedUnlocked, TakeRecursive, Give,
                Found
  <2>3. PICK p \in {pc, BroadcastSend(pc)} : Return(p, t)
    BY <1>2 DEF FindMiss, GiveRefused, FlushRefused, SchedUnlocked, TakeRecursive, Give,
                Finish
  <2>4. /\ pc'[t] = "idle"
        /\ \A u \in Threads \ {t} :
               pc'[u] = pc[u] \/ (pc[u] = "cond" /\ pc'[u] = "woken")
    BY <1>a, <2>3, BroadcastTypes DEF Return, BroadcastSend, ControlTypes
  <2> QED BY <2>1, <2>2, <2>4, CalmStep DEF Holding, Draining
<1>3. ASSUME NEW t \in Threads, Release(t) PROVE FlushInv'
  <2>1. semLock = t
    BY <1>3 DEF Release, FlushInv, Holding
  <2>2. /\ pc[t] = "release" /\ pc'[t] = "idle" /\ semLock' = NULL
        /\ \A u \in Threads \ {t} : pc'[u] = pc[u]
        /\ UNCHANGED <<susp, sendType, status>>
    BY <1>3, <1>a DEF Release, Return, ControlTypes, data
  <2> QED BY <2>1, <2>2, CalmStep DEF Holding, Draining
<1>4. ASSUME NEW t \in Threads, FlushOrDelete(t) PROVE FlushInv'
  <2>1. /\ pc[t] = "found" /\ pc'[t] = "sched" /\ semLock = NULL /\ semLock' = t
        /\ \A u \in Threads \ {t} : pc'[u] = pc[u]
        /\ UNCHANGED <<susp, sendType, status>>
    BY <1>4, <1>a DEF FlushOrDelete, Found, Goto, ControlTypes, data
  <2> QED BY <2>1, CalmStep DEF Holding, Draining
<1>5. ASSUME NEW t \in Threads, TakeLink(t) PROVE FlushInv'
  <2>1. /\ pc[t] = "found" /\ pc'[t] = "check" /\ semLock = NULL /\ semLock' = t
        /\ \A u \in Threads \ {t} : pc'[u] = pc[u]
        /\ UNCHANGED <<sendType, status>>
    BY <1>5, <1>a DEF TakeLink, Found, Goto, ControlTypes
  <2>2. susp # <<>> => susp' # <<>>
    BY <1>5, <1>a DEF TakeLink
  <2>3. \A u \in Threads : pc[u] \notin Holding
    BY <2>1 DEF FlushInv
  <2>4. sendType' = "FLUSH" => susp' # <<>> /\ \E u \in Threads : pc'[u] \in Draining
    BY <2>1, <2>2, <2>3 DEF FlushInv, Holding, Draining
  <2> QED BY <2>1, <2>3, <2>4 DEF FlushInv, Holding
<1>6. ASSUME NEW t \in Threads,
             CheckKilled(t) \/ CheckToken(t) \/ CheckNotMine(t) \/ CheckNoToken(t)
             \/ RecheckExpired(t) \/ RecheckToken(t) \/ RecheckNoToken(t)
      PROVE  FlushInv'
  <2>1. pc[t] \in {"check", "woken", "delay"} /\ semLock \in {t, NULL}
    BY <1>6 DEF CheckKilled, CheckToken, CheckNotMine, CheckNoToken, RecheckExpired,
                RecheckToken, RecheckNoToken, Rechecks, CanCheck, CanRecheck
  <2>2. \/ Leave(t, "OK", token) \/ Leave(t, "OK", token - 1)
        \/ Leave(t, "ETIMEDOUT", token)
        \/ \E place \in {"delay", "cond"} : Sleep(t, place)
    BY <1>6 DEF CheckKilled, CheckToken, CheckNotMine, CheckNoToken, RecheckExpired,
                RecheckToken, RecheckNoToken, StillWaiting
  <2>3. ASSUME NEW place \in {"delay", "cond"}, Sleep(t, place) PROVE FlushInv'
    <3>1. /\ pc'[t] = place /\ semLock' = NULL
          /\ \A u \in Threads \ {t} : pc'[u] = pc[u]
          /\ UNCHANGED <<susp, sendType, status>>
      BY <1>a, <2>3 DEF Sleep, Goto, ControlTypes, data
    <3> QED BY <2>1, <3>1, CalmStep DEF Holding, Draining
  <2> QED BY <2>1, <2>2, <2>3, LeaveFlush
<1>7. ASSUME NEW t \in Threads, SchedLocked(t) PROVE FlushInv'
  <2>1. op[t] # "semDelete"
    BY DEF CallInv, CallOK, NeverDeleted
  <2>2. /\ pc[t] = "sched" /\ semLock = t /\ op[t] = "semFlush"
        /\ pc'[t] = IF susp # <<>> THEN "announce" ELSE "unsched"
        /\ \A u \in Threads \ {t} : pc'[u] = pc[u]
        /\ UNCHANGED <<susp, sendType, status, semLock>>
    BY <1>7, <1>a, <2>1 DEF SchedLocked, Goto, ControlTypes, data, locks, FlushInv,
       Holding, CallInv, CallOK, InFlush
  <2>3. \A u \in Threads : pc[u] \in Draining \cup {"notify"} => pc'[u] = pc[u]
    BY <2>2 DEF Draining
  <2>4. sendType' = "FLUSH" =>
         \/ susp' # <<>> /\ \E u \in Threads : pc'[u] \in Draining
         \/ \E u \in Threads : pc'[u] = "notify"
    BY <2>2, <2>3 DEF FlushInv
  <2> QED BY <2>2, <2>4 DEF FlushInv, Holding
<1>8. ASSUME NEW t \in Threads, Announce(t) PROVE FlushInv'
  <2>1. /\ pc[t] = "announce" /\ op[t] = "semFlush"
    BY <1>8 DEF Announce, CallInv, CallOK, InFlush, NeverDeleted
  <2>2. /\ sendType' = "FLUSH" /\ semLock' = NULL /\ pc'[t] = "drain"
        /\ UNCHANGED <<susp, status>>
        /\ \A u \in Threads \ {t} :
               pc'[u] = pc[u] \/ (pc[u] = "cond" /\ pc'[u] = "woken")
    BY <1>8, <1>a, <2>1 DEF Announce, BroadcastSend, ControlTypes
  <2>3. semLock = t /\ susp # <<>>
    BY <2>1 DEF FlushInv, Holding
  <2>4. \A u \in Threads : pc'[u] \notin Holding
    BY <2>2, <2>3 DEF FlushInv, Holding
  <2> QED BY <2>2, <2>3, <2>4 DEF FlushInv, Holding, Draining
<1>9. ASSUME NEW t \in Threads, Notify(t) PROVE FlushInv'
  <2>1. /\ pc[t] = "notify" /\ sendType' = "SEND" /\ UNCHANGED <<susp, status, semLock>>
        /\ pc'[t] = "release"
        /\ \A u \in Threads \ {t} :
               pc'[u] = pc[u] \/ (pc[u] = "drainWait" /\ pc'[u] = "drainWoken")
    BY <1>9 DEF Notify, locks
  <2> QED BY <2>1 DEF FlushInv, Holding
<1>10. ASSUME NEW t \in Threads, DrainWait(t) \/ DrainAgain(t)
       PROVE  FlushInv'
  <2>1. /\ pc[t] \in Draining /\ pc'[t] \in Draining
        /\ \A u \in Threads \ {t} : pc'[u] = pc[u]
        /\ UNCHANGED <<susp, sendType, status, semLock>>
    BY <1>10, <1>a DEF DrainWait, DrainAgain, Goto, ControlTypes, data, Draining
  <2> QED BY <2>1 DEF FlushInv, Holding, Draining
<1>11. ASSUME NEW t \in Threads, Drained(t) PROVE FlushInv'
  <2>1. op[t] = "semFlush"
    BY <1>11 DEF Drained, CallInv, CallOK, InFlush, NeverDeleted
  <2>2. /\ pc[t] = "drain" /\ susp = <<>> /\ pc'[t] = "unsched"
        /\ \A u \in Threads \ {t} : pc'[u] = pc[u]
        /\ UNCHANGED <<susp, sendType, status, semLock>>
    BY <1>11, <1>a, <2>1 DEF Drained, Goto, ControlTypes, data
  <2>3. sendType' = "FLUSH" => \E u \in Threads : pc'[u] = "notify"
    BY <2>2 DEF FlushInv
  <2> QED BY <2>2, <2>3 DEF FlushInv, Holding
<1>12. ASSUME NEW t \in Threads, Spurious(t) PROVE FlushInv'
  <2>1. /\ \/ pc[t] = "cond" /\ pc'[t] = "woken"
           \/ pc[t] = "drainWait" /\ pc'[t] = "drainWoken"
        /\ \A u \in Threads \ {t} : pc'[u] = pc[u]
        /\ UNCHANGED <<susp, sendType, status, semLock>>
    BY <1>12, <1>a DEF Spurious, Goto, ControlTypes, data, locks
  <2> QED BY <2>1 DEF FlushInv, Holding, Draining
<1>13. ASSUME NEW t \in Threads, Unlink(t) \/ Free(t) \/ UseFreed(t) PROVE FALSE
  BY <1>13 DEF Unlink, Free, UseFreed, FlushInv
<1> QED
  BY <1>0, <1>1, <1>2, <1>3, <1>4, <1>5, <1>6, <1>7, <1>8, <1>9, <1>10, <1>11,
     <1>12, <1>13 DEF Next, Progress

\* A semaphore that is never deleted stays flushed no longer than its flush:
\* the last task to leave resets send_type, for any threads, POSIX threads
\* without a task included, and any number of flushes.
THEOREM FlushEnds ==
    ASSUME NeverDeleted
    PROVE  Spec => []NoStaleFlush
<1>1. Init => TypeInv /\ CallInv /\ FlushInv
  <2>1. Init => FlushInv
    BY DEF Init, FlushInv, Holding
  <2> QED BY <2>1, TypeInit, CallInit
<1>2. TypeInv /\ CallInv /\ FlushInv /\ [Next]_vars => (TypeInv /\ CallInv /\ FlushInv)'
  BY TypeStep, CallStep, FlushStep
<1>3. FlushInv => NoStaleFlush
  BY DEF FlushInv, NoStaleFlush, Draining
<1> QED BY <1>1, <1>2, <1>3, PTL DEF Spec

-----------------------------------------------------------------------------
(***************************************************************************)
(* The refinement of SemaphoreAbs by a semaphore that tasks give and take. *)
(* A task is in the list once, and only while it is in wait_for_token.     *)
(***************************************************************************)
Distinct(s) == \A i, j \in DOMAIN s : s[i] = s[j] => i = j

Waiting == {"check", "woken", "delay", "cond"}

SuspInv ==
    /\ Distinct(susp)
    /\ \A t \in Threads : Listed(t) => pc[t] \in Waiting

Patient == {t \in Tasks : wait[t] = "FOREVER" /\ Listed(t)}

\* What unlink_susp_task does to a list that has a task once: the entry is
\* taken out, and if it was the first the others move up.
LEMMA UnlinkedOnce ==
    ASSUME NEW s \in Seq(Tasks), Distinct(s), NEW k \in DOMAIN s
    PROVE  /\ Unlinked(s, s[k]) =
                [j \in 1 .. Len(s) - 1 |-> IF j < k THEN s[j] ELSE s[j + 1]]
           /\ Distinct(Unlinked(s, s[k]))
           /\ \A u : (\E i \in DOMAIN Unlinked(s, s[k]) : Unlinked(s, s[k])[i] = u)
                       <=> u # s[k] /\ \E i \in DOMAIN s : s[i] = u
           /\ k = 1 => Unlinked(s, s[k]) = Tail(s)
<1> DEFINE r == [j \in 1 .. Len(s) - 1 |-> IF j < k THEN s[j] ELSE s[j + 1]]
<1>1. Len(s) \in Nat /\ DOMAIN s = 1 .. Len(s) /\ k \in 1 .. Len(s)
  OBVIOUS
<1>2. Unlinked(s, s[k]) = r
  <2>1. \E i \in DOMAIN s : s[i] = s[k]
    OBVIOUS
  <2>2. (CHOOSE i \in DOMAIN s : s[i] = s[k]) = k
    BY <2>1 DEF Distinct
  <2> QED BY <2>1, <2>2 DEF Unlinked
<1>3. /\ DOMAIN r = 1 .. Len(s) - 1
      /\ \A j \in 1 .. Len(s) - 1 : r[j] = IF j < k THEN s[j] ELSE s[j + 1]
  OBVIOUS
<1>4. ASSUME k = 1 PROVE r = Tail(s)
  <2>1. /\ Tail(s) \in Seq(Tasks) /\ Len(Tail(s)) = Len(s) - 1
        /\ \A j \in 1 .. Len(s) - 1 : Tail(s)[j] = s[j + 1]
    BY <1>1, HeadTailProperties
  <2>2. /\ r \in Seq(Tasks) /\ Len(r) = Len(s) - 1
        /\ \A j \in 1 .. Len(s) - 1 : r[j] = s[j + 1]
    BY <1>1, <1>4
  <2> HIDE DEF r
  <2> QED BY <2>1, <2>2, SeqEqual
<1> HIDE DEF r
<1> DEFINE p(n) == IF n < k THEN n ELSE n + 1
<1>5. \A j \in DOMAIN r : p(j) \in DOMAIN s /\ p(j) # k /\ r[j] = s[p(j)]
  BY <1>1, <1>3
<1>6. Distinct(r)
  <2> SUFFICES ASSUME NEW i \in DOMAIN r, NEW j \in DOMAIN r, r[i] = r[j]
               PROVE  i = j
    BY DEF Distinct
  <2>1. p(i) = p(j)
    BY <1>5 DEF Distinct
  <2> QED BY <1>1, <1>3, <2>1
<1>7. ASSUME NEW j \in DOMAIN r PROVE r[j] # s[k] /\ \E i \in DOMAIN s : s[i] = r[j]
  BY <1>5 DEF Distinct
<1>8. ASSUME NEW i \in DOMAIN s, s[i] # s[k] PROVE \E j \in DOMAIN r : r[j] = s[i]
  <2>1. CASE i < k
    BY <1>1, <1>3, <2>1
  <2>2. CASE i > k
    <3>1. i - 1 \in 1 .. Len(s) - 1 /\ ~(i - 1 < k) /\ (i - 1) + 1 = i
      BY <1>1, <2>2
    <3> QED BY <1>3, <3>1
  <2> QED BY <1>1, <1>8, <2>1, <2>2
<1>9. \A u : (\E j \in DOMAIN r : r[j] = u) <=> u # s[k] /\ \E i \in DOMAIN s : s[i] = u
  BY <1>7, <1>8
<1>10. r = [j \in 1 .. Len(s) - 1 |-> IF j < k THEN s[j] ELSE s[j + 1]]
  BY DEF r
<1> QED BY <1>2, <1>4, <1>6, <1>9, <1>10

\* A step that leaves the list alone keeps its invariant if the thread that
\* makes it is not in the list, or stays in wait_for_token.
LEMMA SuspKept ==
    ASSUME SuspInv, NEW t \in Threads, susp' = susp,
           \A u \in Threads \ {t} :
               pc'[u] = pc[u] \/ (pc[u] = "cond" /\ pc'[u] = "woken"),
           pc[t] \notin Waiting \/ pc'[t] \in Waiting
    PROVE  SuspInv'
BY DEF SuspInv, Listed, Waiting

\* Such a step is none of the queue's, if no token comes or goes.
LEMMA PatientKept ==
    ASSUME SuspInv, NEW t \in Threads, susp' = susp,
           \A u \in Threads \ {t} : wait'[u] = wait[u],
           wait'[t] = wait[t] \/ pc[t] \notin Waiting
    PROVE  Patient' = Patient
BY DEF SuspInv, Patient, Listed

\* The end of semTake is the service of the first task or the end of a wait.
LEMMA LeaveQueue ==
    ASSUME GiveAndTake, QuietInv, SuspInv, NEW t \in Threads, op[t] = "semTake",
           pc[t] \in Waiting, NEW retcode, NEW tokens, Leave(t, retcode, tokens),
           \/ retcode = "OK" /\ token > 0 /\ tokens = token - 1 /\ SignalForMe(t)
           \/ retcode = "ETIMEDOUT" /\ ret[t] = "ETIMEDOUT" /\ tokens = token
    PROVE  SuspInv' /\ Queue!AbsNext
<1>1. /\ ControlTypes /\ LocalTypes /\ susp \in Seq(Tasks) /\ token \in Nat
      /\ t \in Tasks /\ Tasks = Threads /\ ~Killed
  BY DEF QuietInv, TypeInv, DataTypes, GiveAndTake, PlaceInv, Killed
<1>2. /\ token' = tokens /\ susp' = Unlinked(susp, t) /\ Return(pc, t)
  BY <1>1 DEF Leave
<1>3. /\ \A u \in Threads : pc'[u] = IF u = t THEN "idle" ELSE pc[u]
      /\ \A u \in Threads \ {t} : wait'[u] = wait[u]
  BY <1>1, <1>2 DEF Return, ControlTypes, LocalTypes
<1>4. PICK k \in DOMAIN susp : susp[k] = t
  BY DEF QuietInv, PlaceInv, Listed, Waiting
<1>5. /\ susp' = [j \in 1 .. Len(susp) - 1 |-> IF j < k THEN susp[j] ELSE susp[j + 1]]
      /\ Distinct(susp')
      /\ \A u : Listed(u)' <=> u # t /\ Listed(u)
      /\ k = 1 => susp' = Tail(susp)
  <2>1. susp' = Unlinked(susp, susp[k])
    BY <1>2, <1>4
  <2>2. Distinct(susp)
    BY DEF SuspInv
  <2>3. \A u : (\E i \in DOMAIN susp' : susp'[i] = u)
                <=> u # susp[k] /\ \E i \in DOMAIN susp : susp[i] = u
    <3> DEFINE l == Unlinked(susp, susp[k])
    <3>1. \A u : (\E i \in DOMAIN l : l[i] = u)
                   <=> u # susp[k] /\ \E i \in DOMAIN susp : susp[i] = u
      BY <1>1, <2>2, UnlinkedOnce
    <3>2. susp' = l
      BY <2>1
    <3> HIDE DEF l
    <3> QED BY <3>1, <3>2
  <2>4. \A u : Listed(u)' <=> u # t /\ Listed(u)
    BY <1>4, <2>3 DEF Listed
  <2> QED BY <1>1, <1>4, <2>1, <2>2, <2>4, UnlinkedOnce
<1>6. SuspInv'
  BY <1>3, <1>5 DEF SuspInv
<1>7. Patient' = Patient \ {t}
  BY <1>1, <1>3, <1>5 DEF Patient
<1>8. CASE retcode = "OK"
  <2>1. SignalForMe(t) /\ token > 0 /\ token' = token - 1
    BY <1>2, <1>8
  <2>2. susp # <<>> /\ Head(susp) = susp[1] /\ 1 \in DOMAIN susp
    BY <1>1, <1>4
  <2>3. susp[1] = t /\ k = 1
    BY <1>4, <2>1, <2>2 DEF SignalForMe, SuspInv, Distinct
  <2>4. Queue!Serve
    BY <1>5, <1>7, <2>1, <2>2, <2>3 DEF Queue!Serve, Patient, Listed
  <2> QED BY <1>6, <2>4 DEF Queue!AbsNext
<1>9. CASE retcode = "ETIMEDOUT"
  <2>1. wait[t] = "TIMED" /\ token' = token
    BY <1>2, <1>9 DEF QuietInv, PlaceInv
  <2>2. t \notin Patient /\ Patient' = Patient
    BY <1>7, <2>1 DEF Patient
  <2>3. Queue!Abandon(t)
    BY <1>4, <1>5, <2>1, <2>2 DEF Queue!Abandon, Queue!Without, Patient, Listed
  <2> QED BY <1>1, <1>6, <2>3 DEF Queue!AbsNext
<1> QED BY <1>8, <1>9

\* semTake's linking of the task is its arrival in the queue.
LEMMA LinkQueue ==
    ASSUME GiveAndTake, QuietInv, SuspInv, NEW t \in Threads, TakeLink(t)
    PROVE  SuspInv' /\ Queue!AbsNext
<1>1. ControlTypes /\ LocalTypes /\ susp \in Seq(Tasks) /\ t \in Tasks /\ Tasks = Threads
  BY DEF QuietInv, TypeInv, DataTypes, GiveAndTake
<1>2. /\ susp' = Append(susp, t) /\ UNCHANGED <<token, wait>> /\ pc[t] = "found"
      /\ \A u \in Threads : pc'[u] = IF u = t THEN "check" ELSE pc[u]
  BY <1>1 DEF TakeLink, Found, Goto, ControlTypes, local
<1>3. ~Listed(t)
  BY <1>2 DEF SuspInv, Waiting
<1>4. /\ DOMAIN susp = 1 .. Len(susp) /\ Len(susp) \in Nat
      /\ DOMAIN susp' = 1 .. Len(susp) + 1
      /\ \A i \in 1 .. Len(susp) : susp'[i] = susp[i]
      /\ susp'[Len(susp) + 1] = t
  BY <1>1, <1>2
<1>5. \A u : Listed(u)' <=> u = t \/ Listed(u)
  BY <1>4 DEF Listed
<1>6. Distinct(susp')
  BY <1>3, <1>4 DEF Distinct, Listed, SuspInv
<1>7. SuspInv'
  BY <1>2, <1>5, <1>6 DEF SuspInv, Waiting
<1>8. Patient' \in {Patient, Patient \cup {t}}
  BY <1>1, <1>2, <1>5 DEF Patient
<1>9. Queue!Arrive(t)
  BY <1>2, <1>3, <1>8 DEF Queue!Arrive, Patient, Listed
<1> QED BY <1>1, <1>7, <1>9 DEF Queue!AbsNext

\* Every step of a give or a take is a step of the queue, or none.
LEMMA QueueStep ==
    ASSUME GiveAndTake, QuietInv, SuspInv, [Next]_vars
    PROVE  SuspInv' /\ [Queue!AbsNext]_(Queue!absVars)
<1>a. /\ ControlTypes /\ LocalTypes /\ token \in Nat /\ ~Killed /\ Tasks = Threads
  BY DEF QuietInv, TypeInv, DataTypes, GiveAndTake, PlaceInv, Killed
<1>b. ASSUME UNCHANGED <<token, susp>>, Patient' = Patient PROVE UNCHANGED Queue!absVars
  BY <1>b DEF Queue!absVars, Patient, Listed
<1>0. CASE UNCHANGED vars
  <2>1. UNCHANGED <<token, susp, wait, pc>>
    BY <1>0 DEF vars
  <2>2. SuspInv' /\ Patient' = Patient
    BY <2>1 DEF SuspInv, Patient, Listed
  <2> QED BY <1>b, <2>1, <2>2
<1>1. ASSUME NEW t \in Threads, Call(t)
      PROVE  SuspInv' /\ UNCHANGED Queue!absVars
  <2>1. /\ pc[t] = "idle" /\ UNCHANGED <<token, susp>>
        /\ \A u \in Threads : pc'[u] = IF u = t THEN "find" ELSE pc[u]
        /\ \A u \in Threads \ {t} : wait'[u] = wait[u]
    BY <1>1, <1>a DEF Call, CallGive, CallTake, CallFlush, CallDelete, Begin, Goto,
                      ControlTypes, LocalTypes, data, local
  <2>2. SuspInv' /\ Patient' = Patient
    BY <2>1, SuspKept, PatientKept DEF Waiting
  <2> QED BY <1>b, <2>1, <2>2
<1>2. ASSUME NEW t \in Threads, GiveRefused(t) \/ TakeRecursive(t)
      PROVE  SuspInv' /\ UNCHANGED Queue!absVars
  <2>1. pc[t] = "found" /\ UNCHANGED <<token, susp>> /\ Return(pc, t)
    BY <1>2 DEF GiveRefused, TakeRecursive, Found, Finish, data
  <2>2. /\ \A u \in Threads : pc'[u] = IF u = t THEN "idle" ELSE pc[u]
        /\ \A u \in Threads \ {t} : wait'[u] = wait[u]
    BY <1>a, <2>1 DEF Return, ControlTypes, LocalTypes
  <2>3. SuspInv' /\ Patient' = Patient
    BY <2>1, <2>2, SuspKept, PatientKept DEF Waiting
  <2> QED BY <1>b, <2>1, <2>3
<1>3. ASSUME NEW t \in Threads, Give(t)
      PROVE  SuspInv' /\ [Queue!AbsNext]_(Queue!absVars)
  <2>1. pc[t] = "found" /\ UNCHANGED susp /\ token' \in {token, token + 1}
    BY <1>3 DEF Give, Found
  <2>2. PICK p \in {pc, BroadcastSend(pc)} : Return(p, t)
    BY <1>3 DEF Give
  <2>3. /\ pc'[t] = "idle"
        /\ \A u \in Threads \ {t} :
               pc'[u] = pc[u] \/ (pc[u] = "cond" /\ pc'[u] = "woken")
        /\ \A u \in Threads \ {t} : wait'[u] = wait[u]
    BY <1>a, <2>2, BroadcastTypes DEF Return, BroadcastSend, ControlTypes, LocalTypes
  <2>4. SuspInv' /\ Patient' = Patient
    BY <2>1, <2>3, SuspKept, PatientKept DEF Waiting
  <2>5. token' = token + 1 => Queue!Give
    BY <2>1, <2>4 DEF Queue!Give, Patient, Listed
  <2> QED BY <1>b, <2>1, <2>4, <2>5 DEF Queue!AbsNext
<1>4. ASSUME NEW t \in Threads,
             CheckToken(t) \/ CheckNotMine(t) \/ CheckNoToken(t)
             \/ RecheckExpired(t) \/ RecheckToken(t) \/ RecheckNoToken(t)
      PROVE  SuspInv' /\ [Queue!AbsNext]_(Queue!absVars)
  <2>1. pc[t] \in Waiting /\ op[t] = "semTake"
    BY <1>4 DEF CheckToken, CheckNotMine, CheckNoToken, RecheckExpired, RecheckToken,
                RecheckNoToken, Rechecks, CanCheck, CanRecheck, QuietInv, PlaceInv,
                Waiting
  <2>2. \/ token > 0 /\ SignalForMe(t) /\ Leave(t, "OK", token - 1)
        \/ ret[t] = "ETIMEDOUT" /\ Leave(t, "ETIMEDOUT", token)
        \/ \E place \in {"delay", "cond"} : Sleep(t, place)
    BY <1>4 DEF CheckToken, CheckNotMine, CheckNoToken, RecheckExpired, RecheckToken,
                RecheckNoToken, StillWaiting
  <2>3. ASSUME NEW place \in {"delay", "cond"}, Sleep(t, place)
        PROVE  SuspInv' /\ UNCHANGED Queue!absVars
    <3>1. /\ UNCHANGED <<token, susp, wait>>
          /\ \A u \in Threads : pc'[u] = IF u = t THEN place ELSE pc[u]
      BY <1>a, <2>3 DEF Sleep, Goto, ControlTypes, data, local
    <3>2. SuspInv' /\ Patient' = Patient
      BY <2>1, <3>1, SuspKept, PatientKept DEF Waiting
    <3> QED BY <1>b, <3>1, <3>2
  <2> QED BY <2>1, <2>2, <2>3, LeaveQueue
<1>5. ASSUME NEW t \in Threads,
             FindHit(t) \/ Expire(t) \/ TimedOut(t) \/ Spurious(t)
      PROVE  SuspInv' /\ UNCHANGED Queue!absVars
  <2>1. UNCHANGED <<token, susp, wait>>
    BY <1>5 DEF FindHit, Expire, TimedOut, Spurious, data, local
  <2>2. /\ \A u \in Threads \ {t} : pc'[u] = pc[u]
        /\ pc[t] \in Waiting => pc'[t] \in Waiting
    BY <1>5, <1>a DEF FindHit, Expire, TimedOut, Spurious, Goto, ControlTypes, Waiting
  <2>3. SuspInv' /\ Patient' = Patient
    BY <2>1, <2>2, SuspKept, PatientKept
  <2> QED BY <1>b, <2>1, <2>3
<1>6. ASSUME NEW t \in Threads,
             FindMiss(t) \/ CheckKilled(t) \/ Notify(t) \/ Release(t)
             \/ FlushRefused(t) \/ FlushOrDelete(t) \/ SchedLocked(t) \/ Announce(t)
             \/ DrainWait(t) \/ DrainAgain(t) \/ Drained(t)
             \/ Unlink(t) \/ Free(t) \/ SchedUnlocked(t) \/ UseFreed(t)
      PROVE  FALSE
  BY <1>6, <1>a DEF QuietInv, PlaceInv, FindMiss, CheckKilled, Notify, Release,
     FlushRefused, FlushOrDelete, Found, SchedLocked, Announce, DrainWait, DrainAgain,
     Drained, Unlink, Free, SchedUnlocked, UseFreed
<1> QED
  BY <1>0, <1>1, <1>2, <1>3, <1>4, <1>5, <1>6, LinkQueue DEF Next, Progress

\* A semaphore that tasks only give and take implements the queue of
\* SemaphoreAbs, for any number of tasks: the tokens go to the tasks in the
\* order in which they were linked, and a task that waits forever leaves only
\* with one.
THEOREM SemaphoreIsQueue ==
    ASSUME GiveAndTake
    PROVE  Spec => ImplementsQueue
<1>1. Init => QuietInv /\ SuspInv /\ Queue!AbsInit
  <2> SUFFICES ASSUME Init PROVE QuietInv /\ SuspInv /\ Queue!AbsInit
    OBVIOUS
  <2>1. QuietInv
    BY QuietInit
  <2>2. SuspInv
    BY DEF Init, SuspInv, Distinct, Listed
  <2>3. Queue!AbsInit
    BY <2>1 DEF Init, Queue!AbsInit, QuietInv, TypeInv, DataTypes
  <2> QED BY <2>1, <2>2, <2>3
<1>2. QuietInv /\ SuspInv /\ [Next]_vars
          => (QuietInv /\ SuspInv)' /\ [Queue!AbsNext]_(Queue!absVars)
  BY QuietStep, QueueStep
<1> QED BY <1>1, <1>2, PTL DEF Spec, ImplementsQueue, Queue!AbsSpec
=============================================================================
