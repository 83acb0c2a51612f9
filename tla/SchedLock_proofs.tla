-------------------------- MODULE SchedLock_proofs --------------------------
(***************************************************************************)
(* Proofs about SchedLock, for any number of tasks and foreign threads and *)
(* every value of the other constants.                                     *)
(***************************************************************************)
EXTENDS SchedLock, TLAPS

\* The arguments with which each call is made.
ValidArgs(name, tid, pri) ==
    /\ name = "taskPrioritySet" => tid \in Tasks /\ pri \in Prios
    /\ name = "taskActivate" => tid \in Tasks
    /\ name # "return"

Enters(t) ==
    \E name \in CallNames, tid \in Tasks \cup {NULL}, pri \in Prios \cup {0} :
        Enter(t, name, tid, pri) /\ ValidArgs(name, tid, pri)

\* The actions of one thread, so that every proof splits Next alike.
Step(t) ==
    \/ Enters(t)
    \/ Progress(t)
    \/ Spurious(t)
    \/ t \in Tasks /\ (Return(t) \/ SelfStarter(t))

\* Every step of Next is a Step of some thread.
LEMMA NextIsStep == Next => \E t \in Threads : Step(t)
<1> SUFFICES ASSUME Next PROVE \E t \in Threads : Step(t)
  OBVIOUS
<1>1. CASE \E t \in Threads : Call(t)
  BY <1>1 DEF Call, Step, Enters, ValidArgs, CallTaskLock, CallTaskUnlock,
     CallTaskPrioritySet, CallKernelTimeSlice, CallTaskActivate, CallTaskRestart,
     CallNames
<1>2. CASE \E t \in Threads : Progress(t) \/ Spurious(t)
  BY <1>2 DEF Step
<1>3. CASE \E t \in Tasks : Return(t) \/ SelfStarter(t)
  BY <1>3 DEF Step, Threads
<1> QED
  BY <1>1, <1>2, <1>3 DEF Next

USE ThreadAssumption, NumberAssumption DEF Threads

\* The arguments of the calls in progress: what the bodies of the calls may
\* rely on.
CallArgs ==
    \A t \in Threads :
        /\ op[t].name = "taskPrioritySet" => op[t].tid \in Tasks /\ op[t].pri \in Prios
        /\ op[t].name = "taskActivate" => op[t].tid \in Tasks
        /\ op[t].name = "return" => t \in Tasks

TypeInv == TypeOK /\ CallArgs

\* The type invariant, with the arguments of calls, is inductive.
LEMMA TypeStep == TypeInv /\ [Next]_vars => TypeInv'
<1> SUFFICES ASSUME TypeInv, [Next]_vars PROVE TypeInv'
  OBVIOUS
<1> USE DEF TypeInv, TypeOK, CallArgs, PCs
<1>n. NoCall \in Ops /\ NoCall.name = "none"
  BY DEF NoCall, Ops
<1>p. Prios \cup {MaxPrio} \subseteq 0 .. MaxPrio
  OBVIOUS
<1>1. CASE UNCHANGED vars
  BY <1>1 DEF vars
<1>2. ASSUME NEW t \in Threads, Step(t) PROVE TypeInv'
  <2> USE <1>2
  <2>1. CASE Enters(t)
    <3>1. PICK name \in CallNames, tid \in Tasks \cup {NULL}, pri \in Prios \cup {0} :
             Enter(t, name, tid, pri) /\ ValidArgs(name, tid, pri)
      BY <2>1 DEF Enters
    <3>2. Held(t) \in 0 .. ULongMax
      BY DEF Held
    <3>3. [name |-> name, tid |-> tid, pri |-> pri, held |-> Held(t)] \in Ops
      BY <3>2 DEF Ops
    <3> QED BY <3>1, <3>3 DEF Enter, ValidArgs
  <2>2. CASE Grant(t)
    BY <2>2 DEF Grant, Broadcast
  <2>3. CASE Wait(t) \/ Spurious(t)
    BY <2>3 DEF Wait, Spurious
  <2>4. CASE Boost(t)
    BY <2>4, <1>n, <1>p DEF Boost, HasTcb
  <2>5. CASE UnlockOutermost(t)
    <3>1. pc' \in [Threads -> PCs]
      BY <2>5 DEF UnlockOutermost, Returned, Broadcast, PCs
    <3>2. attr' \in [Tasks -> Prios \cup {MaxPrio}] /\ real' \in [Threads -> 0 .. MaxPrio]
      BY <2>5, <1>p DEF UnlockOutermost, HasTcb
    <3>3. inherited' \in SUBSET Tasks /\ locker' = NULL /\ level' = 0
      BY <2>5 DEF UnlockOutermost
    <3>4. op' \in [Threads -> Ops] /\ CallArgs'
      BY <2>5, <1>n DEF UnlockOutermost
    <3> QED BY <2>5, <3>1, <3>2, <3>3, <3>4 DEF UnlockOutermost
  <2>13. CASE UnlockNested(t)
    BY <2>13, <1>n DEF UnlockNested, Returned
  <2>6. CASE TaskPrioritySet(t)
    BY <2>6, <1>p DEF TaskPrioritySet, HasTcb, InBody, ToUnlock
  <2>7. CASE KernelTimeSlice(t)
    BY <2>7, <1>p DEF KernelTimeSlice, HasTcb, InBody, ToUnlock
  <2>8. CASE TaskActivate(t) \/ TaskActivateFails(t)
    <3>1. op[t].tid \in Tasks
      BY <2>8 DEF TaskActivate, TaskActivateFails, InBody
    <3>2. CASE TaskActivate(t)
      BY <3>1, <3>2 DEF TaskActivate, InBody, ToUnlock
    <3>3. CASE TaskActivateFails(t)
      BY <3>1, <3>3 DEF TaskActivateFails, InBody, ToUnlock
    <3> QED BY <2>8, <3>2, <3>3
  <2>9. CASE TaskRestartSelf(t) \/ TaskRestartUnknown(t)
    BY <2>9, <1>n DEF TaskRestartSelf, TaskRestartUnknown, Cleanup, InBody, HasTcb
  <2>10. CASE DeleteSelf(t)
    BY <2>10 DEF DeleteSelf, InBody, ToUnlock
  <2>11. CASE t \in Tasks /\ Return(t)
    <3>1. [name |-> "return", tid |-> t, pri |-> 0, held |-> 0] \in Ops
      BY <2>11 DEF Ops, CallNames
    <3> QED BY <2>11, <3>1 DEF Return, Cleanup
  <2>12. CASE t \in Tasks /\ SelfStarter(t)
    BY <2>12 DEF SelfStarter
  <2> QED
    BY <2>1, <2>2, <2>3, <2>4, <2>5, <2>6, <2>7, <2>8, <2>9, <2>10, <2>11, <2>12, <2>13
       DEF Step, Progress
<1> QED
  BY <1>1, <1>2, NextIsStep

-----------------------------------------------------------------------------
\* What each place in the code says of the call in progress.
CallInv ==
    \A t \in Threads :
        /\ pc[t] \in {"run", "none"} => op[t].name = "none"
        /\ pc[t] \in {"lock", "wait", "boost"} => op[t].name \notin {"none", "taskUnlock"}
        /\ pc[t] = "body" => op[t].name \notin {"none", "taskLock", "taskUnlock"}

\* A task has a thread exactly from taskActivate until it ends, and one whose
\* entry point returned holds the scheduler lock at most once.
ThreadInv ==
    /\ \A t \in Tasks :
         /\ tstate[t] \in {"DEAD", "RESTART"} => pc[t] = "none"
         /\ tstate[t] = "GONE" =>
              \/ pc[t] = "none"
              \/ pc[t] = "unlock" /\ op[t].name = "return"
    /\ \A t \in Threads :
         op[t].name = "return" =>
            /\ locker = t => pc[t] \in {"boost", "body", "unlock"} /\ level = 1
            /\ pc[t] = "unlock" => tstate[t] = "GONE"

LockInv == TypeInv /\ MutualExclusion /\ CallInv /\ ThreadInv

\* LockInv is inductive.
LEMMA LockStep == LockInv /\ [Next]_vars => LockInv'
<1> SUFFICES ASSUME LockInv, [Next]_vars PROVE LockInv'
  OBVIOUS
<1>0. TypeInv /\ TypeInv'
  BY TypeStep DEF LockInv
<1> SUFFICES MutualExclusion' /\ CallInv' /\ ThreadInv'
  BY <1>0 DEF LockInv
<1> USE DEF LockInv, MutualExclusion, CallInv, ThreadInv
<1>n. NoCall.name = "none"
  BY DEF NoCall
<1>t. /\ locker \in Threads \cup {NULL} /\ level \in 0 .. ULongMax
      /\ pc \in [Threads -> PCs] /\ op \in [Threads -> Ops]
      /\ tstate \in [Tasks -> {"DEAD", "READY", "RESTART", "GONE"}]
  BY <1>0 DEF TypeInv, TypeOK
<1>1. CASE UNCHANGED vars
  BY <1>1 DEF vars
<1>2. ASSUME NEW t \in Threads, Step(t)
      PROVE  MutualExclusion' /\ CallInv' /\ ThreadInv'
  <2> USE <1>2, <1>t
  <2>1. CASE Enters(t)
    <3>1. PICK name \in CallNames, tid \in Tasks \cup {NULL}, pri \in Prios \cup {0} :
             Enter(t, name, tid, pri) /\ ValidArgs(name, tid, pri)
      BY <2>1 DEF Enters
    <3>2. op' = [op EXCEPT ![t] = op'[t]] /\ op'[t].name = name
      BY <3>1 DEF Enter
    <3> QED BY <3>1, <3>2 DEF Enter, ValidArgs, CallNames
  <2>2. CASE Grant(t)
    BY <2>2 DEF Grant, Broadcast
  <2>3. CASE Wait(t) \/ Spurious(t)
    BY <2>3 DEF Wait, Spurious
  <2>4. CASE Boost(t)
    BY <2>4, <1>n DEF Boost
  <2>5. CASE UnlockOutermost(t)
    BY <2>5, <1>n DEF UnlockOutermost, Returned, HasTcb, Broadcast
  <2>6. CASE UnlockNested(t)
    BY <2>6, <1>n DEF UnlockNested, Returned, HasTcb
  <2>7. CASE TaskPrioritySet(t)
    BY <2>7 DEF TaskPrioritySet, InBody, ToUnlock
  <2>8. CASE KernelTimeSlice(t)
    BY <2>8 DEF KernelTimeSlice, InBody, ToUnlock
  <2>9. CASE TaskActivate(t)
    <3>1. op[t].tid \in Tasks
      BY <2>9, <1>0 DEF TypeInv, CallArgs, TaskActivate, InBody
    <3> QED BY <2>9, <3>1 DEF TaskActivate, InBody, ToUnlock
  <2>10. CASE TaskActivateFails(t)
    <3>1. op[t].tid \in Tasks
      BY <2>10, <1>0 DEF TypeInv, CallArgs, TaskActivateFails, InBody
    <3> QED BY <2>10, <3>1 DEF TaskActivateFails, InBody, ToUnlock
  <2>11. CASE TaskRestartSelf(t) \/ TaskRestartUnknown(t)
    BY <2>11, <1>n DEF TaskRestartSelf, TaskRestartUnknown, Cleanup, InBody, HasTcb
  <2>12. CASE DeleteSelf(t)
    <3>1. t \in Tasks
      BY <2>12, <1>0 DEF TypeInv, CallArgs, DeleteSelf, InBody
    <3> QED BY <2>12, <3>1 DEF DeleteSelf, InBody, ToUnlock
  <2>13. CASE t \in Tasks /\ Return(t)
    <3>1. op' = [op EXCEPT ![t] = op'[t]] /\ op'[t].name = "return"
      BY <2>13 DEF Return
    <3> QED BY <2>13, <3>1 DEF Return, Cleanup
  <2>14. CASE t \in Tasks /\ SelfStarter(t)
    BY <2>14 DEF SelfStarter
  <2> QED
    BY <2>1, <2>2, <2>3, <2>4, <2>5, <2>6, <2>7, <2>8, <2>9, <2>10, <2>11, <2>12,
       <2>13, <2>14 DEF Step, Progress
<1> QED
  BY <1>1, <1>2, NextIsStep

\* Initially nobody has the scheduler locked and only the root task runs.
LEMMA LockInit == Init => LockInv
<1> SUFFICES ASSUME Init PROVE LockInv
  OBVIOUS
<1>n. NoCall \in Ops /\ NoCall.name = "none"
  BY DEF NoCall, Ops
<1>1. TypeInv
  BY <1>n DEF Init, TypeInv, TypeOK, CallArgs, PCs
<1>2. MutualExclusion /\ CallInv /\ ThreadInv
  BY <1>n DEF Init, MutualExclusion, CallInv, ThreadInv
<1> QED
  BY <1>1, <1>2 DEF LockInv

\* The variables of the scheduler lock keep their types, whatever calls the
\* threads make.
THEOREM TypeCorrect == Spec => []TypeOK
<1>1. LockInv => TypeOK
  BY DEF LockInv, TypeInv
<1> QED
  BY <1>1, LockInit, LockStep, PTL DEF Spec

\* No two threads are between taskLock and taskUnlock of library calls, and
\* the scheduler is never left locked by a thread that has ended.
THEOREM SchedulerLockExclusive == Spec => []MutualExclusion
<1>1. LockInv => MutualExclusion
  BY DEF LockInv
<1> QED
  BY <1>1, LockInit, LockStep, PTL DEF Spec

-----------------------------------------------------------------------------
\* PriorityDiscipline is preserved: the actions that change a priority are the
\* locker's, and those that give the lock up restore it or end the thread.
LEMMA PriorityStep ==
    LockInv /\ PriorityDiscipline /\ [Next]_vars => PriorityDiscipline'
<1> SUFFICES ASSUME LockInv, PriorityDiscipline, [Next]_vars
             PROVE  PriorityDiscipline'
  OBVIOUS
<1> USE DEF PriorityDiscipline
<1>n. NoCall.name = "none"
  BY DEF NoCall
<1>t. TypeOK /\ CallArgs
  BY DEF LockInv, TypeInv
<1>1. CASE UNCHANGED vars
  BY <1>1 DEF vars
<1>2. ASSUME NEW t \in Threads, Step(t) PROVE PriorityDiscipline'
  <2> USE <1>2, <1>t DEF TypeOK
  <2>1. CASE Enters(t)
    <3>1. PICK name \in CallNames, tid \in Tasks \cup {NULL}, pri \in Prios \cup {0} :
             Enter(t, name, tid, pri) /\ ValidArgs(name, tid, pri)
      BY <2>1 DEF Enters
    <3>2. op[t].name = "none"
      BY <3>1 DEF Enter, LockInv, CallInv
    <3> QED BY <3>1, <3>2 DEF Enter
  <2>2. CASE Grant(t)
    BY <2>2 DEF Grant
  <2>3. CASE Wait(t) \/ Spurious(t)
    BY <2>3 DEF Wait, Spurious
  <2>4. CASE Boost(t)
    <3>1. locker = t
      BY <2>4 DEF Boost, LockInv, MutualExclusion
    <3> QED BY <2>4, <3>1, <1>n DEF Boost
  <2>5. CASE UnlockOutermost(t)
    BY <2>5, <1>n DEF UnlockOutermost, HasTcb
  <2>6. CASE UnlockNested(t)
    <3>1. op[t].name = "return" /\ t \in Tasks => tstate[t] = "GONE"
      BY <2>6 DEF UnlockNested, LockInv, ThreadInv
    <3> QED BY <2>6, <3>1, <1>n DEF UnlockNested
  <2>7. CASE TaskPrioritySet(t)
    <3>1. locker = t /\ op[t].tid \in Tasks
      BY <2>7 DEF TaskPrioritySet, InBody, LockInv, MutualExclusion, CallArgs
    <3> QED BY <2>7, <3>1 DEF TaskPrioritySet, HasTcb
  <2>8. CASE KernelTimeSlice(t)
    BY <2>8 DEF KernelTimeSlice, HasTcb
  <2>9. CASE TaskActivate(t)
    <3>1. op[t].tid \in Tasks
      BY <2>9 DEF TaskActivate, InBody, CallArgs
    <3> QED BY <2>9, <3>1 DEF TaskActivate
  <2>10. CASE TaskActivateFails(t)
    BY <2>10 DEF TaskActivateFails
  <2>11. CASE TaskRestartSelf(t)
    BY <2>11 DEF TaskRestartSelf, Cleanup
  <2>12. CASE TaskRestartUnknown(t)
    <3>1. locker = t
      BY <2>12 DEF TaskRestartUnknown, InBody, LockInv, MutualExclusion
    <3> QED BY <2>12, <3>1 DEF TaskRestartUnknown
  <2>13. CASE DeleteSelf(t)
    BY <2>13 DEF DeleteSelf
  <2>14. CASE t \in Tasks /\ Return(t)
    BY <2>14 DEF Return, Cleanup
  <2>15. CASE t \in Tasks /\ SelfStarter(t)
    BY <2>15 DEF SelfStarter
  <2> QED
    BY <2>1, <2>2, <2>3, <2>4, <2>5, <2>6, <2>7, <2>8, <2>9, <2>10, <2>11, <2>12,
       <2>13, <2>14, <2>15 DEF Step, Progress
<1> QED
  BY <1>1, <1>2, NextIsStep

\* A task runs at another priority than its own only while it has the
\* scheduler locked, once its thread's priority has been set at all.
THEOREM PrioritiesRestored == Spec => []PriorityDiscipline
<1>1. Init => PriorityDiscipline
  BY DEF Init, PriorityDiscipline
<1> QED
  BY <1>1, PriorityStep, LockInit, LockStep, PTL DEF Spec

-----------------------------------------------------------------------------
\* When no thread ends while it has the scheduler locked, whoever unlocks it
\* wakes all the threads that wait for it.
THEOREM NoWakeupLost ==
    ASSUME Calls \cap {"taskRestart", "return"} = {}
    PROVE  Spec => []NoLostWakeup
<1> DEFINE NoEnd == \A t \in Threads : op[t].name \notin {"taskRestart", "return"}
           W == NoEnd /\ NoLostWakeup
<1>1. Init => W
  <2>1. NoCall.name = "none"
    BY DEF NoCall
  <2> QED BY <2>1 DEF Init, NoLostWakeup
<1>2. LockInv /\ W /\ [Next]_vars => W'
  <2> SUFFICES ASSUME LockInv, W, [Next]_vars PROVE W'
    OBVIOUS
  <2> USE DEF NoLostWakeup
  <2>n. NoCall.name = "none"
    BY DEF NoCall
  <2>t. TypeOK
    BY DEF LockInv, TypeInv
  <2>1. CASE UNCHANGED vars
    BY <2>1 DEF vars
  <2>2. ASSUME NEW t \in Threads, Step(t) PROVE W'
    <3> USE <2>2, <2>t DEF TypeOK
    <3>1. CASE Enters(t)
      <4>1. PICK name \in CallNames, tid \in Tasks \cup {NULL}, pri \in Prios \cup {0} :
               Enter(t, name, tid, pri)
        BY <3>1 DEF Enters
      <4>2. name \notin {"taskRestart", "return"}
        BY <4>1 DEF Enter
      <4> QED BY <4>1, <4>2 DEF Enter
    <3>2. CASE Grant(t)
      BY <3>2 DEF Grant, Broadcast
    <3>3. CASE Wait(t) \/ Spurious(t)
      BY <3>3 DEF Wait, Spurious
    <3>4. CASE Boost(t)
      BY <3>4, <2>n DEF Boost
    <3>5. CASE UnlockOutermost(t)
      BY <3>5, <2>n DEF UnlockOutermost, Returned, Broadcast
    <3>6. CASE UnlockNested(t)
      BY <3>6, <2>n DEF UnlockNested, Returned
    <3>7. CASE TaskPrioritySet(t) \/ KernelTimeSlice(t) \/ TaskActivateFails(t)
      BY <3>7 DEF TaskPrioritySet, KernelTimeSlice, TaskActivateFails, ToUnlock
    <3>8. CASE TaskActivate(t)
      BY <3>8 DEF TaskActivate, ToUnlock
    <3>9. CASE TaskRestartSelf(t) \/ TaskRestartUnknown(t) \/ DeleteSelf(t)
      BY <3>9 DEF TaskRestartSelf, TaskRestartUnknown, DeleteSelf, InBody
    <3>10. CASE t \in Tasks /\ Return(t)
      BY <3>10 DEF Return
    <3>11. CASE t \in Tasks /\ SelfStarter(t)
      BY <3>11 DEF SelfStarter
    <3> QED
      BY <3>1, <3>2, <3>3, <3>4, <3>5, <3>6, <3>7, <3>8, <3>9, <3>10, <3>11
         DEF Step, Progress
  <2> QED
    BY <2>1, <2>2, NextIsStep
<1> QED
  BY <1>1, <1>2, LockInit, LockStep, PTL DEF Spec

-----------------------------------------------------------------------------
\* taskLock, taskUnlock and the ends of threads implement the recursive lock:
\* Grant is Lock, the two taskUnlocks are Unlock or nothing, and the cleanup
\* handler of a thread that ends is Die or nothing.
THEOREM Refinement == Spec => ImplementsLock
<1>1. Init => Abs!AbsInit
  BY DEF Init, Abs!AbsInit
<1>2. LockInv /\ [Next]_vars => [Abs!AbsNext]_(Abs!absVars)
  <2> SUFFICES ASSUME LockInv, [Next]_vars
               PROVE  Abs!AbsNext \/ UNCHANGED <<locker, level>>
    BY DEF Abs!absVars
  <2> USE DEF Abs!AbsNext, Abs!Lock, Abs!Unlock, Abs!Die
  <2>t. level \in 0 .. ULongMax /\ (locker = NULL <=> level = 0)
    BY DEF LockInv, TypeInv, TypeOK, MutualExclusion
  <2>1. CASE UNCHANGED vars
    BY <2>1 DEF vars
  <2>2. ASSUME NEW t \in Threads, Step(t)
        PROVE  Abs!AbsNext \/ UNCHANGED <<locker, level>>
    <3> USE <2>2, <2>t
    <3>1. CASE Enters(t)
      BY <3>1 DEF Enters, Enter
    <3>2. CASE Grant(t)
      BY <3>2 DEF Grant
    <3>3. CASE Wait(t) \/ Spurious(t) \/ Boost(t)
      BY <3>3 DEF Wait, Spurious, Boost
    <3>4. CASE UnlockOutermost(t)
      BY <3>4 DEF UnlockOutermost
    <3>5. CASE UnlockNested(t)
      BY <3>5 DEF UnlockNested
    <3>6. CASE \/ TaskPrioritySet(t) \/ KernelTimeSlice(t) \/ TaskActivate(t)
               \/ TaskActivateFails(t) \/ TaskRestartUnknown(t) \/ DeleteSelf(t)
      BY <3>6 DEF TaskPrioritySet, KernelTimeSlice, TaskActivate,
                  TaskActivateFails, TaskRestartUnknown, DeleteSelf
    <3>7. CASE TaskRestartSelf(t)
      BY <3>7 DEF TaskRestartSelf, Cleanup
    <3>8. CASE t \in Tasks /\ Return(t)
      BY <3>8 DEF Return, Cleanup
    <3>9. CASE t \in Tasks /\ SelfStarter(t)
      BY <3>9 DEF SelfStarter
    <3> QED
      BY <3>1, <3>2, <3>3, <3>4, <3>5, <3>6, <3>7, <3>8, <3>9 DEF Step, Progress
  <2> QED
    BY <2>1, <2>2, NextIsStep
<1> QED
  BY <1>1, <1>2, LockInit, LockStep, PTL DEF Spec, ImplementsLock, Abs!AbsSpec

-----------------------------------------------------------------------------
(***************************************************************************)
(* The levels of the scheduler lock that a call takes and gives back.      *)
(***************************************************************************)
\* A call that has not got the lock yet leaves its caller as it found it, one
\* that has got it has added one level, whatever other threads have done since.
DepthInv ==
    \A t \in Threads :
        op[t].name \notin {"none", "taskLock", "taskUnlock"} /\ op[t].held < ULongMax =>
            /\ op[t].name # "taskRestart"
            /\ pc[t] \in {"lock", "wait"} => Held(t) = op[t].held
            /\ pc[t] \in {"boost", "body", "unlock"} => locker = t /\ level = op[t].held + 1

\* A step of one thread leaves alone what the calls of the others rely on.
OtherDepth(t) ==
    \A u \in Threads \ {t} :
        /\ op'[u] = op[u]
        /\ \/ pc'[u] = pc[u]
           \/ pc[u] = "wait" /\ pc'[u] = "lock"
           \/ pc[u] = "none" /\ pc'[u] = "run"
        /\ Held(u)' = Held(u) /\ (locker = u => locker' = u)

\* A step takes no level from another thread and gives it none, and moves it on
\* only from its sleep, or to its first place.
LEMMA DepthOthers == ASSUME LockInv, NEW t \in Threads, Step(t) PROVE OtherDepth(t)
<1>t. /\ locker \in Threads \cup {NULL} /\ level \in 0 .. ULongMax
      /\ pc \in [Threads -> PCs] /\ op \in [Threads -> Ops]
      /\ locker = NULL <=> level = 0
      /\ \A u \in Threads : pc[u] \in {"boost", "body"} => locker = u
      /\ \A u \in Tasks : tstate[u] \in {"DEAD", "RESTART"} => pc[u] = "none"
  BY DEF LockInv, TypeInv, TypeOK, MutualExclusion, ThreadInv
<1> USE <1>t DEF OtherDepth, Held
<1>1. CASE Enters(t)
  BY <1>1 DEF Enters, Enter
<1>2. CASE Grant(t)
  BY <1>2 DEF Grant, Broadcast
<1>3. CASE Wait(t) \/ Spurious(t) \/ Boost(t)
  BY <1>3 DEF Wait, Spurious, Boost
<1>4. CASE UnlockOutermost(t)
  BY <1>4 DEF UnlockOutermost, Broadcast
<1>5. CASE UnlockNested(t)
  BY <1>5 DEF UnlockNested
<1>6. CASE TaskPrioritySet(t) \/ KernelTimeSlice(t) \/ TaskActivateFails(t) \/ DeleteSelf(t)
  BY <1>6 DEF TaskPrioritySet, KernelTimeSlice, TaskActivateFails, DeleteSelf, ToUnlock
<1>7. CASE TaskActivate(t)
  <2>1. op[t].tid \in Tasks
    BY <1>7 DEF LockInv, TypeInv, CallArgs, TaskActivate, InBody
  <2> QED
    BY <1>7, <2>1 DEF TaskActivate, ToUnlock
<1>8. CASE TaskRestartSelf(t) \/ TaskRestartUnknown(t)
  BY <1>8 DEF TaskRestartSelf, TaskRestartUnknown, Cleanup
<1>9. CASE t \in Tasks /\ (Return(t) \/ SelfStarter(t))
  BY <1>9 DEF Return, SelfStarter, Cleanup
<1> QED
  BY <1>1, <1>2, <1>3, <1>4, <1>5, <1>6, <1>7, <1>8, <1>9 DEF Step, Progress

\* Calls keep the depth of their callers, if none of them is a taskRestart, which
\* returns from under the lock when it does not know the task.
NoRestart == "taskRestart" \notin Calls

\* The thread that takes the step.
OwnDepth(t) ==
    op'[t].name \notin {"none", "taskLock", "taskUnlock"} /\ op'[t].held < ULongMax =>
        /\ op'[t].name # "taskRestart"
        /\ pc'[t] \in {"lock", "wait"} => Held(t)' = op'[t].held
        /\ pc'[t] \in {"boost", "body", "unlock"} => locker' = t /\ level' = op'[t].held + 1

OwnBalance(t) ==
    /\ op[t].name \notin {"none", "taskLock", "taskUnlock"}
    /\ op[t].held < ULongMax
    /\ pc'[t] = "run"
    => Held(t)' = op[t].held

\* The thread that takes the step keeps its part of DepthInv, and if it returns
\* from its call it holds as many levels as when it entered it.
LEMMA DepthOwn ==
    ASSUME NoRestart, LockInv, DepthInv, NEW t \in Threads, Step(t)
    PROVE  OwnDepth(t) /\ OwnBalance(t)
<1>t. /\ locker \in Threads \cup {NULL} /\ level \in 0 .. ULongMax
      /\ pc \in [Threads -> PCs] /\ op \in [Threads -> Ops]
      /\ locker = NULL <=> level = 0
      /\ pc[t] \in {"run", "none"} => op[t].name = "none"
      /\ pc[t] = "body" => op[t].name \notin {"none", "taskLock", "taskUnlock"}
      /\ t \in Tasks /\ tstate[t] \in {"DEAD", "RESTART"} => pc[t] = "none"
  BY DEF LockInv, TypeInv, TypeOK, MutualExclusion, CallInv, ThreadInv
<1>h. op[t].held \in 0 .. ULongMax
  BY <1>t DEF Ops
<1>d. op[t].name \notin {"none", "taskLock", "taskUnlock"} /\ op[t].held < ULongMax =>
        /\ op[t].name # "taskRestart"
        /\ pc[t] \in {"lock", "wait"} => Held(t) = op[t].held
        /\ pc[t] \in {"boost", "body", "unlock"} => locker = t /\ level = op[t].held + 1
  BY DEF DepthInv
<1>n. NoCall.name = "none"
  BY DEF NoCall
<1> USE <1>t, <1>h, <1>d DEF OwnDepth, OwnBalance, Held
<1>1. CASE Enters(t)
  <2>1. PICK name \in CallNames, tid \in Tasks \cup {NULL}, pri \in Prios \cup {0} :
           Enter(t, name, tid, pri) /\ ValidArgs(name, tid, pri)
    BY <1>1 DEF Enters
  <2>2. op'[t].name = name /\ op'[t].held = Held(t) /\ op[t].name = "none"
        /\ name # "taskRestart" /\ locker' = locker /\ level' = level
    BY <2>1 DEF Enter, NoRestart
  <2>3. name \notin {"none", "taskUnlock"} => pc'[t] = "lock"
    BY <2>1 DEF Enter
  <2> QED
    BY <2>2, <2>3
<1>2. CASE Grant(t)
  BY <1>2 DEF Grant, Broadcast
<1>3. CASE Wait(t) \/ Spurious(t)
  BY <1>3 DEF Wait, Spurious
<1>4. CASE Boost(t)
  BY <1>4, <1>n DEF Boost
<1>5. CASE UnlockOutermost(t)
  BY <1>5, <1>n DEF UnlockOutermost, Broadcast
<1>6. CASE UnlockNested(t)
  BY <1>6, <1>n DEF UnlockNested
<1>7. CASE TaskPrioritySet(t) \/ KernelTimeSlice(t) \/ TaskActivateFails(t) \/ DeleteSelf(t)
  BY <1>7 DEF TaskPrioritySet, KernelTimeSlice, TaskActivateFails, DeleteSelf, ToUnlock, InBody
<1>8. CASE TaskActivate(t)
  <2>1. op[t].tid \in Tasks /\ (tstate[op[t].tid] = "DEAD" => pc[op[t].tid] = "none")
    BY <1>8 DEF LockInv, TypeInv, CallArgs, ThreadInv, TaskActivate, InBody
  <2>2. pc'[t] = "unlock" /\ op'[t] = op[t] /\ locker' = locker /\ level' = level
    BY <1>8, <2>1 DEF TaskActivate, ToUnlock, InBody
  <2> QED
    BY <1>8, <2>2 DEF TaskActivate, InBody
<1>9. CASE TaskRestartSelf(t) \/ TaskRestartUnknown(t)
  BY <1>9, <1>n DEF TaskRestartSelf, TaskRestartUnknown, InBody
<1>10. CASE t \in Tasks /\ Return(t)
  <2>1. op'[t].name = "return" /\ op'[t].held = 0 /\ pc'[t] = "lock" /\ op[t].name = "none"
    BY <1>10 DEF Return
  <2>2. Held(t)' = 0
    BY <1>10 DEF Return, Cleanup
  <2> QED
    BY <2>1, <2>2
<1>11. CASE t \in Tasks /\ SelfStarter(t)
  BY <1>11 DEF SelfStarter
<1> QED
  BY <1>1, <1>2, <1>3, <1>4, <1>5, <1>6, <1>7, <1>8, <1>9, <1>10, <1>11 DEF Step, Progress

(***************************************************************************)
(* Every library call that is not a taskLock or a taskUnlock returns with  *)
(* the scheduler locked exactly as deeply as when it was entered, through  *)
(* every wait for the lock and whatever the other threads do, tasks that   *)
(* return included.  taskRestart is left out: of an id that it does not    *)
(* know it returns without unlocking.                                      *)
(***************************************************************************)
THEOREM CallsKeepDepth == ASSUME NoRestart PROVE Spec => CallsAreBalanced
<1>1. Init => DepthInv
  <2>1. NoCall.name = "none"
    BY DEF NoCall
  <2> QED
    BY <2>1 DEF Init, DepthInv
<1>2. LockInv /\ DepthInv /\ [Next]_vars => DepthInv' /\ [BalancedStep]_vars
  <2> SUFFICES ASSUME LockInv, DepthInv, [Next]_vars
               PROVE  DepthInv' /\ [BalancedStep]_vars
    OBVIOUS
  <2>1. CASE UNCHANGED vars
    BY <2>1 DEF vars, DepthInv, Held
  <2>2. ASSUME NEW t \in Threads, Step(t) PROVE DepthInv' /\ BalancedStep
    <3>1. OwnDepth(t) /\ OwnBalance(t) /\ OtherDepth(t)
      BY <2>2, DepthOwn, DepthOthers
    <3>2. ASSUME NEW u \in Threads \ {t}
          PROVE  op[u].name \notin {"none", "taskLock", "taskUnlock"} => pc'[u] # "run"
      BY <3>1, <3>2 DEF OtherDepth, LockInv, CallInv
    <3>3. BalancedStep
      BY <3>1, <3>2 DEF BalancedStep, OwnBalance
    <3>4. ASSUME NEW u \in Threads,
                 op'[u].name \notin {"none", "taskLock", "taskUnlock"}, op'[u].held < ULongMax
          PROVE  /\ op'[u].name # "taskRestart"
                 /\ pc'[u] \in {"lock", "wait"} => Held(u)' = op'[u].held
                 /\ pc'[u] \in {"boost", "body", "unlock"}
                      => locker' = u /\ level' = op'[u].held + 1
      <4>1. CASE u = t
        BY <3>1, <3>4, <4>1 DEF OwnDepth
      <4>2. CASE u # t
        <5>1. op'[u] = op[u] /\ Held(u)' = Held(u) /\ (locker = u => locker' = u)
          BY <3>1, <4>2 DEF OtherDepth
        <5>2. /\ pc'[u] \in {"lock", "wait"} => pc[u] \in {"lock", "wait"}
              /\ pc'[u] \in {"boost", "body", "unlock"} => pc[u] = pc'[u]
          BY <3>1, <4>2 DEF OtherDepth
        <5>3. locker = u => level' = level
          BY <5>1 DEF Held
        <5> QED
          BY <3>4, <5>1, <5>2, <5>3 DEF DepthInv
      <4> QED
        BY <4>1, <4>2
    <3>5. DepthInv'
      BY <3>4 DEF DepthInv
    <3> QED
      BY <3>3, <3>5
  <2> QED
    BY <2>1, <2>2, NextIsStep
<1> QED
  BY <1>1, <1>2, LockInit, LockStep, PTL DEF Spec, CallsAreBalanced
=============================================================================
