-------------------------- MODULE MsgQueue_proofs --------------------------
(***************************************************************************)
(* Proofs about MsgQueue, for any tasks, messages and sizes.               *)
(***************************************************************************)
EXTENDS MsgQueue, FiniteSetTheorems, SequenceTheorems, TLAPS

USE TaskAssumption, QueueAssumption

\* Unlinking a task leaves a list of tasks.
LEMMA UnlinkedIsList ==
    ASSUME NEW s \in Seq(Tasks), NEW t
    PROVE  Unlinked(s, t) \in Seq(Tasks)
<1>1. CASE ~ \E i \in DOMAIN s : s[i] = t
  BY <1>1 DEF Unlinked
<1>2. CASE \E i \in DOMAIN s : s[i] = t
  <2> DEFINE k == CHOOSE i \in DOMAIN s : s[i] = t
  <2>1. k \in 1 .. Len(s)
    BY <1>2
  <2>2. Unlinked(s, t) = [j \in 1 .. Len(s) - 1 |-> IF j < k THEN s[j] ELSE s[j + 1]]
    BY <1>2 DEF Unlinked
  <2> HIDE DEF k
  <2> QED
    BY <2>1, <2>2
<1> QED
  BY <1>1, <1>2

-----------------------------------------------------------------------------
\* The type invariant, by the groups of variables that steps change together.
Ops == {"none", "msgQSend", "msgQReceive", "msgQNumMsgs", "msgQDelete"}

Args == [msg : Msgs \cup {NULL}, pri : {"NORMAL", "URGENT"},
         wait : {"FOREVER", "TIMED", "NO_WAIT"}, fits : BOOLEAN]

PlaceTypes == pc \in [Tasks -> PCs]

CallTypes ==
    /\ op \in [Tasks -> Ops]
    /\ arg \in [Tasks -> Args]
    /\ expired \in [Tasks -> BOOLEAN]
    /\ ret \in [Tasks -> {"OK", "ETIMEDOUT"}]

RingTypes ==
    /\ size \in Nat /\ order \in {"FIFO", "PRIORITY"}
    /\ ring \in [Slots -> Msgs \cup {NULL}]
    /\ head \in Slots /\ tail \in Slots
    /\ count \in Nat
    /\ delivered \in Msgs \cup {NULL}

StateTypes ==
    /\ status \in {"linked", "unlinked", "freed"}
    /\ sendType \in {"SEND", "URGNT", "KILLD"}

ListTypes == readers \in Seq(Tasks) /\ writers \in Seq(Tasks) /\ doomed \in SUBSET Tasks

LockTypes ==
    /\ listLock \in Tasks \cup {NULL} /\ queueLock \in Tasks \cup {NULL}
    /\ qdletLock \in Tasks \cup {NULL} /\ qfullLock \in BOOLEAN

SchedTypes ==
    /\ locker \in Tasks \cup {NULL} /\ level \in 0 .. 1
    /\ locker = NULL <=> level = 0

TypeInv ==
    /\ PlaceTypes /\ CallTypes /\ RingTypes /\ StateTypes /\ ListTypes /\ LockTypes
    /\ SchedTypes

LEMMA TypeInvIsTypeOK == TypeInv => TypeOK
BY DEF TypeInv, TypeOK, PlaceTypes, CallTypes, RingTypes, StateTypes, ListTypes,
       LockTypes, SchedTypes, Ops, Args

\* What leaves the variables of a group alone keeps their types.
LEMMA UnchangedPlace == PlaceTypes /\ UNCHANGED pc => PlaceTypes'
BY DEF PlaceTypes
LEMMA UnchangedCall == CallTypes /\ UNCHANGED local => CallTypes'
BY DEF CallTypes, local
LEMMA UnchangedRing == RingTypes /\ UNCHANGED <<fixed, ringVars, delivered>> => RingTypes'
BY DEF RingTypes, fixed, ringVars, Slots
LEMMA UnchangedState == StateTypes /\ UNCHANGED <<status, sendType>> => StateTypes'
BY DEF StateTypes
LEMMA UnchangedList == ListTypes /\ UNCHANGED <<lists, doomed>> => ListTypes'
BY DEF ListTypes, lists
LEMMA UnchangedLock == LockTypes /\ UNCHANGED locks => LockTypes'
BY DEF LockTypes, locks
LEMMA UnchangedSched == SchedTypes /\ UNCHANGED sched => SchedTypes'
BY DEF SchedTypes, sched

\* The moves of a task.
LEMMA GotoTypes ==
    ASSUME PlaceTypes, NEW t \in Tasks, NEW place \in PCs, Goto(t, place)
    PROVE  PlaceTypes'
BY DEF PlaceTypes, Goto

LEMMA ReturnTypes ==
    ASSUME CallTypes, NEW t \in Tasks, NEW p \in [Tasks -> PCs], Return(p, t)
    PROVE  PlaceTypes' /\ CallTypes'
<1>1. PlaceTypes'
  BY DEF PlaceTypes, Return, PCs
<1>2. NoArg \in Args
  BY DEF NoArg, Args
<1>3. CallTypes'
  BY <1>2 DEF CallTypes, Return, Ops
<1> QED
  BY <1>1, <1>3

LEMMA BroadcastTypes ==
    ASSUME PlaceTypes
    PROVE  /\ BroadcastSend(pc) \in [Tasks -> PCs]
           /\ BroadcastSpace(pc) \in [Tasks -> PCs]
           /\ BroadcastComplete(pc) \in [Tasks -> PCs]
BY DEF PlaceTypes, BroadcastSend, BroadcastSpace, BroadcastComplete, PCs, Touching

\* The steps on the ring.
LEMMA SlotTypes ==
    ASSUME RingTypes
    PROVE  /\ Up(tail) \in Slots /\ Up(head) \in Slots /\ Down(head) \in Slots
           /\ ring[head] \in Msgs \cup {NULL}
BY DEF RingTypes, Slots, Up, Down

LEMMA SendMsgToTypes ==
    ASSUME RingTypes, StateTypes, NEW m \in Msgs \cup {NULL}, SendMsgTo(m) \/ UrgentMsgTo(m),
           UNCHANGED <<fixed, status, delivered>>
    PROVE  RingTypes' /\ StateTypes'
<1>1. Slots' = Slots
  BY DEF Slots, fixed
<1>2. StateTypes'
  BY DEF StateTypes, SendMsgTo, UrgentMsgTo
<1>3. head' \in Slots /\ tail' \in Slots /\ count' \in Nat
  BY SlotTypes DEF SendMsgTo, UrgentMsgTo, RingTypes
<1>4. ring' \in [Slots -> Msgs \cup {NULL}]
  BY SlotTypes DEF SendMsgTo, UrgentMsgTo, RingTypes
<1> QED
  BY <1>1, <1>2, <1>3, <1>4 DEF RingTypes, fixed

LEMMA FetchMsgTypes ==
    ASSUME RingTypes, count > 0, FetchMsg, UNCHANGED fixed
    PROVE  RingTypes'
<1>1. Slots' = Slots
  BY DEF Slots, fixed
<1>2. head' \in Slots /\ tail' \in Slots /\ count' \in Nat /\ delivered' \in Msgs \cup {NULL}
  BY SlotTypes DEF FetchMsg, RingTypes
<1>3. ring' \in [Slots -> Msgs \cup {NULL}]
  BY DEF FetchMsg, RingTypes
<1> QED
  BY <1>1, <1>2, <1>3 DEF RingTypes, fixed

\* The compound steps.
LEMMA LookTypes ==
    ASSUME TypeInv, NEW t \in Tasks, NEW place \in PCs, NEW r \in {"OK", "ETIMEDOUT"},
           NEW lock \in BOOLEAN, Look(t, place, r, lock)
    PROVE  TypeInv'
<1> USE DEF TypeInv, Look
<1>1. PlaceTypes'
  BY GotoTypes
<1>2. CallTypes'
  BY DEF CallTypes
<1>3. LockTypes'
  BY DEF LockTypes
<1>4. RingTypes' /\ StateTypes' /\ ListTypes' /\ SchedTypes'
  BY UnchangedRing, UnchangedState, UnchangedList, UnchangedSched DEF history
<1> QED
  BY <1>1, <1>2, <1>3, <1>4

LEMMA LeaveKilledTypes ==
    ASSUME TypeInv, NEW t \in Tasks, NEW r \in Seq(Tasks), NEW w \in Seq(Tasks),
           LeaveKilled(t, r, w)
    PROVE  TypeInv'
<1> USE DEF TypeInv
<1>1. PlaceTypes' /\ CallTypes' /\ LockTypes'
  <2>1. CASE r = <<>> /\ w = <<>>
    <3>1. Goto(t, "notify") /\ queueLock' = t /\ UNCHANGED local
      BY <2>1 DEF LeaveKilled
    <3>2. PlaceTypes'
      BY <3>1, GotoTypes DEF PCs, Touching
    <3>3. LockTypes'
      BY <3>1 DEF LeaveKilled, LockTypes
    <3> QED
      BY <3>1, <3>2, <3>3, UnchangedCall
  <2>2. CASE ~(r = <<>> /\ w = <<>>)
    <3>1. Return(pc, t) /\ queueLock' = NULL
      BY <2>2 DEF LeaveKilled
    <3>2. PlaceTypes' /\ CallTypes'
      BY <3>1, ReturnTypes DEF PlaceTypes
    <3>3. LockTypes'
      BY <3>1 DEF LeaveKilled, LockTypes
    <3> QED
      BY <3>2, <3>3
  <2> QED
    BY <2>1, <2>2
<1>2. ListTypes'
  BY DEF LeaveKilled, ListTypes
<1>3. RingTypes' /\ StateTypes' /\ SchedTypes'
  BY UnchangedRing, UnchangedState, UnchangedSched DEF LeaveKilled
<1> QED
  BY <1>1, <1>2, <1>3

LEMMA SleepTypes ==
    ASSUME TypeInv, NEW t \in Tasks, NEW place \in PCs, Sleep(t, place)
    PROVE  TypeInv'
<1> USE DEF TypeInv, Sleep
<1>1. PlaceTypes'
  BY GotoTypes
<1>2. LockTypes'
  BY DEF LockTypes
<1> QED
  BY <1>1, <1>2, UnchangedCall, UnchangedRing, UnchangedState, UnchangedList,
     UnchangedSched DEF history

LEMMA BeginTypes ==
    ASSUME TypeInv, NEW t \in Tasks, NEW name \in Ops, NEW args \in Args,
           Begin(t, name, args)
    PROVE  TypeInv'
<1> USE DEF TypeInv
<1>1. PlaceTypes'
  BY GotoTypes DEF Begin, PCs
<1>2. CallTypes'
  <2>1. op' \in [Tasks -> Ops] /\ arg' \in [Tasks -> Args]
    BY DEF CallTypes, Begin
  <2>2. expired' \in [Tasks -> BOOLEAN] /\ ret' \in [Tasks -> {"OK", "ETIMEDOUT"}]
    BY DEF CallTypes, Begin
  <2> QED
    BY <2>1, <2>2 DEF CallTypes
<1> QED
  BY <1>1, <1>2, UnchangedRing, UnchangedState, UnchangedList, UnchangedLock,
     UnchangedSched DEF Begin, history

\* Steps that return, do nothing to the ring or the lists and may change locks.
LEMMA ReturnKeeps ==
    ASSUME TypeInv, NEW t \in Tasks, NEW p \in [Tasks -> PCs], Return(p, t),
           UNCHANGED <<fixed, status, ringVars, sendType, lists, history>>,
           LockTypes', SchedTypes'
    PROVE  TypeInv'
<1>1. PlaceTypes' /\ CallTypes'
  BY ReturnTypes DEF TypeInv
<1> QED
  BY <1>1, UnchangedRing, UnchangedState, UnchangedList DEF TypeInv, history

\* Steps that only move the task and may change locks.
LEMMA GotoKeeps ==
    ASSUME TypeInv, NEW t \in Tasks, NEW place \in PCs, Goto(t, place),
           UNCHANGED <<fixed, status, ringVars, sendType, lists, sched, local, history>>,
           LockTypes'
    PROVE  TypeInv'
<1>1. PlaceTypes'
  BY GotoTypes DEF TypeInv
<1> QED
  BY <1>1, UnchangedCall, UnchangedRing, UnchangedState, UnchangedList, UnchangedSched
     DEF TypeInv, history

LEMMA DeletingKeeps ==
    ASSUME TypeInv, NEW t \in Tasks, NEW p \in [Tasks -> PCs], NEW place \in PCs,
           Deleting(p, t, place),
           status' \in {"linked", "unlinked", "freed"}, LockTypes', SchedTypes'
    PROVE  TypeInv'
<1>1. PlaceTypes'
  BY DEF Deleting, PlaceTypes
<1>2. StateTypes'
  BY DEF Deleting, StateTypes, TypeInv
<1> QED
  BY <1>1, <1>2, UnchangedCall, UnchangedRing, UnchangedList DEF TypeInv, Deleting, history

LEMMA CallKeepsTypes == ASSUME TypeInv, NEW t \in Tasks, Call(t) PROVE TypeInv'
<1>1. NoArg \in Args
  BY DEF NoArg, Args
<1>2. CASE CallSend(t)
  <2>1. PICK m \in Msgs, p \in Pris, w \in SendWaits, f \in Fits :
            Begin(t, "msgQSend", [msg |-> m, pri |-> p, wait |-> w, fits |-> f])
    BY <1>2 DEF CallSend
  <2>2. [msg |-> m, pri |-> p, wait |-> w, fits |-> f] \in Args
    BY DEF Args
  <2> QED
    BY <2>1, <2>2, BeginTypes DEF Ops
<1>3. CASE CallReceive(t)
  <2>1. PICK w \in RecvWaits, f \in Fits :
            Begin(t, "msgQReceive", [NoArg EXCEPT !.wait = w, !.fits = f])
    BY <1>3 DEF CallReceive
  <2>2. [NoArg EXCEPT !.wait = w, !.fits = f] \in Args
    BY DEF Args, NoArg
  <2> QED
    BY <2>1, <2>2, BeginTypes DEF Ops
<1>4. CASE CallNumMsgs(t)
  BY <1>1, <1>4, BeginTypes DEF CallNumMsgs, Ops
<1>5. CASE CallDelete(t)
  BY <1>1, <1>5, BeginTypes DEF CallDelete, Ops
<1> QED
  BY <1>2, <1>3, <1>4, <1>5 DEF Call

LEMMA EntryKeepsTypes ==
    ASSUME TypeInv, NEW t \in Tasks,
           \/ FindMiss(t) \/ FindHit(t) \/ Enter(t) \/ BadLength(t) \/ NumMsgs(t)
           \/ SendRefused(t) \/ Notify(t) \/ Alert(t) \/ SchedUnlocked(t)
    PROVE  TypeInv'
<1> USE DEF TypeInv
<1>1. pc \in [Tasks -> PCs] /\ {"found", "locked"} \subseteq PCs
  BY DEF PlaceTypes, PCs, Touching
<1>2. CASE FindMiss(t)
  BY <1>1, <1>2, ReturnKeeps, UnchangedLock, UnchangedSched DEF FindMiss
<1>3. CASE FindHit(t)
  <2>1. LockTypes'
    BY <1>3 DEF FindHit, LockTypes
  <2> QED
    BY <1>1, <1>3, <2>1, GotoKeeps DEF FindHit
<1>4. CASE Enter(t)
  <2>1. LockTypes'
    BY <1>4 DEF Enter, LockTypes
  <2> QED
    BY <1>1, <1>4, <2>1, GotoKeeps DEF Enter
<1>5. CASE BadLength(t) \/ NumMsgs(t) \/ SendRefused(t)
  <2>1. LockTypes'
    BY <1>5 DEF BadLength, NumMsgs, SendRefused, LockTypes
  <2> QED
    BY <1>1, <1>5, <2>1, ReturnKeeps, UnchangedSched DEF BadLength, NumMsgs, SendRefused
<1>6. CASE Notify(t) \/ Alert(t)
  <2>1. LockTypes'
    BY <1>6 DEF Notify, Alert, LockTypes
  <2> QED
    BY <1>6, <2>1, ReturnKeeps, BroadcastTypes, UnchangedSched DEF Notify, Alert
<1>7. CASE SchedUnlocked(t)
  <2>1. SchedTypes'
    BY <1>7 DEF SchedUnlocked, SchedTypes, Sched!Unlock
  <2> QED
    BY <1>1, <1>7, <2>1, ReturnKeeps, UnchangedLock DEF SchedUnlocked
<1> QED
  BY <1>2, <1>3, <1>4, <1>5, <1>6, <1>7

LEMMA SendKeepsTypes ==
    ASSUME TypeInv, NEW t \in Tasks,
           SendNow(t) \/ SendWait(t) \/ RelockTimedOut(t) \/ RelockSend(t)
    PROVE  TypeInv'
<1> USE DEF TypeInv
<1>1. arg[t].msg \in Msgs \cup {NULL}
  BY DEF CallTypes, Args
<1>2. CASE SendNow(t)
  <2>2. SendMsgTo(arg[t].msg) \/ UrgentMsgTo(arg[t].msg)
    BY <1>2 DEF SendNow
  <2>3. RingTypes' /\ StateTypes'
    BY <1>1, <1>2, <2>2, SendMsgToTypes DEF SendNow, history
  <2>4. LockTypes'
    BY <1>2 DEF SendNow, LockTypes
  <2>5. PlaceTypes' /\ CallTypes'
    BY <1>2, ReturnTypes, BroadcastTypes DEF SendNow
  <2> QED
    BY <1>2, <2>3, <2>4, <2>5, UnchangedList, UnchangedSched DEF SendNow, history
<1>3. CASE SendWait(t)
  <2>1. LockTypes'
    BY <1>3 DEF SendWait, LockTypes
  <2>2. ListTypes'
    BY <1>3 DEF SendWait, ListTypes, history
  <2>3. PlaceTypes'
    BY <1>3, GotoTypes DEF SendWait, PCs, Touching
  <2> QED
    BY <1>3, <2>1, <2>2, <2>3, UnchangedCall, UnchangedRing, UnchangedState,
       UnchangedSched DEF SendWait, history
<1>4. ASSUME writers' = Unlinked(writers, t), doomed' = doomed \ {t}, UNCHANGED readers
      PROVE  ListTypes'
  BY <1>4, UnlinkedIsList DEF ListTypes
<1>5. CASE RelockTimedOut(t)
  <2>1. PlaceTypes' /\ CallTypes'
    BY <1>5, ReturnTypes DEF RelockTimedOut, PlaceTypes
  <2>2. ListTypes'
    BY <1>4, <1>5 DEF RelockTimedOut
  <2> QED
    BY <1>5, <2>1, <2>2, UnchangedRing, UnchangedState, UnchangedLock, UnchangedSched
       DEF RelockTimedOut
<1>6. CASE RelockSend(t)
  <2>1. PlaceTypes' /\ CallTypes'
    BY <1>6, ReturnTypes, BroadcastTypes DEF RelockSend
  <2>2. ListTypes'
    BY <1>4, <1>6 DEF RelockSend
  <2>3. RingTypes' /\ StateTypes'
    <3>1. SendMsgTo(arg[t].msg) \/ UrgentMsgTo(arg[t].msg)
      BY <1>6 DEF RelockSend
    <3> QED
      BY <1>1, <1>6, <3>1, SendMsgToTypes DEF RelockSend
  <2> QED
    BY <1>6, <2>1, <2>2, <2>3, UnchangedLock, UnchangedSched DEF RelockSend
<1> QED
  BY <1>2, <1>3, <1>5, <1>6

LEMMA SpaceKeepsTypes ==
    ASSUME TypeInv, NEW t \in Tasks,
           \/ SpaceKilled(t) \/ SpaceAlive(t) \/ SpaceFree(t) \/ SpaceNone(t)
           \/ SpaceMine(t) \/ SpaceNotMine(t) \/ SpaceDelayed(t)
           \/ SpaceSleep(t) \/ SpaceWake(t)
    PROVE  TypeInv'
<1>1. /\ {"relock", "loop", "mine", "doze", "spaceDelay", "spaceCond", "space"} \subseteq PCs
      /\ ret[t] \in {"OK", "ETIMEDOUT"} /\ qfullLock \in BOOLEAN
  BY DEF PCs, Touching, TypeInv, CallTypes, LockTypes
<1>2. \E place \in PCs, r \in {"OK", "ETIMEDOUT"}, lock \in BOOLEAN : Look(t, place, r, lock)
  <2>1. CASE SpaceKilled(t) \/ SpaceMine(t)
    BY <1>1, <2>1 DEF SpaceKilled, SpaceMine
  <2>2. CASE SpaceAlive(t) \/ SpaceFree(t)
    BY <1>1, <2>2 DEF SpaceAlive, SpaceFree
  <2>3. CASE SpaceNotMine(t) \/ SpaceSleep(t) \/ SpaceWake(t)
    BY <1>1, <2>3 DEF SpaceNotMine, SpaceSleep, SpaceWake
  <2>4. ASSUME NEW lock \in BOOLEAN, NoSpace(t, lock)
        PROVE  \E place \in PCs, r \in {"OK", "ETIMEDOUT"} : Look(t, place, r, lock)
    BY <1>1, <2>4 DEF NoSpace
  <2>5. CASE SpaceNone(t)
    BY <1>1, <2>4, <2>5 DEF SpaceNone
  <2>6. CASE SpaceDelayed(t)
    <3>1. CASE NoSpace(t, TRUE)
      BY <2>4, <3>1
    <3>2. CASE Look(t, "loop", ret[t], TRUE)
      BY <1>1, <3>2
    <3> QED
      BY <2>6, <3>1, <3>2 DEF SpaceDelayed
  <2> QED
    BY <2>1, <2>2, <2>3, <2>5, <2>6
<1> QED
  BY <1>2, LookTypes

LEMMA KilledKeepsTypes ==
    ASSUME TypeInv, NEW t \in Tasks,
           RelockKilled(t) \/ RecvKilled(t) \/ RecvMineKilled(t)
    PROVE  TypeInv'
<1>1. /\ readers \in Seq(Tasks) /\ writers \in Seq(Tasks)
      /\ Unlinked(readers, t) \in Seq(Tasks) /\ Unlinked(writers, t) \in Seq(Tasks)
  BY UnlinkedIsList DEF TypeInv, ListTypes
<1>2. \/ LeaveKilled(t, readers, Unlinked(writers, t))
      \/ LeaveKilled(t, Unlinked(readers, t), writers)
  BY DEF RelockKilled, RecvKilled, RecvMineKilled
<1> QED
  BY <1>1, <1>2, LeaveKilledTypes

LEMMA NoMsgTypes == ASSUME TypeInv, NEW t \in Tasks, NoMsg(t) PROVE TypeInv'
<1>1. CASE Sleep(t, "cond")
  BY <1>1, SleepTypes DEF PCs
<1>2. CASE RecvTimedOut(t)
  <2>1. PlaceTypes' /\ CallTypes'
    BY <1>2, ReturnTypes DEF RecvTimedOut, PlaceTypes, TypeInv
  <2>2. ListTypes'
    BY <1>2, UnlinkedIsList DEF RecvTimedOut, ListTypes, TypeInv
  <2>3. LockTypes'
    BY <1>2 DEF RecvTimedOut, LockTypes, TypeInv
  <2> QED
    BY <1>2, <2>1, <2>2, <2>3, UnchangedRing, UnchangedState, UnchangedSched
       DEF RecvTimedOut, TypeInv
<1>3. CASE LeaveKilled(t, Unlinked(readers, t), writers)
  BY <1>3, UnlinkedIsList, LeaveKilledTypes DEF TypeInv, ListTypes
<1> QED
  BY <1>1, <1>2, <1>3 DEF NoMsg

LEMMA RecvKeepsTypes ==
    ASSUME TypeInv, NEW t \in Tasks,
           \/ RecvLink(t) \/ Handshake(t) \/ RecvNone(t) \/ RecvExpired(t)
           \/ RecvNotMine(t) \/ RecvMine(t)
    PROVE  TypeInv'
<1>1. {"handshake", "check", "delay", "alert"} \subseteq PCs
  BY DEF PCs, Touching
<1>2. CASE RecvLink(t)
  <2>1. ListTypes'
    BY <1>2 DEF RecvLink, ListTypes, TypeInv, history
  <2>2. PlaceTypes'
    BY <1>1, <1>2, GotoTypes DEF RecvLink, TypeInv
  <2> QED
    BY <1>2, <2>1, <2>2, UnchangedCall, UnchangedRing, UnchangedState, UnchangedLock,
       UnchangedSched DEF RecvLink, TypeInv, history
<1>3. CASE Handshake(t)
  <2>1. PlaceTypes'
    BY <1>1, <1>3, BroadcastTypes DEF Handshake, TypeInv, PlaceTypes
  <2> QED
    BY <1>3, <2>1, UnchangedCall, UnchangedRing, UnchangedState, UnchangedList,
       UnchangedLock, UnchangedSched DEF Handshake, TypeInv, history
<1>4. CASE RecvNone(t) \/ RecvExpired(t)
  BY <1>4, NoMsgTypes DEF RecvNone, RecvExpired
<1>5. CASE RecvNotMine(t)
  BY <1>1, <1>5, SleepTypes DEF RecvNotMine
<1>6. CASE RecvMine(t)
  <2>1. RingTypes'
    BY <1>6, FetchMsgTypes DEF RecvMine, TypeInv
  <2>2. ListTypes'
    BY <1>6, UnlinkedIsList DEF RecvMine, ListTypes, TypeInv
  <2>3. PlaceTypes' /\ CallTypes' /\ LockTypes'
    <3>1. CASE Goto(t, "alert") /\ queueLock' = t /\ UNCHANGED local
      <4>1. LockTypes'
        BY <1>6, <3>1 DEF RecvMine, LockTypes, TypeInv
      <4> QED
        BY <1>1, <3>1, <4>1, GotoTypes, UnchangedCall DEF TypeInv
    <3>2. CASE Return(pc, t) /\ queueLock' = NULL
      <4>1. LockTypes'
        BY <1>6, <3>2 DEF RecvMine, LockTypes, TypeInv
      <4> QED
        BY <3>2, <4>1, ReturnTypes DEF TypeInv, PlaceTypes
    <3> QED
      BY <1>6, <3>1, <3>2 DEF RecvMine
  <2> QED
    BY <1>6, <2>1, <2>2, <2>3, UnchangedState, UnchangedSched DEF RecvMine, TypeInv
<1> QED
  BY <1>2, <1>3, <1>4, <1>5, <1>6

\* The place to which pthread_cond_wait returns.
LEMMA WakesTypes ==
    ASSUME TypeInv, NEW t \in Tasks, NEW r \in {"OK", "ETIMEDOUT"},
           pc[t] \in {"cond", "spaceCond", "drainWait"}, Wakes(t, r)
    PROVE  TypeInv'
<1>1. \E place \in {"woken", "spaceWoken", "drainWoken"} : pc' = [pc EXCEPT ![t] = place]
  BY DEF Wakes
<1>2. PlaceTypes'
  BY <1>1 DEF TypeInv, PlaceTypes, PCs, Touching
<1>3. CallTypes'
  BY DEF Wakes, CallTypes, TypeInv
<1> QED
  BY <1>2, <1>3, UnchangedRing, UnchangedState, UnchangedList, UnchangedLock,
     UnchangedSched DEF Wakes, TypeInv, history

LEMMA TimeKeepsTypes ==
    ASSUME TypeInv, NEW t \in Tasks,
           Expire(t) \/ TimedOut(t) \/ Spurious(t) \/ UseFreed(t)
    PROVE  TypeInv'
<1>1. ret[t] \in {"OK", "ETIMEDOUT"}
  BY DEF TypeInv, CallTypes
<1>2. CASE Expire(t)
  <2>1. CallTypes'
    BY <1>2 DEF Expire, CallTypes, TypeInv
  <2> QED
    BY <1>2, <2>1, UnchangedPlace, UnchangedRing, UnchangedState, UnchangedList,
       UnchangedLock, UnchangedSched DEF Expire, TypeInv, history
<1>3. CASE TimedOut(t) \/ Spurious(t)
  BY <1>1, <1>3, WakesTypes DEF TimedOut, Spurious
<1>4. CASE UseFreed(t)
  <2>1. "lost" \in PCs
    BY DEF PCs
  <2> QED
    BY <1>4, <2>1, GotoKeeps, UnchangedLock DEF UseFreed, TypeInv
<1> QED
  BY <1>2, <1>3, <1>4

LEMMA DeleteKeepsTypes ==
    ASSUME TypeInv, NEW t \in Tasks,
           \/ Kill(t) \/ SchedLocked(t) \/ Announce(t) \/ AnnounceSpace(t)
           \/ DrainWait(t) \/ DrainAgain(t) \/ Drained(t) \/ Unlink(t) \/ Free(t)
    PROVE  TypeInv'
<1>1. /\ DeletePlaces \subseteq PCs
      /\ pc \in [Tasks -> PCs] /\ BroadcastSend(pc) \in [Tasks -> PCs]
      /\ BroadcastSpace(pc) \in [Tasks -> PCs]
      /\ status \in {"linked", "unlinked", "freed"}
  BY BroadcastTypes DEF PCs, Touching, DeletePlaces, TypeInv, PlaceTypes, StateTypes
<1>2. CASE Kill(t)
  <2>1. PlaceTypes'
    BY <1>1, <1>2, GotoTypes DEF Kill, TypeInv, DeletePlaces
  <2>2. StateTypes'
    BY <1>2 DEF Kill, StateTypes, TypeInv
  <2>3. ListTypes'
    BY <1>2 DEF Kill, Doom, ListTypes, TypeInv, lists
  <2> QED
    BY <1>2, <2>1, <2>2, <2>3, UnchangedCall, UnchangedRing, UnchangedLock,
       UnchangedSched DEF Kill, TypeInv
<1>3. CASE SchedLocked(t)
  <2>1. SchedTypes'
    BY <1>3 DEF SchedLocked, Sched!Lock, SchedTypes, TypeInv
  <2>2. CASE Deleting(pc, t, "announce") /\ UNCHANGED queueLock
    <3>1. LockTypes'
      BY <1>3, <2>2 DEF SchedLocked, Deleting, LockTypes, TypeInv
    <3> QED
      BY <1>1, <1>3, <2>1, <2>2, <3>1, DeletingKeeps DEF SchedLocked, DeletePlaces
  <2>3. CASE Deleting(pc, t, "unlink") /\ queueLock' = NULL
    <3>1. LockTypes'
      BY <1>3, <2>3 DEF SchedLocked, Deleting, LockTypes, TypeInv
    <3> QED
      BY <1>1, <1>3, <2>1, <2>3, <3>1, DeletingKeeps DEF SchedLocked, DeletePlaces
  <2> QED
    BY <1>3, <2>2, <2>3 DEF SchedLocked
<1>4. CASE Announce(t)
  <2>1. LockTypes'
    BY <1>4 DEF Announce, Deleting, LockTypes, TypeInv
  <2> QED
    BY <1>1, <1>4, <2>1, DeletingKeeps, UnchangedSched DEF Announce, DeletePlaces, TypeInv
<1>5. CASE AnnounceSpace(t)
  <2>1. LockTypes'
    BY <1>5 DEF AnnounceSpace, Deleting, LockTypes, TypeInv
  <2> QED
    BY <1>1, <1>5, <2>1, DeletingKeeps, UnchangedSched
       DEF AnnounceSpace, DeletePlaces, TypeInv
<1>6. CASE DrainWait(t) \/ DrainAgain(t) \/ Drained(t)
  <2>1. LockTypes'
    BY <1>6 DEF DrainWait, DrainAgain, Drained, Deleting, LockTypes, TypeInv
  <2> QED
    BY <1>1, <1>6, <2>1, DeletingKeeps, UnchangedSched
       DEF DrainWait, DrainAgain, Drained, DeletePlaces, TypeInv
<1>7. CASE Unlink(t) \/ Free(t)
  <2>1. LockTypes' /\ status' \in {"linked", "unlinked", "freed"}
    BY <1>1, <1>7 DEF Unlink, Free, Deleting, LockTypes, TypeInv
  <2> QED
    BY <1>1, <1>7, <2>1, DeletingKeeps, UnchangedSched
       DEF Unlink, Free, DeletePlaces, TypeInv
<1> QED
  BY <1>2, <1>3, <1>4, <1>5, <1>6, <1>7

LEMMA InitTypes == Init => TypeInv
<1> SUFFICES ASSUME Init PROVE TypeInv
  OBVIOUS
<1>1. PlaceTypes /\ StateTypes /\ LockTypes
  BY DEF Init, PlaceTypes, StateTypes, LockTypes, PCs
<1>2. CallTypes
  <2>1. NoArg \in Args
    BY DEF NoArg, Args
  <2> QED
    BY <2>1 DEF Init, CallTypes, Ops
<1>3. RingTypes
  BY DEF Init, RingTypes, Slots
<1>4. ListTypes
  BY DEF Init, ListTypes
<1>5. SchedTypes
  BY DEF Init, SchedTypes, Sched!AbsInit
<1> QED
  BY <1>1, <1>2, <1>3, <1>4, <1>5 DEF TypeInv

LEMMA NextKeepsTypes == TypeInv /\ [Next]_vars => TypeInv'
<1> SUFFICES ASSUME TypeInv, [Next]_vars PROVE TypeInv'
  OBVIOUS
<1>1. ASSUME NEW t \in Tasks, Progress(t) PROVE TypeInv'
  BY <1>1, EntryKeepsTypes, SendKeepsTypes, SpaceKeepsTypes, KilledKeepsTypes,
     RecvKeepsTypes, TimeKeepsTypes, DeleteKeepsTypes DEF Progress
<1>2. CASE UNCHANGED vars
  BY <1>2, UnchangedPlace, UnchangedCall, UnchangedRing, UnchangedState, UnchangedList,
     UnchangedLock, UnchangedSched
     DEF vars, TypeInv, local, fixed, ringVars, lists, locks, sched
<1> QED
  BY <1>1, <1>2, CallKeepsTypes, TimeKeepsTypes DEF Next

(***************************************************************************)
(* Every variable of a message queue keeps its type, queues of length zero *)
(* and deletion included; in particular msg_count is never decremented     *)
(* below zero and the pointers stay within the extent.                     *)
(***************************************************************************)
THEOREM QueueTypes == Spec => []TypeOK
BY InitTypes, NextKeepsTypes, TypeInvIsTypeOK, PTL DEF Spec

-----------------------------------------------------------------------------
(***************************************************************************)
(* What a step of one task does to the calls of all, from which the        *)
(* invariants below follow.                                                *)
(***************************************************************************)
SpacePlaces == {"space", "loop", "mine", "doze", "spaceCond", "spaceWoken",
                "spaceDelay", "relock"}

\* The step wakes other tasks at most.
Others(t) ==
    \A u \in Tasks \ {t} :
        /\ op'[u] = op[u] /\ arg'[u] = arg[u]
        /\ expired'[u] = expired[u] /\ ret'[u] = ret[u]
        /\ \/ pc'[u] = pc[u]
           \/ pc[u] = "cond" /\ pc'[u] = "woken"
           \/ pc[u] = "spaceCond" /\ pc'[u] = "spaceWoken"
           \/ pc[u] = "drainWait" /\ pc'[u] = "drainWoken"

\* The task ends its call, or goes on with it, and waits for space only in order
\* to send.
OwnCall(t) ==
    \/ op'[t] = "none" /\ pc'[t] = "idle"
    \/ /\ op'[t] = op[t] /\ arg'[t] = arg[t]
       /\ pc'[t] \in SpacePlaces => pc[t] \in SpacePlaces \/ op[t] = "msgQSend"

\* It goes to sleep only if there is no message or its time is up.
OwnSleep(t) == pc'[t] = "cond" => count' = 0 \/ expired'[t] = TRUE

\* It may send without another look at the space.
Grant(t) == pc[t] = "mine" \/ (pc[t] = "relock" /\ ret[t] = "OK")
OwnGrant(t) == Grant(t)' => Grant(t) \/ SpaceFree(t) \/ Killed

Facts(t) == Others(t) /\ OwnCall(t) /\ OwnSleep(t) /\ OwnGrant(t)

LEMMA BroadcastOthers ==
    ASSUME TypeInv, NEW t \in Tasks, NEW p,
           p \in {pc, BroadcastSend(pc), BroadcastSpace(pc), BroadcastComplete(pc)}
    PROVE  /\ p \in [Tasks -> PCs]
           /\ \A u \in Tasks :
                \/ p[u] = pc[u]
                \/ pc[u] = "cond" /\ p[u] = "woken"
                \/ pc[u] = "spaceCond" /\ p[u] = "spaceWoken"
                \/ pc[u] = "drainWait" /\ p[u] = "drainWoken"
<1>1. p \in [Tasks -> PCs]
  BY BroadcastTypes DEF TypeInv, PlaceTypes
<1>2. CASE p = pc
  BY <1>1, <1>2
<1>3. CASE p = BroadcastSend(pc)
  BY <1>1, <1>3 DEF BroadcastSend
<1>4. CASE p = BroadcastSpace(pc)
  BY <1>1, <1>4 DEF BroadcastSpace
<1>5. CASE p = BroadcastComplete(pc)
  BY <1>1, <1>5 DEF BroadcastComplete
<1> QED
  BY <1>1, <1>2, <1>3, <1>4, <1>5

LEMMA ReturnFacts ==
    ASSUME TypeInv, NEW t \in Tasks, NEW p,
           p \in {pc, BroadcastSend(pc), BroadcastSpace(pc), BroadcastComplete(pc)},
           Return(p, t)
    PROVE  Facts(t)
<1>1. pc'[t] = "idle" /\ op'[t] = "none"
  BY BroadcastOthers DEF Return, TypeInv, CallTypes
<1>2. Others(t)
  <2> SUFFICES ASSUME NEW u \in Tasks \ {t}
               PROVE  /\ op'[u] = op[u] /\ arg'[u] = arg[u]
                      /\ expired'[u] = expired[u] /\ ret'[u] = ret[u]
                      /\ pc'[u] = p[u]
    BY BroadcastOthers DEF Others
  <2> QED
    BY BroadcastOthers DEF Return, TypeInv, CallTypes
<1> QED
  BY <1>1, <1>2 DEF Facts, OwnCall, OwnSleep, OwnGrant, Grant

\* A step within a call.
Move(p, t, place) ==
    /\ pc' = [p EXCEPT ![t] = place] /\ UNCHANGED local
    /\ place \in SpacePlaces => pc[t] \in SpacePlaces \/ op[t] = "msgQSend"
    /\ place = "cond" => count' = 0 \/ expired[t] = TRUE
    /\ place # "mine" /\ place # "relock"

LEMMA MoveFacts ==
    ASSUME TypeInv, NEW t \in Tasks, NEW p, NEW place,
           p \in {pc, BroadcastSend(pc), BroadcastSpace(pc), BroadcastComplete(pc)},
           Move(p, t, place)
    PROVE  Facts(t)
<1>1. pc'[t] = place /\ \A u \in Tasks \ {t} : pc'[u] = p[u]
  BY BroadcastOthers DEF Move
<1>2. UNCHANGED <<op, arg, expired, ret>>
  BY DEF Move, local
<1>3. Others(t)
  BY <1>1, <1>2, BroadcastOthers DEF Others
<1> QED
  BY <1>1, <1>2, <1>3 DEF Facts, OwnCall, OwnSleep, OwnGrant, Grant, Move

LEMMA GotoFacts ==
    ASSUME TypeInv, NEW t \in Tasks, NEW place, Goto(t, place), UNCHANGED local,
           place \in SpacePlaces => pc[t] \in SpacePlaces \/ op[t] = "msgQSend",
           place = "cond" => count' = 0 \/ expired[t] = TRUE,
           place # "mine", place # "relock"
    PROVE  Facts(t)
<1>1. Move(pc, t, place)
  BY DEF Goto, Move
<1> QED
  BY <1>1, MoveFacts

LEMMA DeletingFacts ==
    ASSUME TypeInv, NEW t \in Tasks, NEW p, NEW place \in DeletePlaces,
           Deleting(p, t, place), p \in {pc, BroadcastSend(pc), BroadcastSpace(pc)}
    PROVE  Facts(t)
<1>1. place \notin SpacePlaces /\ place # "cond" /\ place # "mine" /\ place # "relock"
  BY DEF DeletePlaces, SpacePlaces
<1>2. Move(p, t, place)
  BY <1>1 DEF Deleting, Move
<1> QED
  BY <1>2, MoveFacts

\* A look at the space.
LEMMA LookFacts ==
    ASSUME TypeInv, NEW t \in Tasks, pc[t] \in SpacePlaces, NEW place, NEW r, NEW lock,
           Look(t, place, r, lock), place # "cond",
           place = "mine" => SpaceFree(t),
           place = "relock" => Killed \/ pc[t] = "mine" \/ r # "OK"
    PROVE  Facts(t)
<1>1. pc'[t] = place /\ ret'[t] = r /\ \A u \in Tasks \ {t} : pc'[u] = pc[u] /\ ret'[u] = ret[u]
  BY DEF Look, Goto, TypeInv, PlaceTypes, CallTypes
<1>2. Others(t) /\ OwnCall(t)
  BY <1>1 DEF Others, OwnCall, Look
<1>3. OwnSleep(t) /\ OwnGrant(t)
  BY <1>1 DEF OwnSleep, OwnGrant, Grant
<1> QED
  BY <1>2, <1>3 DEF Facts

LEMMA SpaceFacts ==
    ASSUME TypeInv, NEW t \in Tasks,
           \/ SpaceKilled(t) \/ SpaceAlive(t) \/ SpaceFree(t) \/ SpaceNone(t)
           \/ SpaceMine(t) \/ SpaceNotMine(t) \/ SpaceDelayed(t)
           \/ SpaceSleep(t) \/ SpaceWake(t)
    PROVE  Facts(t)
<1>1. pc[t] \in SpacePlaces
  BY DEF SpaceKilled, SpaceAlive, SpaceFree, SpaceNone, SpaceMine, SpaceNotMine,
         SpaceDelayed, SpaceSleep, SpaceWake, SpacePlaces
<1>2. CASE SpaceKilled(t)
  BY <1>1, <1>2, LookFacts DEF SpaceKilled
<1>3. CASE SpaceMine(t)
  BY <1>1, <1>3, LookFacts DEF SpaceMine
<1>4. CASE SpaceAlive(t)
  BY <1>1, <1>4, LookFacts DEF SpaceAlive
<1>5. CASE SpaceFree(t)
  <2>1. Look(t, "mine", ret[t], qfullLock)
    BY <1>5 DEF SpaceFree
  <2> QED
    BY <1>1, <1>5, <2>1, LookFacts
<1>6. CASE SpaceNotMine(t) \/ SpaceSleep(t) \/ SpaceWake(t)
  BY <1>1, <1>6, LookFacts DEF SpaceNotMine, SpaceSleep, SpaceWake
<1>7. ASSUME NEW lock, NoSpace(t, lock) PROVE Facts(t)
  <2>1. CASE ret[t] = "ETIMEDOUT"
    <3>1. Look(t, "relock", ret[t], lock)
      BY <1>7, <2>1 DEF NoSpace
    <3> QED
      BY <1>1, <2>1, <3>1, LookFacts
  <2>2. CASE ret[t] # "ETIMEDOUT"
    <3>1. Look(t, "doze", ret[t], lock)
      BY <1>7, <2>2 DEF NoSpace
    <3> QED
      BY <1>1, <3>1, LookFacts
  <2> QED
    BY <2>1, <2>2
<1>8. CASE SpaceNone(t)
  BY <1>7, <1>8 DEF SpaceNone
<1>9. CASE SpaceDelayed(t)
  <2>1. NoSpace(t, TRUE) \/ Look(t, "loop", ret[t], TRUE)
    BY <1>9 DEF SpaceDelayed
  <2> QED
    BY <1>1, <1>7, <2>1, LookFacts
<1> QED
  BY <1>2, <1>3, <1>4, <1>5, <1>6, <1>8, <1>9

LEMMA LeaveKilledFacts ==
    ASSUME TypeInv, NEW t \in Tasks, NEW r, NEW w, LeaveKilled(t, r, w)
    PROVE  Facts(t)
<1>1. CASE Goto(t, "notify") /\ UNCHANGED local
  BY <1>1, GotoFacts DEF SpacePlaces
<1>2. CASE Return(pc, t)
  BY <1>2, ReturnFacts
<1> QED
  BY <1>1, <1>2 DEF LeaveKilled

LEMMA NoMsgFacts ==
    ASSUME TypeInv, NEW t \in Tasks, NoMsg(t), count = 0 \/ expired[t] = TRUE
    PROVE  Facts(t)
<1>1. CASE Sleep(t, "cond")
  BY <1>1, GotoFacts DEF Sleep, SpacePlaces, ringVars
<1>2. CASE RecvTimedOut(t)
  BY <1>2, ReturnFacts DEF RecvTimedOut
<1>3. CASE LeaveKilled(t, Unlinked(readers, t), writers)
  BY <1>3, LeaveKilledFacts
<1> QED
  BY <1>1, <1>2, <1>3 DEF NoMsg

LEMMA RecvFacts ==
    ASSUME TypeInv, NEW t \in Tasks,
           \/ RecvLink(t) \/ Handshake(t) \/ RecvKilled(t) \/ RecvNone(t) \/ RecvExpired(t)
           \/ RecvNotMine(t) \/ RecvMineKilled(t) \/ RecvMine(t) \/ Alert(t)
    PROVE  Facts(t)
<1>1. CASE RecvLink(t)
  <2>1. CASE Goto(t, "handshake")
    BY <1>1, <2>1, GotoFacts DEF RecvLink, SpacePlaces
  <2>2. CASE Goto(t, "check")
    BY <1>1, <2>2, GotoFacts DEF RecvLink, SpacePlaces
  <2> QED
    BY <1>1, <2>1, <2>2 DEF RecvLink
<1>2. CASE Handshake(t)
  <2>1. Move(BroadcastSpace(pc), t, "check")
    BY <1>2 DEF Handshake, Move, SpacePlaces
  <2> QED
    BY <2>1, MoveFacts
<1>3. CASE RecvKilled(t) \/ RecvMineKilled(t)
  BY <1>3, LeaveKilledFacts DEF RecvKilled, RecvMineKilled
<1>4. CASE RecvNone(t) \/ RecvExpired(t)
  <2>1. expired[t] \in BOOLEAN
    BY DEF TypeInv, CallTypes
  <2> QED
    BY <1>4, <2>1, NoMsgFacts DEF RecvNone, RecvExpired, Overdue
<1>5. CASE RecvNotMine(t)
  BY <1>5, GotoFacts DEF RecvNotMine, Sleep, SpacePlaces
<1>6. CASE RecvMine(t)
  <2>1. CASE Goto(t, "alert") /\ UNCHANGED local
    BY <2>1, GotoFacts DEF SpacePlaces
  <2>2. CASE Return(pc, t)
    BY <2>2, ReturnFacts
  <2> QED
    BY <1>6, <2>1, <2>2 DEF RecvMine
<1>7. CASE Alert(t)
  BY <1>7, ReturnFacts DEF Alert
<1> QED
  BY <1>1, <1>2, <1>3, <1>4, <1>5, <1>6, <1>7

LEMMA EntryFacts ==
    ASSUME TypeInv, NEW t \in Tasks,
           \/ FindMiss(t) \/ FindHit(t) \/ Enter(t) \/ BadLength(t) \/ NumMsgs(t)
           \/ SendRefused(t) \/ Notify(t) \/ SchedUnlocked(t) \/ UseFreed(t)
    PROVE  Facts(t)
<1>1. CASE FindMiss(t) \/ BadLength(t) \/ NumMsgs(t) \/ SendRefused(t) \/ SchedUnlocked(t)
  BY <1>1, ReturnFacts DEF FindMiss, BadLength, NumMsgs, SendRefused, SchedUnlocked
<1>2. CASE Notify(t)
  BY <1>2, ReturnFacts DEF Notify
<1>3. CASE FindHit(t) \/ Enter(t)
  BY <1>3, GotoFacts DEF FindHit, Enter, SpacePlaces
<1>4. CASE UseFreed(t)
  BY <1>4, GotoFacts DEF UseFreed, SpacePlaces
<1> QED
  BY <1>1, <1>2, <1>3, <1>4

LEMMA SendFacts ==
    ASSUME TypeInv, NEW t \in Tasks,
           SendNow(t) \/ SendWait(t) \/ RelockKilled(t) \/ RelockTimedOut(t) \/ RelockSend(t)
    PROVE  Facts(t)
<1>1. CASE SendNow(t) \/ RelockSend(t)
  BY <1>1, ReturnFacts DEF SendNow, RelockSend
<1>2. CASE SendWait(t)
  BY <1>2, GotoFacts DEF SendWait, SpacePlaces, Entered
<1>3. CASE RelockKilled(t)
  BY <1>3, LeaveKilledFacts DEF RelockKilled
<1>4. CASE RelockTimedOut(t)
  BY <1>4, ReturnFacts DEF RelockTimedOut
<1> QED
  BY <1>1, <1>2, <1>3, <1>4

LEMMA DeleteFacts ==
    ASSUME TypeInv, NEW t \in Tasks,
           \/ Kill(t) \/ SchedLocked(t) \/ Announce(t) \/ AnnounceSpace(t)
           \/ DrainWait(t) \/ DrainAgain(t) \/ Drained(t) \/ Unlink(t) \/ Free(t)
    PROVE  Facts(t)
<1>1. CASE Kill(t)
  BY <1>1, GotoFacts DEF Kill, SpacePlaces
<1>3. CASE SchedLocked(t)
  BY DeletingFacts, <1>3 DEF SchedLocked, DeletePlaces
<1>4. CASE Announce(t)
  BY DeletingFacts, <1>4 DEF Announce, DeletePlaces
<1>5. CASE AnnounceSpace(t)
  BY DeletingFacts, <1>5 DEF AnnounceSpace, DeletePlaces
<1>6. CASE DrainWait(t) \/ DrainAgain(t) \/ Drained(t)
  BY DeletingFacts, <1>6 DEF DrainWait, DrainAgain, Drained, DeletePlaces
<1>7. CASE Unlink(t) \/ Free(t)
  BY DeletingFacts, <1>7 DEF Unlink, Free, DeletePlaces
<1> QED
  BY <1>1, <1>3, <1>4, <1>5, <1>6, <1>7

\* Waking up, and the passing of time.
LEMMA TimeFacts ==
    ASSUME TypeInv, NEW t \in Tasks, TimedOut(t) \/ Spurious(t) \/ Expire(t)
    PROVE  Facts(t)
<1>1. ASSUME NEW r, Wakes(t, r), pc[t] \in {"cond", "spaceCond", "drainWait"}
      PROVE  Facts(t)
  <2>1. /\ UNCHANGED <<op, arg, expired>>
        /\ \A u \in Tasks \ {t} : ret'[u] = ret[u]
    BY <1>1 DEF Wakes, TypeInv, CallTypes
  <2>2. PICK place : /\ pc' = [pc EXCEPT ![t] = place]
                     /\ place = "woken" \/ place = "drainWoken"
                        \/ (place = "spaceWoken" /\ pc[t] = "spaceCond")
    BY <1>1 DEF Wakes
  <2>3. pc'[t] = place /\ \A u \in Tasks \ {t} : pc'[u] = pc[u]
    BY <2>2 DEF TypeInv, PlaceTypes
  <2> QED
    BY <2>1, <2>2, <2>3 DEF Facts, Others, OwnCall, OwnSleep, OwnGrant, Grant, SpacePlaces
<1>2. CASE TimedOut(t) \/ Spurious(t)
  BY <1>1, <1>2 DEF TimedOut, Spurious
<1>3. CASE Expire(t)
  <2>1. UNCHANGED <<pc, op, arg, ret>> /\ expired' = [expired EXCEPT ![t] = TRUE]
    BY <1>3 DEF Expire
  <2>2. expired'[t] = TRUE /\ \A u \in Tasks \ {t} : expired'[u] = expired[u]
    BY <2>1 DEF TypeInv, CallTypes
  <2> QED
    BY <2>1, <2>2 DEF Facts, Others, OwnCall, OwnSleep, OwnGrant, Grant
<1> QED
  BY <1>2, <1>3

-----------------------------------------------------------------------------
\* A step of a task is the beginning of a call or has the facts above.
Starts(t) ==
    /\ pc[t] = "idle" /\ pc'[t] = "find"
    /\ \A u \in Tasks \ {t} : pc'[u] = pc[u] /\ op'[u] = op[u] /\ arg'[u] = arg[u]
                              /\ expired'[u] = expired[u] /\ ret'[u] = ret[u]
    /\ op'[t] = "msgQSend" => t \in Senders /\ arg'[t].msg \in Msgs /\ arg'[t].pri \in Pris
    /\ op'[t] = "msgQDelete" => t \in Deleters

LEMMA CallStarts == ASSUME TypeInv, NEW t \in Tasks, Call(t) PROVE Starts(t)
<1>1. ASSUME NEW name, NEW args, Begin(t, name, args)
      PROVE  /\ pc[t] = "idle" /\ pc'[t] = "find" /\ op'[t] = name /\ arg'[t] = args
             /\ \A u \in Tasks \ {t} : pc'[u] = pc[u] /\ op'[u] = op[u] /\ arg'[u] = arg[u]
                                       /\ expired'[u] = expired[u] /\ ret'[u] = ret[u]
  BY <1>1 DEF Begin, Goto, TypeInv, PlaceTypes, CallTypes
<1>2. CASE CallSend(t)
  <2>1. PICK m \in Msgs, p \in Pris, w \in SendWaits, f \in Fits :
            Begin(t, "msgQSend", [msg |-> m, pri |-> p, wait |-> w, fits |-> f])
    BY <1>2 DEF CallSend
  <2> QED
    BY <1>1, <1>2, <2>1 DEF Starts, CallSend
<1>3. CASE CallReceive(t)
  BY <1>1, <1>3 DEF Starts, CallReceive
<1>4. CASE CallNumMsgs(t) \/ CallDelete(t)
  BY <1>1, <1>4 DEF Starts, CallNumMsgs, CallDelete
<1> QED
  BY <1>2, <1>3, <1>4 DEF Call

TaskStep(t) == Call(t) \/ Progress(t) \/ Expire(t) \/ Spurious(t) \/ UseFreed(t)

LEMMA StepFacts == ASSUME TypeInv, NEW t \in Tasks, TaskStep(t) PROVE Starts(t) \/ Facts(t)
<1>1. CASE Progress(t)
  BY <1>1, SpaceFacts, RecvFacts, EntryFacts, SendFacts, DeleteFacts, TimeFacts DEF Progress
<1> QED
  BY <1>1, CallStarts, TimeFacts, EntryFacts DEF TaskStep

\* The message count changes when a message is sent or received, and nothing
\* changes the length of the queue.
LEMMA CountSteps ==
    ASSUME NEW t \in Tasks, TaskStep(t)
    PROVE  /\ UNCHANGED fixed
           /\ \/ UNCHANGED <<ringVars, delivered>>
              \/ SendNow(t) \/ RelockSend(t) \/ RecvMine(t)
<1> DEFINE Quiet == UNCHANGED <<fixed, ringVars, delivered>>
<1>1. ASSUME NEW place, NEW r, NEW lock, Look(t, place, r, lock) PROVE Quiet
  BY <1>1 DEF Look, history
<1>2. ASSUME NEW r, NEW w, LeaveKilled(t, r, w) PROVE Quiet
  BY <1>2 DEF LeaveKilled
<1>3. ASSUME NEW p, NEW place, Deleting(p, t, place) PROVE Quiet
  BY <1>3 DEF Deleting, history
<1>4. CASE Call(t)
  BY <1>4 DEF Call, CallSend, CallReceive, CallNumMsgs, CallDelete, Begin, history
<1>5. CASE FindMiss(t) \/ FindHit(t) \/ Enter(t) \/ BadLength(t) \/ NumMsgs(t)
  BY <1>5 DEF FindMiss, FindHit, Enter, BadLength, NumMsgs, history
<1>6. CASE SendRefused(t) \/ SendWait(t) \/ RelockTimedOut(t) \/ Notify(t)
  BY <1>6 DEF SendRefused, SendWait, RelockTimedOut, Notify, history
<1>7. CASE \/ SpaceKilled(t) \/ SpaceAlive(t) \/ SpaceFree(t) \/ SpaceMine(t)
           \/ SpaceNotMine(t) \/ SpaceSleep(t) \/ SpaceWake(t)
  BY <1>1, <1>7 DEF SpaceKilled, SpaceAlive, SpaceFree, SpaceMine, SpaceNotMine,
                    SpaceSleep, SpaceWake
<1>8. CASE SpaceNone(t) \/ SpaceDelayed(t)
  BY <1>1, <1>8 DEF SpaceNone, SpaceDelayed, NoSpace
<1>9. CASE RecvLink(t) \/ Handshake(t) \/ RecvNotMine(t) \/ Alert(t)
  BY <1>9 DEF RecvLink, Handshake, RecvNotMine, Alert, Sleep, history
<1>10. ASSUME NoMsg(t) PROVE Quiet
  BY <1>2, <1>10 DEF NoMsg, Sleep, RecvTimedOut, history
<1>11. CASE RelockKilled(t) \/ RecvKilled(t) \/ RecvMineKilled(t) \/ RecvNone(t) \/ RecvExpired(t)
  BY <1>2, <1>10, <1>11 DEF RelockKilled, RecvKilled, RecvMineKilled, RecvNone, RecvExpired
<1>12. CASE TimedOut(t) \/ Spurious(t) \/ Expire(t) \/ UseFreed(t)
  BY <1>12 DEF TimedOut, Spurious, Wakes, Expire, UseFreed, history
<1>13. CASE Kill(t) \/ SchedUnlocked(t)
  BY <1>13 DEF Kill, SchedUnlocked, history
<1>14. CASE \/ SchedLocked(t) \/ Announce(t) \/ AnnounceSpace(t) \/ DrainWait(t)
            \/ DrainAgain(t) \/ Drained(t) \/ Unlink(t) \/ Free(t)
  BY <1>3, <1>14 DEF SchedLocked, Announce, AnnounceSpace, DrainWait, DrainAgain, Drained,
                     Unlink, Free
<1>15. CASE SendNow(t) \/ RelockSend(t) \/ RecvMine(t)
  BY <1>15 DEF SendNow, RelockSend, RecvMine
<1> QED
  BY <1>4, <1>5, <1>6, <1>7, <1>8, <1>9, <1>11, <1>12, <1>13, <1>14, <1>15
     DEF TaskStep, Progress

-----------------------------------------------------------------------------
\* A send wakes every receiver.
LEMMA SendWakesAll ==
    ASSUME TypeInv, NEW t \in Tasks, SendNow(t) \/ RelockSend(t)
    PROVE  \A u \in Tasks : pc'[u] # "cond"
<1>1. pc' = [BroadcastSend(pc) EXCEPT ![t] = "idle"]
  BY DEF SendNow, RelockSend, Return
<1>2. /\ BroadcastSend(pc) \in [Tasks -> PCs]
      /\ \A u \in Tasks : BroadcastSend(pc)[u] # "cond"
  BY BroadcastTypes DEF BroadcastSend, TypeInv
<1> HIDE DEF BroadcastSend
<1> QED
  BY <1>1, <1>2

LEMMA StepKeepsSleep ==
    ASSUME TypeInv, NoSleepBesideMessage, NEW t \in Tasks, TaskStep(t)
    PROVE  NoSleepBesideMessage'
<1> SUFFICES ASSUME NEW u \in Tasks, pc'[u] = "cond", ~expired'[u] PROVE count' = 0
  BY DEF NoSleepBesideMessage
<1>1. CASE SendNow(t) \/ RelockSend(t)
  BY <1>1, SendWakesAll
<1>2. CASE u = t
  BY <1>2, StepFacts DEF Starts, Facts, OwnSleep
<1>3. CASE u # t
  <2>1. pc[u] = "cond" /\ expired[u] = expired'[u]
    BY <1>3, StepFacts DEF Starts, Facts, Others
  <2>2. count = 0
    BY <2>1 DEF NoSleepBesideMessage
  <2>3. CASE RecvMine(t)
    BY <2>2, <2>3 DEF RecvMine
  <2> QED
    BY <1>1, <2>2, <2>3, CountSteps DEF ringVars
<1> QED
  BY <1>2, <1>3

(***************************************************************************)
(* No receiver whose time is not up sleeps on queue_send while the queue   *)
(* holds a message, for any tasks, any queue length, either order, and     *)
(* with deletions, time-outs and spurious wake-ups.                        *)
(***************************************************************************)
THEOREM ReceiversAwake == Spec => []NoSleepBesideMessage
<1>1. Init => NoSleepBesideMessage
  BY DEF Init, NoSleepBesideMessage
<1>2. TypeInv /\ NoSleepBesideMessage /\ [Next]_vars => NoSleepBesideMessage'
  <2> SUFFICES ASSUME TypeInv, NoSleepBesideMessage, [Next]_vars PROVE NoSleepBesideMessage'
    OBVIOUS
  <2>1. CASE UNCHANGED vars
    BY <2>1 DEF vars, NoSleepBesideMessage
  <2> QED
    BY <2>1, StepKeepsSleep DEF Next, TaskStep
<1> QED
  BY <1>1, <1>2, InitTypes, NextKeepsTypes, PTL DEF Spec

-----------------------------------------------------------------------------
(***************************************************************************)
(* How far a queue that nobody deletes can be overfilled.                  *)
(***************************************************************************)
\* Only senders send and wait for space, and only deleters delete.
CallInv ==
    \A t \in Tasks :
        /\ op[t] = "msgQSend" => t \in Senders /\ arg[t].msg \in Msgs /\ arg[t].pri \in Pris
        /\ op[t] = "msgQDelete" => t \in Deleters
        /\ pc[t] \in SpacePlaces => op[t] = "msgQSend"

LEMMA StepKeepsCall ==
    ASSUME TypeInv, CallInv, NEW t \in Tasks, TaskStep(t)
    PROVE  CallInv'
<1> SUFFICES ASSUME NEW u \in Tasks
             PROVE  /\ op'[u] = "msgQSend"
                         => u \in Senders /\ arg'[u].msg \in Msgs /\ arg'[u].pri \in Pris
                    /\ op'[u] = "msgQDelete" => u \in Deleters
                    /\ pc'[u] \in SpacePlaces => op'[u] = "msgQSend"
  BY DEF CallInv
<1>1. CASE Starts(t)
  BY <1>1 DEF Starts, CallInv, SpacePlaces
<1>2. CASE Facts(t) /\ u = t
  BY <1>2 DEF Facts, OwnCall, CallInv, SpacePlaces
<1>3. CASE Facts(t) /\ u # t
  BY <1>3 DEF Facts, Others, CallInv, SpacePlaces
<1> QED
  BY <1>1, <1>2, <1>3, StepFacts

\* Nobody but a deleter marks the queue for deletion.
LEMMA KillSteps ==
    ASSUME NEW t \in Tasks, TaskStep(t)
    PROVE  UNCHANGED sendType \/ sendType' \in {"SEND", "URGNT"} \/ Kill(t)
<1>1. ASSUME NEW place, NEW r, NEW lock, Look(t, place, r, lock) PROVE UNCHANGED sendType
  BY <1>1 DEF Look
<1>2. ASSUME NEW r, NEW w, LeaveKilled(t, r, w) PROVE UNCHANGED sendType
  BY <1>2 DEF LeaveKilled
<1>3. ASSUME NEW p, NEW place, Deleting(p, t, place) PROVE UNCHANGED sendType
  BY <1>3 DEF Deleting
<1>4. CASE Call(t)
  BY <1>4 DEF Call, CallSend, CallReceive, CallNumMsgs, CallDelete, Begin
<1>5. CASE FindMiss(t) \/ FindHit(t) \/ Enter(t) \/ BadLength(t) \/ NumMsgs(t)
  BY <1>5 DEF FindMiss, FindHit, Enter, BadLength, NumMsgs
<1>6. CASE SendRefused(t) \/ SendWait(t) \/ RelockTimedOut(t) \/ Notify(t)
  BY <1>6 DEF SendRefused, SendWait, RelockTimedOut, Notify
<1>7. CASE \/ SpaceKilled(t) \/ SpaceAlive(t) \/ SpaceFree(t) \/ SpaceMine(t)
           \/ SpaceNotMine(t) \/ SpaceSleep(t) \/ SpaceWake(t)
  BY <1>1, <1>7 DEF SpaceKilled, SpaceAlive, SpaceFree, SpaceMine, SpaceNotMine,
                    SpaceSleep, SpaceWake
<1>8. CASE SpaceNone(t) \/ SpaceDelayed(t)
  BY <1>1, <1>8 DEF SpaceNone, SpaceDelayed, NoSpace
<1>9. CASE RecvLink(t) \/ Handshake(t) \/ RecvNotMine(t) \/ RecvMine(t) \/ Alert(t)
  BY <1>9 DEF RecvLink, Handshake, RecvNotMine, RecvMine, Alert, Sleep
<1>10. ASSUME NoMsg(t) PROVE UNCHANGED sendType
  BY <1>2, <1>10 DEF NoMsg, Sleep, RecvTimedOut
<1>11. CASE RelockKilled(t) \/ RecvKilled(t) \/ RecvMineKilled(t) \/ RecvNone(t) \/ RecvExpired(t)
  BY <1>2, <1>10, <1>11 DEF RelockKilled, RecvKilled, RecvMineKilled, RecvNone, RecvExpired
<1>12. CASE TimedOut(t) \/ Spurious(t) \/ Expire(t) \/ UseFreed(t)
  BY <1>12 DEF TimedOut, Spurious, Wakes, Expire, UseFreed
<1>13. CASE SchedUnlocked(t)
  BY <1>13 DEF SchedUnlocked
<1>14. CASE \/ SchedLocked(t) \/ Announce(t) \/ AnnounceSpace(t) \/ DrainWait(t)
            \/ DrainAgain(t) \/ Drained(t) \/ Unlink(t) \/ Free(t)
  BY <1>3, <1>14 DEF SchedLocked, Announce, AnnounceSpace, DrainWait, DrainAgain, Drained,
                     Unlink, Free
<1>15. CASE SendNow(t) \/ RelockSend(t)
  BY <1>15 DEF SendNow, RelockSend, SendMsgTo, UrgentMsgTo
<1> QED
  BY <1>4, <1>5, <1>6, <1>7, <1>8, <1>9, <1>11, <1>12, <1>13, <1>14, <1>15
     DEF TaskStep, Progress

\* A queue that holds messages and that nobody deletes.
PlainQueue == Deleters = {} /\ 0 \notin Sizes /\ IsFiniteSet(Senders)

FillInv == CallInv /\ size \in Sizes /\ sendType # "KILLD" /\ OverfillBounded

\* Those who may send are senders.
LEMMA GrantedBound ==
    ASSUME IsFiniteSet(Senders), CallInv, NEW S \in SUBSET Granted
    PROVE  /\ Granted \subseteq Senders
           /\ IsFiniteSet(S) /\ IsFiniteSet(Granted)
           /\ Cardinality(S) \in Nat /\ Cardinality(Senders) \in Nat
           /\ Cardinality(Granted) \in Nat
           /\ Cardinality(S) <= Cardinality(Granted)
           /\ Cardinality(S) <= Cardinality(Senders)
<1>1. Granted \subseteq Senders
  BY DEF Granted, CallInv, SpacePlaces
<1>2. IsFiniteSet(Granted) /\ IsFiniteSet(S)
  BY <1>1, FS_Subset
<1>3. S \subseteq Senders
  BY <1>1
<1> QED
  BY <1>1, <1>2, <1>3, FS_Subset, FS_CardinalityType

\* Unless it has just found space, no task comes to be granted a send.
LEMMA GrantSteps ==
    ASSUME TypeInv, ~Killed, NEW t \in Tasks, TaskStep(t)
    PROVE  Granted' \subseteq Granted \/ (SpaceFree(t) /\ Granted' \subseteq Granted \cup {t})
<1>1. \A u \in Tasks \ {t} : u \in Granted' => u \in Granted
  BY StepFacts DEF Starts, Facts, Others, Granted
<1>2. t \in Granted' => t \in Granted \/ SpaceFree(t)
  BY StepFacts DEF Starts, Facts, OwnGrant, Grant, Granted
<1>3. Granted' \subseteq Tasks
  BY DEF Granted
<1> QED
  BY <1>1, <1>2, <1>3

\* A call that returns leaves its task idle.
LEMMA ReturnPlace ==
    ASSUME NEW t \in Tasks, NEW p \in [Tasks -> PCs], Return(p, t)
    PROVE  pc'[t] = "idle"
BY DEF Return

LEMMA StepKeepsFill ==
    ASSUME PlainQueue, TypeInv, FillInv, NEW t \in Tasks, TaskStep(t)
    PROVE  FillInv'
<1> DEFINE n == Cardinality(Senders)
           slack == IF "URGENT" \in Pris THEN 0 ELSE 1
<1>1. CallInv'
  BY StepKeepsCall DEF FillInv
<1>2. size' = size /\ size' \in Sizes /\ size \in Nat /\ size >= 1 /\ count \in Nat
  BY CountSteps DEF FillInv, fixed, PlainQueue, TypeInv, RingTypes
<1>3. sendType' # "KILLD"
  <2>1. ~Kill(t)
    BY DEF Kill, Entered, FillInv, CallInv, PlainQueue
  <2> QED
    BY <2>1, KillSteps DEF FillInv
<1>4. ~Killed /\ ~Handover
  BY <1>2 DEF Killed, Handover, FillInv
<1>5. n \in Nat /\ IsFiniteSet(Senders) /\ Senders \subseteq Tasks
  BY FS_CardinalityType DEF PlainQueue
<1>6. IsFiniteSet(Granted') /\ Cardinality(Granted') \in Nat /\ Granted' \subseteq Senders
      /\ Cardinality(Granted') <= n
  <2>1. Granted' \subseteq Senders
    BY <1>1 DEF Granted, CallInv, SpacePlaces
  <2> QED
    BY <1>5, <2>1, FS_Subset, FS_CardinalityType
<1>7. /\ Granted \subseteq Senders /\ IsFiniteSet(Granted) /\ Cardinality(Granted) \in Nat
      /\ Granted' \subseteq Granted => Cardinality(Granted') <= Cardinality(Granted)
  BY <1>5, <1>6, GrantedBound, FS_Subset DEF FillInv
<1>8. count + Cardinality(Granted) <= size + n - slack
  BY DEF FillInv, OverfillBounded
<1>9. OverfillBounded' <=> count' + Cardinality(Granted') <= size' + n - slack
  BY DEF OverfillBounded
<1>10. CASE SpaceFree(t)
  <2>1. count <= size - 1
    BY <1>4, <1>10 DEF SpaceFree, Space
  <2>2. count' = count
    BY <1>10 DEF SpaceFree, Look, ringVars
  <2> QED
    BY <1>1, <1>2, <1>3, <1>5, <1>6, <1>9, <2>1, <2>2 DEF FillInv
<1>11. CASE ~SpaceFree(t)
  <2>1. Granted' \subseteq Granted
    BY <1>4, <1>11, GrantSteps
  <2>2. CASE SendNow(t)
    <3>1. pc[t] = "locked" /\ op[t] = "msgQSend"
      BY <2>2 DEF SendNow, Entered
    <3>2. t \in Senders \ Granted'
      BY <2>1, <3>1 DEF FillInv, CallInv, Granted
    <3>3. Cardinality(Granted') <= n - 1
      <4>1. Granted' \subseteq Senders \ {t}
        BY <1>6, <3>2
      <4>2. IsFiniteSet(Senders \ {t}) /\ Cardinality(Senders \ {t}) = n - 1
        BY <1>5, <3>2, FS_RemoveElement
      <4> QED
        BY <4>1, <4>2, FS_Subset
    <3>4. count' = count + 1
      BY <2>2 DEF SendNow, SendMsgTo, UrgentMsgTo
    <3>5. count < size \/ (count = size /\ "URGENT" \in Pris)
      BY <1>4, <2>2, <3>1 DEF SendNow, Accepts, FillInv, CallInv
    <3> QED
      BY <1>1, <1>2, <1>3, <1>5, <1>6, <1>9, <3>3, <3>4, <3>5 DEF FillInv
  <2>3. CASE RelockSend(t)
    <3>1. t \in Granted /\ pc'[t] = "idle"
      BY <2>3, ReturnPlace, BroadcastTypes DEF RelockSend, Relock, Granted, TypeInv
    <3>2. Granted' \subseteq Granted \ {t}
      BY <2>1, <3>1 DEF Granted
    <3>3. IsFiniteSet(Granted \ {t}) /\ Cardinality(Granted \ {t}) = Cardinality(Granted) - 1
      BY <1>7, <3>1, FS_RemoveElement
    <3>4. Cardinality(Granted') <= Cardinality(Granted) - 1
      BY <3>2, <3>3, FS_Subset
    <3>5. count' = count + 1
      BY <2>3 DEF RelockSend, SendMsgTo, UrgentMsgTo
    <3> QED
      BY <1>1, <1>2, <1>3, <1>5, <1>6, <1>7, <1>8, <1>9, <3>4, <3>5 DEF FillInv
  <2>4. CASE RecvMine(t)
    <3>1. count' = count - 1
      BY <2>4 DEF RecvMine, FetchMsg
    <3> QED
      BY <1>1, <1>2, <1>3, <1>5, <1>6, <1>7, <1>8, <1>9, <2>1, <3>1 DEF FillInv
  <2>5. CASE UNCHANGED ringVars
    BY <1>1, <1>2, <1>3, <1>5, <1>6, <1>7, <1>8, <1>9, <2>1, <2>5 DEF FillInv, ringVars
  <2> QED
    BY <2>2, <2>3, <2>4, <2>5, CountSteps
<1> QED
  BY <1>10, <1>11

LEMMA InitFills == ASSUME PlainQueue, Init PROVE FillInv
<1>1. CallInv /\ size \in Sizes /\ sendType # "KILLD"
  BY DEF Init, CallInv, SpacePlaces
<1>2. Granted = {} /\ count = 0
  BY DEF Init, Granted
<1>3. Cardinality(Granted) = 0 /\ Cardinality(Senders) \in Nat
  BY <1>2, FS_EmptySet, FS_CardinalityType DEF PlainQueue
<1>4. size \in Nat /\ size >= 1
  BY <1>1 DEF PlainQueue
<1> QED
  BY <1>1, <1>2, <1>3, <1>4 DEF FillInv, OverfillBounded

LEMMA FillInvariant == ASSUME PlainQueue PROVE Spec => [](TypeInv /\ FillInv)
<1>1. Init => FillInv
  BY InitFills
<1>2. TypeInv /\ FillInv /\ [Next]_vars => FillInv'
  <2> SUFFICES ASSUME TypeInv, FillInv, [Next]_vars PROVE FillInv'
    OBVIOUS
  <2>1. CASE UNCHANGED vars
    <3>1. UNCHANGED <<CallInv, Granted, size, sendType, count>>
      BY <2>1 DEF vars, CallInv, Granted
    <3> QED
      BY <3>1 DEF FillInv, OverfillBounded
  <2> QED
    BY <2>1, StepKeepsFill DEF Next, TaskStep
<1> QED
  BY <1>1, <1>2, InitTypes, NextKeepsTypes, PTL DEF Spec

(***************************************************************************)
(* Senders that rely on a message count read without queue_lock overfill a *)
(* queue by at most one message each, less one when no message is urgent,  *)
(* for any finite set of senders, any queue that can hold a message and is *)
(* not deleted.                                                            *)
(***************************************************************************)
THEOREM OverfillIsBounded == ASSUME PlainQueue PROVE Spec => []OverfillBounded
<1>1. FillInv => OverfillBounded
  BY DEF FillInv
<1> QED
  BY <1>1, FillInvariant, PTL

-----------------------------------------------------------------------------
(***************************************************************************)
(* The ring implements the bounded sequence of MsgQueueAbs wherever it is  *)
(* not overfilled.  The lemmas are about any extent r of n + 1 slots, the  *)
(* first message at h and c messages in all.                               *)
(***************************************************************************)
\* The slot that lies i slots above slot 0.
Wrap(n, i) == IF i > n THEN i - 1 - n ELSE i

RingSeq(n, r, h, c) == [i \in 1 .. c |-> r[Wrap(n, h + i - 1)]]

Cells == Msgs \cup {NULL}

IsRing(n, r, h, c) ==
    n \in Nat /\ r \in [0 .. n -> Cells] /\ h \in 0 .. n /\ c \in 0 .. n + 1

\* s lists the messages of the ring.
Lists(s, n, r, h, c) ==
    /\ s \in Seq(Cells) /\ Len(s) = c
    /\ \A i \in 1 .. c : Wrap(n, h + i - 1) \in 0 .. n /\ s[i] = r[Wrap(n, h + i - 1)]

LEMMA RingSeqIsList ==
    ASSUME NEW n, NEW r, NEW h, NEW c, IsRing(n, r, h, c)
    PROVE  Lists(RingSeq(n, r, h, c), n, r, h, c)
<1> DEFINE s == RingSeq(n, r, h, c)
<1>1. \A i \in 1 .. c : Wrap(n, h + i - 1) \in 0 .. n
  BY DEF Wrap, IsRing
<1> HIDE DEF Cells
<1>2. \A i \in 1 .. c : r[Wrap(n, h + i - 1)] \in Cells
  BY <1>1 DEF IsRing
<1>3. s \in [1 .. c -> Cells] /\ \A i \in 1 .. c : s[i] = r[Wrap(n, h + i - 1)]
  BY <1>2 DEF RingSeq
<1>4. c \in Nat
  BY DEF IsRing
<1> HIDE DEF s
<1>5. s \in Seq(Cells) /\ Len(s) = c
  BY <1>3, <1>4
<1> QED
  BY <1>1, <1>3, <1>5 DEF s, Lists

\* Writing the slot after the last message appends.
PutsLast(q, n, r, h, c, m) ==
    IsRing(n, r, h, c) /\ c <= n /\ m \in Cells /\ q = [r EXCEPT ![Wrap(n, h + c)] = m]

LEMMA RingAppend ==
    ASSUME NEW n, NEW r, NEW h, NEW c, NEW m, NEW q, PutsLast(q, n, r, h, c, m)
    PROVE  RingSeq(n, q, h, c + 1) = Append(RingSeq(n, r, h, c), m)
<1> DEFINE k == Wrap(n, h + c)
           old == RingSeq(n, r, h, c)
           new == RingSeq(n, q, h, c + 1)
<1>0. /\ n \in Nat /\ r \in [0 .. n -> Cells] /\ h \in 0 .. n /\ c \in 0 .. n
      /\ m \in Cells /\ q = [r EXCEPT ![k] = m]
  BY DEF PutsLast, IsRing
<1>1. k \in 0 .. n
  BY <1>0 DEF Wrap
<1>2. \A i \in 1 .. c : Wrap(n, h + i - 1) # k
  BY <1>0 DEF Wrap
<1>3. q \in [0 .. n -> Cells] /\ q[k] = m /\ \A j \in 0 .. n : j # k => q[j] = r[j]
  BY <1>0, <1>1 DEF Cells
<1>4. Wrap(n, h + (c + 1) - 1) = k
  BY <1>0 DEF Wrap
<1> HIDE DEF k
<1>5. c \in 0 .. n + 1 /\ c + 1 \in 0 .. n + 1
  BY <1>0
<1>6. /\ old \in Seq(Cells) /\ Len(old) = c
      /\ \A i \in 1 .. c : /\ Wrap(n, h + i - 1) \in 0 .. n
                           /\ old[i] = r[Wrap(n, h + i - 1)]
  <2>1. IsRing(n, r, h, c)
    BY <1>0, <1>5 DEF IsRing
  <2>2. Lists(old, n, r, h, c)
    BY <2>1, RingSeqIsList
  <2> HIDE DEF old
  <2> QED
    BY <2>2 DEF Lists
<1>7. /\ new \in Seq(Cells) /\ Len(new) = c + 1
      /\ \A i \in 1 .. c + 1 : new[i] = q[Wrap(n, h + i - 1)]
  <2>1. IsRing(n, q, h, c + 1)
    BY <1>0, <1>3, <1>5 DEF IsRing
  <2>2. Lists(new, n, q, h, c + 1)
    BY <2>1, RingSeqIsList
  <2> HIDE DEF new
  <2> QED
    BY <2>2 DEF Lists
<1> HIDE DEF old, new
<1>8. /\ Append(old, m) \in Seq(Cells) /\ Len(Append(old, m)) = c + 1
      /\ \A i \in 1 .. c : Append(old, m)[i] = old[i]
      /\ Append(old, m)[c + 1] = m
  BY <1>0, <1>6, AppendProperties
<1>9. ASSUME NEW i \in 1 .. c + 1 PROVE new[i] = Append(old, m)[i]
  <2>1. CASE i = c + 1
    BY <1>3, <1>4, <1>7, <1>8, <2>1
  <2>2. CASE i \in 1 .. c
    <3>1. new[i] = q[Wrap(n, h + i - 1)] /\ old[i] = r[Wrap(n, h + i - 1)]
      BY <1>6, <1>7, <2>2
    <3>2. q[Wrap(n, h + i - 1)] = r[Wrap(n, h + i - 1)]
      BY <1>2, <1>3, <1>6, <2>2
    <3> QED
      BY <1>8, <2>2, <3>1, <3>2
  <2>3. i = c + 1 \/ i \in 1 .. c
    BY <1>0
  <2> QED
    BY <2>1, <2>2, <2>3
<1>10. new = Append(old, m)
  BY <1>7, <1>8, <1>9, SeqEqual
<1> QED
  BY <1>10 DEF new, old

\* Writing the slot before the first message puts the message in front.
PutsFirst(q, d, n, r, h, c, m) ==
    /\ IsRing(n, r, h, c) /\ c <= n /\ m \in Cells
    /\ d = (IF h = 0 THEN n ELSE h - 1) /\ q = [r EXCEPT ![d] = m]

LEMMA RingPrepend ==
    ASSUME NEW n, NEW r, NEW h, NEW c, NEW m, NEW q, NEW d, PutsFirst(q, d, n, r, h, c, m)
    PROVE  RingSeq(n, q, d, c + 1) = <<m>> \o RingSeq(n, r, h, c)
<1> DEFINE old == RingSeq(n, r, h, c)
           new == RingSeq(n, q, d, c + 1)
<1>0. /\ n \in Nat /\ r \in [0 .. n -> Cells] /\ h \in 0 .. n /\ c \in 0 .. n
      /\ m \in Cells /\ d = (IF h = 0 THEN n ELSE h - 1) /\ q = [r EXCEPT ![d] = m]
  BY DEF PutsFirst, IsRing
<1>1. d \in 0 .. n /\ Wrap(n, d + 1 - 1) = d
  BY <1>0 DEF Wrap
<1>2. \A i \in 2 .. c + 1 : /\ Wrap(n, d + i - 1) = Wrap(n, h + (i - 1) - 1)
                            /\ Wrap(n, d + i - 1) # d
  BY <1>0 DEF Wrap
<1>3. q \in [0 .. n -> Cells] /\ q[d] = m /\ \A j \in 0 .. n : j # d => q[j] = r[j]
  BY <1>0, <1>1 DEF Cells
<1>5. c \in 0 .. n + 1 /\ c + 1 \in 0 .. n + 1
  BY <1>0
<1>6. /\ old \in Seq(Cells) /\ Len(old) = c
      /\ \A i \in 1 .. c : /\ Wrap(n, h + i - 1) \in 0 .. n
                           /\ old[i] = r[Wrap(n, h + i - 1)]
  <2>1. IsRing(n, r, h, c)
    BY <1>0, <1>5 DEF IsRing
  <2>2. Lists(old, n, r, h, c)
    BY <2>1, RingSeqIsList
  <2> HIDE DEF old
  <2> QED
    BY <2>2 DEF Lists
<1>7. /\ new \in Seq(Cells) /\ Len(new) = c + 1
      /\ \A i \in 1 .. c + 1 : new[i] = q[Wrap(n, d + i - 1)]
  <2>1. IsRing(n, q, d, c + 1)
    BY <1>0, <1>1, <1>3, <1>5 DEF IsRing
  <2>2. Lists(new, n, q, d, c + 1)
    BY <2>1, RingSeqIsList
  <2> HIDE DEF new
  <2> QED
    BY <2>2 DEF Lists
<1> HIDE DEF old, new
<1>8. <<m>> \in Seq(Cells) /\ Len(<<m>>) = 1 /\ <<m>>[1] = m
  BY <1>0
<1>9. /\ <<m>> \o old \in Seq(Cells) /\ Len(<<m>> \o old) = c + 1
      /\ (<<m>> \o old)[1] = m
      /\ \A i \in 2 .. c + 1 : (<<m>> \o old)[i] = old[i - 1]
  <2> DEFINE f == <<m>>
  <2> HIDE DEF f
  <2>1. /\ f \o old \in Seq(Cells) /\ Len(f \o old) = 1 + c
        /\ \A i \in 1 .. 1 + c : (f \o old)[i] = IF i <= 1 THEN f[i] ELSE old[i - 1]
    BY <1>6, <1>8, ConcatProperties DEF f
  <2> QED
    BY <1>0, <1>5, <1>8, <2>1 DEF f
<1>10. ASSUME NEW i \in 1 .. c + 1 PROVE new[i] = (<<m>> \o old)[i]
  <2>1. CASE i = 1
    BY <1>1, <1>3, <1>7, <1>9, <2>1
  <2>2. CASE i \in 2 .. c + 1
    <3>1. i - 1 \in 1 .. c
      BY <1>0, <2>2
    <3>2. old[i - 1] = r[Wrap(n, d + i - 1)] /\ Wrap(n, d + i - 1) \in 0 .. n
      BY <1>2, <1>6, <2>2, <3>1
    <3> QED
      BY <1>2, <1>3, <1>7, <1>9, <2>2, <3>2
  <2>3. i = 1 \/ i \in 2 .. c + 1
    BY <1>0
  <2> QED
    BY <2>1, <2>2, <2>3
<1>11. new = <<m>> \o old
  BY <1>7, <1>9, <1>10, SeqEqual
<1> QED
  BY <1>11 DEF new, old

\* Clearing the first slot and moving up leaves the tail of the messages.
TakesFirst(q, u, n, r, h, c) ==
    /\ IsRing(n, r, h, c) /\ c >= 1
    /\ u = (IF h = n THEN 0 ELSE h + 1) /\ q = [r EXCEPT ![h] = NULL]

LEMMA RingTail ==
    ASSUME NEW n, NEW r, NEW h, NEW c, NEW q, NEW u, TakesFirst(q, u, n, r, h, c)
    PROVE  /\ RingSeq(n, r, h, c) # <<>>
           /\ Head(RingSeq(n, r, h, c)) = r[h]
           /\ RingSeq(n, q, u, c - 1) = Tail(RingSeq(n, r, h, c))
<1> DEFINE old == RingSeq(n, r, h, c)
           new == RingSeq(n, q, u, c - 1)
<1>0. /\ n \in Nat /\ r \in [0 .. n -> Cells] /\ h \in 0 .. n /\ c \in 1 .. n + 1
      /\ u = (IF h = n THEN 0 ELSE h + 1) /\ q = [r EXCEPT ![h] = NULL]
  BY DEF TakesFirst, IsRing
<1>1. u \in 0 .. n /\ Wrap(n, h + 1 - 1) = h
  BY <1>0 DEF Wrap
<1>2. \A i \in 1 .. c - 1 : /\ Wrap(n, u + i - 1) = Wrap(n, h + (i + 1) - 1)
                            /\ Wrap(n, u + i - 1) # h
  BY <1>0 DEF Wrap
<1>3. q \in [0 .. n -> Cells] /\ \A j \in 0 .. n : j # h => q[j] = r[j]
  BY <1>0, <1>1 DEF Cells
<1>5. c \in 0 .. n + 1 /\ c - 1 \in 0 .. n + 1 /\ 1 \in 1 .. c
  BY <1>0
<1>6. /\ old \in Seq(Cells) /\ Len(old) = c
      /\ \A i \in 1 .. c : /\ Wrap(n, h + i - 1) \in 0 .. n
                           /\ old[i] = r[Wrap(n, h + i - 1)]
  <2>1. IsRing(n, r, h, c)
    BY <1>0, <1>5 DEF IsRing
  <2>2. Lists(old, n, r, h, c)
    BY <2>1, RingSeqIsList
  <2> HIDE DEF old
  <2> QED
    BY <2>2 DEF Lists
<1>7. /\ new \in Seq(Cells) /\ Len(new) = c - 1
      /\ \A i \in 1 .. c - 1 : new[i] = q[Wrap(n, u + i - 1)]
  <2>1. IsRing(n, q, u, c - 1)
    BY <1>0, <1>1, <1>3, <1>5 DEF IsRing
  <2>2. Lists(new, n, q, u, c - 1)
    BY <2>1, RingSeqIsList
  <2> HIDE DEF new
  <2> QED
    BY <2>2 DEF Lists
<1> HIDE DEF old, new
<1>8. old # <<>>
  BY <1>0, <1>6, EmptySeq
<1>9. Head(old) = r[h]
  <2>1. Head(old) = old[1]
    BY <1>6, <1>8
  <2> QED
    BY <1>1, <1>5, <1>6, <2>1
<1>10. /\ Tail(old) \in Seq(Cells) /\ Len(Tail(old)) = c - 1
       /\ \A i \in 1 .. c - 1 : Tail(old)[i] = old[i + 1]
  BY <1>6, <1>8, HeadTailProperties
<1>11. ASSUME NEW i \in 1 .. c - 1 PROVE new[i] = Tail(old)[i]
  <2>1. i + 1 \in 1 .. c
    BY <1>0
  <2>2. old[i + 1] = r[Wrap(n, u + i - 1)] /\ Wrap(n, u + i - 1) \in 0 .. n
    BY <1>2, <1>6, <2>1
  <2> QED
    BY <1>2, <1>3, <1>7, <1>10, <2>2
<1>12. new = Tail(old)
  BY <1>7, <1>10, <1>11, SeqEqual
<1> QED
  BY <1>8, <1>9, <1>12 DEF new, old

-----------------------------------------------------------------------------
RingInv == tail = Wrap(size, head + count)

\* The bound on overfilling leaves the extra slot of the extent for one message.
FewSenders ==
    \/ Cardinality(Senders) <= 1
    \/ Cardinality(Senders) <= 2 /\ "URGENT" \notin Pris

LEMMA FillLeavesSlot ==
    ASSUME PlainQueue, FewSenders, TypeInv, FillInv
    PROVE  NoOverwrite
<1>1. Cardinality(Granted) \in Nat /\ Cardinality(Senders) \in Nat
  BY GrantedBound DEF PlainQueue, FillInv
<1>2. count \in Nat /\ size \in Nat
  BY DEF TypeInv, RingTypes
<1> QED
  BY <1>1, <1>2 DEF FewSenders, FillInv, OverfillBounded, NoOverwrite

(***************************************************************************)
(* With one sender, or with two that send no urgent message, no message is *)
(* ever written over another one, whatever they have read before they got  *)
(* queue_lock.                                                             *)
(***************************************************************************)
THEOREM NothingOverwritten ==
    ASSUME PlainQueue, FewSenders
    PROVE  Spec => []NoOverwrite
<1>1. TypeInv /\ FillInv => NoOverwrite
  BY FillLeavesSlot
<1> QED
  BY <1>1, FillInvariant, PTL

\* The contents, by the ring's four parts.
LEMMA ContentsSlots ==
    \A n, h, c \in Nat :
        \A i \in 1 .. c :
            (IF h + i - 1 > n THEN h + i - 2 - n ELSE h + i - 1) = Wrap(n, h + i - 1)
BY DEF Wrap

LEMMA ContentsRing ==
    ASSUME RingTypes
    PROVE  Contents = RingSeq(size, ring, head, count)
<1>1. \A i \in 1 .. count :
        (IF head + i - 1 > size THEN head + i - 2 - size ELSE head + i - 1)
            = Wrap(size, head + i - 1)
  BY DEF Wrap, RingTypes, Slots
<1> QED
  BY <1>1 DEF Contents, RingSeq

LEMMA ContentsRingNext ==
    ASSUME RingTypes'
    PROVE  Contents' = RingSeq(size', ring', head', count')
<1>0. size' \in Nat /\ head' \in Nat /\ count' \in Nat
  BY DEF RingTypes, Slots
<1>1. \A i \in 1 .. count' :
        (IF head' + i - 1 > size' THEN head' + i - 2 - size' ELSE head' + i - 1)
            = Wrap(size', head' + i - 1)
  BY <1>0, ContentsSlots
<1> QED
  BY <1>1 DEF Contents, RingSeq

\* send_msg_to appends, urgent_msg_to puts in front.
LEMMA SendIsChannelSend ==
    ASSUME RingTypes, RingTypes', RingInv, count <= size, UNCHANGED <<fixed, delivered>>,
           NEW m \in Msgs, SendMsgTo(m) \/ UrgentMsgTo(m)
    PROVE  (Channel!Send(m) \/ Channel!SendUrgent(m)) /\ RingInv'
<1>1. /\ size \in Nat /\ ring \in [0 .. size -> Cells] /\ head \in 0 .. size
      /\ tail \in 0 .. size /\ count \in 0 .. size /\ m \in Cells
  BY DEF RingTypes, Slots, Cells
<1>2. size' = size /\ count' = count + 1 /\ delivered' = delivered
  BY DEF SendMsgTo, UrgentMsgTo, fixed
<1>3. Len(Contents) = count
  <2>1. IsRing(size, ring, head, count)
    BY <1>1 DEF IsRing
  <2> QED
    BY <2>1, RingSeqIsList, ContentsRing DEF Lists
<1>4. CASE SendMsgTo(m)
  <2>1. head' = head /\ tail' = Up(tail) /\ ring' = [ring EXCEPT ![Wrap(size, head + count)] = m]
    BY <1>4 DEF SendMsgTo, RingInv
  <2>2. Contents' = Append(Contents, m)
    <3>1. PutsLast(ring', size, ring, head, count, m)
      BY <1>1, <2>1 DEF PutsLast, IsRing
    <3>2. RingSeq(size, ring', head, count + 1) = Append(RingSeq(size, ring, head, count), m)
      BY <3>1, RingAppend
    <3> QED
      BY <1>2, <2>1, <3>2, ContentsRing, ContentsRingNext
  <2>3. RingInv'
    BY <1>1, <1>2, <2>1 DEF RingInv, Up, Wrap
  <2> QED
    BY <1>1, <1>2, <1>3, <2>2, <2>3 DEF Channel!Send
<1>5. CASE UrgentMsgTo(m)
  <2>1. head' = Down(head) /\ tail' = tail /\ ring' = [ring EXCEPT ![Down(head)] = m]
        /\ Down(head) = IF head = 0 THEN size ELSE head - 1
    BY <1>5 DEF UrgentMsgTo, Down
  <2>2. Contents' = <<m>> \o Contents
    <3>1. PutsFirst(ring', head', size, ring, head, count, m)
      BY <1>1, <2>1 DEF PutsFirst, IsRing
    <3>2. RingSeq(size, ring', head', count + 1) = <<m>> \o RingSeq(size, ring, head, count)
      BY <3>1, RingPrepend
    <3> QED
      BY <1>2, <3>2, ContentsRing, ContentsRingNext
  <2>3. RingInv'
    BY <1>1, <1>2, <2>1 DEF RingInv, Wrap
  <2> QED
    BY <1>1, <1>2, <1>3, <2>2, <2>3 DEF Channel!SendUrgent
<1> QED
  BY <1>4, <1>5

\* fetch_msg_from takes the first message.
LEMMA FetchIsChannelReceive ==
    ASSUME RingTypes, RingTypes', RingInv, NoOverwrite, count > 0, UNCHANGED fixed, FetchMsg
    PROVE  Channel!Receive /\ RingInv'
<1>1. /\ size \in Nat /\ ring \in [0 .. size -> Cells] /\ head \in 0 .. size
      /\ tail \in 0 .. size /\ count \in 1 .. size + 1
  BY DEF RingTypes, Slots, Cells, NoOverwrite
<1>2. /\ size' = size /\ count' = count - 1 /\ delivered' = ring[head] /\ tail' = tail
      /\ ring' = [ring EXCEPT ![head] = NULL]
      /\ head' = Up(head) /\ Up(head) = IF head = size THEN 0 ELSE head + 1
  BY DEF FetchMsg, fixed, Up
<1>3. /\ RingSeq(size, ring, head, count) # <<>>
      /\ Head(RingSeq(size, ring, head, count)) = ring[head]
      /\ RingSeq(size, ring', head', count - 1) = Tail(RingSeq(size, ring, head, count))
  <2>1. TakesFirst(ring', head', size, ring, head, count)
    BY <1>1, <1>2 DEF TakesFirst, IsRing
  <2> QED
    BY <2>1, RingTail
<1>4. Contents # <<>> /\ Head(Contents) = ring[head] /\ Contents' = Tail(Contents)
  BY <1>2, <1>3, ContentsRing, ContentsRingNext
<1>5. RingInv'
  BY <1>1, <1>2 DEF RingInv, Wrap
<1> QED
  BY <1>2, <1>4, <1>5 DEF Channel!Receive

LEMMA StepIsChannelStep ==
    ASSUME TypeInv, TypeInv', CallInv, NoOverwrite, NoOverwrite', RingInv,
           NEW t \in Tasks, TaskStep(t)
    PROVE  [Channel!AbsNext]_(Channel!absVars) /\ RingInv'
<1>1. RingTypes /\ RingTypes' /\ count \in Nat /\ size \in Nat
  BY DEF TypeInv, RingTypes
<1>2. CASE SendNow(t) \/ RelockSend(t)
  <2>1. op[t] = "msgQSend"
    BY <1>2 DEF SendNow, Entered, RelockSend, Relock, CallInv, SpacePlaces
  <2>2. arg[t].msg \in Msgs
    BY <2>1 DEF CallInv
  <2>3. SendMsgTo(arg[t].msg) \/ UrgentMsgTo(arg[t].msg)
    BY <1>2 DEF SendNow, RelockSend
  <2>4. UNCHANGED <<fixed, delivered>>
    BY <1>2 DEF SendNow, RelockSend, history
  <2>5. count <= size
    BY <1>1, <2>3, <2>4 DEF SendMsgTo, UrgentMsgTo, NoOverwrite, fixed
  <2>6. (Channel!Send(arg[t].msg) \/ Channel!SendUrgent(arg[t].msg)) /\ RingInv'
    BY <1>1, <2>2, <2>3, <2>4, <2>5, SendIsChannelSend
  <2> QED
    BY <2>2, <2>6 DEF Channel!AbsNext
<1>3. CASE RecvMine(t)
  <2>1. count > 0 /\ UNCHANGED fixed /\ FetchMsg
    BY <1>3 DEF RecvMine
  <2> QED
    BY <1>1, <2>1, FetchIsChannelReceive DEF Channel!AbsNext
<1>4. CASE UNCHANGED <<fixed, ringVars, delivered>>
  BY <1>4 DEF fixed, ringVars, RingInv, Contents, Channel!absVars, Wrap
<1> QED
  BY <1>2, <1>3, <1>4, CountSteps

(***************************************************************************)
(* Under the same conditions the ring is the bounded sequence that a       *)
(* message queue promises: each message is received once, normal ones in   *)
(* the order of sending and urgent ones first, for any queue length and    *)
(* any interleaving of senders, receivers, time-outs and wake-ups.         *)
(***************************************************************************)
THEOREM RingIsChannel ==
    ASSUME PlainQueue, FewSenders
    PROVE  Spec => ImplementsChannel
<1>1. Init => RingInv /\ Channel!AbsInit
  <2> SUFFICES ASSUME Init PROVE RingInv /\ Channel!AbsInit
    OBVIOUS
  <2>1. size \in Nat /\ count = 0 /\ head = 0 /\ tail = 0 /\ delivered = NULL
    BY DEF Init
  <2>2. Contents = <<>>
    BY <2>1 DEF Contents
  <2> QED
    BY <2>1, <2>2 DEF RingInv, Wrap, Channel!AbsInit
<1>2. TypeInv /\ FillInv => NoOverwrite /\ CallInv
  BY FillLeavesSlot DEF FillInv
<1>3. /\ TypeInv /\ TypeInv' /\ CallInv /\ NoOverwrite /\ NoOverwrite'
      /\ RingInv /\ [Next]_vars
      => RingInv' /\ [Channel!AbsNext]_(Channel!absVars)
  <2> SUFFICES ASSUME TypeInv, TypeInv', CallInv, NoOverwrite, NoOverwrite', RingInv, [Next]_vars
               PROVE  RingInv' /\ [Channel!AbsNext]_(Channel!absVars)
    OBVIOUS
  <2>1. CASE UNCHANGED vars
    BY <2>1 DEF vars, RingInv, Contents, Channel!absVars, Wrap
  <2> QED
    BY <2>1, StepIsChannelStep DEF Next, TaskStep
<1> QED
  BY <1>1, <1>2, <1>3, FillInvariant, PTL DEF Spec, ImplementsChannel, Channel!AbsSpec

-----------------------------------------------------------------------------
(***************************************************************************)
(* What msgQDelete waits for.                                              *)
(***************************************************************************)
InList(s, u) == \E i \in DOMAIN s : s[i] = u

\* Unlinking a task leaves the others in the list.
LEMMA UnlinkedKeepsOthers ==
    ASSUME NEW s \in Seq(Tasks), NEW t, NEW u, u # t, InList(s, u)
    PROVE  InList(Unlinked(s, t), u)
<1>1. CASE ~ \E i \in DOMAIN s : s[i] = t
  BY <1>1 DEF Unlinked
<1>2. CASE \E i \in DOMAIN s : s[i] = t
  <2> DEFINE k == CHOOSE i \in DOMAIN s : s[i] = t
             w == [j \in 1 .. Len(s) - 1 |-> IF j < k THEN s[j] ELSE s[j + 1]]
  <2>1. k \in 1 .. Len(s) /\ s[k] = t
    BY <1>2
  <2>2. Unlinked(s, t) = w
    BY <1>2 DEF Unlinked
  <2> HIDE DEF k
  <2>3. PICK i \in 1 .. Len(s) : s[i] = u
    BY DEF InList
  <2>4. i # k
    BY <2>1, <2>3
  <2>5. CASE i < k
    <3>1. i \in 1 .. Len(s) - 1 /\ w[i] = u
      BY <2>1, <2>3, <2>5
    <3> QED
      BY <2>2, <3>1 DEF InList
  <2>6. CASE i > k
    <3>1. i - 1 \in 1 .. Len(s) - 1 /\ ~(i - 1 < k) /\ (i - 1) + 1 = i
      BY <2>1, <2>6
    <3>2. w[i - 1] = u
      BY <2>3, <3>1
    <3> QED
      BY <2>2, <3>1, <3>2 DEF InList
  <2> QED
    BY <2>1, <2>4, <2>5, <2>6
<1> QED
  BY <1>1, <1>2

\* Linking a task leaves all others in the list.
LEMMA AppendKeepsAll ==
    ASSUME NEW s \in Seq(Tasks), NEW t \in Tasks, NEW u, InList(s, u)
    PROVE  InList(Append(s, t), u)
<1>1. PICK i \in DOMAIN s : s[i] = u
  BY DEF InList
<1>2. i \in DOMAIN Append(s, t) /\ Append(s, t)[i] = u
  BY <1>1
<1> QED
  BY <1>2 DEF InList

\* A task that the deletion has found waiting stays in a list until it unlinks
\* itself, and msgQDelete is past its wait only when there is no such task left,
\* whatever tasks have begun to wait in the meantime.
PastWait(p) == p \in {"unlink", "free"}

DoomInv ==
    /\ \A u \in doomed : InList(readers, u) \/ InList(writers, u)
    /\ status # "linked" \/ (\E t \in Tasks : PastWait(pc[t])) => doomed = {}

\* How a step can change what DoomInv is about.  The lists keep every task but
\* the one that takes the step, which is not doomed once it leaves.
KeepsLists(t) ==
    /\ \A u \in Tasks \ {t} : InList(readers, u) => InList(readers', u)
    /\ \A u \in Tasks \ {t} : InList(writers, u) => InList(writers', u)
    /\ doomed' = doomed \ {t}

Stays == UNCHANGED <<lists, doomed>>

Behind(t) == ~PastWait(pc'[t]) /\ UNCHANGED status

\* A task that unlinks itself, from either list or none.
LEMMA LeaveKeepsLists ==
    ASSUME TypeInv, NEW t \in Tasks,
           readers' \in {readers, Unlinked(readers, t)},
           writers' \in {writers, Unlinked(writers, t)}, doomed' = doomed \ {t}
    PROVE  KeepsLists(t)
<1>1. readers \in Seq(Tasks) /\ writers \in Seq(Tasks)
  BY DEF TypeInv, ListTypes
<1> QED
  BY <1>1, UnlinkedKeepsOthers DEF KeepsLists

\* The task that has left moves on, and msgQDelete is not where it is.
LEMMA LeaveBehind ==
    ASSUME TypeInv, NEW t \in Tasks, UNCHANGED status,
           NEW p, p \in [Tasks -> PCs], NEW place, pc' = [p EXCEPT ![t] = place], ~PastWait(place)
    PROVE  Behind(t)
BY DEF Behind

\* A task that leaves because the queue is being deleted.
LEMMA LeaveKilledDooms ==
    ASSUME TypeInv, NEW t \in Tasks, NEW r, NEW w, LeaveKilled(t, r, w),
           r \in {readers, Unlinked(readers, t)}, w \in {writers, Unlinked(writers, t)}
    PROVE  KeepsLists(t) /\ Behind(t)
<1>1. KeepsLists(t)
  BY LeaveKeepsLists DEF LeaveKilled
<1>2. UNCHANGED status
  BY DEF LeaveKilled
<1>3. pc' = [pc EXCEPT ![t] = "notify"] \/ pc' = [pc EXCEPT ![t] = "idle"]
  BY DEF LeaveKilled, Goto, Return
<1>4. pc \in [Tasks -> PCs] /\ ~PastWait("notify") /\ ~PastWait("idle")
  BY DEF TypeInv, PlaceTypes, PastWait
<1> QED
  BY <1>1, <1>2, <1>3, <1>4, LeaveBehind

\* The steps of senders and receivers.
LEMMA CallDooms ==
    ASSUME TypeInv, NEW t \in Tasks,
           \/ Call(t)
           \/ FindMiss(t) \/ FindHit(t) \/ Enter(t) \/ BadLength(t) \/ NumMsgs(t)
           \/ SendNow(t) \/ SendRefused(t) \/ Notify(t)
           \/ Handshake(t) \/ RecvNotMine(t) \/ Alert(t) \/ UseFreed(t)
    PROVE  Stays /\ Behind(t)
<1>1. Stays /\ UNCHANGED status
  BY DEF Call, CallSend, CallReceive, CallNumMsgs, CallDelete, Begin, FindMiss, FindHit,
         Enter, BadLength, NumMsgs, SendNow, SendRefused, Notify, Handshake, RecvNotMine,
         Sleep, Alert, UseFreed, history, Stays
<1>2. \E p \in {pc, BroadcastSend(pc), BroadcastSpace(pc), BroadcastComplete(pc)},
         place \in {"idle", "find", "found", "locked", "check", "delay", "lost"} :
         pc' = [p EXCEPT ![t] = place]
  BY DEF Call, CallSend, CallReceive, CallNumMsgs, CallDelete, Begin, FindMiss, FindHit,
         Enter, BadLength, NumMsgs, SendNow, SendRefused, Notify, Handshake, RecvNotMine,
         Sleep, Alert, UseFreed, Goto, Return
<1>3. PICK p \in {pc, BroadcastSend(pc), BroadcastSpace(pc), BroadcastComplete(pc)},
           place \in {"idle", "find", "found", "locked", "check", "delay", "lost"} :
         pc' = [p EXCEPT ![t] = place]
  BY <1>2
<1>4. p \in [Tasks -> PCs]
  BY BroadcastOthers
<1>5. ~PastWait(place)
  BY DEF PastWait
<1> QED
  BY <1>1, <1>3, <1>4, <1>5, LeaveBehind

\* The looks of a waiting sender at the queue leave the lists alone.
LEMMA LookDooms ==
    ASSUME TypeInv, NEW t \in Tasks,
           \/ SpaceKilled(t) \/ SpaceAlive(t) \/ SpaceFree(t) \/ SpaceMine(t)
           \/ SpaceNotMine(t) \/ SpaceSleep(t) \/ SpaceWake(t) \/ SpaceNone(t)
           \/ SpaceDelayed(t)
    PROVE  Stays /\ Behind(t)
<1>1. ASSUME NEW place, NEW r, NEW lock, Look(t, place, r, lock), ~PastWait(place)
      PROVE  Stays /\ Behind(t)
  <2>1. pc \in [Tasks -> PCs]
    BY DEF TypeInv, PlaceTypes
  <2> QED
    BY <1>1, <2>1, LeaveBehind DEF Look, Goto, Stays, history
<1>2. CASE \/ SpaceKilled(t) \/ SpaceAlive(t) \/ SpaceFree(t) \/ SpaceMine(t)
           \/ SpaceNotMine(t) \/ SpaceSleep(t) \/ SpaceWake(t)
  BY <1>1, <1>2 DEF SpaceKilled, SpaceAlive, SpaceFree, SpaceMine, SpaceNotMine,
                    SpaceSleep, SpaceWake, PastWait
<1>3. CASE SpaceNone(t) \/ SpaceDelayed(t)
  BY <1>1, <1>3 DEF SpaceNone, SpaceDelayed, NoSpace, PastWait
<1> QED
  BY <1>2, <1>3

\* Time and spurious wake-ups leave the lists alone.
LEMMA TimeDooms ==
    ASSUME TypeInv, NEW t \in Tasks, TimedOut(t) \/ Spurious(t) \/ Expire(t)
    PROVE  Stays /\ Behind(t)
<1>1. Stays /\ UNCHANGED status
  BY DEF TimedOut, Spurious, Wakes, Expire, history, Stays
<1>2. pc \in [Tasks -> PCs]
  BY DEF TypeInv, PlaceTypes
<1>3. CASE Expire(t)
  BY <1>1, <1>3 DEF Expire, Behind, PastWait
<1>4. CASE TimedOut(t) \/ Spurious(t)
  <2>1. PICK place : pc' = [pc EXCEPT ![t] = place] /\ ~PastWait(place)
    BY <1>4 DEF TimedOut, Spurious, Wakes, PastWait
  <2> QED
    BY <1>1, <1>2, <2>1, LeaveBehind
<1> QED
  BY <1>3, <1>4

\* A task that begins to wait joins a list.
Joins(t) ==
    /\ \A u \in Tasks : InList(readers, u) => InList(readers', u)
    /\ \A u \in Tasks : InList(writers, u) => InList(writers', u)
    /\ UNCHANGED doomed

\* A sender without space and a receiver link themselves.
LEMMA JoinDooms ==
    ASSUME TypeInv, NEW t \in Tasks, SendWait(t) \/ RecvLink(t)
    PROVE  Joins(t) /\ Behind(t)
<1>1. readers \in Seq(Tasks) /\ writers \in Seq(Tasks) /\ pc \in [Tasks -> PCs]
  BY DEF TypeInv, ListTypes, PlaceTypes
<1>2. Joins(t)
  <2>1. /\ readers' \in {readers, Append(readers, t)}
        /\ writers' \in {writers, Append(writers, t)} /\ UNCHANGED doomed
    BY DEF SendWait, RecvLink, history
  <2>2. /\ \A u \in Tasks : InList(readers, u) => InList(Append(readers, t), u)
        /\ \A u \in Tasks : InList(writers, u) => InList(Append(writers, t), u)
    BY <1>1, AppendKeepsAll
  <2> QED
    BY <2>1, <2>2 DEF Joins
<1>3. PICK place : pc' = [pc EXCEPT ![t] = place] /\ ~PastWait(place)
  BY DEF SendWait, RecvLink, Goto, PastWait
<1>4. UNCHANGED status
  BY DEF SendWait, RecvLink
<1> QED
  BY <1>1, <1>2, <1>3, <1>4, LeaveBehind

\* A receiver that finds no message sleeps on or leaves the list.
LEMMA NoMsgDooms ==
    ASSUME TypeInv, NEW t \in Tasks, NoMsg(t)
    PROVE  (Stays \/ KeepsLists(t)) /\ Behind(t)
<1>1. pc \in [Tasks -> PCs]
  BY DEF TypeInv, PlaceTypes
<1>2. CASE Sleep(t, "cond")
  <2>1. Stays /\ UNCHANGED status /\ pc' = [pc EXCEPT ![t] = "cond"]
    BY <1>2 DEF Sleep, Goto, Stays, history
  <2>2. ~PastWait("cond")
    BY DEF PastWait
  <2> QED
    BY <1>1, <2>1, <2>2, LeaveBehind
<1>3. CASE RecvTimedOut(t)
  <2>1. KeepsLists(t)
    BY <1>3, LeaveKeepsLists DEF RecvTimedOut
  <2>2. UNCHANGED status /\ pc' = [pc EXCEPT ![t] = "idle"]
    BY <1>3 DEF RecvTimedOut, Return
  <2>3. ~PastWait("idle")
    BY DEF PastWait
  <2> QED
    BY <1>1, <2>1, <2>2, <2>3, LeaveBehind
<1>4. CASE LeaveKilled(t, Unlinked(readers, t), writers)
  BY <1>4, LeaveKilledDooms
<1> QED
  BY <1>2, <1>3, <1>4 DEF NoMsg

\* A task leaves the list it waits in, having a message or space, or being told
\* that the queue is going or that its time is up.
LEMMA LeaveDooms ==
    ASSUME TypeInv, NEW t \in Tasks,
           \/ RelockKilled(t) \/ RelockTimedOut(t) \/ RelockSend(t)
           \/ RecvKilled(t) \/ RecvMineKilled(t) \/ RecvNone(t) \/ RecvExpired(t)
           \/ RecvMine(t)
    PROVE  (Stays \/ KeepsLists(t)) /\ Behind(t)
<1>1. CASE RelockKilled(t) \/ RecvKilled(t) \/ RecvMineKilled(t)
  BY <1>1, LeaveKilledDooms DEF RelockKilled, RecvKilled, RecvMineKilled
<1>2. CASE RecvNone(t) \/ RecvExpired(t)
  BY <1>2, NoMsgDooms DEF RecvNone, RecvExpired
<1>3. CASE RelockTimedOut(t) \/ RelockSend(t) \/ RecvMine(t)
  <2>1. KeepsLists(t)
    BY <1>3, LeaveKeepsLists DEF RelockTimedOut, RelockSend, RecvMine
  <2>2. UNCHANGED status
    BY <1>3 DEF RelockTimedOut, RelockSend, RecvMine
  <2>3. PICK p \in {pc, BroadcastSend(pc)}, place \in {"idle", "alert"} :
            pc' = [p EXCEPT ![t] = place]
    BY <1>3 DEF RelockTimedOut, RelockSend, RecvMine, Return, Goto
  <2>4. p \in [Tasks -> PCs] /\ ~PastWait(place)
    BY BroadcastOthers DEF PastWait
  <2> QED
    BY <2>1, <2>2, <2>3, <2>4, LeaveBehind
<1> QED
  BY <1>1, <1>2, <1>3

\* The steps of msgQDelete.  It gets past its wait only when it finds both lists
\* empty.
EmptyLists == readers = <<>> /\ writers = <<>>

LEMMA DeleteDooms ==
    ASSUME TypeInv, NEW t \in Tasks,
           \/ SchedLocked(t) \/ Announce(t) \/ AnnounceSpace(t) \/ DrainWait(t)
           \/ DrainAgain(t) \/ Drained(t) \/ Unlink(t) \/ Free(t) \/ SchedUnlocked(t)
    PROVE  Stays /\ (Behind(t) \/ EmptyLists \/ PastWait(pc[t]))
<1>1. Stays
  BY DEF SchedLocked, Announce, AnnounceSpace, DrainWait, DrainAgain, Drained, Unlink,
         Free, SchedUnlocked, Deleting, history, Stays
<1>2. CASE (SchedLocked(t) /\ ~Waiting) \/ Drained(t)
  BY <1>1, <1>2 DEF Drained, StillPending, Waiting, EmptyLists
<1>3. CASE Unlink(t) \/ Free(t)
  BY <1>1, <1>3 DEF Unlink, Free, PastWait
<1>4. CASE \/ (SchedLocked(t) /\ Waiting) \/ Announce(t) \/ AnnounceSpace(t)
           \/ DrainWait(t) \/ DrainAgain(t) \/ SchedUnlocked(t)
  <2>1. UNCHANGED status
    BY <1>4 DEF SchedLocked, Announce, AnnounceSpace, DrainWait, DrainAgain, SchedUnlocked
  <2>2. PICK p \in {pc, BroadcastSend(pc), BroadcastSpace(pc)},
             place \in {"announce", "announceSpace", "drain", "drainWait", "idle"} :
            pc' = [p EXCEPT ![t] = place]
    BY <1>4 DEF SchedLocked, Announce, AnnounceSpace, DrainWait, DrainAgain, SchedUnlocked,
                Deleting, Return
  <2>3. p \in [Tasks -> PCs] /\ ~PastWait(place)
    BY BroadcastOthers DEF PastWait
  <2> QED
    BY <1>1, <2>1, <2>2, <2>3, LeaveBehind
<1> QED
  BY <1>2, <1>3, <1>4

\* A deletion that finds the queue linked and no other deletion under way dooms
\* the tasks that wait in its lists.
LEMMA KillDooms ==
    ASSUME TypeInv, DoomInv, NEW t \in Tasks, Kill(t)
    PROVE  DoomInv'
<1>1. /\ pc' = [pc EXCEPT ![t] = "sched"] /\ pc \in [Tasks -> PCs]
      /\ UNCHANGED <<status, readers, writers>> /\ doomed' = Doom(t)
  BY DEF Kill, Goto, TypeInv, PlaceTypes, lists
<1>2. \A u \in Tasks : PastWait(pc'[u]) => u # t /\ PastWait(pc[u])
  BY <1>1 DEF PastWait
<1>3. CASE status = "linked" /\ \A u \in Tasks \ {t} : pc[u] \notin DeletePlaces
  <2>1. \A u \in Doom(t) : InList(readers, u) \/ InList(writers, u)
    BY <1>3 DEF Doom, InList
  <2>2. ~ \E u \in Tasks : PastWait(pc'[u])
    BY <1>2, <1>3 DEF PastWait, DeletePlaces
  <2> QED
    BY <1>1, <1>3, <2>1, <2>2 DEF DoomInv
<1>4. CASE ~(status = "linked" /\ \A u \in Tasks \ {t} : pc[u] \notin DeletePlaces)
  <2>1. doomed' = doomed
    BY <1>1, <1>4 DEF Doom
  <2> QED
    BY <1>1, <1>2, <2>1 DEF DoomInv
<1> QED
  BY <1>3, <1>4

\* A step other than Kill, by what it does to the lists.
LEMMA StepDooms ==
    ASSUME TypeInv, NEW t \in Tasks, TaskStep(t)
    PROVE  \/ Kill(t)
           \/ (Stays \/ Joins(t) \/ KeepsLists(t)) /\ Behind(t)
           \/ Stays /\ (EmptyLists \/ PastWait(pc[t]))
BY CallDooms, LookDooms, TimeDooms, JoinDooms, LeaveDooms, DeleteDooms DEF TaskStep, Progress

\* DoomInv is inductive: only the task itself ends what dooms it.
LEMMA StepKeepsDoom ==
    ASSUME TypeInv, DoomInv, NEW t \in Tasks, TaskStep(t)
    PROVE  DoomInv'
<1>1. CASE Kill(t)
  BY <1>1, KillDooms
<1>2. CASE Stays /\ (EmptyLists \/ PastWait(pc[t]))
  <2>1. \A u \in doomed : InList(readers, u) \/ InList(writers, u)
    BY DEF DoomInv
  <2>2. CASE EmptyLists
    <3>1. \A u : ~InList(readers, u) /\ ~InList(writers, u)
      BY <2>2 DEF EmptyLists, InList
    <3>2. doomed = {}
      BY <2>1, <3>1
    <3> QED
      BY <1>2, <3>2 DEF Stays, DoomInv
  <2>3. CASE PastWait(pc[t])
    <3>1. doomed = {}
      BY <2>3 DEF DoomInv
    <3> QED
      BY <1>2, <3>1 DEF Stays, DoomInv
  <2> QED
    BY <1>2, <2>2, <2>3
<1>3. CASE (Stays \/ Joins(t) \/ KeepsLists(t)) /\ Behind(t)
  <2>1. \A u \in Tasks : PastWait(pc'[u]) => PastWait(pc[u])
    BY <1>3, StepFacts DEF Behind, Starts, Facts, Others, PastWait
  <2>2. doomed' \subseteq doomed /\ UNCHANGED status
    BY <1>3 DEF Stays, Joins, KeepsLists, Behind
  <2>3. \A u \in doomed' : InList(readers', u) \/ InList(writers', u)
    <3>1. \A u \in doomed : u \in Tasks /\ (InList(readers, u) \/ InList(writers, u))
      BY DEF DoomInv, TypeInv, ListTypes
    <3>2. CASE Stays
      BY <3>1, <3>2 DEF Stays, lists
    <3>3. CASE Joins(t)
      BY <3>1, <3>3 DEF Joins
    <3>4. CASE KeepsLists(t)
      BY <3>1, <3>4 DEF KeepsLists
    <3> QED
      BY <1>3, <3>2, <3>3, <3>4
  <2>4. status' # "linked" \/ (\E u \in Tasks : PastWait(pc'[u])) => doomed' = {}
    BY <2>1, <2>2 DEF DoomInv
  <2> QED
    BY <2>3, <2>4 DEF DoomInv
<1> QED
  BY <1>1, <1>2, <1>3, StepDooms

(***************************************************************************)
(* Whoever waited when the queue was deleted has been unlinked before the  *)
(* queue is freed, for any number of senders, receivers and deleters, with *)
(* time-outs, spurious wake-ups and tasks that begin to wait meanwhile.    *)
(***************************************************************************)
THEOREM DrainedFirst == Spec => []DrainedBeforeFree
<1>1. Init => DoomInv
  BY DEF Init, DoomInv, PastWait
<1>2. TypeInv /\ DoomInv /\ [Next]_vars => DoomInv'
  <2> SUFFICES ASSUME TypeInv, DoomInv, [Next]_vars PROVE DoomInv'
    OBVIOUS
  <2>1. CASE UNCHANGED vars
    BY <2>1 DEF vars, DoomInv
  <2> QED
    BY <2>1, StepKeepsDoom DEF Next, TaskStep
<1>3. DoomInv => DrainedBeforeFree
  BY DEF DoomInv, DrainedBeforeFree
<1> QED
  BY <1>1, <1>2, <1>3, InitTypes, NextKeepsTypes, PTL DEF Spec
=============================================================================
