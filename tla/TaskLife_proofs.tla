-------------------------- MODULE TaskLife_proofs --------------------------
(***************************************************************************)
(* Proofs about TaskLife, for any tasks and calls.                         *)
(***************************************************************************)
EXTENDS TaskLife, NaturalsInduction, WellFoundedInduction, TLAPS

USE LifeAssumption

-----------------------------------------------------------------------------
(***************************************************************************)
(* Ids and positions: the well-order of the natural numbers.               *)
(***************************************************************************)
LEMMA Least ==
    ASSUME NEW S \in SUBSET Nat, S # {}
    PROVE  \E m \in S : \A i \in S : m <= i
<1> DEFINE R == OpToRel(<, Nat)
<1>1. IsWellFoundedOn(R, Nat)
  BY NatLessThanWellFounded
<1>2. \A m, i \in Nat : i < m => <<i, m>> \in R
  BY DEF OpToRel
<1> HIDE DEF R
<1>3. PICK m \in S : \A i \in S : ~(<<i, m>> \in R)
  BY <1>1, WFMin, Zenon
<1>4. \A i \in S : ~(i < m)
  BY <1>2, <1>3, Zenon
<1>5. \A i \in S : m <= i
  BY <1>4
<1> QED
  BY <1>5, Zenon

LEMMA Greatest ==
    ASSUME NEW S \in SUBSET Nat, S # {}, NEW b \in Nat, \A i \in S : i <= b
    PROVE  \E m \in S : \A i \in S : i <= m
<1> DEFINE D == {d \in Nat : \E i \in S : i + d = b}
<1>1. D # {}
  <2>1. PICK i \in S : TRUE
    OBVIOUS
  <2>2. i \in Nat /\ i <= b
    OBVIOUS
  <2>3. b - i \in Nat /\ i + (b - i) = b
    BY <2>2
  <2> QED
    BY <2>3
<1>2. PICK d \in D : \A e \in D : d <= e
  <2>1. D \in SUBSET Nat
    OBVIOUS
  <2> HIDE DEF D
  <2> QED
    BY <1>1, <2>1, Least
<1>3. PICK m \in S : m + d = b
  OBVIOUS
<1>4. ASSUME NEW i \in S PROVE i <= m
  <2>1. i \in Nat /\ m \in Nat /\ d \in Nat /\ i <= b
    OBVIOUS
  <2>2. b - i \in Nat /\ i + (b - i) = b
    BY <2>1
  <2>3. b - i \in D
    BY <2>2
  <2>4. d <= b - i
    BY <1>2, <2>3
  <2> QED
    BY <1>3, <2>1, <2>4
<1> QED
  BY <1>4

-----------------------------------------------------------------------------
(***************************************************************************)
(* The types, by the groups of variables that steps change together.  Ids  *)
(* have an upper bound, so that new_tid finds the highest.                 *)
(***************************************************************************)
CallRecords == [op : Ops, tid : Nat, task : Tasks \cup {NULL}]

PlaceTypes == pc \in [Tasks -> Places] /\ call \in [Tasks -> CallRecords]

BlockTypes ==
    /\ block \in [Tasks -> {"none", "raw", "linked", "freed"}]
    /\ list \in Seq(Tasks)
    /\ id \in [Tasks -> Nat]
    /\ \E m \in Nat : \A t \in Tasks : id[t] <= m

PendTypes == safe \in [Tasks -> Nat] /\ susp \in [Tasks -> SUBSET Tasks]

MutexTypes ==
    /\ tdelete \in [Tasks -> Tasks \cup {NULL}] /\ dbcst \in [Tasks -> Tasks \cup {NULL}]

SchedTypes ==
    /\ locker \in Tasks \cup {NULL} /\ level \in 0 .. 2
    /\ locker = NULL <=> level = 0

OtherTypes == up \in BOOLEAN /\ cancelled \in SUBSET Tasks

TypeInv ==
    /\ PlaceTypes /\ BlockTypes /\ PendTypes /\ MutexTypes /\ SchedTypes /\ OtherTypes

LEMMA TypeInvIsTypeOK == TypeInv => TypeOK
BY DEF TypeInv, TypeOK, PlaceTypes, BlockTypes, PendTypes, MutexTypes, SchedTypes,
       OtherTypes, CallRecords

\* What leaves the variables of a group alone keeps their types.
LEMMA UnchangedBlocks == BlockTypes /\ UNCHANGED blocks => BlockTypes'
BY DEF BlockTypes, blocks
LEMMA UnchangedPends == PendTypes /\ UNCHANGED pends => PendTypes'
BY DEF PendTypes, pends
LEMMA UnchangedMutexes == MutexTypes /\ UNCHANGED mutexes => MutexTypes'
BY DEF MutexTypes, mutexes
LEMMA UnchangedSched == SchedTypes /\ UNCHANGED sched => SchedTypes'
BY DEF SchedTypes, sched
LEMMA UnchangedOther == OtherTypes /\ UNCHANGED <<up, cancelled>> => OtherTypes'
BY DEF OtherTypes

-----------------------------------------------------------------------------
(***************************************************************************)
(* What task_for and new_tid return, and what task_delete leaves.          *)
(***************************************************************************)
LEMMA TaskForFinds ==
    ASSUME BlockTypes, NEW i \in Nat, TaskFor(i) # NULL
    PROVE  \E k \in DOMAIN list :
               /\ TaskFor(i) = list[k] /\ list[k] \in Tasks /\ id[list[k]] = i /\ i # 0
               /\ \A j \in 1 .. k - 1 : id[list[j]] # i
<1> DEFINE S == {k \in DOMAIN list : id[list[k]] = i}
<1>1. i # 0 /\ S # {}
  BY DEF TaskFor
<1>2. PICK k \in S : \A j \in S : k <= j
  <2>1. S \in SUBSET Nat
    BY DEF BlockTypes
  <2> HIDE DEF S
  <2> QED
    BY <1>1, <2>1, Least
<1> DEFINE First(n) == id[list[n]] = i /\ \A j \in 1 .. n - 1 : id[list[j]] # i
<1>3. k \in DOMAIN list /\ First(k)
  BY <1>2 DEF BlockTypes
<1> DEFINE c == CHOOSE n \in DOMAIN list : First(n)
<1>4. c \in DOMAIN list /\ First(c)
  <2> HIDE DEF First
  <2> QED
    BY <1>3
<1>5. TaskFor(i) = list[c]
  <2>1. \E n \in DOMAIN list : id[list[n]] = i
    BY <1>1
  <2> QED
    BY <1>1, <2>1, Zenon DEF TaskFor
<1> HIDE DEF c
<1>6. list[c] \in Tasks
  BY <1>4 DEF BlockTypes
<1> QED
  BY <1>1, <1>4, <1>5, <1>6

LEMMA TaskForType ==
    ASSUME BlockTypes, NEW i \in Nat
    PROVE  TaskFor(i) \in Tasks \cup {NULL}
BY TaskForFinds

LEMMA NewTidAbove ==
    ASSUME BlockTypes
    PROVE  NewTid \in Nat \ {0} /\ \A k \in DOMAIN list : id[list[k]] < NewTid
<1> DEFINE ids == {id[list[k]] : k \in DOMAIN list} \cup {0}
<1>1. PICK b \in Nat : \A t \in Tasks : id[t] <= b
  BY DEF BlockTypes
<1>2. ids \in SUBSET Nat /\ ids # {} /\ \A i \in ids : i <= b
  BY <1>1 DEF BlockTypes
<1> DEFINE m == CHOOSE m \in ids : \A i \in ids : i <= m
<1>3. m \in ids /\ \A i \in ids : i <= m
  <2> HIDE DEF ids
  <2>1. \E n \in ids : \A i \in ids : i <= n
    BY <1>2, Greatest
  <2> QED
    BY <2>1
<1>4. NewTid = 1 + m
  BY DEF NewTid
<1> HIDE DEF m
<1>5. m \in Nat
  BY <1>2, <1>3
<1>6. \A k \in DOMAIN list : id[list[k]] \in ids /\ id[list[k]] \in Nat
  BY <1>2
<1> HIDE DEF ids
<1> QED
  BY <1>3, <1>4, <1>5, <1>6

\* A task is linked once.
Distinct(l) == \A i, j \in DOMAIN l : l[i] = l[j] => i = j
In(t, l) == \E k \in DOMAIN l : l[k] = t

LEMMA WithoutIsList ==
    ASSUME BlockTypes, NEW t \in Tasks
    PROVE  Without(t) \in Seq(Tasks) /\ \A u \in Tasks : In(u, Without(t)) => In(u, list)
<1>1. CASE ~In(t, list)
  BY <1>1 DEF Without, In, BlockTypes
<1>2. CASE In(t, list)
  <2> DEFINE k == CHOOSE k \in DOMAIN list : list[k] = t
             l == [j \in 1 .. Len(list) - 1 |-> IF j < k THEN list[j] ELSE list[j + 1]]
  <2>1. k \in 1 .. Len(list) /\ list \in Seq(Tasks)
    BY <1>2 DEF In, BlockTypes
  <2>2. Without(t) = l
    BY <1>2 DEF Without, In
  <2> HIDE DEF k
  <2>3. \A j \in 1 .. Len(list) - 1 :
            l[j] = list[IF j < k THEN j ELSE j + 1] /\ (IF j < k THEN j ELSE j + 1) \in DOMAIN list
    BY <2>1
  <2>4. l \in Seq(Tasks) /\ DOMAIN l = 1 .. Len(list) - 1
    BY <2>1
  <2>5. \A u \in Tasks : In(u, l) => In(u, list)
    BY <2>3, <2>4 DEF In
  <2> QED
    BY <2>2, <2>4, <2>5
<1> QED
  BY <1>1, <1>2

LEMMA WithoutKeeps ==
    ASSUME BlockTypes, NEW t \in Tasks, Distinct(list)
    PROVE  /\ Distinct(Without(t))
           /\ \A u \in Tasks : In(u, Without(t)) <=> In(u, list) /\ u # t
<1>1. CASE ~In(t, list)
  BY <1>1 DEF Without, In, BlockTypes
<1>2. CASE In(t, list)
  <2> DEFINE k == CHOOSE k \in DOMAIN list : list[k] = t
             at(j) == IF j < k THEN j ELSE j + 1
             l == [j \in 1 .. Len(list) - 1 |-> IF j < k THEN list[j] ELSE list[j + 1]]
  <2>1. k \in 1 .. Len(list) /\ list \in Seq(Tasks) /\ list[k] = t
    BY <1>2 DEF In, BlockTypes
  <2>2. Without(t) = l
    BY <1>2 DEF Without, In
  <2> HIDE DEF k
  <2>3. \A j \in 1 .. Len(list) - 1 :
            l[j] = list[at(j)] /\ at(j) \in DOMAIN list /\ at(j) # k
    BY <2>1
  <2>4. DOMAIN l = 1 .. Len(list) - 1 /\ \A i, j \in DOMAIN l : at(i) = at(j) => i = j
    BY <2>1
  <2>5. Distinct(l)
    BY <2>3, <2>4 DEF Distinct
  <2>6. ASSUME NEW u \in Tasks, In(u, l) PROVE In(u, list) /\ u # t
    <3>1. PICK j \in DOMAIN l : l[j] = u
      BY <2>6 DEF In
    <3>2. list[at(j)] = u /\ at(j) \in DOMAIN list /\ at(j) # k
      BY <2>3, <2>4, <3>1
    <3>3. k \in DOMAIN list
      BY <2>1
    <3> QED
      BY <2>1, <3>2, <3>3 DEF In, Distinct
  <2>7. ASSUME NEW u \in Tasks, In(u, list), u # t PROVE In(u, l)
    <3>1. PICK i \in 1 .. Len(list) : list[i] = u
      BY <2>1, <2>7 DEF In
    <3>2. CASE i < k
      BY <2>1, <2>4, <3>1, <3>2 DEF In
    <3>3. CASE i > k
      <4>1. i - 1 \in 1 .. Len(list) - 1 /\ l[i - 1] = list[i]
        BY <2>1, <3>1, <3>3
      <4> QED
        BY <2>4, <3>1, <4>1 DEF In
    <3> QED
      BY <2>1, <2>7, <3>1, <3>2, <3>3
  <2> QED
    BY <2>2, <2>5, <2>6, <2>7
<1> QED
  BY <1>1, <1>2

-----------------------------------------------------------------------------
(***************************************************************************)
(* Which call goes with which place, and where a thread has the scheduler  *)
(* locked.                                                                 *)
(***************************************************************************)
Notifying == {"notify", "bcast", "bcastTest", "bcastWait"}
Pending == {"pendLock", "pendTest", "pendWait", "pendWoken", "relock"}

\* The calls that delete a task in the end.
Deletions == {"taskDelete", "taskDeleteForce", "return"}

CallAt(t, place, c) ==
    /\ place \in {"none", "lost", "run", "dead"} => c = NoCall
    /\ place \in {"init", "setId"} => c.op = "taskSpawn" /\ c.task \in Tasks
    /\ place = "protect" => c.op \in {"taskSafe", "taskUnsafe"}
    /\ place \in Notifying => c.op \in Deletions \cup {"taskUnsafe"}
    /\ place \in {"cancel", "join"} => c.op \in Deletions \cup {"taskRestart"}
    /\ place \in {"deletable", "force"} \cup Pending => c.op = "taskDelete"
    /\ place \in Deleting \cup {"deletable"} \cup Pending => c.task \in Tasks
    /\ c.op \in {"taskSafe", "taskUnsafe"} => c.task = t
    /\ place \in {"cancel", "join"} /\ c.op = "taskRestart" => c.task # t

HoldsAt(place, c) ==
    \/ place \in {"protect", "deletable", "force", "pendLock", "cancel", "join"}
    \/ place \in Notifying /\ c.op # "taskUnsafe"

CallOK(t) == CallAt(t, pc[t], call[t])
Holds(t) == HoldsAt(pc[t], call[t])
HoldOK(t) == Holds(t) => locker = t

CallInv == \A t \in Tasks : CallOK(t) /\ HoldOK(t)

\* What a step of one thread does to the others: it wakes them up, or starts one
\* that did not run.
Shift(from, to) ==
    \/ to = from
    \/ from = "pendWait" /\ to = "pendWoken"
    \/ from \in {"none", "dead"} /\ to \in {"run", "lost"}

Near(p, t) == p \in [Tasks -> Places] /\ \A u \in Tasks \ {t} : Shift(pc[u], p[u])

Others(t) == \A u \in Tasks \ {t} : call'[u] = call[u] /\ Shift(pc[u], pc'[u])

LockStep(t) == locker' = locker \/ (locker \in {NULL, t} /\ locker' \in {NULL, t})

Facts(t) == Others(t) /\ CallOK(t)' /\ HoldOK(t)' /\ LockStep(t)

LEMMA FactsKeepCalls ==
    ASSUME TypeInv, CallInv, NEW t \in Tasks, Facts(t)
    PROVE  CallInv'
<1> SUFFICES ASSUME NEW u \in Tasks, u # t PROVE (CallOK(u) /\ HoldOK(u))'
  BY DEF CallInv, Facts
<1>1. call'[u] = call[u] /\ Shift(pc[u], pc'[u]) /\ CallOK(u) /\ HoldOK(u)
  BY DEF Facts, Others, CallInv
<1>2. CallOK(u)'
  BY <1>1 DEF CallOK, CallAt, Shift, Pending, Notifying, Deleting
<1>3. Holds(u)' => Holds(u)
  BY <1>1 DEF Holds, HoldsAt, Shift, Notifying
<1> QED
  BY <1>1, <1>2, <1>3 DEF HoldOK, Facts, LockStep

LEMMA MoveFacts ==
    ASSUME TypeInv, NEW t \in Tasks, NEW p, Near(p, t),
           NEW place \in Places, NEW c \in CallRecords,
           pc' = [p EXCEPT ![t] = place], call' = [call EXCEPT ![t] = c],
           CallAt(t, place, c), HoldsAt(place, c) => locker' = t, LockStep(t)
    PROVE  PlaceTypes' /\ Facts(t)
<1>1. PlaceTypes'
  BY DEF TypeInv, PlaceTypes, Near
<1>2. pc'[t] = place /\ call'[t] = c
  BY DEF TypeInv, PlaceTypes, Near
<1>3. Others(t)
  BY DEF TypeInv, PlaceTypes, Near, Others
<1> QED
  BY <1>1, <1>2, <1>3 DEF Facts, CallOK, HoldOK, Holds

LEMMA NearSelf == ASSUME TypeInv, NEW t \in Tasks PROVE Near(pc, t)
BY DEF TypeInv, PlaceTypes, Near, Shift

\* A step that only moves its thread.
LEMMA GotoFacts ==
    ASSUME TypeInv, NEW t \in Tasks, NEW place \in Places,
           Goto(t, place), UNCHANGED call,
           CallAt(t, place, call[t]), HoldsAt(place, call[t]) => locker' = t, LockStep(t)
    PROVE  PlaceTypes' /\ Facts(t)
<1>1. call[t] \in CallRecords /\ call' = [call EXCEPT ![t] = call[t]]
  BY DEF TypeInv, PlaceTypes
<1> QED
  BY <1>1, NearSelf, MoveFacts DEF Goto

\* A call returns.
LEMMA ReturnFacts ==
    ASSUME TypeInv, NEW t \in Tasks, NEW p, Near(p, t), Return(p, t), LockStep(t)
    PROVE  PlaceTypes' /\ Facts(t) /\ pc'[t] \in {"run", "dead"}
<1> DEFINE place == IF call[t].op = "return" THEN "dead" ELSE "run"
<1>1. place \in {"run", "dead"} /\ place \in Places /\ NoCall \in CallRecords
  BY DEF Places, NoCall, CallRecords, Ops
<1>2. pc' = [p EXCEPT ![t] = place] /\ call' = [call EXCEPT ![t] = NoCall]
  BY DEF Return
<1> HIDE DEF place
<1>3. CallAt(t, place, NoCall) /\ ~HoldsAt(place, NoCall)
  BY <1>1 DEF CallAt, HoldsAt, NoCall, Notifying, Deleting, Pending
<1>4. pc'[t] = place
  BY <1>2 DEF Near
<1> QED
  BY <1>1, <1>2, <1>3, <1>4, MoveFacts

\* The scheduler lock.
LEMMA LockFacts ==
    ASSUME SchedTypes, NEW t \in Tasks, Sched!Lock(t)
    PROVE  SchedTypes' /\ LockStep(t) /\ locker' = t
BY DEF SchedTypes, Sched!Lock, LockStep

LEMMA UnlockFacts ==
    ASSUME SchedTypes, NEW t \in Tasks, Unlock(t) \/ UnlockTwice(t)
    PROVE  SchedTypes' /\ LockStep(t)
BY DEF SchedTypes, Unlock, UnlockTwice, Sched!Unlock, LockStep, sched

LEMMA FreeFacts ==
    ASSUME SchedTypes, NEW t \in Tasks, UNCHANGED sched
    PROVE  SchedTypes' /\ LockStep(t) /\ locker' = locker
BY DEF SchedTypes, LockStep, sched

-----------------------------------------------------------------------------
(***************************************************************************)
(* Every action keeps the types and has these facts.                       *)
(***************************************************************************)
LEMMA BeginFacts ==
    ASSUME TypeInv, NEW t \in Tasks, NEW place \in {"lock", "init"}, NEW c \in CallRecords,
           Begin(t, place, c), CallAt(t, place, c),
           block' \in [Tasks -> {"none", "raw", "linked", "freed"}]
    PROVE  TypeInv' /\ Facts(t)
<1>1. PlaceTypes' /\ Facts(t)
  <2>1. place \in Places /\ ~HoldsAt(place, c)
    BY DEF Places, HoldsAt, Notifying
  <2>2. LockStep(t)
    BY FreeFacts DEF Begin, TypeInv
  <2> QED
    BY <2>1, <2>2, NearSelf, MoveFacts DEF Begin, Goto
<1>2. BlockTypes'
  BY DEF Begin, TypeInv, BlockTypes
<1> QED
  BY <1>1, <1>2, UnchangedPends, UnchangedMutexes, UnchangedSched, UnchangedOther
     DEF Begin, TypeInv

LEMMA CallsFacts ==
    ASSUME TypeInv, CallInv, NEW t \in Tasks, Calls(t)
    PROVE  TypeInv' /\ Facts(t)
<1>1. block \in [Tasks -> {"none", "raw", "linked", "freed"}] /\ id \in [Tasks -> Nat]
  BY DEF TypeInv, BlockTypes
<1>2. ASSUME NEW name \in {"taskDelete", "taskDeleteForce", "taskRestart"}, NEW who,
             Call(t, name, who)
      PROVE  TypeInv' /\ Facts(t)
  <2>1. PICK i \in Ids : Begin(t, "lock", [op |-> name, tid |-> i, task |-> NULL])
    BY <1>2 DEF Call
  <2>2. [op |-> name, tid |-> i, task |-> NULL] \in CallRecords
    BY <1>1 DEF Ids, CallRecords, Ops
  <2>3. CallAt(t, "lock", [op |-> name, tid |-> i, task |-> NULL])
    BY DEF CallAt, Notifying, Deleting, Pending
  <2> QED
    BY <1>1, <1>2, <2>1, <2>2, <2>3, BeginFacts DEF Call
<1>3. ASSUME NEW name \in {"taskSafe", "taskUnsafe"},
             Begin(t, "lock", [op |-> name, tid |-> 0, task |-> t]), UNCHANGED block
      PROVE  TypeInv' /\ Facts(t)
  <2>1. [op |-> name, tid |-> 0, task |-> t] \in CallRecords
    BY DEF CallRecords, Ops
  <2>2. CallAt(t, "lock", [op |-> name, tid |-> 0, task |-> t])
    BY DEF CallAt, Notifying, Deleting, Pending
  <2> QED
    BY <1>1, <1>3, <2>1, <2>2, BeginFacts
<1>4. CASE CallSpawn(t)
  <2>1. PICK n \in Tasks : /\ Begin(t, "init", [op |-> "taskSpawn", tid |-> NewTid, task |-> n])
                           /\ block' = [block EXCEPT ![n] = "raw"]
    BY <1>4 DEF CallSpawn
  <2> DEFINE c == [op |-> "taskSpawn", tid |-> NewTid, task |-> n]
  <2>2. c \in CallRecords
    BY NewTidAbove DEF CallRecords, Ops, TypeInv
  <2>3. CallAt(t, "init", c)
    BY DEF CallAt, Notifying, Deleting, Pending
  <2>4. block' \in [Tasks -> {"none", "raw", "linked", "freed"}]
    BY <1>1, <2>1
  <2> HIDE DEF c
  <2> QED
    BY <2>1, <2>2, <2>3, <2>4, BeginFacts DEF c
<1>5. CASE EntryReturns(t)
  <2>1. PICK i \in {id[t]} \cup (IF block[t] = "freed" THEN {0} ELSE {}) :
            call' = [call EXCEPT ![t] = [op |-> "return", tid |-> i, task |-> NULL]]
    BY <1>5 DEF EntryReturns
  <2> DEFINE c == [op |-> "return", tid |-> i, task |-> NULL]
  <2>2. c \in CallRecords
    BY <1>1 DEF CallRecords, Ops
  <2>3. CallAt(t, "lock", c) /\ ~HoldsAt("lock", c)
    BY DEF CallAt, HoldsAt, Notifying, Deleting, Pending
  <2>4. call' = [call EXCEPT ![t] = c] /\ pc' = [pc EXCEPT ![t] = "lock"]
    BY <1>5, <2>1 DEF EntryReturns, Goto
  <2> HIDE DEF c
  <2>5. LockStep(t) /\ "lock" \in Places
    BY <1>5, FreeFacts DEF EntryReturns, TypeInv, Places
  <2>6. PlaceTypes' /\ Facts(t)
    BY <2>2, <2>3, <2>4, <2>5, NearSelf, MoveFacts
  <2> QED
    BY <1>5, <2>6, UnchangedBlocks, UnchangedPends, UnchangedMutexes, UnchangedSched,
       UnchangedOther DEF EntryReturns, TypeInv
<1> QED
  BY <1>2, <1>3, <1>4, <1>5
     DEF Calls, CallDelete, CallForce, CallRestart, CallSafe, CallUnsafe

\* An action that moves its thread, and one that returns, with the types of the
\* other groups given.
DataTypes == BlockTypes /\ PendTypes /\ MutexTypes /\ SchedTypes /\ OtherTypes

LEMMA GotoKeeps ==
    ASSUME TypeInv, NEW t \in Tasks, NEW place \in Places, Goto(t, place), UNCHANGED call,
           CallAt(t, place, call[t]), HoldsAt(place, call[t]) => locker' = t, LockStep(t),
           DataTypes'
    PROVE  TypeInv' /\ Facts(t)
BY GotoFacts DEF TypeInv, DataTypes

LEMMA ReturnKeeps ==
    ASSUME TypeInv, NEW t \in Tasks, NEW p, Near(p, t), Return(p, t), LockStep(t),
           DataTypes'
    PROVE  TypeInv' /\ Facts(t)
BY ReturnFacts DEF TypeInv, DataTypes

LEMMA UnchangedData ==
    ASSUME TypeInv, NEW t \in Tasks,
           UNCHANGED <<up, blocks, pends, mutexes, cancelled>>,
           UNCHANGED sched \/ Unlock(t) \/ UnlockTwice(t) \/ Sched!Lock(t)
    PROVE  DataTypes' /\ LockStep(t)
BY UnchangedBlocks, UnchangedPends, UnchangedMutexes, UnchangedOther, LockFacts,
   UnlockFacts, FreeFacts DEF TypeInv, DataTypes

\* The call of a thread at a place.
LEMMA CallHere ==
    ASSUME TypeInv, CallInv, NEW t \in Tasks
    PROVE  /\ call[t] \in CallRecords /\ call[t].tid \in Nat
           /\ call[t].task \in Tasks \cup {NULL}
           /\ CallAt(t, pc[t], call[t])
           /\ HoldsAt(pc[t], call[t]) => locker = t
BY DEF TypeInv, PlaceTypes, CallInv, CallOK, HoldOK, Holds, CallRecords

LEMMA EraseTypes ==
    ASSUME BlockTypes, NEW n \in Tasks, Erase(n)
    PROVE  BlockTypes'
BY WithoutIsList DEF BlockTypes, Erase

LEMMA SpawnFacts ==
    ASSUME TypeInv, CallInv, NEW t \in Tasks,
           \/ SpawnInit(t) \/ SpawnRefused(t) \/ SpawnSetId(t) \/ SpawnActivate(t)
           \/ SpawnFails(t)
    PROVE  TypeInv' /\ Facts(t)
<1>1. /\ call[t].tid \in Nat /\ call[t].task \in Tasks \cup {NULL}
      /\ CallAt(t, pc[t], call[t])
  BY CallHere
<1>2. ASSUME UNCHANGED <<up, pends, mutexes, sched, cancelled>>, BlockTypes'
      PROVE  DataTypes' /\ LockStep(t)
  BY <1>2, UnchangedPends, UnchangedMutexes, UnchangedOther, FreeFacts
     DEF TypeInv, DataTypes
<1>3. ASSUME pc[t] \in {"init", "setId"}
      PROVE  /\ call[t].task \in Tasks /\ call[t].op = "taskSpawn"
             /\ \A place \in {"setId", "lock"} :
                    /\ CallAt(t, place, call[t]) /\ ~HoldsAt(place, call[t])
                    /\ place \in Places
  BY <1>1, <1>3 DEF CallAt, HoldsAt, Notifying, Deleting, Pending, Places
<1>4. CASE SpawnInit(t)
  <2>1. BlockTypes'
    BY <1>3, <1>4 DEF SpawnInit, BlockTypes, TypeInv
  <2> QED
    BY <1>2, <1>3, <1>4, <2>1, GotoKeeps DEF SpawnInit
<1>5. CASE SpawnRefused(t)
  <2>1. BlockTypes'
    BY <1>3, <1>5 DEF SpawnRefused, BlockTypes, TypeInv
  <2> QED
    BY <1>2, <1>3, <1>5, <2>1, GotoKeeps DEF SpawnRefused
<1>6. CASE SpawnSetId(t)
  <2>1. BlockTypes'
    <3>1. PICK m \in Nat : \A u \in Tasks : id[u] <= m
      BY DEF TypeInv, BlockTypes
    <3>2. id' \in [Tasks -> Nat] /\ UNCHANGED <<block, list>>
      BY <1>1, <1>3, <1>6 DEF SpawnSetId, BlockTypes, TypeInv
    <3>3. \A u \in Tasks : id'[u] = id[u] \/ id'[u] = call[t].tid
      BY <1>1, <1>3, <1>6 DEF SpawnSetId, BlockTypes, TypeInv
    <3>4. \E n \in Nat : \A u \in Tasks : id'[u] <= n
      <4>1. CASE call[t].tid <= m
        BY <3>1, <3>2, <3>3, <4>1
      <4>2. CASE m <= call[t].tid
        <5>1. \A u \in Tasks : id[u] \in Nat /\ id[u] <= m
          BY <3>1 DEF TypeInv, BlockTypes
        <5>2. \A x \in Nat : x <= m => x <= call[t].tid
          BY <1>1, <4>2
        <5>3. \A u \in Tasks : id'[u] <= call[t].tid
          BY <1>1, <3>3, <5>1, <5>2
        <5> QED
          BY <1>1, <5>3
      <4> QED
        BY <1>1, <4>1, <4>2
    <3> QED
      BY <3>2, <3>4 DEF BlockTypes, TypeInv
  <2> QED
    BY <1>2, <1>3, <1>6, <2>1, GotoKeeps DEF SpawnSetId
<1>7. CASE SpawnActivate(t)
  <2> DEFINE n == TaskFor(call[t].tid)
             p == IF n # NULL /\ pc[n] = "none" THEN [pc EXCEPT ![n] = "run"] ELSE pc
  <2>1. n \in Tasks \cup {NULL}
    BY <1>1, TaskForType DEF TypeInv
  <2> HIDE DEF n
  <2>2. Near(p, t)
    BY <2>1 DEF Near, Shift, TypeInv, PlaceTypes, Places
  <2>3. Return(p, t) /\ UNCHANGED <<up, blocks, pends, mutexes, sched, cancelled>>
    BY <1>7 DEF SpawnActivate, n
  <2> HIDE DEF p
  <2> QED
    BY <2>2, <2>3, UnchangedData, ReturnKeeps
<1>8. CASE SpawnFails(t)
  <2>1. TaskFor(call[t].tid) \in Tasks
    BY <1>1, <1>8, TaskForType DEF SpawnFails, TypeInv
  <2>2. BlockTypes'
    BY <1>8, <2>1, EraseTypes DEF SpawnFails, TypeInv
  <2> QED
    BY <1>2, <1>8, <2>2, NearSelf, ReturnKeeps DEF SpawnFails
<1> QED
  BY <1>4, <1>5, <1>6, <1>7, <1>8

LEMMA ProtectFacts ==
    ASSUME TypeInv, CallInv, NEW t \in Tasks,
           ProtectLock(t) \/ Safe(t) \/ Unsafe(t) \/ UnsafeLast(t)
    PROVE  TypeInv' /\ Facts(t)
<1>1. /\ call[t].task \in Tasks \cup {NULL}
      /\ CallAt(t, pc[t], call[t])
  BY CallHere
<1>2. ASSUME UNCHANGED <<up, blocks, mutexes, cancelled>>, Unlock(t), PendTypes'
      PROVE  DataTypes' /\ LockStep(t)
  BY <1>2, UnchangedBlocks, UnchangedMutexes, UnchangedOther, UnlockFacts
     DEF TypeInv, DataTypes
<1>3. CASE ProtectLock(t)
  <2>1. CallAt(t, "protect", call[t]) /\ "protect" \in Places
    BY <1>1, <1>3 DEF ProtectLock, Locking, CallAt, Notifying, Deleting, Pending, Places
  <2>2. locker' = t /\ DataTypes' /\ LockStep(t)
    BY <1>3, UnchangedData, LockFacts DEF ProtectLock, TypeInv
  <2> QED
    BY <1>3, <2>1, <2>2, GotoKeeps DEF ProtectLock
<1>4. CASE Safe(t)
  <2>1. PendTypes'
    BY <1>4 DEF Safe, TypeInv, PendTypes
  <2> QED
    BY <1>2, <1>4, <2>1, NearSelf, ReturnKeeps DEF Safe, Protecting
<1>5. CASE Unsafe(t)
  <2>1. PendTypes'
    BY <1>5 DEF Unsafe, TypeInv, PendTypes
  <2> QED
    BY <1>2, <1>5, <2>1, NearSelf, ReturnKeeps DEF Unsafe, Protecting
<1>6. CASE UnsafeLast(t)
  <2>1. PendTypes'
    BY <1>6 DEF UnsafeLast, TypeInv, PendTypes
  <2>2. /\ CallAt(t, "notify", call[t]) /\ ~HoldsAt("notify", call[t])
        /\ "notify" \in Places
    BY <1>1, <1>6
       DEF UnsafeLast, Protecting, CallAt, HoldsAt, Notifying, Deleting, Pending, Places
  <2> QED
    BY <1>2, <1>6, <2>1, <2>2, GotoKeeps DEF UnsafeLast, Protecting
<1> QED
  BY <1>3, <1>4, <1>5, <1>6

LEMMA NotifyFacts ==
    ASSUME TypeInv, CallInv, NEW t \in Tasks,
           \/ NotifyNobody(t) \/ NotifyLock(t) \/ NotifyBroadcast(t) \/ NotifyWait(t)
           \/ NotifyWake(t)
    PROVE  TypeInv' /\ Facts(t)
<1>1. /\ call[t].task \in Tasks \cup {NULL}
      /\ CallAt(t, pc[t], call[t])
      /\ HoldsAt(pc[t], call[t]) => locker = t
  BY CallHere
<1>2. /\ call[t].task \in Tasks
      /\ \A place \in Notifying :
             /\ CallAt(t, place, call[t]) /\ place \in Places
             /\ HoldsAt(place, call[t]) => locker = t
  <2>1. pc[t] \in Notifying
    BY DEF NotifyNobody, NotifyLock, NotifyBroadcast, NotifyWait, NotifyWake, Notifying
  <2> QED
    BY <1>1, <2>1 DEF CallAt, HoldsAt, Notifying, Deleting, Pending, Places
<1>3. ASSUME UNCHANGED <<up, blocks, pends, tdelete, sched, cancelled>>,
             NEW v \in Tasks \cup {NULL}, dbcst' = [dbcst EXCEPT ![call[t].task] = v]
      PROVE  DataTypes' /\ LockStep(t) /\ locker' = locker
  <2>1. MutexTypes'
    BY <1>2, <1>3 DEF TypeInv, MutexTypes
  <2> QED
    BY <1>3, <2>1, UnchangedBlocks, UnchangedPends, UnchangedOther, FreeFacts
       DEF TypeInv, DataTypes
<1>4. CASE NotifyNobody(t)
  <2>1. DataTypes' /\ LockStep(t) /\ locker' = locker
    BY <1>4, UnchangedData, FreeFacts DEF NotifyNobody, TypeInv
  <2>2. CASE call[t].op = "taskUnsafe"
    BY <1>4, <2>1, <2>2, NearSelf, ReturnKeeps DEF NotifyNobody
  <2>3. CASE call[t].op # "taskUnsafe"
    <3>1. /\ CallAt(t, "cancel", call[t]) /\ "cancel" \in Places
          /\ HoldsAt("cancel", call[t]) => locker = t
      BY <1>1, <1>4, <2>3
         DEF NotifyNobody, CallAt, HoldsAt, Notifying, Deleting, Pending, Places, Deletions
    <3> QED
      BY <1>4, <2>1, <2>3, <3>1, GotoKeeps DEF NotifyNobody
  <2> QED
    BY <2>2, <2>3
<1>5. CASE NotifyLock(t)
  BY <1>2, <1>3, <1>5, GotoKeeps DEF NotifyLock, Notifying
<1>6. CASE NotifyBroadcast(t)
  <2> DEFINE p == BroadcastDeletable(call[t].task, pc)
  <2>1. Near(p, t)
    BY DEF BroadcastDeletable, Near, Shift, TypeInv, PlaceTypes, Places
  <2>2. pc' = [p EXCEPT ![t] = "bcastTest"] /\ call' = [call EXCEPT ![t] = call[t]]
    BY <1>6 DEF NotifyBroadcast, TypeInv, PlaceTypes
  <2>3. DataTypes' /\ LockStep(t) /\ locker' = locker
    BY <1>6, UnchangedData, FreeFacts DEF NotifyBroadcast, TypeInv
  <2>4. call[t] \in CallRecords
    BY CallHere
  <2> HIDE DEF p
  <2>5. PlaceTypes' /\ Facts(t)
    BY <1>2, <2>1, <2>2, <2>3, <2>4, MoveFacts DEF Notifying
  <2> QED
    BY <2>3, <2>5 DEF TypeInv, DataTypes
<1>7. CASE NotifyWait(t)
  BY <1>2, <1>3, <1>7, GotoKeeps DEF NotifyWait, Notifying
<1>8. CASE NotifyWake(t)
  BY <1>2, <1>3, <1>8, GotoKeeps DEF NotifyWake, Notifying
<1> QED
  BY <1>4, <1>5, <1>6, <1>7, <1>8

LEMMA CrashFacts ==
    ASSUME TypeInv, CallInv, NEW t \in Tasks, Crash
    PROVE  TypeInv' /\ Facts(t)
<1>1. UNCHANGED <<blocks, pends, mutexes, sched>> /\ UNCHANGED <<pc, call, cancelled>>
      /\ up' = FALSE
  BY DEF Crash
<1>2. PlaceTypes' /\ OtherTypes'
  BY <1>1 DEF TypeInv, PlaceTypes, OtherTypes
<1>3. LockStep(t) /\ locker' = locker /\ SchedTypes'
  BY <1>1, FreeFacts DEF TypeInv
<1>4. Others(t) /\ CallOK(t)' /\ HoldOK(t)'
  BY <1>1, <1>3 DEF CallInv, CallOK, HoldOK, Holds, Others, Shift
<1> QED
  BY <1>1, <1>2, <1>3, <1>4, UnchangedBlocks, UnchangedPends, UnchangedMutexes
     DEF TypeInv, Facts

\* A call that has found its task under the scheduler lock.
LEMMA FoundFacts ==
    ASSUME TypeInv, CallInv, NEW t \in Tasks, NEW place \in {"notify", "deletable", "cancel"},
           Sched!Lock(t), Goto(t, place),
           TaskFor(call[t].tid) # NULL,
           call' = [call EXCEPT ![t].task = TaskFor(call[t].tid)],
           UNCHANGED <<up, blocks, pends, mutexes, cancelled>>,
           place = "notify" => call[t].op \in Deletions,
           place = "deletable" => call[t].op = "taskDelete",
           place = "cancel" => call[t].op = "taskRestart" /\ TaskFor(call[t].tid) # t
    PROVE  TypeInv' /\ Facts(t)
<1> DEFINE n == TaskFor(call[t].tid)
           c == [call[t] EXCEPT !.task = n]
<1>1. call[t] \in CallRecords /\ call[t].tid \in Nat
  BY CallHere
<1>2. n \in Tasks
  BY <1>1, TaskForType DEF TypeInv
<1>3. call' = [call EXCEPT ![t] = c]
  OBVIOUS
<1> HIDE DEF n
<1>4. c \in CallRecords /\ c.task = n /\ c.op = call[t].op
  BY <1>1, <1>2 DEF CallRecords
<1>5. place = "cancel" => n # t
  BY DEF n
<1> HIDE DEF c
<1>6. CallAt(t, place, c) /\ place \in Places
  BY <1>2, <1>4, <1>5 DEF CallAt, Notifying, Deleting, Pending, Places, Deletions
<1>7. DataTypes' /\ LockStep(t) /\ locker' = t
  BY UnchangedData, LockFacts DEF TypeInv
<1>8. PlaceTypes' /\ Facts(t)
  BY <1>3, <1>4, <1>6, <1>7, NearSelf, MoveFacts DEF Goto
<1> QED
  BY <1>7, <1>8 DEF TypeInv, DataTypes

LEMMA ForceFacts ==
    ASSUME TypeInv, CallInv, NEW t \in Tasks,
           \/ ForceMiss(t) \/ ForceHit(t) \/ Cancel(t) \/ CancelNoThread(t) \/ DeleteOther(t)
           \/ DeleteSelf(t)
    PROVE  TypeInv' /\ Facts(t)
<1>1. /\ call[t].task \in Tasks \cup {NULL}
      /\ CallAt(t, pc[t], call[t])
      /\ HoldsAt(pc[t], call[t]) => locker = t
  BY CallHere
<1>2. CASE ForceMiss(t)
  BY <1>2, UnchangedData, NearSelf, ReturnKeeps DEF ForceMiss
<1>3. CASE ForceHit(t)
  <2>1. call[t].op \in Deletions
    BY <1>1, <1>3 DEF ForceHit, ForceLocks, Locking, CallAt, Deletions
  <2> QED
    BY <1>3, <2>1, FoundFacts DEF ForceHit
<1>4. CASE Cancel(t)
  <2>1. /\ CallAt(t, "join", call[t]) /\ "join" \in Places
        /\ locker = t /\ call[t].task \in Tasks
    BY <1>1, <1>4
       DEF Cancel, Cancels, CallAt, HoldsAt, Notifying, Deleting, Pending, Places
  <2>2. OtherTypes'
    BY <1>4, <2>1 DEF Cancel, TypeInv, OtherTypes
  <2>3. DataTypes' /\ LockStep(t) /\ locker' = locker
    BY <1>4, <2>2, UnchangedBlocks, UnchangedPends, UnchangedMutexes, FreeFacts
       DEF Cancel, TypeInv, DataTypes
  <2> QED
    BY <1>4, <2>1, <2>3, GotoKeeps DEF Cancel
<1>5. CASE CancelNoThread(t)
  BY <1>5, CrashFacts DEF CancelNoThread
<1>6. ASSUME NEW n \in Tasks, Erase(n), Unlock(t) \/ UnlockTwice(t),
             UNCHANGED <<up, pends, mutexes, cancelled>>, Return(pc, t)
      PROVE  TypeInv' /\ Facts(t)
  <2>1. DataTypes' /\ LockStep(t)
    BY <1>6, EraseTypes, UnchangedPends, UnchangedMutexes, UnchangedOther, UnlockFacts
       DEF TypeInv, DataTypes
  <2> QED
    BY <1>6, <2>1, NearSelf, ReturnKeeps
<1>7. CASE DeleteOther(t)
  <2>1. call[t].task \in Tasks
    BY <1>1, <1>7 DEF DeleteOther, Joined, CallAt, Deleting
  <2> QED
    BY <1>6, <1>7, <2>1 DEF DeleteOther
<1>8. CASE DeleteSelf(t)
  BY <1>6, <1>8 DEF DeleteSelf
<1> QED
  BY <1>2, <1>3, <1>4, <1>5, <1>7, <1>8

LEMMA DeleteFacts ==
    ASSUME TypeInv, CallInv, NEW t \in Tasks,
           \/ DeleteMiss(t) \/ DeleteHit(t) \/ DeleteForce(t) \/ DeleteRefused(t)
           \/ Pend(t) \/ PendWild(t)
    PROVE  TypeInv' /\ Facts(t)
<1>1. /\ call[t].task \in Tasks \cup {NULL}
      /\ CallAt(t, pc[t], call[t])
      /\ HoldsAt(pc[t], call[t]) => locker = t
  BY CallHere
<1>2. ASSUME pc[t] = "deletable"
      PROVE  /\ call[t].task \in Tasks /\ locker = t
             /\ \A place \in {"force", "pendLock"} :
                    CallAt(t, place, call[t]) /\ place \in Places
  BY <1>1, <1>2 DEF CallAt, HoldsAt, Notifying, Deleting, Pending, Places
<1>3. CASE DeleteMiss(t)
  BY <1>3, UnchangedData, NearSelf, ReturnKeeps DEF DeleteMiss
<1>4. CASE DeleteHit(t)
  BY <1>4, FoundFacts DEF DeleteHit, Locking
<1>5. CASE DeleteForce(t)
  <2>1. DataTypes' /\ LockStep(t) /\ locker' = locker
    BY <1>5, UnchangedData, FreeFacts DEF DeleteForce, TypeInv
  <2> QED
    BY <1>2, <1>5, <2>1, GotoKeeps DEF DeleteForce, DeleteTests
<1>6. CASE DeleteRefused(t)
  BY <1>6, UnchangedData, NearSelf, ReturnKeeps DEF DeleteRefused
<1>7. CASE Pend(t)
  <2>1. pc[t] = "deletable"
    BY <1>7 DEF Pend, DeletePends, DeleteTests
  <2>2. PendTypes'
    BY <1>2, <1>7, <2>1 DEF Pend, TypeInv, PendTypes
  <2>3. DataTypes' /\ LockStep(t) /\ locker' = locker
    BY <1>7, <2>2, UnchangedBlocks, UnchangedMutexes, UnchangedOther, FreeFacts
       DEF Pend, TypeInv, DataTypes
  <2> QED
    BY <1>2, <1>7, <2>1, <2>3, GotoKeeps DEF Pend
<1>8. CASE PendWild(t)
  BY <1>8, CrashFacts DEF PendWild
<1> QED
  BY <1>3, <1>4, <1>5, <1>6, <1>7, <1>8

LEMMA PendFacts ==
    ASSUME TypeInv, CallInv, NEW t \in Tasks,
           PendLock(t) \/ PendSleep(t) \/ PendWake(t) \/ PendOver(t) \/ PendReturn(t)
    PROVE  TypeInv' /\ Facts(t)
<1>1. /\ call[t].task \in Tasks \cup {NULL}
      /\ CallAt(t, pc[t], call[t])
  BY CallHere
<1>2. /\ call[t].task \in Tasks
      /\ \A place \in Pending : CallAt(t, place, call[t]) /\ place \in Places
      /\ \A place \in Pending \ {"pendLock"} : ~HoldsAt(place, call[t])
  <2>1. pc[t] \in Pending
    BY DEF PendLock, PendSleep, PendWake, PendOver, PendReturn, Pending
  <2> QED
    BY <1>1, <2>1 DEF CallAt, HoldsAt, Notifying, Deleting, Pending, Places
<1>3. ASSUME UNCHANGED <<up, blocks, pends, dbcst, cancelled>>,
             UNCHANGED sched \/ Unlock(t),
             NEW v \in Tasks \cup {NULL}, tdelete' = [tdelete EXCEPT ![call[t].task] = v]
      PROVE  DataTypes' /\ LockStep(t)
  <2>1. MutexTypes'
    BY <1>2, <1>3 DEF TypeInv, MutexTypes
  <2> QED
    BY <1>3, <2>1, UnchangedBlocks, UnchangedPends, UnchangedOther, UnlockFacts, FreeFacts
       DEF TypeInv, DataTypes
<1>4. CASE PendLock(t)
  BY <1>2, <1>3, <1>4, GotoKeeps DEF PendLock, Pending
<1>5. CASE PendSleep(t)
  BY <1>2, <1>3, <1>5, GotoKeeps DEF PendSleep, Pending
<1>6. CASE PendWake(t)
  BY <1>2, <1>3, <1>6, GotoKeeps DEF PendWake, Pending
<1>7. CASE PendOver(t)
  <2>1. DataTypes' /\ LockStep(t)
    BY <1>7, UnchangedData DEF PendOver
  <2> QED
    BY <1>2, <1>7, <2>1, GotoKeeps DEF PendOver, Pending
<1>8. CASE PendReturn(t)
  BY <1>3, <1>8, NearSelf, ReturnKeeps DEF PendReturn
<1> QED
  BY <1>4, <1>5, <1>6, <1>7, <1>8

LEMMA RestartFacts ==
    ASSUME TypeInv, CallInv, NEW t \in Tasks,
           \/ RestartMiss(t) \/ RestartOther(t) \/ RestartSelf(t) \/ Restarted(t)
           \/ RestartFails(t) \/ Die(t)
    PROVE  TypeInv' /\ Facts(t)
<1>1. /\ call[t].task \in Tasks \cup {NULL}
      /\ CallAt(t, pc[t], call[t])
  BY CallHere
<1>2. CASE RestartMiss(t)
  BY <1>2, UnchangedData, NearSelf, ReturnKeeps DEF RestartMiss
<1>3. CASE RestartOther(t)
  BY <1>3, FoundFacts DEF RestartOther, Locking
<1>4. CASE RestartSelf(t)
  BY <1>4, UnchangedData, NearSelf, ReturnKeeps DEF RestartSelf
<1>5. ASSUME NEW place \in {"run", "lost"}, Joined(t), Unlock(t),
             Return([pc EXCEPT ![call[t].task] = place], t),
             UNCHANGED <<up, blocks, pends, mutexes, cancelled>>
      PROVE  TypeInv' /\ Facts(t)
  <2> DEFINE p == [pc EXCEPT ![call[t].task] = place]
  <2>1. call[t].task \in Tasks /\ pc[call[t].task] = "dead"
    BY <1>1, <1>5 DEF Joined, CallAt, Deleting
  <2>2. Near(p, t)
    BY <2>1 DEF Near, Shift, TypeInv, PlaceTypes, Places
  <2> HIDE DEF p
  <2> QED
    BY <1>5, <2>2, UnchangedData, ReturnKeeps DEF p
<1>6. CASE Restarted(t)
  BY <1>5, <1>6 DEF Restarted
<1>7. CASE RestartFails(t)
  BY <1>5, <1>7 DEF RestartFails
<1>8. CASE Die(t)
  <2>1. NoCall \in CallRecords /\ "dead" \in Places
    BY DEF NoCall, CallRecords, Ops, Places
  <2>2. CallAt(t, "dead", NoCall) /\ ~HoldsAt("dead", NoCall)
    BY DEF CallAt, HoldsAt, NoCall, Notifying, Deleting, Pending
  <2>3. SchedTypes' /\ LockStep(t)
    BY <1>8 DEF Die, Sched!Die, TypeInv, SchedTypes, LockStep, sched
  <2>4. PlaceTypes' /\ Facts(t)
    BY <1>8, <2>1, <2>2, <2>3, NearSelf, MoveFacts DEF Die, Goto
  <2>5. MutexTypes' /\ OtherTypes'
    BY <1>8 DEF Die, TypeInv, MutexTypes, OtherTypes
  <2> QED
    BY <1>8, <2>3, <2>4, <2>5, UnchangedBlocks, UnchangedPends DEF Die, TypeInv
<1> QED
  BY <1>2, <1>3, <1>4, <1>6, <1>7, <1>8

\* A step of thread t.
Step(t) ==
    \/ Calls(t) \/ Progress(t)
    \/ SpawnRefused(t) \/ SpawnFails(t) \/ RestartFails(t)
    \/ PendWake(t) \/ NotifyWake(t) \/ CancelNoThread(t) \/ PendWild(t)

LEMMA NextIsStep == Next => \E t \in Tasks : Step(t)
BY DEF Next, Step

LEMMA StepFacts ==
    ASSUME TypeInv, CallInv, NEW t \in Tasks, Step(t)
    PROVE  TypeInv' /\ Facts(t)
BY CallsFacts, SpawnFacts, ProtectFacts, NotifyFacts, ForceFacts, DeleteFacts,
   PendFacts, RestartFacts DEF Step, Progress

LEMMA InitInv == Init => TypeInv /\ CallInv
<1> SUFFICES ASSUME Init PROVE TypeInv /\ CallInv
  OBVIOUS
<1>1. PlaceTypes
  BY DEF Init, PlaceTypes, Places, NoCall, CallRecords, Ops
<1>2. BlockTypes
  <2>1. \A t \in Tasks : id[t] \in {0, 1}
    BY DEF Init
  <2>2. \E m \in Nat : \A t \in Tasks : id[t] <= m
    <3>1. \A x \in {0, 1} : x <= 1
      OBVIOUS
    <3> QED
      BY <2>1, <3>1
  <2>3. list \in Seq(Tasks)
    BY DEF Init
  <2>4. id \in [Tasks -> Nat] /\ block \in [Tasks -> {"none", "raw", "linked", "freed"}]
    BY DEF Init
  <2> QED
    BY <2>2, <2>3, <2>4 DEF BlockTypes
<1>3. PendTypes /\ MutexTypes /\ SchedTypes /\ OtherTypes
  BY DEF Init, Sched!AbsInit, PendTypes, MutexTypes, SchedTypes, OtherTypes
<1>4. CallInv
  BY DEF Init, CallInv, CallOK, HoldOK, Holds, CallAt, HoldsAt, NoCall, Notifying,
         Deleting, Pending
<1> QED
  BY <1>1, <1>2, <1>3, <1>4 DEF TypeInv

LEMMA StutterInv ==
    ASSUME TypeInv, CallInv, UNCHANGED vars
    PROVE  TypeInv' /\ CallInv'
<1>1. UNCHANGED <<blocks, pends, mutexes, sched>> /\ UNCHANGED <<up, cancelled>>
      /\ UNCHANGED <<pc, call, locker>>
  BY DEF vars, blocks, pends, mutexes, sched
<1>2. TypeInv'
  BY <1>1, UnchangedBlocks, UnchangedPends, UnchangedMutexes, UnchangedSched,
     UnchangedOther DEF TypeInv, PlaceTypes
<1>3. CallInv'
  BY <1>1 DEF CallInv, CallOK, HoldOK, Holds
<1> QED
  BY <1>2, <1>3

LEMMA TypesAndCalls == Spec => [](TypeInv /\ CallInv)
<1>1. TypeInv /\ CallInv /\ [Next]_vars => (TypeInv /\ CallInv)'
  BY NextIsStep, StepFacts, FactsKeepCalls, StutterInv
<1> QED
  BY InitInv, <1>1, PTL DEF Spec

\* The types of the variables, and with them that taskUnsafe never makes
\* delete_safe_count negative and that new_tid always finds a
\* highest id.
THEOREM LifeTypes == Spec => []TypeOK
BY TypesAndCalls, TypeInvIsTypeOK, PTL

-----------------------------------------------------------------------------
(***************************************************************************)
(* Who keeps a control block alive.  A thread that works on one has the    *)
(* scheduler locked, or is linked at the block's first_susp, or is the     *)
(* block's own task; whoever frees a block has excluded all three.         *)
(***************************************************************************)
Works(t) ==
    \/ pc[t] \in Deleting \cup {"deletable"} \cup Pending
    \/ call[t].op \in {"taskSafe", "taskUnsafe"}

Own(t) ==
    /\ Works(t) => block[call[t].task] = "linked"
    /\ pc[t] \in Pending => t \in susp[call[t].task]
    /\ pc[t] \in {"cancel", "join"} /\ call[t].op # "taskRestart" => susp[call[t].task] = {}
    /\ pc[t] = "init" => block[call[t].task] = "raw"

\* No two calls of taskSpawn fill the same control block.
Alone == \A s, u \in Tasks :
            pc[s] = "init" /\ pc[u] = "init" /\ call[s].task = call[u].task => s = u

\* Nobody waits for a task that has not run.
Unused(n) == pc[n] = "none" => safe[n] = 0 /\ susp[n] = {}

ListInv == Distinct(list) /\ \A n \in Tasks : block[n] = "linked" <=> In(n, list)

LinkInv == ListInv /\ Alone /\ \A t \in Tasks : Own(t) /\ Unused(t)

\* What a step of t leaves to the other threads.
Frame(t) ==
    /\ pc'[t] # "none"
    /\ \A n \in Tasks : susp[n] \subseteq susp'[n]
    /\ \A n \in Tasks : susp'[n] # susp[n] => locker = t /\ pc[n] # "none"
    /\ \A n \in Tasks : safe'[n] # safe[n] => pc[n] # "none"
    /\ \A u \in Tasks \ {t} :
          /\ Works(u) => block'[call[u].task] = block[call[u].task]
          /\ pc[u] = "init" => block'[call[u].task] = block[call[u].task]
          /\ pc[u] = "init" /\ pc'[t] = "init" => call'[t].task # call[u].task

Keeps(t) == Frame(t) /\ Own(t)' /\ ListInv'

LEMMA KeepsLink ==
    ASSUME TypeInv, CallInv, LinkInv, NEW t \in Tasks, Facts(t), Keeps(t)
    PROVE  LinkInv'
<1>1. ASSUME NEW u \in Tasks \ {t}
      PROVE  /\ (pc'[u] = "init" => pc[u] = "init") /\ call'[u] = call[u]
             /\ pc'[u] = "none" => pc[u] = "none"
             /\ Own(u)' /\ Unused(u)'
  <2>1. call'[u] = call[u] /\ Shift(pc[u], pc'[u])
    BY DEF Facts, Others
  <2>2. Own(u) /\ Unused(u) /\ CallOK(u) /\ HoldOK(u)
    BY DEF LinkInv, CallInv
  <2>3. Works(u)' => Works(u)
    BY <2>1 DEF Works, Shift, Deleting, Pending
  <2>4. Works(u) => call[u].task \in Tasks
    BY <2>2 DEF Works, CallOK, CallAt
  <2>5. (Works(u) => block[call[u].task] = "linked")'
    BY <2>1, <2>2, <2>3 DEF Keeps, Frame, Own
  <2>6. (pc[u] \in Pending => u \in susp[call[u].task])'
    <3>1. pc'[u] \in Pending => pc[u] \in Pending
      BY <2>1 DEF Shift, Pending
    <3>2. pc[u] \in Pending => Works(u)
      BY DEF Works
    <3> QED
      BY <2>1, <2>2, <2>4, <3>1, <3>2 DEF Keeps, Frame, Own
  <2>7. (pc[u] \in {"cancel", "join"} /\ call[u].op # "taskRestart"
            => susp[call[u].task] = {})'
    <3>1. SUFFICES ASSUME pc'[u] \in {"cancel", "join"}, call[u].op # "taskRestart"
                   PROVE  susp'[call[u].task] = {}
      BY <2>1
    <3>2. pc[u] \in {"cancel", "join"} /\ Works(u)
      BY <2>1, <3>1 DEF Shift, Works, Deleting
    <3>3. locker = u
      BY <2>2, <3>2 DEF HoldOK, Holds, HoldsAt
    <3> QED
      BY <2>2, <2>4, <3>1, <3>2, <3>3 DEF Keeps, Frame, Own
  <2>8. (pc[u] = "init" => block[call[u].task] = "raw")'
    BY <2>1, <2>2 DEF Shift, Keeps, Frame, Own
  <2>9. pc'[u] = "none" => pc[u] = "none"
    BY <2>1 DEF Shift
  <2>10. pc'[u] = "init" => pc[u] = "init"
    BY <2>1 DEF Shift
  <2>11. Unused(u)'
    BY <2>2, <2>9 DEF Keeps, Frame, Unused
  <2> QED
    BY <2>1, <2>5, <2>6, <2>7, <2>8, <2>9, <2>10, <2>11 DEF Own
<1>2. Unused(t)' /\ Own(t)' /\ ListInv'
  BY DEF Keeps, Frame, Unused
<1>3. Alone'
  <2> SUFFICES ASSUME NEW s \in Tasks, NEW u \in Tasks,
                      pc'[s] = "init", pc'[u] = "init", call'[s].task = call'[u].task, s # u
               PROVE  FALSE
    BY DEF Alone
  <2>1. CASE s # t /\ u # t
    BY <1>1, <2>1 DEF LinkInv, Alone
  <2>2. CASE s = t
    BY <1>1, <2>2 DEF Keeps, Frame
  <2>3. CASE u = t
    BY <1>1, <2>3 DEF Keeps, Frame
  <2> QED
    BY <2>1, <2>2, <2>3
<1> QED
  BY <1>1, <1>2, <1>3 DEF LinkInv

\* Steps that change neither the list nor who waits for a deletion: they keep
\* the call, return, or take up a task that task_for has found.
Quiet == UNCHANGED <<block, list, safe, susp>>

LEMMA QuietFrame ==
    ASSUME TypeInv, LinkInv, NEW t \in Tasks, Quiet, pc'[t] \notin {"none", "init"}
    PROVE  Frame(t) /\ ListInv'
BY DEF Quiet, Frame, LinkInv, ListInv, Distinct, In

LEMMA QuietMove ==
    ASSUME TypeInv, LinkInv, NEW t \in Tasks, Quiet, call'[t] = call[t],
           pc'[t] \notin {"none", "init"}, Works(t)' => Works(t),
           pc'[t] \in Pending => pc[t] \in Pending,
           pc'[t] \in {"cancel", "join"} /\ call[t].op # "taskRestart"
              => susp[call[t].task] = {}
    PROVE  Keeps(t)
BY QuietFrame DEF Quiet, Keeps, Own, LinkInv

LEMMA QuietReturn ==
    ASSUME TypeInv, LinkInv, NEW t \in Tasks, Quiet, call'[t] = NoCall,
           pc'[t] \in {"run", "dead"}
    PROVE  Keeps(t)
<1>1. Own(t)'
  BY DEF Own, Works, NoCall, Deleting, Pending
<1> QED
  BY <1>1, QuietFrame DEF Keeps

LEMMA FoundLinked ==
    ASSUME TypeInv, LinkInv, NEW i \in Nat, TaskFor(i) # NULL
    PROVE  /\ TaskFor(i) \in Tasks /\ block[TaskFor(i)] = "linked"
           /\ id[TaskFor(i)] = i /\ i # 0
BY TaskForFinds DEF TypeInv, LinkInv, ListInv, In

LEMMA QuietFound ==
    ASSUME TypeInv, LinkInv, NEW t \in Tasks, Quiet, call[t].tid \in Nat,
           TaskFor(call[t].tid) # NULL, call'[t].task = TaskFor(call[t].tid),
           \/ pc'[t] \in {"notify", "deletable"}
           \/ pc'[t] = "cancel" /\ call'[t].op = "taskRestart"
    PROVE  Keeps(t)
<1>1. block'[call'[t].task] = "linked"
  BY FoundLinked DEF Quiet
<1>2. Own(t)'
  BY <1>1 DEF Own, Pending
<1> QED
  BY <1>2, QuietFrame DEF Keeps

LEMMA Moved ==
    ASSUME TypeInv, NEW t \in Tasks, NEW place, Goto(t, place)
    PROVE  pc'[t] = place
BY DEF TypeInv, PlaceTypes, Goto

LEMMA Returned ==
    ASSUME TypeInv, NEW t \in Tasks, NEW p, DOMAIN p = Tasks, Return(p, t)
    PROVE  pc'[t] \in {"run", "dead"} /\ call'[t] = NoCall
BY DEF TypeInv, PlaceTypes, Return

LEMMA ReturnedHere ==
    ASSUME TypeInv, NEW t \in Tasks, Return(pc, t)
    PROVE  pc'[t] \in {"run", "dead"} /\ call'[t] = NoCall
BY Returned DEF TypeInv, PlaceTypes

LEMMA CallsKeep ==
    ASSUME TypeInv, CallInv, LinkInv, NEW t \in Tasks, Calls(t)
    PROVE  Keeps(t)
<1>1. ASSUME NEW c, Begin(t, "lock", c), UNCHANGED block,
             c.op \in {"taskSafe", "taskUnsafe"} => c.task = t
      PROVE  Keeps(t)
  <2>1. pc'[t] = "lock" /\ call'[t] = c /\ block[t] = "linked" /\ Quiet
    BY <1>1, Moved DEF Begin, TypeInv, PlaceTypes, Quiet, pends
  <2>2. Own(t)'
    BY <1>1, <2>1 DEF Own, Works, Quiet, Deleting, Pending
  <2> QED
    BY <2>1, <2>2, QuietFrame DEF Keeps
<1>2. CASE CallSpawn(t)
  <2>1. PICK n \in Tasks :
            /\ block[n] = "none"
            /\ Begin(t, "init", [op |-> "taskSpawn", tid |-> NewTid, task |-> n])
            /\ block' = [block EXCEPT ![n] = "raw"]
    BY <1>2 DEF CallSpawn
  <2>2. /\ pc'[t] = "init" /\ call'[t].task = n /\ call'[t].op = "taskSpawn"
        /\ UNCHANGED <<list, safe, susp>>
    BY <2>1, Moved DEF Begin, TypeInv, PlaceTypes, pends
  <2>3. block'[n] = "raw" /\ \A m \in Tasks \ {n} : block'[m] = block[m]
    BY <2>1 DEF TypeInv, BlockTypes
  <2>4. Own(t)'
    BY <2>2, <2>3 DEF Own, Works, Deleting, Pending
  <2>5. ListInv'
    BY <2>1, <2>2, <2>3 DEF LinkInv, ListInv, Distinct, In
  <2>6. ASSUME NEW u \in Tasks \ {t}
        PROVE  /\ Works(u) => block'[call[u].task] = block[call[u].task]
               /\ pc[u] = "init" => block'[call[u].task] = block[call[u].task]
               /\ pc[u] = "init" => n # call[u].task
    <3>1. Own(u) /\ CallAt(u, pc[u], call[u])
      BY DEF LinkInv, CallInv, CallOK
    <3>2. Works(u) \/ pc[u] = "init" => call[u].task \in Tasks
      BY <3>1 DEF Works, CallAt
    <3> QED
      BY <2>1, <2>3, <3>1, <3>2 DEF Own
  <2> QED
    BY <2>2, <2>4, <2>5, <2>6 DEF Keeps, Frame
<1>3. CASE EntryReturns(t)
  <2>1. pc'[t] = "lock" /\ call'[t].op = "return" /\ Quiet
    BY <1>3, Moved DEF EntryReturns, TypeInv, PlaceTypes, Quiet, blocks, pends
  <2>2. Own(t)'
    BY <2>1 DEF Own, Works, Deleting, Pending
  <2> QED
    BY <2>1, <2>2, QuietFrame DEF Keeps
<1>4. ASSUME NEW name, name \notin {"taskSafe", "taskUnsafe"}, NEW who, Call(t, name, who)
      PROVE  Keeps(t)
  BY <1>1, <1>4 DEF Call
<1> QED
  BY <1>1, <1>2, <1>3, <1>4
     DEF Calls, CallDelete, CallForce, CallRestart, CallSafe, CallUnsafe

\* Task n is unlinked and freed, and nobody else works on it.
LEMMA EraseKeeps ==
    ASSUME TypeInv, CallInv, LinkInv, NEW t \in Tasks, NEW n \in Tasks, Erase(n),
           block[n] = "linked",
           UNCHANGED pends, pc'[t] \in {"run", "dead"}, call'[t] = NoCall,
           \A u \in Tasks \ {t} : Works(u) => call[u].task # n
    PROVE  Keeps(t)
<1>1. block'[n] = "freed" /\ \A m \in Tasks \ {n} : block'[m] = block[m]
  BY DEF Erase, TypeInv, BlockTypes
<1>2. ListInv'
  BY <1>1, WithoutKeeps DEF Erase, TypeInv, BlockTypes, LinkInv, ListInv
<1>3. Own(t)'
  BY DEF Own, Works, NoCall, Deleting, Pending
<1>4. ASSUME NEW u \in Tasks \ {t}
      PROVE  /\ Works(u) => block'[call[u].task] = block[call[u].task]
             /\ pc[u] = "init" => block'[call[u].task] = block[call[u].task]
  <2>1. Own(u) /\ CallAt(u, pc[u], call[u])
    BY DEF LinkInv, CallInv, CallOK
  <2>2. Works(u) \/ pc[u] = "init" => call[u].task \in Tasks
    BY <2>1 DEF Works, CallAt
  <2> QED
    BY <1>1, <2>1, <2>2 DEF Own
<1>5. UNCHANGED <<safe, susp>>
  BY DEF pends
<1> QED
  BY <1>2, <1>3, <1>4, <1>5 DEF Keeps, Frame

\* Who works on a task that nobody else has locked, that has no waiters and
\* whose own thread is not in a call.
LEMMA NobodyWorks ==
    ASSUME TypeInv, CallInv, LinkInv, NEW t \in Tasks, NEW n \in Tasks,
           locker \in {NULL, t}, susp[n] = {}, n = t \/ pc[n] \in {"none", "dead"}
    PROVE  \A u \in Tasks \ {t} : Works(u) => call[u].task # n
<1> SUFFICES ASSUME NEW u \in Tasks \ {t}, Works(u), call[u].task = n PROVE FALSE
  OBVIOUS
<1>1. Own(u) /\ CallAt(u, pc[u], call[u]) /\ HoldOK(u)
  BY DEF LinkInv, CallInv, CallOK
<1>2. ~Holds(u)
  BY <1>1 DEF HoldOK
<1>3. pc[u] \notin Pending
  BY <1>1 DEF Own
<1>4. call[u].op \in {"taskSafe", "taskUnsafe"}
  BY <1>2, <1>3 DEF Works, Holds, HoldsAt, Deleting, Notifying
<1>5. call[u].task = u /\ pc[u] \notin {"none", "dead"}
  BY <1>1, <1>4 DEF CallAt, NoCall
<1> QED
  BY <1>5

LEMMA SpawnKeeps ==
    ASSUME TypeInv, CallInv, LinkInv, NEW t \in Tasks,
           \/ SpawnInit(t) \/ SpawnRefused(t) \/ SpawnSetId(t) \/ SpawnActivate(t)
           \/ SpawnFails(t)
    PROVE  Keeps(t)
<1>1. call[t].tid \in Nat /\ CallAt(t, pc[t], call[t]) /\ Own(t)
  BY CallHere DEF LinkInv
<1> DEFINE n == call[t].task
<1>2. ASSUME pc[t] = "init", NEW new \in {"linked", "freed"},
             block' = [block EXCEPT ![n] = new], pc'[t] \in {"setId", "lock"}, UNCHANGED call,
             UNCHANGED pends, ListInv'
      PROVE  Keeps(t)
  <2>1. n \in Tasks /\ block[n] = "raw" /\ call[t].op = "taskSpawn"
    BY <1>1, <1>2 DEF Own, CallAt
  <2>2. \A m \in Tasks \ {n} : block'[m] = block[m]
    BY <1>2 DEF TypeInv, BlockTypes
  <2>3. Own(t)'
    BY <1>2, <2>1 DEF Own, Works, Deleting, Pending
  <2>4. ASSUME NEW u \in Tasks \ {t}
        PROVE  /\ Works(u) => block'[call[u].task] = block[call[u].task]
               /\ pc[u] = "init" => block'[call[u].task] = block[call[u].task]
    <3>1. Own(u) /\ CallAt(u, pc[u], call[u]) /\ (pc[u] = "init" => call[u].task # n)
      BY <1>2 DEF LinkInv, CallInv, CallOK, Alone
    <3>2. Works(u) \/ pc[u] = "init" => call[u].task \in Tasks
      BY <3>1 DEF Works, CallAt
    <3> QED
      BY <2>1, <2>2, <3>1, <3>2 DEF Own
  <2>5. UNCHANGED <<safe, susp>>
    BY <1>2 DEF pends
  <2> QED
    BY <1>2, <2>3, <2>4, <2>5 DEF Keeps, Frame
<1>3. CASE SpawnInit(t)
  <2>1. n \in Tasks /\ block[n] = "raw" /\ list \in Seq(Tasks)
    BY <1>1, <1>3 DEF SpawnInit, Own, CallAt, TypeInv, BlockTypes
  <2>2. /\ list' = Append(list, n) /\ block' = [block EXCEPT ![n] = "linked"]
    BY <1>3 DEF SpawnInit
  <2> HIDE DEF n
  <2>3. \A k \in DOMAIN list : list[k] # n
    BY <2>1 DEF LinkInv, ListInv, In
  <2>4. /\ DOMAIN list = 1 .. Len(list) /\ DOMAIN list' = 1 .. Len(list) + 1
        /\ list'[Len(list) + 1] = n /\ Len(list) \in Nat
        /\ \A k \in DOMAIN list : list'[k] = list[k]
    BY <2>1, <2>2
  <2>5. Distinct(list')
    <3> SUFFICES ASSUME NEW i \in DOMAIN list', NEW j \in DOMAIN list', list'[i] = list'[j]
                 PROVE  i = j
      BY DEF Distinct
    <3>1. i \in DOMAIN list \/ i = Len(list) + 1
      BY <2>4
    <3>2. j \in DOMAIN list \/ j = Len(list) + 1
      BY <2>4
    <3> QED
      BY <2>3, <2>4, <3>1, <3>2 DEF LinkInv, ListInv, Distinct
  <2>6. \A m \in Tasks : In(m, list') <=> In(m, list) \/ m = n
    <3>1. \A k \in DOMAIN list' : k \in DOMAIN list \/ k = Len(list) + 1
      BY <2>4
    <3>2. \A k \in DOMAIN list : k \in DOMAIN list'
      BY <2>4
    <3>3. Len(list) + 1 \in DOMAIN list'
      BY <2>4
    <3> QED
      BY <2>4, <3>1, <3>2, <3>3 DEF In
  <2>7. ListInv'
    <3>1. \A m \in Tasks : block'[m] = "linked" <=> block[m] = "linked" \/ m = n
      BY <2>1, <2>2 DEF TypeInv, BlockTypes
    <3> QED
      BY <2>5, <2>6, <3>1 DEF ListInv, LinkInv
  <2> QED
    BY <1>2, <1>3, <2>7, Moved DEF SpawnInit, n
<1>4. CASE SpawnRefused(t)
  <2>1. n \in Tasks /\ block[n] = "raw"
    BY <1>1, <1>4 DEF SpawnRefused, Own, CallAt
  <2>2. \A m \in Tasks : block'[m] = "linked" <=> block[m] = "linked"
    BY <1>4, <2>1 DEF SpawnRefused, TypeInv, BlockTypes
  <2>3. ListInv'
    BY <1>4, <2>2 DEF SpawnRefused, LinkInv, ListInv
  <2> QED
    BY <1>2, <1>4, <2>3, Moved DEF SpawnRefused
<1>5. CASE SpawnSetId(t)
  <2>1. /\ pc'[t] = "lock" /\ call'[t] = call[t] /\ Quiet
        /\ call[t].op = "taskSpawn"
    BY <1>1, <1>5, Moved DEF SpawnSetId, CallAt, Quiet, pends
  <2> QED
    BY <2>1, QuietMove DEF Works, Deleting, Pending
<1>6. CASE SpawnActivate(t)
  <2>1. Quiet
    BY <1>6 DEF SpawnActivate, Quiet, blocks, pends
  <2>2. pc'[t] \in {"run", "dead"} /\ call'[t] = NoCall
    <3> DEFINE m == TaskFor(call[t].tid)
               p == IF m # NULL /\ pc[m] = "none" THEN [pc EXCEPT ![m] = "run"] ELSE pc
    <3>1. DOMAIN p = Tasks
      BY DEF TypeInv, PlaceTypes
    <3>2. Return(p, t)
      BY <1>6 DEF SpawnActivate
    <3> HIDE DEF p
    <3> QED
      BY <3>1, <3>2, Returned
  <2> QED
    BY <2>1, <2>2, QuietReturn
<1>7. CASE SpawnFails(t)
  <2> DEFINE m == TaskFor(call[t].tid)
  <2>1. m \in Tasks /\ block[m] = "linked"
    BY <1>1, <1>7, FoundLinked DEF SpawnFails
  <2>2. pc[m] = "none" /\ locker = NULL /\ Erase(m)
    BY <1>7 DEF SpawnFails, Locking
  <2>3. susp[m] = {}
    BY <2>1, <2>2 DEF LinkInv, Unused
  <2>4. pc'[t] \in {"run", "dead"} /\ call'[t] = NoCall /\ UNCHANGED pends
    BY <1>7, ReturnedHere DEF SpawnFails
  <2> HIDE DEF m
  <2>5. \A u \in Tasks \ {t} : Works(u) => call[u].task # m
    BY <2>1, <2>2, <2>3, NobodyWorks
  <2> QED
    BY <2>1, <2>2, <2>4, <2>5, EraseKeeps
<1> QED
  BY <1>3, <1>4, <1>5, <1>6, <1>7

LEMMA ProtectKeeps ==
    ASSUME TypeInv, CallInv, LinkInv, NEW t \in Tasks,
           ProtectLock(t) \/ Safe(t) \/ Unsafe(t) \/ UnsafeLast(t)
    PROVE  Keeps(t)
<1>1. CallAt(t, pc[t], call[t]) /\ Own(t)
  BY CallHere DEF LinkInv
<1>2. ASSUME pc[t] = "protect", UNCHANGED <<block, list, susp>>,
             \A n \in Tasks \ {t} : safe'[n] = safe[n],
             pc'[t] \notin {"none", "init"}
      PROVE  Frame(t) /\ ListInv'
  BY <1>2 DEF Frame, LinkInv, ListInv, Distinct, In
<1>3. CASE ProtectLock(t)
  <2>1. /\ pc'[t] = "protect" /\ call'[t] = call[t] /\ Quiet
        /\ call[t].op \in {"taskSafe", "taskUnsafe"}
    BY <1>3, Moved DEF ProtectLock, Locking, Quiet, blocks, pends
  <2> QED
    BY <2>1, QuietMove DEF Works, Pending
<1>4. CASE Safe(t) \/ Unsafe(t)
  <2>1. /\ pc[t] = "protect" /\ UNCHANGED <<block, list, susp>>
        /\ \A n \in Tasks \ {t} : safe'[n] = safe[n]
    BY <1>4 DEF Safe, Unsafe, Protecting, blocks, TypeInv, PendTypes
  <2>2. pc'[t] \in {"run", "dead"} /\ call'[t] = NoCall
    BY <1>4, ReturnedHere DEF Safe, Unsafe
  <2>3. Own(t)'
    BY <2>2 DEF Own, Works, NoCall, Deleting, Pending
  <2> QED
    BY <1>2, <2>1, <2>2, <2>3 DEF Keeps
<1>5. CASE UnsafeLast(t)
  <2>1. /\ pc[t] = "protect" /\ UNCHANGED <<block, list, susp>>
        /\ \A n \in Tasks \ {t} : safe'[n] = safe[n]
        /\ call[t].op = "taskUnsafe" /\ call'[t] = call[t]
    BY <1>5 DEF UnsafeLast, Protecting, blocks, TypeInv, PendTypes
  <2>2. pc'[t] = "notify"
    BY <1>5, Moved DEF UnsafeLast
  <2>3. Own(t)'
    BY <1>1, <2>1, <2>2 DEF Own, Works, Pending
  <2> QED
    BY <1>2, <2>1, <2>2, <2>3 DEF Keeps
<1> QED
  BY <1>3, <1>4, <1>5

LEMMA NotifyKeeps ==
    ASSUME TypeInv, CallInv, LinkInv, NEW t \in Tasks,
           \/ NotifyNobody(t) \/ NotifyLock(t) \/ NotifyBroadcast(t) \/ NotifyWait(t)
           \/ NotifyWake(t)
    PROVE  Keeps(t)
<1>1. pc[t] \in Notifying /\ Quiet /\ Works(t)
  BY DEF NotifyNobody, NotifyLock, NotifyBroadcast, NotifyWait, NotifyWake, Notifying,
         Quiet, blocks, pends, Works, Deleting
<1>2. ASSUME call'[t] = call[t], pc'[t] \in Notifying PROVE Keeps(t)
  BY <1>1, <1>2, QuietMove DEF Notifying, Pending
<1>3. CASE NotifyNobody(t)
  <2>1. CASE call[t].op = "taskUnsafe"
    BY <1>1, <1>3, <2>1, ReturnedHere, QuietReturn DEF NotifyNobody
  <2>2. CASE call[t].op # "taskUnsafe"
    <3>1. pc'[t] = "cancel" /\ call'[t] = call[t] /\ susp[call[t].task] = {}
      BY <1>3, <2>2, Moved DEF NotifyNobody
    <3> QED
      BY <1>1, <3>1, QuietMove DEF Pending
  <2> QED
    BY <2>1, <2>2
<1>4. CASE NotifyLock(t) \/ NotifyWait(t) \/ NotifyWake(t)
  <2>1. pc'[t] \in Notifying /\ call'[t] = call[t]
    BY <1>4, Moved DEF NotifyLock, NotifyWait, NotifyWake, Notifying
  <2> QED
    BY <1>2, <2>1
<1>5. CASE NotifyBroadcast(t)
  <2>1. pc'[t] = "bcastTest" /\ call'[t] = call[t]
    BY <1>5 DEF NotifyBroadcast, BroadcastDeletable, TypeInv, PlaceTypes
  <2> QED
    BY <1>2, <2>1 DEF Notifying
<1> QED
  BY <1>3, <1>4, <1>5

LEMMA CrashKeeps ==
    ASSUME TypeInv, LinkInv, NEW t \in Tasks, Crash, pc[t] \notin {"none", "init"}
    PROVE  Keeps(t)
<1>1. Quiet /\ pc'[t] = pc[t] /\ call'[t] = call[t] /\ Works(t)' = Works(t)
  BY DEF Crash, Quiet, blocks, pends, Works
<1>2. Own(t)
  BY DEF LinkInv
<1> QED
  BY <1>1, <1>2, QuietMove DEF Own

LEMMA ForceKeeps ==
    ASSUME TypeInv, CallInv, LinkInv, NEW t \in Tasks,
           \/ ForceMiss(t) \/ ForceHit(t) \/ Cancel(t) \/ CancelNoThread(t)
           \/ DeleteOther(t) \/ DeleteSelf(t)
    PROVE  Keeps(t)
<1>1. /\ call[t] \in CallRecords /\ call[t].tid \in Nat
      /\ CallAt(t, pc[t], call[t]) /\ Own(t)
      /\ HoldsAt(pc[t], call[t]) => locker = t
  BY CallHere DEF LinkInv
<1>2. CASE ForceMiss(t)
  BY <1>2, ReturnedHere, QuietReturn DEF ForceMiss, Quiet, blocks, pends
<1>3. CASE ForceHit(t)
  <2>1. /\ Quiet /\ pc'[t] = "notify" /\ call'[t].task = TaskFor(call[t].tid)
        /\ TaskFor(call[t].tid) # NULL
    BY <1>1, <1>3, Moved
       DEF ForceHit, Quiet, blocks, pends, TypeInv, PlaceTypes, CallRecords
  <2> QED
    BY <1>1, <2>1, QuietFound
<1>4. CASE Cancel(t)
  <2>1. /\ Quiet /\ pc[t] = "cancel" /\ pc'[t] = "join" /\ call'[t] = call[t]
    BY <1>4, Moved DEF Cancel, Cancels, Quiet, blocks, pends
  <2> QED
    BY <1>1, <2>1, QuietMove DEF Own, Works, Deleting, Pending
<1>5. CASE CancelNoThread(t)
  BY <1>5, CrashKeeps DEF CancelNoThread, Cancels
<1>6. ASSUME NEW n \in Tasks, n = call[t].task, pc[t] \in {"cancel", "join"},
             call[t].op # "taskRestart", n = t \/ pc[n] = "dead", Erase(n), Return(pc, t),
             UNCHANGED pends
      PROVE  Keeps(t)
  <2>1. locker = t /\ susp[n] = {} /\ block[n] = "linked"
    BY <1>1, <1>6 DEF HoldsAt, Own, Works, Deleting
  <2>2. \A u \in Tasks \ {t} : Works(u) => call[u].task # n
    BY <1>6, <2>1, NobodyWorks
  <2> QED
    BY <1>6, <2>1, <2>2, ReturnedHere, EraseKeeps
<1>7. CASE DeleteOther(t)
  <2>1. call[t].task \in Tasks
    BY <1>1, <1>7 DEF DeleteOther, Joined, CallAt, Deleting
  <2> QED
    BY <1>6, <1>7, <2>1 DEF DeleteOther, Joined
<1>8. CASE DeleteSelf(t)
  <2>1. call[t].op # "taskRestart"
    BY <1>1, <1>8 DEF DeleteSelf, CallAt
  <2> QED
    BY <1>6, <1>8, <2>1 DEF DeleteSelf
<1> QED
  BY <1>2, <1>3, <1>4, <1>5, <1>7, <1>8

LEMMA DeleteKeeps ==
    ASSUME TypeInv, CallInv, LinkInv, NEW t \in Tasks,
           \/ DeleteMiss(t) \/ DeleteHit(t) \/ DeleteForce(t) \/ DeleteRefused(t)
           \/ Pend(t) \/ PendWild(t)
    PROVE  Keeps(t)
<1>1. /\ call[t] \in CallRecords /\ call[t].tid \in Nat
      /\ CallAt(t, pc[t], call[t]) /\ Own(t)
      /\ HoldsAt(pc[t], call[t]) => locker = t
  BY CallHere DEF LinkInv
<1>2. CASE DeleteMiss(t) \/ DeleteRefused(t)
  BY <1>2, ReturnedHere, QuietReturn DEF DeleteMiss, DeleteRefused, Quiet, blocks, pends
<1>3. CASE DeleteHit(t)
  <2>1. /\ Quiet /\ pc'[t] = "deletable" /\ call'[t].task = TaskFor(call[t].tid)
        /\ TaskFor(call[t].tid) # NULL
    BY <1>1, <1>3, Moved
       DEF DeleteHit, Quiet, blocks, pends, TypeInv, PlaceTypes, CallRecords
  <2> QED
    BY <1>1, <2>1, QuietFound
<1>4. CASE DeleteForce(t)
  <2>1. Quiet /\ pc[t] = "deletable" /\ pc'[t] = "force" /\ call'[t] = call[t]
    BY <1>4, Moved DEF DeleteForce, DeleteTests, Quiet, blocks, pends
  <2> QED
    BY <2>1, QuietMove DEF Works, Pending
<1>5. CASE Pend(t)
  <2> DEFINE n == call[t].task
  <2>1. /\ pc[t] = "deletable" /\ pc'[t] = "pendLock" /\ call'[t] = call[t]
        /\ safe[n] > 0 /\ UNCHANGED <<block, list, safe>>
        /\ susp' = [susp EXCEPT ![n] = @ \cup {t}]
    BY <1>5, Moved DEF Pend, DeletePends, DeleteTests, blocks
  <2>2. n \in Tasks /\ locker = t /\ block[n] = "linked"
    BY <1>1, <2>1 DEF CallAt, HoldsAt, Own, Works
  <2>3. pc[n] # "none"
    BY <2>1, <2>2 DEF LinkInv, Unused
  <2>4. t \in susp'[n] /\ \A m \in Tasks : susp[m] \subseteq susp'[m] /\ (m # n => susp'[m] = susp[m])
    BY <2>1, <2>2 DEF TypeInv, PendTypes
  <2>5. Own(t)'
    BY <2>1, <2>2, <2>4 DEF Own
  <2>6. Frame(t) /\ ListInv'
    BY <2>1, <2>2, <2>3, <2>4 DEF Frame, LinkInv, ListInv, Distinct, In
  <2> QED
    BY <2>5, <2>6 DEF Keeps
<1>6. CASE PendWild(t)
  BY <1>6, CrashKeeps DEF PendWild, DeletePends, DeleteTests
<1> QED
  BY <1>2, <1>3, <1>4, <1>5, <1>6

LEMMA PendKeeps ==
    ASSUME TypeInv, CallInv, LinkInv, NEW t \in Tasks,
           PendLock(t) \/ PendSleep(t) \/ PendWake(t) \/ PendOver(t) \/ PendReturn(t)
    PROVE  Keeps(t)
<1>1. Quiet /\ pc[t] \in Pending
  BY DEF PendLock, PendSleep, PendWake, PendOver, PendReturn, Pending, Quiet, blocks, pends
<1>2. CASE PendReturn(t)
  BY <1>1, <1>2, ReturnedHere, QuietReturn DEF PendReturn
<1>3. CASE PendLock(t) \/ PendSleep(t) \/ PendWake(t) \/ PendOver(t)
  <2>1. pc'[t] \in Pending /\ call'[t] = call[t]
    BY <1>3, Moved DEF PendLock, PendSleep, PendWake, PendOver, Pending
  <2> QED
    BY <1>1, <2>1, QuietMove DEF Works, Pending
<1> QED
  BY <1>2, <1>3

LEMMA RestartKeeps ==
    ASSUME TypeInv, CallInv, LinkInv, NEW t \in Tasks,
           \/ RestartMiss(t) \/ RestartOther(t) \/ RestartSelf(t) \/ Restarted(t)
           \/ RestartFails(t) \/ Die(t)
    PROVE  Keeps(t)
<1>1. /\ call[t] \in CallRecords /\ call[t].tid \in Nat
      /\ CallAt(t, pc[t], call[t])
  BY CallHere
<1>2. CASE RestartMiss(t) \/ RestartSelf(t)
  BY <1>2, ReturnedHere, QuietReturn DEF RestartMiss, RestartSelf, Quiet, blocks, pends
<1>3. CASE RestartOther(t)
  <2>1. /\ Quiet /\ pc'[t] = "cancel" /\ call'[t].task = TaskFor(call[t].tid)
        /\ TaskFor(call[t].tid) # NULL /\ call'[t].op = "taskRestart"
    BY <1>1, <1>3, Moved
       DEF RestartOther, Locking, Quiet, blocks, pends, TypeInv, PlaceTypes, CallRecords
  <2> QED
    BY <1>1, <2>1, QuietFound
<1>4. CASE Restarted(t) \/ RestartFails(t)
  <2>1. Quiet
    BY <1>4 DEF Restarted, RestartFails, Quiet, blocks, pends
  <2>2. PICK place \in {"run", "lost"} : Return([pc EXCEPT ![call[t].task] = place], t)
    BY <1>4 DEF Restarted, RestartFails
  <2>3. DOMAIN [pc EXCEPT ![call[t].task] = place] = Tasks
    BY DEF TypeInv, PlaceTypes
  <2> QED
    BY <2>1, <2>2, <2>3, Returned, QuietReturn
<1>5. CASE Die(t)
  <2>1. Quiet /\ pc'[t] = "dead" /\ call'[t] = NoCall
    BY <1>5, Moved DEF Die, Quiet, blocks, pends, TypeInv, PlaceTypes
  <2> QED
    BY <2>1, QuietReturn
<1> QED
  BY <1>2, <1>3, <1>4, <1>5

LEMMA StepKeeps ==
    ASSUME TypeInv, CallInv, LinkInv, NEW t \in Tasks, Step(t)
    PROVE  Keeps(t)
BY CallsKeep, SpawnKeeps, ProtectKeeps, NotifyKeeps, ForceKeeps, DeleteKeeps, PendKeeps,
   RestartKeeps DEF Step, Progress

LEMMA InitLink == Init => LinkInv
<1> SUFFICES ASSUME Init PROVE LinkInv
  OBVIOUS
<1>1. ListInv
  BY DEF Init, ListInv, Distinct, In
<1>2. \A t \in Tasks : pc[t] \in {"run", "none"} /\ call[t] = NoCall
  BY DEF Init
<1>3. \A t \in Tasks : Own(t) /\ Unused(t)
  BY <1>2 DEF Init, Own, Works, Unused, NoCall, Deleting, Pending
<1> QED
  BY <1>1, <1>2, <1>3 DEF LinkInv, Alone

LEMMA StutterLink ==
    ASSUME LinkInv, UNCHANGED vars
    PROVE  LinkInv'
BY DEF vars, LinkInv, ListInv, Alone, Own, Works, Unused, Distinct, In

LEMMA Links == Spec => [](TypeInv /\ CallInv /\ LinkInv)
<1>1. TypeInv /\ CallInv /\ LinkInv /\ [Next]_vars => (TypeInv /\ CallInv /\ LinkInv)'
  <2> SUFFICES ASSUME TypeInv, CallInv, LinkInv, [Next]_vars
               PROVE  (TypeInv /\ CallInv /\ LinkInv)'
    OBVIOUS
  <2>1. CASE Next
    <3>1. PICK t \in Tasks : Step(t)
      BY <2>1, NextIsStep
    <3> QED
      BY <3>1, StepFacts, StepKeeps, FactsKeepCalls, KeepsLink
  <2>2. CASE UNCHANGED vars
    BY <2>2, StutterInv, StutterLink
  <2> QED
    BY <2>1, <2>2
<1> QED
  BY InitInv, InitLink, <1>1, PTL DEF Spec

\* No thread in taskDelete, taskDeleteForce, taskRestart or notify_task_delete, and
\* none pended in task_pend_delete, works on a control block that task_delete has
\* freed, whoever else deletes or restarts the same task.
THEOREM LifeTargets == Spec => []TargetsLive
<1>1. LinkInv => TargetsLive
  BY DEF LinkInv, Own, Works, TargetsLive, Pended, Pending
<1> QED
  BY Links, <1>1, PTL

-----------------------------------------------------------------------------
(***************************************************************************)
(* Task ids, when one task makes all the calls of taskSpawn: the id that   *)
(* taskSpawn has computed stays above those in the list until it is given  *)
(* to the new task, so an id leads taskDelete and the taskDeleteForce it   *)
(* calls to the same task.                                                 *)
(***************************************************************************)
OneSpawner == \A s, u \in Spawners : s = u

Spawning(t) == pc[t] \in {"init", "setId"}

Fresh(t) == Spawning(t) =>
    /\ t \in Spawners /\ call[t].tid # 0 /\ id[call[t].task] = 0
    /\ pc[t] = "setId" => block[call[t].task] \in {"linked", "freed"}
    /\ \A n \in Tasks : block[n] = "linked" => id[n] < call[t].tid

\* The task found by taskDelete is the one that has the id ...
Chosen(t) == pc[t] \in {"deletable", "force"} =>
    id[call[t].task] = call[t].tid /\ call[t].tid # 0

\* ... and is unprotected from the test of delete_safe_count on.
Spared(t) == call[t].op = "taskDelete" /\ pc[t] \in Deleting => safe[call[t].task] = 0

Numbered ==
    /\ \A n \in Tasks : block[n] \in {"none", "raw"} => id[n] = 0
    /\ \A m, n \in Tasks :
          block[m] = "linked" /\ block[n] = "linked" /\ id[m] = id[n] /\ id[m] # 0 => m = n

IdInv == Numbered /\ \A t \in Tasks : Fresh(t) /\ Chosen(t) /\ Spared(t)

\* What a step of t leaves to the other threads.
IdFrame(t) ==
    /\ \A n \in Tasks : id[n] # 0 => id'[n] = id[n]
    /\ \A n \in Tasks : safe[n] = 0 /\ safe'[n] # 0 => locker = t
    /\ \A n \in Tasks : block[n] \in {"linked", "freed"} => block'[n] \in {"linked", "freed"}
    /\ \/ t \in Spawners
       \/ UNCHANGED id /\ \A n \in Tasks : block'[n] = "linked" => block[n] = "linked"

IdKeeps(t) == IdFrame(t) /\ Numbered' /\ Fresh(t)' /\ Chosen(t)' /\ Spared(t)'

LEMMA KeepsIds ==
    ASSUME OneSpawner, TypeInv, CallInv, LinkInv, IdInv, NEW t \in Tasks, Facts(t),
           IdKeeps(t)
    PROVE  IdInv'
<1> SUFFICES ASSUME NEW u \in Tasks, u # t PROVE (Fresh(u) /\ Chosen(u) /\ Spared(u))'
  BY DEF IdKeeps, IdInv
<1>1. call'[u] = call[u] /\ Shift(pc[u], pc'[u])
  BY DEF Facts, Others
<1>2. /\ Fresh(u) /\ Chosen(u) /\ Spared(u) /\ Own(u)
      /\ CallAt(u, pc[u], call[u]) /\ HoldOK(u)
  BY DEF IdInv, LinkInv, CallInv, CallOK
<1>3. Fresh(u)'
  <2> SUFFICES ASSUME Spawning(u)' PROVE Fresh(u)'
    BY DEF Fresh
  <2>1. Spawning(u) /\ pc'[u] = pc[u]
    BY <1>1 DEF Spawning, Shift
  <2>2. u \in Spawners /\ t \notin Spawners /\ call[u].task \in Tasks
    BY <1>2, <2>1 DEF Fresh, OneSpawner, Spawning, CallAt
  <2>3. UNCHANGED id /\ \A n \in Tasks : block'[n] = "linked" => block[n] = "linked"
    BY <2>2 DEF IdKeeps, IdFrame
  <2> QED
    BY <1>1, <1>2, <2>1, <2>2, <2>3 DEF Fresh, IdKeeps, IdFrame
<1>4. Chosen(u)'
  <2> SUFFICES ASSUME pc'[u] \in {"deletable", "force"}
               PROVE  id'[call'[u].task] = call'[u].tid /\ call'[u].tid # 0
    BY DEF Chosen
  <2>1. pc[u] = pc'[u]
    BY <1>1 DEF Shift
  <2>2. call[u].task \in Tasks /\ id[call[u].task] = call[u].tid /\ call[u].tid # 0
    BY <1>2, <2>1 DEF Chosen, CallAt, Deleting
  <2> QED
    BY <1>1, <2>2 DEF IdKeeps, IdFrame
<1>5. Spared(u)'
  <2> SUFFICES ASSUME call[u].op = "taskDelete", pc'[u] \in Deleting
               PROVE  safe'[call[u].task] = 0
    BY <1>1 DEF Spared
  <2>1. pc[u] = pc'[u]
    BY <1>1 DEF Shift, Deleting
  <2>2. locker = u /\ call[u].task \in Tasks
    BY <1>2, <2>1 DEF HoldOK, Holds, HoldsAt, Deleting, Notifying, CallAt
  <2> QED
    BY <1>2, <2>1, <2>2 DEF Spared, IdKeeps, IdFrame
<1> QED
  BY <1>3, <1>4, <1>5

\* Every step but those of taskSpawn on the new task's control block.
Calm(t) ==
    /\ UNCHANGED id /\ ~Spawning(t)'
    /\ \A n \in Tasks : block'[n] = "linked" => block[n] = "linked"
    /\ \A n \in Tasks : block'[n] \in {"none", "raw"} => block[n] \in {"none", "raw"}
    /\ \A n \in Tasks : safe[n] = 0 /\ safe'[n] # 0 => locker = t

LEMMA CalmKeeps ==
    ASSUME TypeInv, TypeInv', IdInv, NEW t \in Tasks, Calm(t), Chosen(t)', Spared(t)'
    PROVE  IdKeeps(t)
<1>1. Numbered' /\ Fresh(t)'
  BY DEF Calm, IdInv, Numbered, Fresh
<1>2. \A n \in Tasks : block'[n] \in {"none", "raw", "linked", "freed"}
  BY DEF TypeInv, BlockTypes
<1>3. IdFrame(t)
  BY <1>2 DEF Calm, IdFrame
<1> QED
  BY <1>1, <1>3 DEF IdKeeps

\* A call has returned, or is none that deletes a task.
LEMMA CalmElsewhere ==
    ASSUME TypeInv, TypeInv', IdInv, NEW t \in Tasks, Calm(t),
           \/ pc'[t] \notin Deleting \cup {"deletable"}
           \/ pc'[t] \notin {"deletable", "force"} /\ call'[t].op # "taskDelete"
    PROVE  IdKeeps(t)
<1>1. Chosen(t)' /\ Spared(t)'
  BY DEF Chosen, Spared, Deleting
<1> QED
  BY <1>1, CalmKeeps

\* A deletion goes on with its task.
LEMMA CalmOnward ==
    ASSUME TypeInv, TypeInv', IdInv, NEW t \in Tasks, Calm(t),
           call'[t] = call[t], UNCHANGED safe, pc[t] \in Deleting,
           pc'[t] \in Deleting \ {"force"} \/ pc'[t] = pc[t]
    PROVE  IdKeeps(t)
<1>1. Chosen(t) /\ Spared(t)
  BY DEF IdInv
<1>2. Chosen(t)' /\ Spared(t)'
  BY <1>1 DEF Chosen, Spared, Deleting, Calm
<1> QED
  BY <1>2, CalmKeeps

LEMMA QuietCalm ==
    ASSUME NEW t \in Tasks, Quiet, UNCHANGED id, pc'[t] \notin {"init", "setId"}
    PROVE  Calm(t)
BY DEF Quiet, Calm, Spawning

LEMMA CallsIds ==
    ASSUME TypeInv, TypeInv', CallInv, LinkInv, IdInv, NEW t \in Tasks, Calls(t)
    PROVE  IdKeeps(t)
<1>1. ASSUME NEW c, Begin(t, "lock", c), UNCHANGED block
      PROVE  IdKeeps(t)
  <2>1. pc'[t] = "lock" /\ Quiet /\ UNCHANGED id
    BY <1>1, Moved DEF Begin, Quiet, pends
  <2> QED
    BY <2>1, QuietCalm, CalmElsewhere DEF Deleting
<1>2. CASE CallSpawn(t)
  <2>1. PICK n \in Tasks :
            /\ block[n] = "none"
            /\ Begin(t, "init", [op |-> "taskSpawn", tid |-> NewTid, task |-> n])
            /\ block' = [block EXCEPT ![n] = "raw"]
    BY <1>2 DEF CallSpawn
  <2>2. /\ pc'[t] = "init" /\ call'[t].task = n /\ call'[t].tid = NewTid
        /\ UNCHANGED <<id, list, safe, susp>> /\ t \in Spawners
    BY <1>2, <2>1, Moved DEF Begin, TypeInv, PlaceTypes, pends, CallSpawn
  <2>3. block'[n] = "raw" /\ \A m \in Tasks \ {n} : block'[m] = block[m]
    BY <2>1 DEF TypeInv, BlockTypes
  <2>4. NewTid # 0 /\ \A m \in Tasks : block[m] = "linked" => id[m] < NewTid
    BY NewTidAbove DEF TypeInv, LinkInv, ListInv, In
  <2>5. Numbered'
    BY <2>1, <2>2, <2>3 DEF IdInv, Numbered
  <2>6. Fresh(t)'
    BY <2>1, <2>2, <2>3, <2>4 DEF IdInv, Numbered, Fresh
  <2>7. Chosen(t)' /\ Spared(t)'
    BY <2>2 DEF Chosen, Spared, Deleting
  <2>8. IdFrame(t)
    BY <2>1, <2>2, <2>3 DEF IdFrame
  <2> QED
    BY <2>5, <2>6, <2>7, <2>8 DEF IdKeeps
<1>3. CASE EntryReturns(t)
  <2>1. pc'[t] = "lock" /\ Quiet /\ UNCHANGED id
    BY <1>3, Moved DEF EntryReturns, Quiet, blocks, pends
  <2> QED
    BY <2>1, QuietCalm, CalmElsewhere DEF Deleting
<1>4. ASSUME NEW name, NEW who, Call(t, name, who) PROVE IdKeeps(t)
  BY <1>1, <1>4 DEF Call
<1> QED
  BY <1>1, <1>2, <1>3, <1>4
     DEF Calls, CallDelete, CallForce, CallRestart, CallSafe, CallUnsafe

LEMMA EraseCalm ==
    ASSUME TypeInv, NEW t \in Tasks, NEW n \in Tasks, Erase(n), UNCHANGED pends,
           pc'[t] \in {"run", "dead"}
    PROVE  Calm(t)
<1>1. block'[n] = "freed" /\ \A m \in Tasks \ {n} : block'[m] = block[m]
  BY DEF Erase, TypeInv, BlockTypes
<1> QED
  BY <1>1 DEF Erase, Calm, Spawning, pends

LEMMA SpawnIds ==
    ASSUME TypeInv, TypeInv', CallInv, LinkInv, IdInv, NEW t \in Tasks,
           \/ SpawnInit(t) \/ SpawnRefused(t) \/ SpawnSetId(t) \/ SpawnActivate(t)
           \/ SpawnFails(t)
    PROVE  IdKeeps(t)
<1>1. call[t].tid \in Nat /\ CallAt(t, pc[t], call[t]) /\ Own(t) /\ Fresh(t)
  BY CallHere DEF LinkInv, IdInv
<1> DEFINE n == call[t].task
<1>2. CASE SpawnInit(t)
  <2>1. /\ pc[t] = "init" /\ pc'[t] = "setId" /\ call'[t] = call[t]
        /\ block' = [block EXCEPT ![n] = "linked"] /\ UNCHANGED <<id, safe>>
    BY <1>2, Moved DEF SpawnInit, pends
  <2>2. n \in Tasks /\ t \in Spawners /\ id[n] = 0 /\ call[t].tid > 0
    BY <1>1, <2>1 DEF CallAt, Fresh, Spawning
  <2>3. block'[n] = "linked" /\ \A m \in Tasks \ {n} : block'[m] = block[m]
    BY <2>1, <2>2 DEF TypeInv, BlockTypes
  <2>4. Numbered'
    BY <2>1, <2>2, <2>3 DEF IdInv, Numbered
  <2>5. Fresh(t)'
    BY <1>1, <2>1, <2>2, <2>3 DEF Fresh, Spawning
  <2>6. Chosen(t)' /\ Spared(t)'
    BY <2>1 DEF Chosen, Spared, Deleting
  <2>7. IdFrame(t)
    BY <2>1, <2>2, <2>3 DEF IdFrame
  <2> QED
    BY <2>4, <2>5, <2>6, <2>7 DEF IdKeeps
<1>3. CASE SpawnRefused(t)
  <2>1. /\ pc[t] = "init" /\ pc'[t] = "lock"
        /\ block' = [block EXCEPT ![n] = "freed"] /\ UNCHANGED <<id, safe>>
    BY <1>3, Moved DEF SpawnRefused, pends
  <2>2. \A m \in Tasks : block'[m] = block[m] \/ block'[m] = "freed"
    BY <2>1 DEF TypeInv, BlockTypes
  <2>3. Calm(t)
    BY <2>1, <2>2 DEF Calm, Spawning
  <2> QED
    BY <2>1, <2>3, CalmElsewhere DEF Deleting
<1>4. CASE SpawnSetId(t)
  <2>1. /\ pc[t] = "setId" /\ pc'[t] = "lock"
        /\ id' = [id EXCEPT ![n] = call[t].tid] /\ UNCHANGED <<block, safe>>
    BY <1>4, Moved DEF SpawnSetId, pends
  <2>2. /\ n \in Tasks /\ t \in Spawners /\ id[n] = 0
        /\ block[n] \in {"linked", "freed"}
        /\ \A m \in Tasks : block[m] = "linked" => id[m] < call[t].tid
    BY <1>1, <2>1 DEF CallAt, Fresh, Spawning
  <2>3. id'[n] = call[t].tid /\ \A m \in Tasks \ {n} : id'[m] = id[m] /\ id[m] \in Nat
    BY <2>1, <2>2 DEF TypeInv, BlockTypes
  <2>4. \A m \in Tasks \ {n} : block[m] = "linked" => id[m] # call[t].tid
    BY <1>1, <2>2, <2>3
  <2>5. Numbered'
    BY <2>1, <2>2, <2>3, <2>4 DEF IdInv, Numbered
  <2>6. Fresh(t)' /\ Chosen(t)' /\ Spared(t)'
    BY <2>1 DEF Fresh, Spawning, Chosen, Spared, Deleting
  <2>7. IdFrame(t)
    BY <2>1, <2>2, <2>3 DEF IdFrame
  <2> QED
    BY <2>5, <2>6, <2>7 DEF IdKeeps
<1>5. CASE SpawnActivate(t)
  <2> DEFINE m == TaskFor(call[t].tid)
             p == IF m # NULL /\ pc[m] = "none" THEN [pc EXCEPT ![m] = "run"] ELSE pc
  <2>1. DOMAIN p = Tasks
    BY DEF TypeInv, PlaceTypes
  <2>2. Return(p, t) /\ Quiet /\ UNCHANGED id
    BY <1>5 DEF SpawnActivate, Quiet, blocks, pends
  <2> HIDE DEF p
  <2>3. pc'[t] \in {"run", "dead"}
    BY <2>1, <2>2, Returned
  <2> QED
    BY <2>2, <2>3, QuietCalm, CalmElsewhere DEF Deleting
<1>6. CASE SpawnFails(t)
  <2>1. TaskFor(call[t].tid) \in Tasks
    BY <1>1, <1>6, FoundLinked DEF SpawnFails
  <2>2. pc'[t] \in {"run", "dead"} /\ UNCHANGED pends /\ Erase(TaskFor(call[t].tid))
    BY <1>6, ReturnedHere DEF SpawnFails
  <2> QED
    BY <2>1, <2>2, EraseCalm, CalmElsewhere DEF Deleting
<1> QED
  BY <1>2, <1>3, <1>4, <1>5, <1>6

LEMMA ProtectIds ==
    ASSUME TypeInv, TypeInv', CallInv, LinkInv, IdInv, NEW t \in Tasks,
           ProtectLock(t) \/ Safe(t) \/ Unsafe(t) \/ UnsafeLast(t)
    PROVE  IdKeeps(t)
<1>1. HoldsAt(pc[t], call[t]) => locker = t
  BY CallHere
<1>2. CASE ProtectLock(t)
  <2>1. pc'[t] = "protect" /\ Quiet /\ UNCHANGED id
    BY <1>2, Moved DEF ProtectLock, Quiet, blocks, pends
  <2> QED
    BY <2>1, QuietCalm, CalmElsewhere DEF Deleting
<1>3. ASSUME pc[t] = "protect", UNCHANGED blocks, pc'[t] \notin {"init", "setId"}
      PROVE  Calm(t)
  BY <1>1, <1>3 DEF HoldsAt, Calm, Spawning, blocks
<1>4. CASE Safe(t) \/ Unsafe(t)
  BY <1>3, <1>4, ReturnedHere, CalmElsewhere DEF Safe, Unsafe, Protecting, Deleting
<1>5. CASE UnsafeLast(t)
  <2>1. pc'[t] = "notify" /\ call'[t].op = "taskUnsafe"
    BY <1>5, Moved DEF UnsafeLast, Protecting
  <2> QED
    BY <1>3, <1>5, <2>1, CalmElsewhere DEF UnsafeLast, Protecting
<1> QED
  BY <1>2, <1>4, <1>5

LEMMA NotifyIds ==
    ASSUME TypeInv, TypeInv', CallInv, LinkInv, IdInv, NEW t \in Tasks,
           \/ NotifyNobody(t) \/ NotifyLock(t) \/ NotifyBroadcast(t) \/ NotifyWait(t)
           \/ NotifyWake(t)
    PROVE  IdKeeps(t)
<1>1. pc[t] \in Deleting /\ Quiet /\ UNCHANGED <<id, safe>>
  BY DEF NotifyNobody, NotifyLock, NotifyBroadcast, NotifyWait, NotifyWake,
         Quiet, blocks, pends, Deleting
<1>2. ASSUME call'[t] = call[t], pc'[t] \in Notifying \cup {"cancel"} PROVE IdKeeps(t)
  <2>1. pc'[t] \in Deleting \ {"force"} /\ pc'[t] \notin {"init", "setId"}
    BY <1>2 DEF Notifying, Deleting
  <2> QED
    BY <1>1, <1>2, <2>1, QuietCalm, CalmOnward
<1>3. CASE NotifyNobody(t)
  <2>1. CASE call[t].op = "taskUnsafe"
    <3>1. pc'[t] \in {"run", "dead"}
      BY <1>3, <2>1, ReturnedHere DEF NotifyNobody
    <3> QED
      BY <1>1, <3>1, QuietCalm, CalmElsewhere DEF Deleting
  <2>2. CASE call[t].op # "taskUnsafe"
    BY <1>2, <1>3, <2>2, Moved DEF NotifyNobody
  <2> QED
    BY <2>1, <2>2
<1>4. CASE NotifyLock(t) \/ NotifyWait(t) \/ NotifyWake(t)
  <2>1. pc'[t] \in Notifying /\ call'[t] = call[t]
    BY <1>4, Moved DEF NotifyLock, NotifyWait, NotifyWake, Notifying
  <2> QED
    BY <1>2, <2>1
<1>5. CASE NotifyBroadcast(t)
  <2>1. pc'[t] = "bcastTest" /\ call'[t] = call[t]
    BY <1>5 DEF NotifyBroadcast, BroadcastDeletable, TypeInv, PlaceTypes
  <2> QED
    BY <1>2, <2>1 DEF Notifying
<1> QED
  BY <1>3, <1>4, <1>5

LEMMA ForceIds ==
    ASSUME TypeInv, TypeInv', CallInv, LinkInv, IdInv, NEW t \in Tasks,
           \/ ForceMiss(t) \/ ForceHit(t) \/ Cancel(t) \/ CancelNoThread(t)
           \/ DeleteOther(t) \/ DeleteSelf(t)
    PROVE  IdKeeps(t)
<1>1. /\ call[t] \in CallRecords /\ call[t].tid \in Nat
      /\ CallAt(t, pc[t], call[t]) /\ Own(t) /\ Chosen(t) /\ Spared(t)
  BY CallHere DEF LinkInv, IdInv
<1>2. CASE ForceMiss(t)
  <2>1. Quiet /\ UNCHANGED id /\ pc'[t] \in {"run", "dead"}
    BY <1>2, ReturnedHere DEF ForceMiss, Quiet, blocks, pends
  <2> QED
    BY <2>1, QuietCalm, CalmElsewhere DEF Deleting
<1>3. CASE ForceHit(t)
  <2> DEFINE n == TaskFor(call[t].tid)
  <2>1. /\ Quiet /\ UNCHANGED <<id, safe>> /\ pc'[t] = "notify"
        /\ call'[t].task = n /\ call'[t].op = call[t].op /\ ForceLocks(t) /\ n # NULL
    BY <1>1, <1>3, Moved
       DEF ForceHit, Quiet, blocks, pends, TypeInv, PlaceTypes, CallRecords
  <2>2. Calm(t)
    BY <2>1, QuietCalm
  <2>3. CASE call[t].op # "taskDelete"
    BY <2>1, <2>2, <2>3, CalmElsewhere
  <2>4. CASE call[t].op = "taskDelete"
    <3>1. pc[t] = "force"
      BY <2>1, <2>4 DEF ForceLocks, Locking
    <3>2. /\ call[t].task \in Tasks /\ block[call[t].task] = "linked"
          /\ id[call[t].task] = call[t].tid /\ safe[call[t].task] = 0
      BY <1>1, <2>4, <3>1 DEF CallAt, Own, Works, Chosen, Spared, Deleting
    <3>3. /\ n \in Tasks /\ block[n] = "linked" /\ id[n] = call[t].tid
          /\ call[t].tid # 0
      BY <1>1, <2>1, FoundLinked
    <3> HIDE DEF n
    <3>4. n = call[t].task
      BY <3>2, <3>3 DEF IdInv, Numbered
    <3>5. Chosen(t)' /\ Spared(t)'
      BY <2>1, <3>2, <3>4 DEF Chosen, Spared
    <3> QED
      BY <2>2, <3>5, CalmKeeps
  <2> QED
    BY <2>3, <2>4
<1>4. CASE Cancel(t)
  <2>1. /\ Quiet /\ UNCHANGED <<id, safe>>
        /\ pc[t] = "cancel" /\ pc'[t] = "join" /\ call'[t] = call[t]
    BY <1>4, Moved DEF Cancel, Cancels, Quiet, blocks, pends
  <2>2. pc[t] \in Deleting /\ pc'[t] \in Deleting \ {"force"}
    BY <2>1 DEF Deleting
  <2> QED
    BY <2>1, <2>2, QuietCalm, CalmOnward
<1>5. CASE CancelNoThread(t)
  <2>1. /\ Quiet /\ UNCHANGED <<id, safe>>
        /\ pc[t] = "cancel" /\ pc'[t] = pc[t] /\ call'[t] = call[t]
    BY <1>5 DEF CancelNoThread, Cancels, Crash, Quiet, blocks, pends
  <2>2. pc[t] \in Deleting
    BY <2>1 DEF Deleting
  <2> QED
    BY <2>1, <2>2, QuietCalm, CalmOnward
<1>6. CASE DeleteOther(t) \/ DeleteSelf(t)
  <2>1. call[t].task \in Tasks /\ Erase(call[t].task)
    BY <1>1, <1>6 DEF DeleteOther, DeleteSelf, Joined, CallAt, Deleting
  <2>2. pc'[t] \in {"run", "dead"} /\ UNCHANGED pends
    BY <1>6, ReturnedHere DEF DeleteOther, DeleteSelf
  <2> QED
    BY <2>1, <2>2, EraseCalm, CalmElsewhere DEF Deleting
<1> QED
  BY <1>2, <1>3, <1>4, <1>5, <1>6

LEMMA DeleteIds ==
    ASSUME TypeInv, TypeInv', CallInv, LinkInv, IdInv, NEW t \in Tasks,
           \/ DeleteMiss(t) \/ DeleteHit(t) \/ DeleteForce(t) \/ DeleteRefused(t)
           \/ Pend(t) \/ PendWild(t)
    PROVE  IdKeeps(t)
<1>1. /\ call[t] \in CallRecords /\ call[t].tid \in Nat /\ Chosen(t)
  BY CallHere DEF IdInv
<1>2. CASE DeleteMiss(t) \/ DeleteRefused(t)
  <2>1. Quiet /\ UNCHANGED id /\ pc'[t] \in {"run", "dead"}
    BY <1>2, ReturnedHere DEF DeleteMiss, DeleteRefused, Quiet, blocks, pends
  <2> QED
    BY <2>1, QuietCalm, CalmElsewhere DEF Deleting
<1>3. CASE DeleteHit(t)
  <2> DEFINE n == TaskFor(call[t].tid)
  <2>1. /\ Quiet /\ UNCHANGED id /\ pc'[t] = "deletable"
        /\ call'[t].task = n /\ call'[t].tid = call[t].tid /\ n # NULL
    BY <1>1, <1>3, Moved
       DEF DeleteHit, Quiet, blocks, pends, TypeInv, PlaceTypes, CallRecords
  <2>2. id[n] = call[t].tid /\ call[t].tid # 0
    BY <1>1, <2>1, FoundLinked
  <2>3. Chosen(t)' /\ Spared(t)'
    BY <2>1, <2>2 DEF Chosen, Spared, Deleting
  <2> QED
    BY <2>1, <2>3, QuietCalm, CalmKeeps
<1>4. CASE DeleteForce(t)
  <2>1. /\ Quiet /\ UNCHANGED <<id, safe>> /\ pc[t] = "deletable" /\ pc'[t] = "force"
        /\ call'[t] = call[t] /\ safe[call[t].task] = 0
    BY <1>4, Moved DEF DeleteForce, DeleteTests, Quiet, blocks, pends
  <2>2. Chosen(t)' /\ Spared(t)'
    BY <1>1, <2>1 DEF Chosen, Spared
  <2> QED
    BY <2>1, <2>2, QuietCalm, CalmKeeps
<1>5. CASE Pend(t)
  <2>1. pc'[t] = "pendLock" /\ UNCHANGED <<block, id, safe>>
    BY <1>5, Moved DEF Pend, blocks
  <2>2. Calm(t)
    BY <2>1 DEF Calm, Spawning
  <2> QED
    BY <2>1, <2>2, CalmElsewhere DEF Deleting
<1>6. CASE PendWild(t)
  <2>1. /\ Quiet /\ UNCHANGED <<id, safe>>
        /\ pc[t] = "deletable" /\ pc'[t] = pc[t] /\ call'[t] = call[t]
    BY <1>6 DEF PendWild, DeletePends, DeleteTests, Crash, Quiet, blocks, pends
  <2>2. Chosen(t)' /\ Spared(t)'
    BY <1>1, <2>1 DEF Chosen, Spared, Deleting
  <2> QED
    BY <2>1, <2>2, QuietCalm, CalmKeeps
<1> QED
  BY <1>2, <1>3, <1>4, <1>5, <1>6

LEMMA PendIds ==
    ASSUME TypeInv, TypeInv', CallInv, LinkInv, IdInv, NEW t \in Tasks,
           PendLock(t) \/ PendSleep(t) \/ PendWake(t) \/ PendOver(t) \/ PendReturn(t)
    PROVE  IdKeeps(t)
<1>1. Quiet /\ UNCHANGED id
  BY DEF PendLock, PendSleep, PendWake, PendOver, PendReturn, Quiet, blocks, pends
<1>2. pc'[t] \in Pending \cup {"run", "dead"}
  BY Moved, ReturnedHere
     DEF PendLock, PendSleep, PendWake, PendOver, PendReturn, Pending
<1> QED
  BY <1>1, <1>2, QuietCalm, CalmElsewhere DEF Deleting, Pending

LEMMA RestartIds ==
    ASSUME TypeInv, TypeInv', CallInv, LinkInv, IdInv, NEW t \in Tasks,
           \/ RestartMiss(t) \/ RestartOther(t) \/ RestartSelf(t) \/ Restarted(t)
           \/ RestartFails(t) \/ Die(t)
    PROVE  IdKeeps(t)
<1>1. Quiet /\ UNCHANGED id
  BY DEF RestartMiss, RestartOther, RestartSelf, Restarted, RestartFails, Die, Quiet,
         blocks, pends
<1>2. ASSUME pc'[t] \in {"run", "dead"} PROVE IdKeeps(t)
  BY <1>1, <1>2, QuietCalm, CalmElsewhere DEF Deleting
<1>3. CASE RestartMiss(t) \/ RestartSelf(t)
  BY <1>2, <1>3, ReturnedHere DEF RestartMiss, RestartSelf
<1>4. CASE RestartOther(t)
  <2>1. pc'[t] = "cancel" /\ call'[t].op = "taskRestart"
    BY <1>4, Moved DEF RestartOther, Locking, TypeInv, PlaceTypes, CallRecords
  <2> QED
    BY <1>1, <2>1, QuietCalm, CalmElsewhere
<1>5. CASE Restarted(t) \/ RestartFails(t)
  <2>1. PICK place \in {"run", "lost"} : Return([pc EXCEPT ![call[t].task] = place], t)
    BY <1>5 DEF Restarted, RestartFails
  <2>2. DOMAIN [pc EXCEPT ![call[t].task] = place] = Tasks
    BY DEF TypeInv, PlaceTypes
  <2> QED
    BY <1>2, <2>1, <2>2, Returned
<1>6. CASE Die(t)
  BY <1>2, <1>6, Moved DEF Die
<1> QED
  BY <1>3, <1>4, <1>5, <1>6

LEMMA InitIds == Init => IdInv
<1> SUFFICES ASSUME Init PROVE IdInv
  OBVIOUS
<1>1. \A t \in Tasks : pc[t] \in {"run", "none"}
  BY DEF Init
<1>2. Numbered
  BY DEF Init, Numbered
<1> QED
  BY <1>1, <1>2 DEF IdInv, Fresh, Spawning, Chosen, Spared, Deleting

LEMMA StutterIds ==
    ASSUME IdInv, UNCHANGED vars
    PROVE  IdInv'
BY DEF vars, IdInv, Numbered, Fresh, Spawning, Chosen, Spared

LEMMA Identified ==
    ASSUME OneSpawner
    PROVE  Spec => [](TypeInv /\ LinkInv /\ IdInv)
<1> DEFINE Inv == TypeInv /\ CallInv /\ LinkInv /\ IdInv
<1>1. Inv /\ [Next]_vars => Inv'
  <2> SUFFICES ASSUME Inv, [Next]_vars PROVE Inv'
    OBVIOUS
  <2>1. CASE Next
    <3>1. PICK t \in Tasks : Step(t)
      BY <2>1, NextIsStep
    <3>2. TypeInv' /\ Facts(t) /\ Keeps(t)
      BY <3>1, StepFacts, StepKeeps
    <3>3. IdKeeps(t)
      BY <3>1, <3>2, CallsIds, SpawnIds, ProtectIds, NotifyIds, ForceIds, DeleteIds,
         PendIds, RestartIds DEF Step, Progress
    <3> QED
      BY <3>2, <3>3, FactsKeepCalls, KeepsLink, KeepsIds
  <2>2. CASE UNCHANGED vars
    BY <2>2, StutterInv, StutterLink, StutterIds
  <2> QED
    BY <2>1, <2>2
<1>2. Init => Inv
  BY InitInv, InitLink, InitIds
<1>3. Inv => TypeInv /\ LinkInv /\ IdInv
  OBVIOUS
<1> QED
  BY <1>1, <1>2, <1>3, PTL DEF Spec

\* As long as one task makes the calls of taskSpawn, no two tasks of the list have
\* the same id, although new_tid reads the list without its lock.
THEOREM LifeIds ==
    ASSUME OneSpawner
    PROVE  Spec => []UniqueIds
<1>1. TypeInv /\ LinkInv /\ IdInv => UniqueIds
  <2> SUFFICES ASSUME TypeInv, LinkInv, IdInv, NEW i \in DOMAIN list, NEW j \in DOMAIN list,
                      id[list[i]] = id[list[j]], id[list[i]] # 0
               PROVE  i = j
    BY DEF UniqueIds
  <2>1. list[i] \in Tasks /\ list[j] \in Tasks
    BY DEF TypeInv, BlockTypes
  <2>2. block[list[i]] = "linked" /\ block[list[j]] = "linked"
    BY <2>1 DEF LinkInv, ListInv, In
  <2>3. list[i] = list[j]
    BY <2>1, <2>2 DEF IdInv, Numbered
  <2> QED
    BY <2>3 DEF LinkInv, ListInv, Distinct
<1> QED
  BY Identified, <1>1, PTL

\* As long as one task makes the calls of taskSpawn, the task that taskDelete
\* deletes is the one it found deletable and is not protected by taskSafe when it
\* is deleted: taskDeleteForce, which looks the id up again, finds the same task.
THEOREM LifeSpared ==
    ASSUME OneSpawner
    PROVE  Spec => []ProtectedSpared
<1>1. IdInv => ProtectedSpared
  BY DEF IdInv, Spared, ProtectedSpared
<1> QED
  BY Identified, <1>1, PTL
=============================================================================
