-------------------------- MODULE Watchdog_proofs --------------------------
(***************************************************************************)
(* Theorems about Watchdog, for any number of threads and timers.          *)
(***************************************************************************)
EXTENDS Watchdog, TLAPS

USE WatchdogAssumption DEF Threads

\* No timer is in the list twice.
Distinct(s) == \A i, j \in DOMAIN s : s[i] = s[j] => i = j

In(s) == {s[i] : i \in DOMAIN s}

\* The steps of the exception task are its own, and the memory and the list
\* agree: a new timer is allocated, by one thread, before it is linked.
ListInv ==
    /\ Distinct(list)
    /\ Linked \subseteq heap
    /\ \A t \in Threads : call[t].op \in {"tick", "selfStarter"} => t = Exc
    /\ \A t \in Threads : pc[t] = "link" => call[t].w \in heap \ Linked
    /\ \A t, u \in Threads :
         pc[t] = "link" /\ pc[u] = "link" /\ call[t].w = call[u].w => t = u

\* What a thread at own or unlink holds, and that its timer is in the list.
HoldInv ==
    /\ \A t \in Threads : pc[t] = "own" => listLock = t
    /\ \A t \in Threads : pc[t] = "unlink" => wdogLock[call[t].w] = t
    /\ \A t \in Threads : pc[t] \in {"own", "unlink"} => call[t].w \in Linked

WdogInv == TypeOK /\ ListInv /\ HoldInv

-----------------------------------------------------------------------------
\* link_wdog keeps a list without repetitions one.
LEMMA AppendKeepsList ==
    ASSUME NEW s \in Seq(Wdogs), Distinct(s), NEW w \in Wdogs, w \notin In(s)
    PROVE  /\ Append(s, w) \in Seq(Wdogs)
           /\ Distinct(Append(s, w))
           /\ In(Append(s, w)) = In(s) \cup {w}
<1> DEFINE r == Append(s, w)
<1>1. /\ r \in Seq(Wdogs) /\ DOMAIN r = 1 .. Len(s) + 1
      /\ \A i \in 1 .. Len(s) : r[i] = s[i]
      /\ r[Len(s) + 1] = w
  OBVIOUS
<1>2. DOMAIN s = 1 .. Len(s) /\ Len(s) \in Nat
  OBVIOUS
<1> HIDE DEF r
<1>3. Distinct(r)
  BY <1>1, <1>2 DEF Distinct, In
<1>4. In(r) = In(s) \cup {w}
  BY <1>1, <1>2 DEF In
<1> QED BY <1>1, <1>3, <1>4 DEF r

\* unlink_wdog takes out the timer it is given and no other.
LEMMA UnlinkedKeepsList ==
    ASSUME NEW s \in Seq(Wdogs), Distinct(s), NEW w \in In(s)
    PROVE  /\ Unlinked(s, w) \in Seq(Wdogs)
           /\ Distinct(Unlinked(s, w))
           /\ In(Unlinked(s, w)) = In(s) \ {w}
<1> DEFINE k == CHOOSE i \in DOMAIN s : s[i] = w
           r == [j \in 1 .. Len(s) - 1 |-> IF j < k THEN s[j] ELSE s[j + 1]]
<1>1. \E i \in DOMAIN s : s[i] = w
  BY DEF In
<1>2. Unlinked(s, w) = r
  BY <1>1 DEF Unlinked
<1>3. k \in 1 .. Len(s) /\ s[k] = w /\ Len(s) \in Nat /\ DOMAIN s = 1 .. Len(s)
  BY <1>1
<1> HIDE DEF k
<1>4. r \in Seq(Wdogs) /\ DOMAIN r = 1 .. Len(s) - 1
  BY <1>3
<1>5. \A j \in 1 .. Len(s) - 1 : r[j] = IF j < k THEN s[j] ELSE s[j + 1]
  OBVIOUS
<1> HIDE DEF r
<1>6. Distinct(r)
  <2> SUFFICES ASSUME NEW i \in DOMAIN r, NEW j \in DOMAIN r, r[i] = r[j]
               PROVE  i = j
    BY DEF Distinct
  <2> DEFINE p(n) == IF n < k THEN n ELSE n + 1
  <2>1. /\ r[i] = s[p(i)] /\ p(i) \in DOMAIN s
        /\ r[j] = s[p(j)] /\ p(j) \in DOMAIN s
    BY <1>3, <1>4, <1>5
  <2>2. p(i) = p(j)
    BY <2>1 DEF Distinct
  <2> QED BY <1>3, <1>4, <2>2
<1>7. In(r) \subseteq In(s) \ {w}
  <2> SUFFICES ASSUME NEW j \in DOMAIN r PROVE r[j] \in In(s) \ {w}
    BY DEF In
  <2>1. CASE j < k
    BY <1>3, <1>4, <1>5, <2>1 DEF In, Distinct
  <2>2. CASE ~(j < k)
    <3>1. r[j] = s[j + 1] /\ j + 1 \in DOMAIN s /\ j + 1 # k
      BY <1>3, <1>4, <1>5, <2>2
    <3> QED BY <1>3, <3>1 DEF In, Distinct
  <2> QED BY <2>1, <2>2
<1>8. In(s) \ {w} \subseteq In(r)
  <2> SUFFICES ASSUME NEW i \in DOMAIN s, s[i] # w
               PROVE  \E j \in DOMAIN r : r[j] = s[i]
    BY DEF In
  <2>1. CASE i < k
    BY <1>3, <1>4, <1>5, <2>1
  <2>2. CASE i > k
    <3>1. i - 1 \in 1 .. Len(s) - 1 /\ ~(i - 1 < k) /\ (i - 1) + 1 = i
      BY <1>3, <2>2
    <3> QED BY <1>4, <1>5, <3>1
  <2> QED BY <1>3, <2>1, <2>2
<1> QED BY <1>2, <1>4, <1>6, <1>7, <1>8

-----------------------------------------------------------------------------
Calls == [op : Ops, w : Wdogs \cup {NULL}, n : Nat,
          f : Funcs \cup Tasks \cup {NULL}]

ControlTypes ==
    /\ pc \in [Threads -> PCs]
    /\ call \in [Threads -> Calls]
    /\ nxt \in Wdogs \cup {NULL}
    /\ served \subseteq Wdogs

TimerTypes ==
    /\ list \in Seq(Wdogs)
    /\ heap \subseteq Wdogs /\ known \subseteq Wdogs
    /\ ticks \in [Wdogs -> Nat]
    /\ func \in [Wdogs -> Funcs \cup Tasks \cup {NULL}]

LockTypes ==
    /\ listLock \in Threads \cup {NULL}
    /\ wdogLock \in [Wdogs -> Threads \cup {NULL}]
    /\ restartWdog \in Wdogs \cup {NULL}
    /\ due \subseteq Wdogs

\* The type invariant, by the groups of variables that steps change together.
LEMMA TypeParts == TypeOK <=> ControlTypes /\ TimerTypes /\ LockTypes
BY DEF TypeOK, ControlTypes, TimerTypes, LockTypes, Calls

\* The same of the state after a step.
LEMMA TypePartsNext ==
    ASSUME ControlTypes', TimerTypes', LockTypes'
    PROVE  TypeOK'
BY DEF TypeOK, ControlTypes, TimerTypes, LockTypes, Calls

Critical == {"link", "own", "unlink"}

\* A step of t after which t is at no place where it holds a timer or a new
\* one, and the others are where they were if they are at such a place.
Leaves(t) ==
    /\ ControlTypes'
    /\ \A u \in Threads : pc'[u] \in Critical =>
         u # t /\ pc'[u] = pc[u] /\ call'[u] = call[u]
    /\ \A u \in Threads : call'[u].op \in {"tick", "selfStarter"} => u = Exc

\* A call record made of arguments of the right types is one.
LEMMA DoIsCall ==
    ASSUME NEW o \in Ops, NEW w \in Wdogs \cup {NULL}, NEW n \in Nat,
           NEW g \in Funcs \cup Tasks \cup {NULL}
    PROVE  /\ Do(o, w, n, g) \in Calls
           /\ Do(o, w, n, g).op = o /\ Do(o, w, n, g).w = w
BY DEF Do, Calls

\* A thread that goes to a place where it holds nothing leaves.
LEMMA GotoLeaves ==
    ASSUME ControlTypes, ListInv, NEW t \in Threads, NEW place \in PCs \ Critical,
           NEW c \in Calls, c.op \in {"tick", "selfStarter"} => t = Exc,
           Goto(t, place, c), nxt' \in Wdogs \cup {NULL}, served' \subseteq Wdogs
    PROVE  Leaves(t)
BY DEF ControlTypes, ListInv, Goto, Leaves

\* The record of a thread that is in no call.
LEMMA NoCallIsCall == NoCall \in Calls /\ NoCall.op = "none"
BY DoIsCall DEF NoCall, Ops

\* process_timer_list's going on to another timer is such a step,
LEMMA VisitLeaves ==
    ASSUME ControlTypes, ListInv, NEW w \in Wdogs \cup {NULL},
           NEW s \in SUBSET Wdogs, Visit(w, s)
    PROVE  Leaves(Exc)
<1>1. nxt' \in Wdogs \cup {NULL} /\ served' \subseteq Wdogs
  BY DEF Visit
<1>2. CASE w = NULL
  <2>1. Goto(Exc, "delay", NoCall)
    BY <1>2 DEF Visit
  <2> QED BY <1>1, <2>1, GotoLeaves, NoCallIsCall DEF PCs, Critical
<1>3. CASE w # NULL
  <2>1. Goto(Exc, "list", Do("tick", w, 0, NULL))
    BY <1>3 DEF Visit
  <2>2. Do("tick", w, 0, NULL) \in Calls
    BY DoIsCall DEF Ops
  <2> QED BY <1>1, <2>1, <2>2, GotoLeaves DEF PCs, Critical
<1> QED BY <1>2, <1>3

\* so is the return of a call,
LEMMA DoneLeaves ==
    ASSUME ControlTypes, ListInv, NEW t \in Threads, Done(t)
    PROVE  Leaves(t)
<1>1. CASE t = Exc
  BY <1>1, VisitLeaves DEF Done, ControlTypes
<1>2. CASE t # Exc
  BY <1>2, GotoLeaves, NoCallIsCall DEF Done, ControlTypes, PCs, Critical
<1> QED BY <1>1, <1>2

\* and so is the end of selfRestart or of self_starter.
LEMMA EndCallLeaves ==
    ASSUME ControlTypes, ListInv, NEW t \in Threads, EndCall(t)
    PROVE  Leaves(t)
<1>1. CASE call[t].op = "selfRestart"
  <2>1. Goto(t, "none", NoCall) /\ UNCHANGED <<nxt, served>>
    BY <1>1 DEF EndCall
  <2> QED BY <2>1, GotoLeaves, NoCallIsCall DEF ControlTypes, PCs, Critical
<1>2. CASE call[t].op = "selfStarter"
  <2>1. StartThread(call[t].f) /\ t = Exc
    BY <1>2 DEF EndCall, ListInv
  <2> QED BY <2>1 DEF StartThread, Leaves, ControlTypes, ListInv, PCs, Critical
<1>3. CASE call[t].op \notin {"selfRestart", "selfStarter"}
  BY <1>3, DoneLeaves DEF EndCall
<1> QED BY <1>1, <1>2, <1>3

-----------------------------------------------------------------------------
\* A step that leaves the critical places and the list keeps ListInv and HoldInv
\* if it takes no lock from those who stay there.
LEMMA LeavesKeeps ==
    ASSUME ControlTypes, ListInv, HoldInv, NEW t \in Threads, Leaves(t),
           UNCHANGED <<list, heap, wdogLock>>,
           listLock' = listLock \/ (pc[t] = "own" /\ listLock' = NULL)
    PROVE  ListInv' /\ HoldInv'
<1>1. Linked' = Linked
  BY DEF Linked
<1>2. ListInv'
  BY <1>1 DEF ListInv, Leaves, Critical, Distinct
<1>3. HoldInv'
  BY <1>1 DEF HoldInv, Leaves, Critical
<1> QED BY <1>2, <1>3

-----------------------------------------------------------------------------
\* The invariant holds before the first timer is created.
LEMMA InitKeeps == Init => WdogInv
<1> SUFFICES ASSUME Init PROVE WdogInv
  OBVIOUS
<1>1. ControlTypes
  BY NoCallIsCall DEF Init, ControlTypes, PCs
<1>2. TimerTypes /\ LockTypes
  BY DEF Init, TimerTypes, LockTypes
<1>3. ListInv
  BY NoCallIsCall DEF Init, ListInv, Distinct, Linked
<1>4. HoldInv
  BY DEF Init, HoldInv
<1> QED BY <1>1, <1>2, <1>3, <1>4, TypeParts DEF WdogInv

\* wdStart never sets a negative number of ticks.
LEMMA StartTicksNat ==
    ASSUME NEW d \in Int
    PROVE  StartTicks(d) \in Nat
<1>1. d \div 2 \in Int
  OBVIOUS
<1> HIDE DEF WatchdogAssumption
<1> QED BY <1>1 DEF StartTicks

\* A call that only goes to wdog_valid.
LEMMA BeginKeeps ==
    ASSUME WdogInv, NEW t \in Threads, NEW c \in Calls, Begin(t, c)
    PROVE  WdogInv'
<1>1. ControlTypes /\ TimerTypes /\ LockTypes /\ ListInv /\ HoldInv
  BY TypeParts DEF WdogInv
<1>2. Leaves(t)
  <2>1. c.op \notin {"tick", "selfStarter"}
    BY DEF Begin, CanCall
  <2> QED BY <1>1, <2>1, GotoLeaves DEF Begin, history, ControlTypes, PCs, Critical
<1>3. ListInv' /\ HoldInv'
  BY <1>1, <1>2, LeavesKeeps DEF Begin, timers, locks
<1>4. TimerTypes' /\ LockTypes'
  BY <1>1 DEF Begin, timers, locks, history, TimerTypes, LockTypes
<1> QED BY <1>2, <1>3, <1>4, TypePartsNext DEF WdogInv, Leaves

\* wdCreate allocates a timer that no other thread has.
LEMMA AllocateKeeps ==
    ASSUME WdogInv, NEW t \in Threads, NEW w \in Wdogs, NEW c \in Calls,
           c.w = w, c.op \notin {"tick", "selfStarter"},
           pc[t] \notin Critical,
           Allocate(w), Goto(t, "link", c), known' \subseteq Wdogs
    PROVE  WdogInv'
<1>1. ControlTypes /\ TimerTypes /\ LockTypes /\ ListInv /\ HoldInv
  BY TypeParts DEF WdogInv
<1>2. ControlTypes'
  BY <1>1 DEF ControlTypes, Goto, Allocate, PCs
<1>3. TimerTypes' /\ LockTypes'
  BY <1>1 DEF TimerTypes, LockTypes, Allocate, locks
<1>4. Linked' = Linked /\ list' = list /\ heap' = heap \cup {w} /\ w \notin heap
  BY DEF Linked, Allocate
<1>5. \A u \in Threads : /\ pc'[u] = IF u = t THEN "link" ELSE pc[u]
                         /\ call'[u] = IF u = t THEN c ELSE call[u]
  BY <1>1 DEF Goto, ControlTypes
<1>6. ListInv'
  BY <1>1, <1>4, <1>5 DEF ListInv, Distinct
<1>7. HoldInv'
  BY <1>1, <1>4, <1>5 DEF HoldInv, Allocate, locks
<1> QED BY <1>2, <1>3, <1>6, <1>7, TypePartsNext DEF WdogInv

\* Every call that a thread may begin.
LEMMA CallKeeps ==
    ASSUME WdogInv, NEW t \in Threads, Call(t)
    PROVE  WdogInv'
<1>1. TypeOK /\ known \subseteq Wdogs /\ ControlTypes /\ TimerTypes /\ LockTypes
  BY TypeParts DEF WdogInv, TypeOK
<1>2. CASE CallCreate(t)
  <2>1. PICK w \in Wdogs :
          /\ CanCall(t, "wdCreate")
          /\ Allocate(w)
          /\ Goto(t, "link", Do("wdCreate", w, 0, NULL))
          /\ UNCHANGED known
    BY <1>2 DEF CallCreate
  <2>2. /\ Do("wdCreate", w, 0, NULL) \in Calls
        /\ Do("wdCreate", w, 0, NULL).op = "wdCreate"
        /\ Do("wdCreate", w, 0, NULL).w = w
    BY <2>1, DoIsCall DEF Ops, CanCall
  <2>3. pc[t] \notin Critical
    BY <2>1 DEF CanCall, Critical
  <2> QED BY <1>1, <2>1, <2>2, <2>3, AllocateKeeps
<1>3. CASE CallStart(t)
  <2>1. PICK w \in known, d \in Delays, g \in Funcs :
          Begin(t, Do("wdStart", w, StartTicks(d), g))
    BY <1>3 DEF CallStart
  <2>2. Do("wdStart", w, StartTicks(d), g).op = "wdStart"
    BY DEF Do
  <2>3. Do("wdStart", w, StartTicks(d), g) \in Calls
    <3>1. "wdStart" \in Ops
      BY <2>1, <2>2 DEF Begin, CanCall, Ops
    <3>2. StartTicks(d) \in Nat
      BY StartTicksNat
    <3> QED BY <1>1, <3>1, <3>2, DoIsCall
  <2> QED BY <2>1, <2>3, BeginKeeps
<1>4. CASE CallCancel(t)
  <2>1. PICK w \in known : Begin(t, Do("wdCancel", w, 0, NULL))
    BY <1>4 DEF CallCancel
  <2>2. Do("wdCancel", w, 0, NULL).op = "wdCancel"
    BY DEF Do
  <2>3. Do("wdCancel", w, 0, NULL) \in Calls
    BY <1>1, <2>1, <2>2, DoIsCall DEF Begin, CanCall, Ops
  <2> QED BY <2>1, <2>3, BeginKeeps
<1>5. CASE CallDelete(t)
  <2>1. PICK w \in known : Begin(t, Do("wdDelete", w, 0, NULL))
    BY <1>5 DEF CallDelete
  <2>2. Do("wdDelete", w, 0, NULL).op = "wdDelete"
    BY DEF Do
  <2>3. Do("wdDelete", w, 0, NULL) \in Calls
    BY <1>1, <2>1, <2>2, DoIsCall DEF Begin, CanCall, Ops
  <2> QED BY <2>1, <2>3, BeginKeeps
<1>6. CASE CallRestart(t)
  <2>1. PICK w \in Wdogs :
          /\ CanRestart(t)
          /\ Allocate(w)
          /\ known' = known \ {w}
          /\ Goto(t, "link", Do("selfRestart", w, StartTicks(1), t))
    BY <1>6 DEF CallRestart
  <2>2. /\ Do("selfRestart", w, StartTicks(1), t) \in Calls
        /\ Do("selfRestart", w, StartTicks(1), t).op = "selfRestart"
        /\ Do("selfRestart", w, StartTicks(1), t).w = w
    <3>1. "selfRestart" \in Ops /\ t \in Tasks /\ StartTicks(1) \in Nat
      BY <2>1, StartTicksNat DEF CanRestart, CanCall, Ops
    <3> QED BY <3>1, DoIsCall
  <2>3. pc[t] \notin Critical
    BY <2>1 DEF CanRestart, CanCall, Critical
  <2> QED BY <1>1, <2>1, <2>2, <2>3, AllocateKeeps
<1>7. CASE RestartWithoutMemory(t)
  <2>1. Leaves(t)
    BY <1>1, <1>7, GotoLeaves, NoCallIsCall
       DEF RestartWithoutMemory, history, WdogInv, ControlTypes, PCs, Critical
  <2>2. ListInv' /\ HoldInv'
    BY <1>1, <1>7, <2>1, LeavesKeeps DEF RestartWithoutMemory, timers, locks, WdogInv
  <2>3. TimerTypes' /\ LockTypes'
    BY <1>1, <1>7 DEF RestartWithoutMemory, timers, locks, history, TimerTypes, LockTypes
  <2> QED BY <2>1, <2>2, <2>3, TypePartsNext DEF WdogInv, Leaves
<1> QED BY <1>2, <1>3, <1>4, <1>5, <1>6, <1>7 DEF Call

\* A step that takes its thread away from a timer, and changes nothing else that
\* the locks protect, keeps the invariant.
LEMMA LeavingKeeps ==
    ASSUME WdogInv, NEW t \in Threads, Leaves(t),
           UNCHANGED <<list, heap, wdogLock>>,
           listLock' = listLock \/ (pc[t] = "own" /\ listLock' = NULL),
           TimerTypes', LockTypes'
    PROVE  WdogInv'
<1>1. ControlTypes /\ ListInv /\ HoldInv
  BY TypeParts DEF WdogInv
<1>2. ListInv' /\ HoldInv'
  BY <1>1, LeavesKeeps
<1> QED BY <1>2, TypePartsNext DEF WdogInv, Leaves

\* link_wdog adds the new timer, which was not in the list.
LEMMA LinkKeeps ==
    ASSUME WdogInv, NEW t \in Threads, LinkWdog(t)
    PROVE  WdogInv'
<1> DEFINE w == call[t].w
<1>1. ControlTypes /\ TimerTypes /\ LockTypes /\ ListInv /\ HoldInv
  BY TypeParts DEF WdogInv
<1>2. w \in heap \ Linked /\ w \in Wdogs /\ Linked = In(list) /\ Linked' = In(list')
  BY <1>1 DEF LinkWdog, ListInv, TimerTypes, Linked, In
<1>3. /\ list' \in Seq(Wdogs) /\ Distinct(list') /\ Linked' = Linked \cup {w}
  BY <1>1, <1>2, AppendKeepsList DEF LinkWdog, ListInv, TimerTypes
<1>4. Leaves(t)
  <2>1. CASE call[t].op = "wdCreate"
    BY <1>1, <2>1, DoneLeaves DEF LinkWdog
  <2>2. CASE call[t].op # "wdCreate"
    <3>1. Goto(t, "list", call[t]) /\ UNCHANGED <<nxt, served>>
      BY <2>2 DEF LinkWdog
    <3>2. /\ call[t] \in Calls
          /\ call[t].op \in {"tick", "selfStarter"} => t = Exc
      BY <1>1 DEF ControlTypes, ListInv
    <3> QED BY <1>1, <3>1, <3>2, GotoLeaves DEF ControlTypes, PCs, Critical
  <2> QED BY <2>1, <2>2
<1>5. TimerTypes' /\ LockTypes'
  <2>1. known' \subseteq Wdogs /\ restartWdog' \in Wdogs \cup {NULL}
    BY <1>1, <1>2 DEF LinkWdog, TimerTypes, LockTypes
  <2> QED BY <1>1, <1>3, <2>1 DEF LinkWdog, locks, TimerTypes, LockTypes
<1>6. heap' = heap /\ UNCHANGED locks
  BY DEF LinkWdog
<1>7. ListInv'
  <2>1. \A u \in Threads : pc'[u] = "link" => call'[u].w # w
    BY <1>1, <1>4 DEF ListInv, Leaves, Critical, LinkWdog
  <2> QED BY <1>1, <1>2, <1>3, <1>4, <1>6, <2>1 DEF ListInv, Leaves, Critical
<1>8. HoldInv'
  BY <1>1, <1>3, <1>4, <1>6 DEF HoldInv, Leaves, Critical, locks
<1> QED BY <1>4, <1>5, <1>7, <1>8, TypePartsNext DEF WdogInv, Leaves

\* wdog_valid takes wdog_list_lock and finds the timer.
LEMMA ValidKeeps ==
    ASSUME WdogInv, NEW t \in Threads, WdogValid(t)
    PROVE  WdogInv'
<1>1. ControlTypes /\ TimerTypes /\ LockTypes /\ ListInv /\ HoldInv
  BY TypeParts DEF WdogInv
<1>2. TimerTypes' /\ LockTypes'
  BY <1>1 DEF WdogValid, timers, history, TimerTypes, LockTypes
<1>3. \A u \in Threads : /\ pc'[u] = IF u = t THEN "own" ELSE pc[u]
                         /\ call'[u] = call[u]
  BY <1>1 DEF WdogValid, Goto, ControlTypes
<1>4. ControlTypes'
  BY <1>1 DEF WdogValid, Goto, history, ControlTypes, PCs
<1>5. Linked' = Linked /\ UNCHANGED <<list, heap, wdogLock>>
  BY DEF WdogValid, timers, Linked
<1>6. ListInv'
  BY <1>1, <1>3, <1>5 DEF ListInv, Distinct
<1>7. HoldInv'
  <2>1. \A u \in Threads : pc[u] # "own"
    BY <1>1 DEF HoldInv, WdogValid
  <2> QED BY <1>1, <1>3, <1>5, <2>1 DEF HoldInv, WdogValid
<1> QED BY <1>2, <1>4, <1>6, <1>7, TypePartsNext DEF WdogInv

\* wdDelete takes wdog_lock, which no other thread that unlinks this timer has.
LEMMA DeleteKeeps ==
    ASSUME WdogInv, NEW t \in Threads, WdDelete(t)
    PROVE  WdogInv'
<1> DEFINE w == call[t].w
<1>1. ControlTypes /\ TimerTypes /\ LockTypes /\ ListInv /\ HoldInv
  BY TypeParts DEF WdogInv
<1>2. /\ pc[t] = "own" /\ wdogLock[w] = NULL /\ listLock' = NULL
      /\ wdogLock' = [wdogLock EXCEPT ![w] = t]
  BY DEF WdDelete, Owns
<1>3. w \in Wdogs
  BY <1>1, <1>2 DEF HoldInv, ListInv, TimerTypes
<1>4. TimerTypes' /\ LockTypes'
  <2>1. TimerTypes'
    BY <1>1 DEF WdDelete, timers, TimerTypes
  <2>2. wdogLock' \in [Wdogs -> Threads \cup {NULL}]
    BY <1>1, <1>2 DEF LockTypes
  <2>3. UNCHANGED <<restartWdog, due>>
    BY DEF WdDelete, history
  <2> QED BY <1>1, <1>2, <2>1, <2>2, <2>3 DEF LockTypes
<1>5. \A u \in Threads : /\ pc'[u] = IF u = t THEN "unlink" ELSE pc[u]
                         /\ call'[u] = call[u]
  BY <1>1 DEF WdDelete, Goto, ControlTypes
<1>6. ControlTypes'
  BY <1>1 DEF WdDelete, Goto, history, ControlTypes, PCs
<1>7. Linked' = Linked /\ UNCHANGED <<list, heap>>
  BY DEF WdDelete, timers, Linked
<1>8. ListInv'
  BY <1>1, <1>5, <1>7 DEF ListInv, Distinct
<1>9. HoldInv'
  <2>1. \A u \in Threads \ {t} : pc[u] # "own"
    BY <1>1, <1>2 DEF HoldInv
  <2>2. \A u \in Threads : pc[u] = "unlink" => call[u].w # w
    BY <1>1, <1>2 DEF HoldInv
  <2>3. \A u \in Threads : pc'[u] = "unlink" => wdogLock'[call'[u].w] = u
    BY <1>1, <1>2, <1>3, <1>5, <2>2 DEF HoldInv, LockTypes
  <2> QED BY <1>1, <1>2, <1>5, <1>7, <2>1, <2>3 DEF HoldInv
<1> QED BY <1>4, <1>6, <1>8, <1>9, TypePartsNext DEF WdogInv

\* wdog_list_lock is free, so nobody is at own, and no other thread is about to
\* unlink the same timer, so its memory can go.
LEMMA UnlinkKeeps ==
    ASSUME WdogInv, NEW t \in Threads, UnlinkWdog(t)
    PROVE  WdogInv'
<1> DEFINE w == call[t].w
<1>1. ControlTypes /\ TimerTypes /\ LockTypes /\ ListInv /\ HoldInv
  BY TypeParts DEF WdogInv
<1>2. /\ pc[t] = "unlink" /\ listLock = NULL /\ listLock' = NULL
      /\ heap' = heap \ {w}
      /\ wdogLock' = [wdogLock EXCEPT ![w] = NULL]
      /\ EndCall(t)
  BY DEF UnlinkWdog, MayUnlink
<1>3. w \in Linked /\ w \in Wdogs /\ Linked = In(list) /\ Linked' = In(list')
  BY <1>1, <1>2 DEF HoldInv, ListInv, TimerTypes, Linked, In
<1>4. list' \in Seq(Wdogs) /\ Distinct(list') /\ Linked' = Linked \ {w}
  BY <1>1, <1>3, UnlinkedKeepsList DEF UnlinkWdog, ListInv, TimerTypes
<1>5. Leaves(t)
  BY <1>1, <1>2, EndCallLeaves
<1>6. TimerTypes' /\ LockTypes'
  BY <1>1, <1>4 DEF UnlinkWdog, TimerTypes, LockTypes
<1>7. \A u \in Threads : pc'[u] = "unlink" => call'[u].w # w
  BY <1>1, <1>2, <1>5 DEF HoldInv, Leaves, Critical
<1>8. \A u \in Threads : pc'[u] # "own"
  BY <1>1, <1>2, <1>5 DEF HoldInv, Leaves, Critical
<1>9. ListInv'
  BY <1>1, <1>2, <1>3, <1>4, <1>5 DEF ListInv, Leaves, Critical
<1>10. HoldInv'
  <2>1. \A u \in Threads : pc'[u] = "unlink" =>
          /\ wdogLock'[call'[u].w] = u /\ call'[u].w \in Linked'
    BY <1>1, <1>2, <1>4, <1>5, <1>7 DEF HoldInv, Leaves, Critical, LockTypes
  <2> QED BY <1>8, <2>1 DEF HoldInv
<1> QED BY <1>5, <1>6, <1>9, <1>10, TypePartsNext DEF WdogInv, Leaves

\* The other steps of a call only leave: they change a timer's ticks and its
\* function, or nothing.
LEMMA ServiceKeeps ==
    ASSUME WdogInv, NEW t \in Threads,
           WdogInvalid(t) \/ WdStart(t) \/ WdCancel(t) \/ ProcessTick(t)
    PROVE  WdogInv'
<1>1. ControlTypes /\ TimerTypes /\ LockTypes /\ ListInv /\ HoldInv
  BY TypeParts DEF WdogInv
<1>2. CASE WdogInvalid(t)
  <2>1. Leaves(t)
    <3>1. CASE call[t].op = "tick"
      <4>1. Visit(NULL, served) /\ t = Exc
        BY <1>1, <1>2, <3>1 DEF WdogInvalid, AfterInvalid, ListInv
      <4> QED BY <1>1, <4>1, VisitLeaves DEF ControlTypes
    <3>2. CASE call[t].op # "tick"
      BY <1>1, <1>2, <3>2, EndCallLeaves DEF WdogInvalid
    <3> QED BY <3>1, <3>2
  <2>2. TimerTypes' /\ LockTypes'
    BY <1>1, <1>2 DEF WdogInvalid, timers, locks, TimerTypes, LockTypes
  <2> QED BY <1>2, <2>1, <2>2, LeavingKeeps DEF WdogInvalid, timers, locks
<1>3. CASE WdStart(t)
  <2>1. Leaves(t)
    BY <1>1, <1>3, EndCallLeaves DEF WdStart
  <2>2. call[t].n \in Nat /\ call[t].f \in Funcs \cup Tasks \cup {NULL}
    BY <1>1 DEF ControlTypes, Calls
  <2>3. TimerTypes' /\ LockTypes'
    BY <1>1, <1>3, <2>2 DEF WdStart, Owns, TimerTypes, LockTypes
  <2> QED BY <1>3, <2>1, <2>3, LeavingKeeps DEF WdStart, Owns
<1>4. CASE WdCancel(t)
  <2>1. Leaves(t)
    BY <1>1, <1>4, DoneLeaves DEF WdCancel
  <2>2. TimerTypes' /\ LockTypes'
    BY <1>1, <1>4 DEF WdCancel, Owns, TimerTypes, LockTypes
  <2> QED BY <1>4, <2>1, <2>2, LeavingKeeps DEF WdCancel, Owns
<1>5. CASE ProcessTick(t)
  <2> DEFINE w == call[t].w
             left == TicksLeft(ticks[w])
             handled == served \cup (due \cap {w})
  <2>1. t = Exc /\ w \in Linked /\ w \in Wdogs
    BY <1>1, <1>5 DEF ProcessTick, Owns, ListInv, HoldInv, TimerTypes
  <2>2. After(list, w) \in Wdogs \cup {NULL}
    <3> DEFINE i == CHOOSE i \in DOMAIN list : list[i] = w
    <3>1. i \in DOMAIN list
      BY <2>1 DEF Linked
    <3> HIDE DEF i
    <3>2. After(list, w) = IF i < Len(list) THEN list[i + 1] ELSE NULL
      BY DEF After, i
    <3> QED BY <1>1, <3>1, <3>2 DEF TimerTypes
  <2>3. left \in Nat
    BY <1>1, <2>1 DEF TicksLeft, TimerTypes
  <2>4. handled \in SUBSET Wdogs
    BY <1>1 DEF ControlTypes, LockTypes
  <2>5. \/ /\ Goto(t, "fire", call[t])
           /\ nxt' = After(list, w) /\ served' = handled
        \/ Visit(After(list, w), handled)
    BY <1>5 DEF ProcessTick
  <2>6. Leaves(t)
    <3>1. CASE Visit(After(list, w), handled)
      BY <1>1, <2>1, <2>2, <2>4, <3>1, VisitLeaves
    <3>2. CASE Goto(t, "fire", call[t]) /\ nxt' = After(list, w) /\ served' = handled
      <4>1. call[t] \in Calls
        BY <1>1 DEF ControlTypes
      <4> QED BY <1>1, <2>1, <2>2, <2>4, <3>2, <4>1, GotoLeaves DEF PCs, Critical
    <3> QED BY <2>5, <3>1, <3>2
  <2>7. ticks' = [ticks EXCEPT ![w] = left] /\ due' = due \ {w}
    BY <1>5 DEF ProcessTick
  <2>8. TimerTypes' /\ LockTypes'
    <3>1. /\ UNCHANGED <<list, heap, func, wdogLock, restartWdog, known>>
          /\ listLock' = NULL
      BY <1>5 DEF ProcessTick, Owns
    <3> HIDE DEF left
    <3>2. ticks' \in [Wdogs -> Nat]
      BY <1>1, <2>3, <2>7 DEF TimerTypes
    <3> QED BY <1>1, <2>7, <3>1, <3>2 DEF TimerTypes, LockTypes
  <2> QED BY <1>5, <2>6, <2>8, LeavingKeeps DEF ProcessTick, Owns
<1> QED BY <1>2, <1>3, <1>4, <1>5

\* The exception task's own steps.
LEMMA WalkKeeps ==
    ASSUME WdogInv, Walk \/ FireFreed
    PROVE  WdogInv'
<1>1. ControlTypes /\ TimerTypes /\ LockTypes /\ ListInv /\ HoldInv
  BY TypeParts DEF WdogInv
<1>2. /\ UNCHANGED <<timers, locks, restartWdog, known>>
      /\ due' \subseteq Wdogs
  BY <1>1 DEF Walk, Tick, Fire, FireFreed, HandlerReturns, history, Linked,
              LockTypes, TimerTypes
<1>3. TimerTypes' /\ LockTypes'
  BY <1>1, <1>2 DEF timers, locks, TimerTypes, LockTypes
<1>4. Leaves(Exc)
  <2>1. CASE Tick
    <3>1. First(list) \in Wdogs \cup {NULL}
      BY <1>1 DEF First, TimerTypes
    <3> QED BY <1>1, <2>1, <3>1, VisitLeaves DEF Tick
  <2>2. CASE HandlerReturns
    BY <1>1, <2>2, VisitLeaves DEF HandlerReturns, ControlTypes
  <2>3. CASE FireFreed
    BY <1>1, <2>3, GotoLeaves, NoCallIsCall
       DEF FireFreed, history, ControlTypes, PCs, Critical
  <2>4. CASE Fire
    <3> DEFINE g == func[call[Exc].w]
               c == Do("selfStarter", restartWdog, 0, g)
    <3>1. nxt' \in Wdogs \cup {NULL} /\ served' \subseteq Wdogs
      BY <1>1, <2>4 DEF Fire, history, ControlTypes
    <3>2. CASE g \in Tasks
      <4>1. c \in Calls
        BY <1>1, <3>2, DoIsCall DEF LockTypes, Ops
      <4>2. Goto(Exc, "list", c)
        BY <2>4, <3>2 DEF Fire
      <4> HIDE DEF c
      <4> QED BY <1>1, <3>1, <4>1, <4>2, GotoLeaves DEF PCs, Critical
    <3>3. CASE g \notin Tasks
      <4>1. Goto(Exc, "handler", NoCall)
        BY <2>4, <3>3 DEF Fire
      <4> QED BY <1>1, <3>1, <4>1, GotoLeaves, NoCallIsCall DEF PCs, Critical
    <3> QED BY <3>2, <3>3
  <2> QED BY <2>1, <2>2, <2>3, <2>4 DEF Walk
<1> QED BY <1>2, <1>3, <1>4, LeavingKeeps DEF timers, locks

\* Every step of the watchdog code keeps the invariant.
LEMMA NextKeeps == WdogInv /\ [Next]_vars => WdogInv'
<1> SUFFICES ASSUME WdogInv, [Next]_vars PROVE WdogInv'
  OBVIOUS
<1>1. CASE UNCHANGED vars
  BY <1>1 DEF vars, WdogInv, TypeOK, ListInv, HoldInv, Linked, Distinct
<1>2. CASE Walk \/ FireFreed
  BY <1>2, WalkKeeps
<1>3. CASE \E t \in Threads : Call(t) \/ Progress(t)
  <2>1. PICK t \in Threads : Call(t) \/ Progress(t)
    BY <1>3
  <2> QED
    BY <2>1, CallKeeps, LinkKeeps, ValidKeeps, DeleteKeeps, UnlinkKeeps,
       ServiceKeeps DEF Progress
<1> QED BY <1>1, <1>2, <1>3 DEF Next

\* The strengthened invariant holds of every behaviour of the watchdog code.
THEOREM Invariance == Spec => []WdogInv
BY InitKeeps, NextKeeps, PTL DEF Spec

\* The variables keep their types, whatever watchdog calls are made.
THEOREM TimerTypesHold == Spec => []TypeOK
<1>1. WdogInv => TypeOK
  BY DEF WdogInv
<1> QED BY <1>1, Invariance, PTL

\* No thread waits for or holds the lock of a timer that wdDelete has unlinked
\* or freed, and no timer is deleted twice, for any number of threads and timers.
THEOREM LockedTimersLive == Spec => []LockedIsLive
<1>1. WdogInv => LockedIsLive
  BY DEF WdogInv, ListInv, HoldInv, LockedIsLive
<1> QED BY <1>1, Invariance, PTL

-----------------------------------------------------------------------------
(***************************************************************************)
(* The walk over the list.  Timer w is ahead of a walk that comes to c     *)
(* next if it is c or behind c in the list.                                *)
(***************************************************************************)
Ahead(s, c, w) == \E i, j \in DOMAIN s : i <= j /\ s[i] = c /\ s[j] = w

\* What the walk has still to service is ahead of it, what it has serviced is
\* not, and a timer that is not yet in the list has not been serviced.
WalkInv ==
    /\ \A w \in due : Ahead(list, Cursor, w)
    /\ \A w \in served : ~Ahead(list, Cursor, w)
    /\ \A t \in Threads : pc[t] = "link" =>
         call[t].w \notin served /\ call[t].op \in {"wdCreate", "selfRestart"}
    /\ call[Exc].op # "selfRestart"

\* link_wdog appends a timer: it gets ahead of every walk in the list.
LEMMA AppendAhead ==
    ASSUME NEW s \in Seq(Wdogs), NEW x \in Wdogs, NEW c, NEW w
    PROVE  /\ Ahead(s, c, w) => Ahead(Append(s, x), c, w)
           /\ Ahead(Append(s, x), c, w) => Ahead(s, c, w) \/ w = x
<1> DEFINE r == Append(s, x)
<1>1. /\ DOMAIN r = 1 .. Len(s) + 1 /\ DOMAIN s = 1 .. Len(s) /\ Len(s) \in Nat
      /\ \A i \in 1 .. Len(s) : r[i] = s[i]
      /\ r[Len(s) + 1] = x
  OBVIOUS
<1> HIDE DEF r
<1>2. ASSUME Ahead(s, c, w) PROVE Ahead(r, c, w)
  BY <1>1, <1>2 DEF Ahead
<1>3. ASSUME Ahead(r, c, w), w # x PROVE Ahead(s, c, w)
  <2>1. PICK i \in DOMAIN r, j \in DOMAIN r : i <= j /\ r[i] = c /\ r[j] = w
    BY <1>3 DEF Ahead
  <2>2. j \in 1 .. Len(s) /\ i \in 1 .. Len(s)
    BY <1>1, <1>3, <2>1
  <2> QED BY <1>1, <2>1, <2>2 DEF Ahead
<1> QED BY <1>2, <1>3 DEF r

\* unlink_wdog keeps the order of the other timers.
LEMMA UnlinkedAhead ==
    ASSUME NEW s \in Seq(Wdogs), Distinct(s), NEW x \in In(s), NEW c, NEW w
    PROVE  /\ Ahead(s, c, w) /\ c # x /\ w # x => Ahead(Unlinked(s, x), c, w)
           /\ Ahead(Unlinked(s, x), c, w) => Ahead(s, c, w)
<1> DEFINE k == CHOOSE i \in DOMAIN s : s[i] = x
           r == [j \in 1 .. Len(s) - 1 |-> IF j < k THEN s[j] ELSE s[j + 1]]
<1>1. \E i \in DOMAIN s : s[i] = x
  BY DEF In
<1>2. Unlinked(s, x) = r
  BY <1>1 DEF Unlinked
<1>3. k \in 1 .. Len(s) /\ s[k] = x /\ Len(s) \in Nat /\ DOMAIN s = 1 .. Len(s)
  BY <1>1
<1> HIDE DEF k
<1>4. DOMAIN r = 1 .. Len(s) - 1
  BY <1>3
<1>5. \A j \in 1 .. Len(s) - 1 : r[j] = IF j < k THEN s[j] ELSE s[j + 1]
  OBVIOUS
<1> HIDE DEF r
<1>6. ASSUME Ahead(s, c, w), c # x, w # x PROVE Ahead(r, c, w)
  <2> DEFINE q(n) == IF n < k THEN n ELSE n - 1
  <2>1. PICK i \in 1 .. Len(s), j \in 1 .. Len(s) : i <= j /\ s[i] = c /\ s[j] = w
    BY <1>3, <1>6 DEF Ahead
  <2>2. i # k /\ j # k
    BY <1>3, <1>6, <2>1
  <2>3. q(i) \in DOMAIN r /\ q(j) \in DOMAIN r /\ q(i) <= q(j)
    BY <1>3, <1>4, <2>1, <2>2
  <2>4. \A n \in 1 .. Len(s) : n # k => r[q(n)] = s[n]
    <3> SUFFICES ASSUME NEW n \in 1 .. Len(s), n # k PROVE r[q(n)] = s[n]
      OBVIOUS
    <3>1. CASE n < k
      BY <1>3, <1>5, <3>1
    <3>2. CASE ~(n < k)
      <4>1. n - 1 \in 1 .. Len(s) - 1 /\ ~(n - 1 < k) /\ (n - 1) + 1 = n
        BY <1>3, <3>2
      <4> QED BY <1>5, <3>2, <4>1
    <3> QED BY <3>1, <3>2
  <2> HIDE DEF q
  <2> QED BY <2>1, <2>2, <2>3, <2>4 DEF Ahead
<1>7. ASSUME Ahead(r, c, w) PROVE Ahead(s, c, w)
  <2> DEFINE p(n) == IF n < k THEN n ELSE n + 1
  <2>1. PICK i \in DOMAIN r, j \in DOMAIN r : i <= j /\ r[i] = c /\ r[j] = w
    BY <1>7 DEF Ahead
  <2>2. p(i) \in DOMAIN s /\ p(j) \in DOMAIN s /\ p(i) <= p(j)
    BY <1>3, <1>4, <2>1
  <2>3. s[p(i)] = c /\ s[p(j)] = w
    BY <1>3, <1>4, <1>5, <2>1
  <2> HIDE DEF p
  <2> QED BY <2>2, <2>3 DEF Ahead
<1> QED BY <1>2, <1>6, <1>7

\* The next field leads past one timer.
LEMMA AfterAhead ==
    ASSUME NEW s \in Seq(Wdogs), Distinct(s), NEW x \in In(s), NEW w
    PROVE  Ahead(s, After(s, x), w) <=> Ahead(s, x, w) /\ w # x
<1> DEFINE k == CHOOSE i \in DOMAIN s : s[i] = x
<1>1. \E i \in DOMAIN s : s[i] = x
  BY DEF In
<1>2. k \in 1 .. Len(s) /\ s[k] = x /\ Len(s) \in Nat /\ DOMAIN s = 1 .. Len(s)
  BY <1>1
<1>3. After(s, x) = IF k < Len(s) THEN s[k + 1] ELSE NULL
  BY DEF After
<1> HIDE DEF k
<1>4. \A i \in 1 .. Len(s) : s[i] # NULL
  OBVIOUS
<1>5. \A i \in 1 .. Len(s) : s[i] = x => i = k
  BY <1>2 DEF Distinct
<1>6. CASE k < Len(s)
  <2>1. k + 1 \in 1 .. Len(s) /\ \A i \in 1 .. Len(s) : s[i] = s[k + 1] => i = k + 1
    BY <1>2, <1>6 DEF Distinct
  <2>2. ASSUME Ahead(s, After(s, x), w) PROVE Ahead(s, x, w) /\ w # x
    <3>1. PICK j \in 1 .. Len(s) : k + 1 <= j /\ s[j] = w
      BY <1>2, <1>3, <1>6, <2>1, <2>2 DEF Ahead
    <3>2. k <= j /\ j # k
      BY <1>2, <3>1
    <3> QED BY <1>2, <1>5, <3>1, <3>2 DEF Ahead
  <2>3. ASSUME Ahead(s, x, w), w # x PROVE Ahead(s, After(s, x), w)
    <3>1. PICK j \in 1 .. Len(s) : k <= j /\ s[j] = w
      BY <1>2, <1>5, <2>3 DEF Ahead
    <3>2. k + 1 <= j
      BY <1>2, <2>3, <3>1
    <3> QED BY <1>2, <1>3, <1>6, <2>1, <3>1, <3>2 DEF Ahead
  <2> QED BY <2>2, <2>3
<1>7. CASE ~(k < Len(s))
  <2>1. ~Ahead(s, After(s, x), w)
    BY <1>2, <1>3, <1>4, <1>7 DEF Ahead
  <2>2. ASSUME Ahead(s, x, w) PROVE w = x
    <3>1. PICK j \in 1 .. Len(s) : k <= j /\ s[j] = w
      BY <1>2, <1>5, <2>2 DEF Ahead
    <3> QED BY <1>2, <1>7, <3>1
  <2> QED BY <2>1, <2>2
<1> QED BY <1>6, <1>7

\* Every timer in the list is ahead of a walk that begins.
LEMMA FirstAhead ==
    ASSUME NEW s \in Seq(Wdogs), NEW w \in In(s)
    PROVE  Ahead(s, First(s), w)
<1>1. PICK j \in 1 .. Len(s) : s[j] = w
  BY DEF In
<1>2. s # <<>> /\ 1 \in DOMAIN s /\ j \in DOMAIN s /\ 1 <= j
  BY <1>1
<1>3. First(s) = s[1]
  BY <1>2 DEF First
<1> QED BY <1>1, <1>2, <1>3 DEF Ahead
-----------------------------------------------------------------------------
\* Another thread's going on does not move the walk,
LEMMA GotoCursor ==
    ASSUME ControlTypes, NEW t \in Threads, t # Exc, NEW place, NEW c,
           Goto(t, place, c), nxt' = nxt
    PROVE  Cursor' = Cursor /\ call'[Exc] = call[Exc]
BY DEF ControlTypes, Goto, Cursor

\* process_timer_list moves it where it says,
LEMMA VisitCursor ==
    ASSUME ControlTypes, NEW w \in Wdogs \cup {NULL}, NEW s, Visit(w, s)
    PROVE  /\ Cursor' = w
           /\ served' = IF w = NULL THEN {} ELSE s
           /\ call'[Exc].op # "selfRestart"
<1>1. CASE w = NULL
  BY <1>1, NoCallIsCall DEF Visit, Goto, Cursor, ControlTypes
<1>2. CASE w # NULL
  <2> DEFINE c == Do("tick", w, 0, NULL)
  <2>1. c.op = "tick" /\ c.w = w
    BY DEF Do
  <2>2. Goto(Exc, "list", c) /\ served' = s
    BY <1>2 DEF Visit
  <2> HIDE DEF c
  <2>3. pc'[Exc] = "list" /\ call'[Exc] = c
    BY <2>2 DEF Goto, ControlTypes
  <2> QED BY <1>2, <2>1, <2>2, <2>3 DEF Cursor
<1> QED BY <1>1, <1>2

\* and the end of any call but process_tick_for leaves it where it is.
LEMMA EndCallCursor ==
    ASSUME ControlTypes, ListInv, WalkInv, NEW t \in Threads, EndCall(t),
           pc[t] # "delay", call[t].op = "tick" => pc[t] = "unlink"
    PROVE  /\ Cursor' = Cursor
           /\ served' \subseteq served
           /\ call'[Exc].op # "selfRestart"
<1>1. CASE t # Exc
  <2>1. call[t].op # "selfStarter"
    BY <1>1 DEF ListInv
  <2>2. /\ Goto(t, "none", NoCall) \/ Goto(t, "idle", NoCall)
        /\ nxt' = nxt /\ served' = served
    BY <1>1, <2>1 DEF EndCall, Done
  <2> QED BY <1>1, <2>2, GotoCursor DEF WalkInv
<1>2. CASE t = Exc
  <2>1. Cursor = nxt
    BY <1>2 DEF Cursor
  <2>2. CASE call[t].op = "selfStarter"
    <3>1. StartThread(call[t].f)
      BY <2>2 DEF EndCall
    <3>2. pc'[Exc] = "started" /\ UNCHANGED <<call, nxt, served>>
      BY <3>1 DEF StartThread
    <3> QED BY <2>1, <3>2 DEF Cursor, WalkInv
  <2>3. CASE call[t].op # "selfStarter"
    <3>1. Visit(nxt, served)
      BY <1>2, <2>3 DEF EndCall, Done, WalkInv
    <3>2. nxt \in Wdogs \cup {NULL}
      BY DEF ControlTypes
    <3> QED BY <2>1, <3>1, <3>2, VisitCursor
  <2> QED BY <2>2, <2>3
<1> QED BY <1>1, <1>2

\* A step that leaves the walk and the list where they are keeps the invariant
\* if it makes nothing due, services nothing and links nothing.
LEMMA StandingKeeps ==
    ASSUME WalkInv, UNCHANGED <<list, due>>, Cursor' = Cursor,
           served' \subseteq served, call'[Exc].op # "selfRestart",
           \A u \in Threads : pc'[u] = "link" => pc[u] = "link" /\ call'[u] = call[u]
    PROVE  WalkInv'
BY DEF WalkInv

\* No walk is under way at first.
LEMMA InitWalk == Init => WalkInv
<1> SUFFICES ASSUME Init PROVE WalkInv
  OBVIOUS
<1> QED BY NoCallIsCall DEF Init, WalkInv

\* The calls: a new timer has not been serviced by this walk.
LEMMA AllocateWalk ==
    ASSUME WdogInv, WalkInv, NEW t \in Threads, NEW w \in Wdogs, NEW c \in Calls,
           c.w = w, c.op \in {"wdCreate", "selfRestart"},
           c.op = "selfRestart" => t # Exc, pc[t] \in {"idle", "handler"},
           Allocate(w), Goto(t, "link", c)
    PROVE  WalkInv'
<1>1. ControlTypes
  BY TypeParts DEF WdogInv
<1>2. Cursor' = Cursor
  <2>1. nxt' = nxt
    BY DEF Allocate
  <2>2. CASE t = Exc
    BY <1>1, <2>1, <2>2 DEF Goto, ControlTypes, Cursor
  <2> QED BY <1>1, <2>1, <2>2, GotoCursor
<1>3. \A u \in Threads : /\ pc'[u] = IF u = t THEN "link" ELSE pc[u]
                         /\ call'[u] = IF u = t THEN c ELSE call[u]
  BY <1>1 DEF Goto, ControlTypes
<1>4. list' = list /\ due' = due /\ served' = served \ {w}
  BY DEF Allocate
<1> QED BY <1>2, <1>3, <1>4 DEF WalkInv

\* A call that only goes to wdog_valid.
LEMMA BeginWalk ==
    ASSUME WdogInv, WalkInv, NEW t \in Threads, NEW c,
           c.op \notin {"tick", "selfRestart"}, Begin(t, c)
    PROVE  WalkInv'
<1>1. ControlTypes
  BY TypeParts DEF WdogInv
<1>2. /\ pc[t] \in {"idle", "handler"} /\ Goto(t, "list", c)
      /\ UNCHANGED <<list, nxt, due, served>>
  BY DEF Begin, CanCall, timers, history
<1>3. \A u \in Threads : /\ pc'[u] = IF u = t THEN "list" ELSE pc[u]
                         /\ call'[u] = IF u = t THEN c ELSE call[u]
  BY <1>1, <1>2 DEF Goto, ControlTypes
<1>4. Cursor' = Cursor
  <2>1. CASE t = Exc
    BY <1>2, <1>3, <2>1 DEF Cursor
  <2> QED BY <1>1, <1>2, <2>1, GotoCursor
<1>5. call'[Exc].op # "selfRestart"
  BY <1>3 DEF WalkInv
<1> QED BY <1>2, <1>3, <1>4, <1>5, StandingKeeps

\* Every call that a thread may begin.
LEMMA CallWalk ==
    ASSUME WdogInv, WalkInv, NEW t \in Threads, Call(t)
    PROVE  WalkInv'
<1>1. ControlTypes /\ known \subseteq Wdogs
  BY TypeParts DEF WdogInv, TimerTypes
<1>2. CASE CallCreate(t)
  <2>1. PICK w \in Wdogs :
          /\ CanCall(t, "wdCreate")
          /\ Allocate(w)
          /\ Goto(t, "link", Do("wdCreate", w, 0, NULL))
    BY <1>2 DEF CallCreate
  <2>2. /\ Do("wdCreate", w, 0, NULL) \in Calls
        /\ Do("wdCreate", w, 0, NULL).op = "wdCreate"
        /\ Do("wdCreate", w, 0, NULL).w = w
    BY <2>1, DoIsCall DEF Ops, CanCall
  <2> QED BY <2>1, <2>2, AllocateWalk DEF CanCall
<1>3. CASE CallStart(t)
  <2>1. PICK w \in known, d \in Delays, g \in Funcs :
          Begin(t, Do("wdStart", w, StartTicks(d), g))
    BY <1>3 DEF CallStart
  <2>2. Do("wdStart", w, StartTicks(d), g).op = "wdStart"
    BY DEF Do
  <2> QED BY <2>1, <2>2, BeginWalk
<1>4. CASE CallCancel(t)
  <2>1. PICK w \in known : Begin(t, Do("wdCancel", w, 0, NULL))
    BY <1>4 DEF CallCancel
  <2>2. Do("wdCancel", w, 0, NULL).op = "wdCancel"
    BY DEF Do
  <2> QED BY <2>1, <2>2, BeginWalk
<1>5. CASE CallDelete(t)
  <2>1. PICK w \in known : Begin(t, Do("wdDelete", w, 0, NULL))
    BY <1>5 DEF CallDelete
  <2>2. Do("wdDelete", w, 0, NULL).op = "wdDelete"
    BY DEF Do
  <2> QED BY <2>1, <2>2, BeginWalk
<1>6. CASE CallRestart(t)
  <2>1. PICK w \in Wdogs :
          /\ CanRestart(t)
          /\ Allocate(w)
          /\ Goto(t, "link", Do("selfRestart", w, StartTicks(1), t))
    BY <1>6 DEF CallRestart
  <2>2. t \in Tasks /\ t # Exc /\ pc[t] \in {"idle", "handler"}
    BY <2>1 DEF CanRestart, CanCall
  <2>3. /\ Do("selfRestart", w, StartTicks(1), t) \in Calls
        /\ Do("selfRestart", w, StartTicks(1), t).op = "selfRestart"
        /\ Do("selfRestart", w, StartTicks(1), t).w = w
    <3>1. "selfRestart" \in Ops /\ StartTicks(1) \in Nat
      BY <2>1, StartTicksNat DEF CanRestart, CanCall, Ops
    <3> QED BY <2>2, <3>1, DoIsCall
  <2> QED BY <2>1, <2>2, <2>3, AllocateWalk
<1>7. CASE RestartWithoutMemory(t)
  <2>1. /\ t # Exc /\ Goto(t, "none", NoCall)
        /\ UNCHANGED <<list, nxt, due, served>>
    BY <1>7 DEF RestartWithoutMemory, CanRestart, timers, history
  <2>2. Cursor' = Cursor /\ call'[Exc] = call[Exc]
    BY <1>1, <2>1, GotoCursor
  <2>3. \A u \in Threads : pc'[u] = "link" => pc[u] = "link" /\ call'[u] = call[u]
    BY <1>1, <2>1 DEF Goto, ControlTypes
  <2>4. call'[Exc].op # "selfRestart"
    BY <2>2 DEF WalkInv
  <2> QED BY <2>1, <2>2, <2>3, <2>4, StandingKeeps
<1> QED BY <1>2, <1>3, <1>4, <1>5, <1>6, <1>7 DEF Call

\* link_wdog: the new timer is ahead of the walk, if the walk is in the list.
LEMMA LinkWalk ==
    ASSUME WdogInv, WalkInv, NEW t \in Threads, LinkWdog(t)
    PROVE  WalkInv'
<1> DEFINE w == call[t].w
<1>1. ControlTypes /\ TimerTypes /\ LockTypes /\ ListInv
  BY TypeParts DEF WdogInv
<1>2. /\ pc[t] = "link" /\ list' = Append(list, w) /\ due' = due
      /\ w \in Wdogs /\ w \notin served /\ call[t].op \in {"wdCreate", "selfRestart"}
  BY <1>1 DEF LinkWdog, ListInv, TimerTypes, WalkInv
<1>3. /\ Cursor' = Cursor /\ served' \subseteq served
      /\ call'[Exc].op # "selfRestart"
  <2>1. CASE call[t].op = "wdCreate"
    <3>1. EndCall(t)
      BY <2>1 DEF LinkWdog, EndCall
    <3> QED BY <1>1, <1>2, <2>1, <3>1, EndCallCursor
  <2>2. CASE call[t].op = "selfRestart"
    <3>1. t # Exc /\ Goto(t, "list", call[t]) /\ nxt' = nxt /\ served' = served
      BY <2>2 DEF LinkWdog, WalkInv
    <3> QED BY <1>1, <3>1, GotoCursor DEF WalkInv
  <2> QED BY <1>2, <2>1, <2>2
<1>4. \A u \in Threads : pc'[u] = "link" => pc[u] = "link" /\ call'[u] = call[u]
  <2>1. Leaves(t)
    <3>1. CASE call[t].op = "wdCreate"
      BY <1>1, <3>1, DoneLeaves DEF LinkWdog
    <3>2. CASE call[t].op # "wdCreate"
      <4>1. Goto(t, "list", call[t]) /\ UNCHANGED <<nxt, served>>
        BY <3>2 DEF LinkWdog
      <4>2. /\ call[t] \in Calls
            /\ call[t].op \in {"tick", "selfStarter"} => t = Exc
        BY <1>1 DEF ControlTypes, ListInv
      <4> QED BY <1>1, <4>1, <4>2, GotoLeaves DEF ControlTypes, PCs, Critical
    <3> QED BY <3>1, <3>2
  <2> QED BY <2>1 DEF Leaves, Critical
<1>5. list \in Seq(Wdogs)
  BY <1>1 DEF TimerTypes
<1>6. \A x \in due : Ahead(list', Cursor', x)
  BY <1>2, <1>3, <1>5, AppendAhead DEF WalkInv
<1>7. \A x \in served' : ~Ahead(list', Cursor', x)
  BY <1>2, <1>3, <1>5, AppendAhead DEF WalkInv
<1> QED BY <1>2, <1>3, <1>4, <1>6, <1>7 DEF WalkInv

\* wdog_valid and wdDelete's taking the timer do not move the walk.
LEMMA HoldWalk ==
    ASSUME WdogInv, WalkInv, NEW t \in Threads, WdogValid(t) \/ WdDelete(t)
    PROVE  WalkInv'
<1>1. ControlTypes /\ TypeOK
  BY TypeParts DEF WdogInv
<1>2. UNCHANGED <<list, nxt, due, served>>
  BY DEF WdogValid, WdDelete, timers, history
<1>3. PICK place \in {"own", "unlink"} : Goto(t, place, call[t])
  BY DEF WdogValid, WdDelete
<1>4. \A u \in Threads : /\ pc'[u] = IF u = t THEN place ELSE pc[u]
                         /\ call'[u] = call[u]
  BY <1>1, <1>3 DEF Goto, ControlTypes
<1>5. Cursor' = Cursor
  <2>1. CASE t # Exc
    BY <1>1, <1>2, <1>3, <2>1, GotoCursor
  <2>2. CASE t = Exc /\ WdogValid(t)
    <3>1. pc[Exc] = "list" /\ pc'[Exc] = "own"
      BY <1>1, <2>2 DEF WdogValid, Goto, ControlTypes
    <3> QED BY <1>2, <1>4, <3>1 DEF Cursor
  <2>3. CASE t = Exc /\ WdDelete(t)
    <3>1. pc[Exc] = "own" /\ pc'[Exc] = "unlink" /\ call[Exc].op # "tick"
      BY <1>1, <2>3 DEF WdDelete, Owns, Goto, ControlTypes
    <3> QED BY <1>2, <1>4, <3>1 DEF Cursor
  <2> QED BY <2>1, <2>2, <2>3
<1>6. call'[Exc].op # "selfRestart"
  BY <1>4 DEF WalkInv
<1>7. \A u \in Threads : pc'[u] = "link" => pc[u] = "link" /\ call'[u] = call[u]
  BY <1>4
<1> QED BY <1>2, <1>5, <1>6, <1>7, StandingKeeps

\* unlink_wdog: if the walk was to go on with this timer, nothing is due any
\* more; otherwise the order of the others stays.
LEMMA UnlinkWalk ==
    ASSUME WdogInv, WalkInv, NEW t \in Threads, UnlinkWdog(t)
    PROVE  WalkInv'
<1> DEFINE w == call[t].w
<1>1. ControlTypes /\ TimerTypes /\ ListInv /\ HoldInv
  BY TypeParts DEF WdogInv
<1>2. /\ pc[t] = "unlink" /\ list' = Unlinked(list, w) /\ EndCall(t)
      /\ due' = IF w = Cursor THEN {} ELSE due \ {w}
  BY DEF UnlinkWdog
<1>3. w \in In(list) /\ list \in Seq(Wdogs) /\ Distinct(list)
  BY <1>1, <1>2 DEF HoldInv, ListInv, TimerTypes, Linked, In
<1>4. /\ Cursor' = Cursor /\ served' \subseteq served
      /\ call'[Exc].op # "selfRestart"
  BY <1>1, <1>2, EndCallCursor
<1>5. \A u \in Threads : pc'[u] = "link" => pc[u] = "link" /\ call'[u] = call[u]
  BY <1>1, <1>2, EndCallLeaves DEF Leaves, Critical
<1>6. \A x \in due' : Ahead(list', Cursor', x)
  BY <1>2, <1>3, <1>4, UnlinkedAhead DEF WalkInv
<1>7. \A x \in served' : ~Ahead(list', Cursor', x)
  BY <1>2, <1>3, <1>4, UnlinkedAhead DEF WalkInv
<1> QED BY <1>4, <1>5, <1>6, <1>7 DEF WalkInv

\* wdStart and wdCancel change no links.
LEMMA SetWalk ==
    ASSUME WdogInv, WalkInv, NEW t \in Threads, WdStart(t) \/ WdCancel(t)
    PROVE  WalkInv'
<1>1. ControlTypes /\ ListInv
  BY TypeParts DEF WdogInv
<1>2. /\ UNCHANGED <<list, due>> /\ pc[t] = "own"
      /\ call[t].op \in {"wdStart", "selfRestart", "wdCancel"}
      /\ EndCall(t)
  BY DEF WdStart, WdCancel, Owns, EndCall
<1>3. /\ Cursor' = Cursor /\ served' \subseteq served
      /\ call'[Exc].op # "selfRestart"
  BY <1>1, <1>2, EndCallCursor
<1>4. \A u \in Threads : pc'[u] = "link" => pc[u] = "link" /\ call'[u] = call[u]
  BY <1>1, <1>2, EndCallLeaves DEF Leaves, Critical
<1> QED BY <1>2, <1>3, <1>4, StandingKeeps

\* A call that finds its timer gone fails.  A walk that does ends with nothing
\* due: the timers that were ahead of it are not in the list any more.
LEMMA InvalidWalk ==
    ASSUME WdogInv, WalkInv, NEW t \in Threads, WdogInvalid(t)
    PROVE  WalkInv'
<1>1. ControlTypes /\ ListInv
  BY TypeParts DEF WdogInv
<1>2. UNCHANGED <<list, due>> /\ pc[t] = "list" /\ call[t].w \notin Linked
  BY DEF WdogInvalid, timers
<1>3. CASE call[t].op = "tick"
  <2>1. t = Exc /\ Visit(NULL, served)
    BY <1>1, <1>3 DEF ListInv, WdogInvalid, AfterInvalid
  <2>2. Cursor = call[t].w
    BY <1>2, <1>3, <2>1 DEF Cursor
  <2>3. due = {}
    BY <1>2, <2>2 DEF WalkInv, Ahead, Linked
  <2>4. served' = {} /\ call'[Exc].op # "selfRestart"
    BY <1>1, <2>1, VisitCursor
  <2>5. \A u \in Threads : pc'[u] = "link" => pc[u] = "link" /\ call'[u] = call[u]
    BY <1>1, <2>1, VisitLeaves DEF Leaves, Critical, ControlTypes
  <2> QED BY <1>2, <2>3, <2>4, <2>5 DEF WalkInv
<1>4. CASE call[t].op # "tick"
  <2>1. EndCall(t)
    BY <1>4 DEF WdogInvalid
  <2>2. /\ Cursor' = Cursor /\ served' \subseteq served
        /\ call'[Exc].op # "selfRestart"
    BY <1>1, <1>2, <1>4, <2>1, EndCallCursor
  <2>3. \A u \in Threads : pc'[u] = "link" => pc[u] = "link" /\ call'[u] = call[u]
    BY <1>1, <2>1, EndCallLeaves DEF Leaves, Critical
  <2> QED BY <1>2, <2>2, <2>3, StandingKeeps
<1> QED BY <1>3, <1>4

\* process_tick_for goes on past the timer that it has serviced.
LEMMA TickForWalk ==
    ASSUME WdogInv, WalkInv, NEW t \in Threads, ProcessTick(t)
    PROVE  WalkInv'
<1> DEFINE w == call[t].w
           n == After(list, w)
           handled == served \cup (due \cap {w})
<1>1. ControlTypes /\ TimerTypes /\ LockTypes /\ ListInv /\ HoldInv
  BY TypeParts DEF WdogInv
<1>2. /\ pc[t] = "own" /\ call[t].op = "tick" /\ t = Exc
      /\ list' = list /\ due' = due \ {w}
  BY <1>1 DEF ProcessTick, Owns, ListInv
<1>3. w \in In(list) /\ list \in Seq(Wdogs) /\ Distinct(list) /\ Cursor = w
  BY <1>1, <1>2 DEF HoldInv, ListInv, TimerTypes, Linked, In, Cursor
<1>4. n \in Wdogs \cup {NULL}
  <2> DEFINE i == CHOOSE i \in DOMAIN list : list[i] = w
  <2>1. i \in DOMAIN list
    BY <1>3 DEF In
  <2> HIDE DEF i
  <2>2. After(list, w) = IF i < Len(list) THEN list[i + 1] ELSE NULL
    BY DEF After, i
  <2> QED BY <1>3, <2>1, <2>2
<1>5. \/ /\ Goto(t, "fire", call[t])
         /\ nxt' = n /\ served' = handled
      \/ Visit(n, handled)
  BY DEF ProcessTick
<1>6. \A x : Ahead(list, n, x) <=> Ahead(list, w, x) /\ x # w
  BY <1>3, AfterAhead
<1> HIDE DEF n, handled
<1>7. /\ Cursor' = n /\ served' \subseteq handled /\ call'[Exc].op # "selfRestart"
      /\ \A u \in Threads : pc'[u] = "link" => pc[u] = "link" /\ call'[u] = call[u]
  <2>1. CASE Visit(n, handled)
    <3>1. handled \in SUBSET Wdogs
      BY <1>1 DEF handled, ControlTypes, LockTypes
    <3> QED BY <1>1, <1>4, <2>1, <3>1, VisitCursor, VisitLeaves DEF Leaves, Critical
  <2>2. CASE Goto(t, "fire", call[t]) /\ nxt' = n /\ served' = handled
    <3>1. \A u \in Threads : /\ pc'[u] = IF u = t THEN "fire" ELSE pc[u]
                             /\ call'[u] = call[u]
      BY <1>1, <2>2 DEF Goto, ControlTypes
    <3>2. Cursor' = n
      BY <1>2, <2>2, <3>1 DEF Cursor
    <3> QED BY <1>2, <2>2, <3>1, <3>2
  <2> QED BY <1>5, <2>1, <2>2
<1>8. \A x \in due' : Ahead(list', Cursor', x)
  BY <1>2, <1>3, <1>6, <1>7 DEF WalkInv
<1>9. \A x \in served' : ~Ahead(list', Cursor', x)
  BY <1>2, <1>3, <1>6, <1>7 DEF WalkInv, handled
<1>10. \A u \in Threads : pc[u] = "link" => call[u].w # w
  BY <1>1, <1>3 DEF ListInv, Linked, In
<1> QED BY <1>7, <1>8, <1>9, <1>10 DEF WalkInv, handled

\* The exception task's own steps: a new walk, and the return to an old one.
LEMMA OwnWalk ==
    ASSUME WdogInv, WalkInv, Walk \/ FireFreed
    PROVE  WalkInv'
<1>1. ControlTypes /\ TimerTypes /\ LockTypes /\ ListInv
  BY TypeParts DEF WdogInv
<1>2. list' = list
  BY DEF Walk, Tick, Fire, FireFreed, HandlerReturns, timers
<1>3. CASE Tick
  <2>1. First(list) \in Wdogs \cup {NULL} /\ Linked = In(list) /\ list \in Seq(Wdogs)
    BY <1>1 DEF First, TimerTypes, Linked, In
  <2>2. Visit(First(list), {}) /\ due' = Linked
    BY <1>3 DEF Tick
  <2>3. Cursor' = First(list) /\ served' = {} /\ call'[Exc].op # "selfRestart"
    BY <1>1, <2>1, <2>2, VisitCursor
  <2>4. \A u \in Threads : pc'[u] = "link" => pc[u] = "link" /\ call'[u] = call[u]
    BY <1>1, <2>1, <2>2, VisitLeaves DEF Leaves, Critical
  <2>5. \A x \in due' : Ahead(list', Cursor', x)
    BY <1>2, <2>1, <2>2, <2>3, FirstAhead
  <2> QED BY <2>3, <2>4, <2>5 DEF WalkInv
<1>4. CASE HandlerReturns
  <2>1. Cursor = nxt /\ Visit(nxt, served) /\ due' = due
    BY <1>4 DEF HandlerReturns, Cursor
  <2>2. /\ Cursor' = nxt /\ served' \subseteq served
        /\ call'[Exc].op # "selfRestart"
    BY <1>1, <2>1, VisitCursor DEF ControlTypes
  <2>3. \A u \in Threads : pc'[u] = "link" => pc[u] = "link" /\ call'[u] = call[u]
    BY <1>1, <2>1, VisitLeaves DEF Leaves, Critical, ControlTypes
  <2> QED BY <1>2, <2>1, <2>2, <2>3, StandingKeeps
<1>5. CASE Fire \/ FireFreed
  <2> DEFINE c == Do("selfStarter", restartWdog, 0, func[call[Exc].w])
  <2>1. pc[Exc] = "fire" /\ UNCHANGED <<nxt, due, served>>
    BY <1>5 DEF Fire, FireFreed, history
  <2>2. \/ Goto(Exc, "list", c)
        \/ Goto(Exc, "handler", NoCall) \/ Goto(Exc, "lost", NoCall)
    BY <1>5 DEF Fire, FireFreed
  <2>3. c.op = "selfStarter"
    BY DEF Do
  <2> HIDE DEF c
  <2>4. PICK place \in {"list", "handler", "lost"}, d \in {c, NoCall} :
          Goto(Exc, place, d)
    BY <2>2
  <2>5. d.op \notin {"tick", "selfRestart"}
    BY <2>3, NoCallIsCall
  <2>6. \A u \in Threads : /\ pc'[u] = IF u = Exc THEN place ELSE pc[u]
                           /\ call'[u] = IF u = Exc THEN d ELSE call[u]
    BY <1>1, <2>4 DEF Goto, ControlTypes
  <2>7. Cursor' = Cursor
    BY <2>1, <2>5, <2>6 DEF Cursor
  <2>8. call'[Exc].op # "selfRestart"
    BY <2>5, <2>6
  <2>9. \A u \in Threads : pc'[u] = "link" => pc[u] = "link" /\ call'[u] = call[u]
    BY <2>6
  <2> QED BY <1>2, <2>1, <2>7, <2>8, <2>9, StandingKeeps
<1> QED BY <1>3, <1>4, <1>5 DEF Walk

\* Every step of the watchdog code keeps the order of the walk.
LEMMA NextWalk == WdogInv /\ WalkInv /\ [Next]_vars => WalkInv'
<1> SUFFICES ASSUME WdogInv, WalkInv, [Next]_vars PROVE WalkInv'
  OBVIOUS
<1>1. CASE UNCHANGED vars
  BY <1>1 DEF vars, WalkInv, Cursor
<1>2. CASE Walk \/ FireFreed
  BY <1>2, OwnWalk
<1>3. CASE \E t \in Threads : Call(t) \/ Progress(t)
  <2>1. PICK t \in Threads : Call(t) \/ Progress(t)
    BY <1>3
  <2> QED
    BY <2>1, CallWalk, LinkWalk, HoldWalk, UnlinkWalk, SetWalk, InvalidWalk,
       TickForWalk DEF Progress
<1> QED BY <1>1, <1>2, <1>3 DEF Next

\* In every behaviour of the watchdog code what is due is ahead of the walk and
\* what it has serviced is not.
THEOREM WalkInOrder == Spec => []WalkInv
<1>1. Init => WdogInv /\ WalkInv
  BY InitKeeps, InitWalk
<1>2. WdogInv /\ WalkInv /\ [Next]_vars => (WdogInv /\ WalkInv)'
  BY NextKeeps, NextWalk
<1>3. Spec => [](WdogInv /\ WalkInv)
  BY <1>1, <1>2, PTL DEF Spec
<1> QED BY <1>3, PTL

\* When process_timer_list is through, it has serviced every timer that was in
\* the list throughout, for any number of threads and timers, unless the timer
\* that it was to service next was deleted.
THEOREM WalkServesAll == Spec => []TickServesAll
<1>1. WdogInv /\ WalkInv => TickServesAll
  <2> SUFFICES ASSUME WdogInv, WalkInv, pc[Exc] = "delay" PROVE due = {}
    BY DEF TickServesAll
  <2>1. Cursor = NULL
    BY DEF Cursor
  <2>2. \A i \in DOMAIN list : list[i] # NULL
    BY DEF WdogInv, TypeOK
  <2> QED BY <2>1, <2>2 DEF WalkInv, Ahead
<1> QED BY <1>1, Invariance, WalkInOrder, PTL

\* No walk services a timer twice, for any number of threads and timers.
THEOREM WalkServesOnce == Spec => []ServedOnce
<1>1. WdogInv /\ WalkInv => ServedOnce
  <2> SUFFICES ASSUME WdogInv, WalkInv, pc[Exc] = "own", call[Exc].op = "tick"
               PROVE  call[Exc].w \notin served
    BY DEF ServedOnce
  <2>1. Cursor = call[Exc].w /\ call[Exc].w \in Linked /\ list \in Seq(Wdogs)
    BY DEF Cursor, WdogInv, HoldInv, TypeOK
  <2>2. PICK i \in DOMAIN list : list[i] = call[Exc].w
    BY <2>1 DEF Linked
  <2>3. i <= i
    BY <2>1, <2>2
  <2> QED BY <2>1, <2>2, <2>3 DEF WalkInv, Ahead
<1> QED BY <1>1, Invariance, WalkInOrder, PTL
=============================================================================
