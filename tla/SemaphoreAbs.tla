---------------------------- MODULE SemaphoreAbs ----------------------------
(***************************************************************************)
(* What a semaphore promises its clients: a count of tokens and a queue of *)
(* tasks that are served in the order in which they arrived.  A task that  *)
(* waits forever leaves the queue only with a token; one that waits with a *)
(* timeout may leave it without.                                           *)
(***************************************************************************)
EXTENDS Naturals, Sequences

CONSTANT Waiters      \* the tasks that may wait

VARIABLES
    tokens,           \* tokens available
    queue,            \* the tasks that wait, in order of arrival
    patient           \* those of them that wait forever

absVars == <<tokens, queue, patient>>

\* The queue without its entry i.
Without(i) ==
    [j \in 1 .. Len(queue) - 1 |-> IF j < i THEN queue[j] ELSE queue[j + 1]]

AbsInit == tokens \in Nat /\ queue = <<>> /\ patient = {}

Give == tokens' = tokens + 1 /\ UNCHANGED <<queue, patient>>

Arrive(t) ==
    /\ \A i \in DOMAIN queue : queue[i] # t
    /\ queue' = Append(queue, t)
    /\ patient' \in {patient, patient \cup {t}}
    /\ UNCHANGED tokens

\* The task at the head of the queue gets a token.
Serve ==
    /\ queue # <<>>
    /\ tokens > 0
    /\ tokens' = tokens - 1
    /\ queue' = Tail(queue)
    /\ patient' = patient \ {Head(queue)}

\* The timeout of a task that does not wait forever.
Abandon(t) ==
    /\ t \notin patient
    /\ \E i \in DOMAIN queue : queue[i] = t /\ queue' = Without(i)
    /\ UNCHANGED <<tokens, patient>>

AbsNext == Give \/ Serve \/ \E t \in Waiters : Arrive(t) \/ Abandon(t)

\* A task that waits forever is served when it is at the head of the queue and
\* there are tokens.
ServePatient == Serve /\ Head(queue) \in patient

AbsSpec == AbsInit /\ [][AbsNext]_absVars

AbsFair == WF_absVars(ServePatient)
=============================================================================
