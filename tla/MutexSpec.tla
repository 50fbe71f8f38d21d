----------------------------- MODULE MutexSpec -----------------------------
(***************************************************************************)
(* What the mutexes of los_mux.h promise, without priorities, lists, ticks *)
(* or a scheduler: a recursive lock with a first-come first-served queue.  *)
(* Only its owner releases it, as often as it took it; the release hands   *)
(* it to the head of the queue, and nobody takes it past a waiting task.   *)
(***************************************************************************)
EXTENDS Naturals, Sequences

CONSTANTS Tasks, Mutexes, None

VARIABLES owner, count, queue

vars == <<owner, count, queue>>

Init ==
  /\ owner = [m \in Mutexes |-> None]
  /\ count = [m \in Mutexes |-> 0]
  /\ queue = [m \in Mutexes |-> <<>>]

Acquire(t, m) ==
  /\ count[m] = 0
  /\ owner' = [owner EXCEPT ![m] = t]
  /\ count' = [count EXCEPT ![m] = 1]
  /\ UNCHANGED queue

Reenter(t, m) ==
  /\ owner[m] = t
  /\ count' = [count EXCEPT ![m] = @ + 1]
  /\ UNCHANGED <<owner, queue>>

\* A task waits for one mutex at a time, never for one it owns.
Wait(t, m) ==
  /\ count[m] > 0
  /\ owner[m] # t
  /\ \A n \in Mutexes : \A i \in DOMAIN queue[n] : queue[n][i] # t
  /\ queue' = [queue EXCEPT ![m] = Append(@, t)]
  /\ UNCHANGED <<owner, count>>

\* A waiting task gives up (its time is over) or is deleted: the i-th leaves,
\* the others keep their order.
Leave(m, i) ==
  /\ i \in DOMAIN queue[m]
  /\ queue' = [queue EXCEPT ![m] =
                 SubSeq(@, 1, i - 1) \o SubSeq(@, i + 1, Len(@))]
  /\ UNCHANGED <<owner, count>>

Unwind(t, m) ==
  /\ owner[m] = t
  /\ count[m] > 1
  /\ count' = [count EXCEPT ![m] = @ - 1]
  /\ UNCHANGED <<owner, queue>>

Release(t, m) ==
  /\ owner[m] = t
  /\ count[m] = 1
  /\ queue[m] = <<>>
  /\ owner' = [owner EXCEPT ![m] = None]
  /\ count' = [count EXCEPT ![m] = 0]
  /\ UNCHANGED queue

HandOver(t, m) ==
  /\ owner[m] = t
  /\ count[m] = 1
  /\ queue[m] # <<>>
  /\ owner' = [owner EXCEPT ![m] = Head(queue[m])]
  /\ queue' = [queue EXCEPT ![m] = Tail(@)]
  /\ UNCHANGED count

Next ==
  \E m \in Mutexes :
    \/ \E t \in Tasks :
         \/ Acquire(t, m) \/ Reenter(t, m) \/ Wait(t, m)
         \/ Unwind(t, m) \/ Release(t, m) \/ HandOver(t, m)
    \/ \E i \in DOMAIN queue[m] : Leave(m, i)

Spec == Init /\ [][Next]_vars
=============================================================================
