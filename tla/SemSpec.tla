------------------------------ MODULE SemSpec ------------------------------
(***************************************************************************)
(* What the semaphores of los_sem.h promise: a counter and a first-come    *)
(* first-served queue, never both non-empty.  Who waits, for how long and  *)
(* at what priority is not its business.                                   *)
(***************************************************************************)
EXTENDS Naturals, Sequences

CONSTANTS Tasks, Sems, CountMax

VARIABLES
  used, count, queue,
  granted  \* the tasks that got a token in the queue and do not know it yet

vars == <<used, count, queue, granted>>

Init ==
  /\ used = [s \in Sems |-> FALSE]
  /\ count \in [Sems -> 0 .. CountMax]
  /\ queue = [s \in Sems |-> <<>>]
  /\ granted = [s \in Sems |-> {}]

Create(s, n) ==
  /\ ~used[s]
  /\ used' = [used EXCEPT ![s] = TRUE]
  /\ count' = [count EXCEPT ![s] = n]
  /\ UNCHANGED <<queue, granted>>

Delete(s) ==
  /\ used[s]
  /\ queue[s] = <<>>
  /\ used' = [used EXCEPT ![s] = FALSE]
  /\ UNCHANGED <<count, queue, granted>>

Take(s) ==
  /\ used[s]
  /\ count[s] > 0
  /\ count' = [count EXCEPT ![s] = @ - 1]
  /\ UNCHANGED <<used, queue, granted>>

\* A task waits for one semaphore at a time, and only for one that is empty.
Wait(t, s) ==
  /\ used[s]
  /\ count[s] = 0
  /\ \A r \in Sems :
       t \notin granted[r] /\ \A i \in DOMAIN queue[r] : queue[r][i] # t
  /\ queue' = [queue EXCEPT ![s] = Append(@, t)]
  /\ UNCHANGED <<used, count, granted>>

\* The i-th gives up, the others keep their order.
Leave(s, i) ==
  /\ i \in DOMAIN queue[s]
  /\ queue' = [queue EXCEPT ![s] =
                 SubSeq(@, 1, i - 1) \o SubSeq(@, i + 1, Len(@))]
  /\ UNCHANGED <<used, count, granted>>

Post(s) ==
  /\ used[s]
  /\ queue[s] = <<>>
  /\ count[s] < CountMax
  /\ count' = [count EXCEPT ![s] = @ + 1]
  /\ UNCHANGED <<used, queue, granted>>

Serve(s) ==
  /\ used[s]
  /\ queue[s] # <<>>
  /\ queue' = [queue EXCEPT ![s] = Tail(@)]
  /\ granted' = [granted EXCEPT ![s] = @ \cup {Head(queue[s])}]
  /\ UNCHANGED <<used, count>>

\* LOS_SemPend returns LOS_OK.
Return(t, s) ==
  /\ t \in granted[s]
  /\ granted' = [granted EXCEPT ![s] = @ \ {t}]
  /\ UNCHANGED <<used, count, queue>>

Next ==
  \E s \in Sems :
    \/ \E n \in 0 .. CountMax : Create(s, n)
    \/ Delete(s) \/ Take(s) \/ Post(s) \/ Serve(s)
    \/ \E t \in Tasks : Wait(t, s) \/ Return(t, s)
    \/ \E i \in DOMAIN queue[s] : Leave(s, i)

Spec == Init /\ [][Next]_vars
=============================================================================
