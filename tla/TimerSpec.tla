----------------------------- MODULE TimerSpec -----------------------------
(***************************************************************************)
(* What the delayed-task timers of the kernel promise: a task that was     *)
(* given k ticks has its time over at the k-th tick from then on, unless   *)
(* it is taken off before.                                                 *)
(***************************************************************************)
EXTENDS Naturals

CONSTANTS Tasks, MaxTimeout

VARIABLE left  \* ticks left of each task's time; 0: none runs

Init == left = [t \in Tasks |-> 0]

Set(t, k) ==
  /\ left[t] = 0
  /\ left' = [left EXCEPT ![t] = k]

Cancel(t) == left' = [left EXCEPT ![t] = 0]

Pass == left' = [t \in Tasks |-> IF left[t] > 0 THEN left[t] - 1 ELSE 0]

Next ==
  \/ \E t \in Tasks : Cancel(t) \/ \E k \in 1 .. MaxTimeout : Set(t, k)
  \/ Pass

Spec == Init /\ [][Next]_left
=============================================================================
