------------------------------ MODULE FifoSpec ------------------------------
(***************************************************************************)
(* What los_queue.h promises of a queue: a bounded first-in first-out      *)
(* buffer between any number of writers and readers.                       *)
(***************************************************************************)
EXTENDS Naturals, Sequences

CONSTANTS Queues, Messages, Lengths, None

VARIABLES
  length,  \* 0: the queue does not exist
  msgs,    \* what was written and not yet read, oldest first
  out      \* what the last read delivered

vars == <<length, msgs, out>>

Init ==
  /\ length = [q \in Queues |-> 0]
  /\ msgs = [q \in Queues |-> <<>>]
  /\ out = None

Create(q, n) ==
  /\ length[q] = 0
  /\ length' = [length EXCEPT ![q] = n]
  /\ UNCHANGED <<msgs, out>>

\* The messages it still holds are gone.
Delete(q) ==
  /\ length[q] > 0
  /\ length' = [length EXCEPT ![q] = 0]
  /\ msgs' = [msgs EXCEPT ![q] = <<>>]
  /\ UNCHANGED out

Write(q, m) ==
  /\ Len(msgs[q]) < length[q]
  /\ msgs' = [msgs EXCEPT ![q] = Append(@, m)]
  /\ UNCHANGED <<length, out>>

Read(q) ==
  /\ msgs[q] # <<>>
  /\ msgs' = [msgs EXCEPT ![q] = Tail(@)]
  /\ out' = Head(msgs[q])
  /\ UNCHANGED length

Next ==
  \E q \in Queues :
    \/ \E n \in Lengths : Create(q, n)
    \/ Delete(q) \/ Read(q)
    \/ \E m \in Messages : Write(q, m)

Spec == Init /\ [][Next]_vars
=============================================================================
