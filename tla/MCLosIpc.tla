------------------------------ MODULE MCLosIpc ------------------------------
(* An instance of LosIpc for TLC. *)
EXTENDS LosIpc, TLC

CONSTANTS idle, a, b, q1, r1, w1, e1, m1, m2

TwoTasks == {idle, a, b}
TwoLevels == (idle :> {}) @@ (a :> {0}) @@ (b :> {1})

OneQueue == {q1}
OneReadList == q1 :> r1
OneWriteList == q1 :> w1
OneEvent == {e1}
ThreeLists == {r1, w1, e1}
TwoMessages == {m1, m2}
Long == {2}
TwoBits == {1, 2}
AnyAndAll ==
  {[mask |-> {1}, mode |-> "or", clear |-> TRUE],
   [mask |-> {1, 2}, mode |-> "and", clear |-> FALSE]}
OneTick == {1}
Forever == {LOS_WAIT_FOREVER}
IpcCalls ==
  {"queue_create", "queue_delete", "queue_read", "queue_write", "event_init",
   "event_destroy", "event_read", "event_write", "event_clear", "suspend",
   "resume"}
=============================================================================
