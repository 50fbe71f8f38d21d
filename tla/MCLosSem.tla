------------------------------ MODULE MCLosSem ------------------------------
(* Instances of LosSem for TLC. *)
EXTENDS LosSem, TLC

CONSTANTS idle, a, b, s1

TwoTasks == {idle, a, b}
TwoLevels == (idle :> {}) @@ (a :> {0}) @@ (b :> {1})

OneSem == {s1}

Both == {1, LOS_WAIT_FOREVER}

\* Tasks that use semaphores, sleep, lock the scheduler and suspend and resume
\* each other.
SemCalls ==
  {"sem_pend", "sem_post", "sem_create", "sem_delete", "delay", "lock",
   "suspend", "resume"}
=============================================================================
