------------------------------ MODULE MCLosMux ------------------------------
(* Instances of LosMux for TLC. *)
EXTENDS LosMux, TLC

CONSTANTS idle, a, b, c, m1, m2

ThreeTasks == {idle, a, b, c}
ThreeLevels == (idle :> {}) @@ (a :> {0}) @@ (b :> {1}) @@ (c :> {2})
OneLevel == (idle :> {}) @@ (a :> {0}) @@ (b :> {0}) @@ (c :> {0})

TwoTasks == {idle, a, b}
TwoLevels == (idle :> {}) @@ (a :> {0}) @@ (b :> {1})

OneMutex == {m1}
TwoMutexes == {m1, m2}

Forever == {LOS_WAIT_FOREVER}
Finite == {1}
Both == {1, LOS_WAIT_FOREVER}

\* Tasks that use mutexes, sleep, and suspend and resume each other.
MuxCalls ==
  {"mux_pend", "mux_post", "mux_delete", "mux_create", "delay", "suspend",
   "resume"}

\* Nothing but the mutex.
PureCalls == {"mux_pend", "mux_post"}

\* With the scheduler lock.
LockCalls == {"mux_pend", "mux_post", "mux_create", "delay", "lock"}

\* Waiting tasks are suspended, deleted and created again.
DeleteCalls ==
  {"mux_pend", "mux_post", "mux_create", "create", "delete", "delay", "suspend",
   "resume"}
=============================================================================
