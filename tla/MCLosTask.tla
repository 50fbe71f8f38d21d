----------------------------- MODULE MCLosTask -----------------------------
(* Instances of LosTask for TLC. *)
EXTENDS LosTask, TLC

CONSTANTS idle, a, b, c

\* One task above two others that share the idle task's level.
ThreeTasks == {idle, a, b, c}
TwoLevels == (idle :> {}) @@ (a :> {0}) @@ (b :> {1}) @@ (c :> {1})

\* Two tasks of one priority, and nobody else: they share the CPU.
TwoTasks == {idle, a, b}
OneLevel == (idle :> {}) @@ (a :> {0}) @@ (b :> {0})

\* Three tasks of one priority.
ThreeAlike == (idle :> {}) @@ (a :> {0}) @@ (b :> {0}) @@ (c :> {0})

\* The calls of los_task.c that change another task or the scheduler lock.
ControlCalls ==
  {"create", "resume", "suspend", "delete", "delay", "priset", "lock", "return"}

\* A program whose tasks only give up the CPU by waiting, and restart.
SliceCalls == {"create_only", "resume", "suspend", "delay", "yield"}
\* Tasks that only sleep.
PlainCalls == {"delay"}
=============================================================================
