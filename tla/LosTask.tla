------------------------------ MODULE LosTask ------------------------------
(***************************************************************************)
(* The scheduler core of LiteOS_Kernel: task control blocks, the priority  *)
(* queue, the delayed-task timer, the scheduler lock, the tick interrupt   *)
(* and the optional time slice.                                            *)
(*                                                                         *)
(* Granularity.  A stretch of C between LOS_IntLock and LOS_IntRestore is  *)
(* one step.  Between LOS_IntRestore and the call of LOS_Schedule that     *)
(* follows it interrupts are open, so the caller stops in pc "sched" (or   *)
(* "pend", when it blocks in an IPC call) and LOS_Schedule is a step of    *)
(* its own, into which the tick interrupt may slip.  The interrupt itself  *)
(* is a sequence of steps that excludes the tasks.                         *)
(*                                                                         *)
(* A definition named Mut... is a faulty variant of the one that follows   *)
(* it: no specification uses it.  It shows which property of the runs      *)
(* notices that fault.                                                     *)
(***************************************************************************)
EXTENDS Naturals, Sequences, SequencesExt

CONSTANTS
  Tasks,             \* the task control blocks of g_pstTaskCBArray
  Idle,              \* the one osIdleTaskCreate takes
  None,              \* a NULL task pointer
  Lowest,            \* OS_TASK_PRIORITY_LOWEST; 0 is the highest priority
  WaitObjects,       \* the IPC control blocks a task can be queued on
  MaxTimeout,        \* the longest finite timeout, in ticks
  MaxLock,           \* bound on g_usLosTaskLock
  TimesliceTimeout,  \* LOSCFG_BASE_CORE_TIMESLICE_TIMEOUT; 0: no time slice
  CreatePrio,        \* the priorities a task may be created with
  Calls              \* the kernel calls the application makes

Priorities == 0 .. Lowest
Lists == Priorities \cup WaitObjects

ASSUME ParamAssumption ==
  /\ Idle \in Tasks
  /\ None \notin Tasks
  /\ Lowest \in Nat
  /\ WaitObjects \cap Priorities = {}
  /\ MaxTimeout \in Nat
  /\ MaxLock \in Nat \ {0}
  /\ TimesliceTimeout \in Nat
  /\ CreatePrio \in [Tasks -> SUBSET Priorities]

VARIABLES
  status,     \* usTaskStatus of each TCB; OS_TASK_STATUS_RUNNING is run = t
  prio,       \* usPriority of each TCB
  lists,      \* the lists a TCB's stPendList can be linked in, in order
  timer,      \* ticks left on stTimerList; 0: not linked
  run,        \* g_stLosTask.pstRunTask
  lock,       \* g_usLosTaskLock
  pc,         \* where each task is
  isr,        \* the tick interrupt: running, tasks still to wake, PendSV set
  slice,      \* g_stTaskTimeSlice: its task and the ticks it has left
  scheduled,  \* g_bTaskScheduled
  fault       \* "no", or how the kernel stopped

taskVars ==
  <<status, prio, lists, timer, run, lock, pc, isr, slice, scheduled, fault>>

Flags == {"unused", "suspend", "ready", "pend", "delay", "timeout", "detached"}

LOS_WAIT_FOREVER == MaxTimeout + 1
Timeouts == 1 .. MaxTimeout

(***************************************************************************)
(* Lists.                                                                  *)
(***************************************************************************)

\* LOS_ListDelete of t's node, seen from the list s it is linked in.
Without(s, t) ==
  IF t \in Range(s) THEN RemoveAt(s, CHOOSE i \in DOMAIN s : s[i] = t) ELSE s

\* LOS_ListDelete(&t->stPendList): the node knows its neighbours, not its list.
Unlink(q, t) == [l \in Lists |-> Without(q[l], t)]

\* LOS_PriqueueEnqueue, and LOS_ListTailInsert on a wait list.
Enqueue(q, t, l) == [q EXCEPT ![l] = Append(@, t)]

\* How every IPC object ends a wait: the node leaves its list, for the ready
\* queue unless the task is suspended.
Wake(q, n) ==
  IF "suspend" \in status[n] THEN Unlink(q, n)
  ELSE Enqueue(Unlink(q, n), n, prio[n])

\* The node is linked somewhere: LOS_ListDelete leaves it with NULL pointers,
\* and a second LOS_ListDelete dereferences them.
Linked(t) == \E l \in Lists : t \in Range(lists[l])

\* LOS_PriqueueTop: the first task of the first queue that is not empty.
IsTop(q, t) ==
  \E p \in Priorities :
    /\ q[p] # <<>>
    /\ t = Head(q[p])
    /\ \A r \in Priorities : r < p => q[r] = <<>>

\* LOS_Schedule asks for PendSV only while the scheduler is not locked.
MutMaySwitchLocked == TRUE
MaySwitch == lock = 0

\* PendSV_Handler after g_stLosTask.pstNewTask was read from the queue q.
SwitchTo(q) == \E t \in Tasks : IsTop(q, t) /\ run' = t

(***************************************************************************)
(* Who may act.  Nothing moves after a fault; the running task moves only  *)
(* outside the interrupt; the idle task calls nothing.                     *)
(***************************************************************************)
Running(t) == scheduled /\ fault = "no" /\ ~isr.active /\ run = t

CanCall(t, call) ==
  Running(t) /\ pc[t] = "app" /\ t # Idle /\ call \in Calls

\* A fault stops the machine where it is: HardFault_Handler and osTaskExit
\* both spin with nothing else running.
Fault(kind) ==
  /\ fault' = kind
  /\ UNCHANGED <<status, prio, lists, timer, run, lock, pc, isr, slice,
                 scheduled>>

Init ==
  /\ status = [t \in Tasks |-> IF t = Idle THEN {"ready"} ELSE {"unused"}]
  /\ prio = [t \in Tasks |-> Lowest]
  /\ lists = [l \in Lists |-> IF l = Lowest THEN <<Idle>> ELSE <<>>]
  /\ timer = [t \in Tasks |-> 0]
  /\ run = None
  /\ lock = 0
  /\ pc = [t \in Tasks |-> IF t = Idle THEN "app" ELSE "none"]
  /\ isr = [active |-> FALSE, due |-> {}, sched |-> FALSE]
  /\ slice = [task |-> None, left |-> 0]
  /\ scheduled = FALSE
  /\ fault = "no"

-----------------------------------------------------------------------------
(***************************************************************************)
(* Before LOS_Start: main creates its tasks, then LOS_StartToRun loads the *)
(* task the last LOS_TaskCreate found on top of the queue.                 *)
(***************************************************************************)

\* Where the code goes on to LOS_Schedule after LOS_IntRestore, if yes.
MutNoSchedule(t, yes) == pc
Scheduling(t, yes) == IF yes THEN [pc EXCEPT ![t] = "sched"] ELSE pc

\* A timer that is switched off: osTimerListDelete.
MutTimerLeft(n) == timer
TimerOff(n) == [timer EXCEPT ![n] = 0]

\* LOS_TaskCreateOnly fills the TCB; LOS_TaskCreate makes the task ready.
NewTask(n, p, det, ready) ==
  /\ "unused" \in status[n]
  /\ p \in CreatePrio[n]
  /\ status' = [status EXCEPT ![n] =
                  (IF ready THEN {"ready"} ELSE {"suspend"}) \cup det]
  /\ prio' = [prio EXCEPT ![n] = p]
  /\ lists' = IF ready THEN Enqueue(lists, n, p) ELSE lists

BootCreate(n, p, det) ==
  /\ ~scheduled
  /\ NewTask(n, p, det, TRUE)
  /\ pc' = [pc EXCEPT ![n] = "app"]
  /\ UNCHANGED <<timer, run, lock, isr, slice, scheduled, fault>>

Start ==
  /\ ~scheduled
  /\ SwitchTo(lists)
  /\ scheduled' = TRUE
  /\ UNCHANGED <<status, prio, lists, timer, lock, pc, isr, slice, fault>>

-----------------------------------------------------------------------------
(***************************************************************************)
(* LOS_Schedule, and what the caller does when it is next on the CPU.      *)
(***************************************************************************)
AfterSchedule(at) ==
  CASE at = "sched" -> "app"
    [] at = "pend"  -> "tail"
    [] at = "exit"  -> "done"

LOS_Schedule(t) ==
  /\ Running(t)
  /\ pc[t] \in {"sched", "pend", "exit"}
  /\ pc' = [pc EXCEPT ![t] = AfterSchedule(@)]
  /\ IF MaySwitch THEN SwitchTo(lists) ELSE UNCHANGED run
  /\ UNCHANGED <<status, prio, lists, timer, lock, isr, slice, scheduled,
                 fault>>

-----------------------------------------------------------------------------
(***************************************************************************)
(* The calls of los_task.c that return LOS_OK.  Those that fail on a       *)
(* parameter or a state check leave everything as it is.                   *)
(***************************************************************************)
LOS_TaskCreate(t, n, p, det) ==
  /\ CanCall(t, "create")
  /\ NewTask(n, p, det, TRUE)
  /\ pc' = [pc EXCEPT ![n] = "app", ![t] = "sched"]
  /\ UNCHANGED <<timer, run, lock, isr, slice, scheduled, fault>>

LOS_TaskCreateOnly(t, n, p, det) ==
  /\ CanCall(t, "create_only")
  /\ NewTask(n, p, det, FALSE)
  /\ pc' = [pc EXCEPT ![n] = "app"]
  /\ UNCHANGED <<timer, run, lock, isr, slice, scheduled, fault>>

\* OS_CHECK_TASK_BLOCK, once SUSPEND is cleared.
MutBlockedStale(n) == status[n] \cap {"pend", "delay", "suspend"} # {}
Blocked(n) == status[n] \cap {"pend", "delay"} # {}

\* A suspended task that also waits only loses the flag.
LOS_TaskResume(t, n) ==
  /\ CanCall(t, "resume")
  /\ "suspend" \in status[n]
  /\ status' = [status EXCEPT ![n] =
                  (@ \ {"suspend"}) \cup (IF Blocked(n) THEN {} ELSE {"ready"})]
  /\ lists' = IF Blocked(n) THEN lists ELSE Enqueue(lists, n, prio[n])
  /\ pc' = Scheduling(t, ~Blocked(n))
  /\ UNCHANGED <<prio, timer, run, lock, isr, slice, scheduled, fault>>

LOS_TaskSuspend(t, n) ==
  /\ CanCall(t, "suspend")
  /\ n # Idle
  /\ status[n] \cap {"unused", "suspend"} = {}
  /\ n = run => lock = 0
  /\ status' = [status EXCEPT ![n] = (@ \ {"ready"}) \cup {"suspend"}]
  /\ lists' = IF "ready" \in status[n] THEN Unlink(lists, n) ELSE lists
  /\ pc' = Scheduling(t, n = run)
  /\ UNCHANGED <<prio, timer, run, lock, isr, slice, scheduled, fault>>

\* The node of a ready or waiting task is in a list.
MutListedReady(n) == "ready" \in status[n]
Listed(n) == status[n] \cap {"ready", "pend"} # {}

\* The TCB goes back to the pool.  A task that deletes itself never returns
\* from the call: the switch is part of it.
Discard(n) ==
  /\ status' = [status EXCEPT ![n] = {"unused"}]
  /\ timer' = TimerOff(n)
  /\ pc' = [pc EXCEPT ![n] = "none"]
  /\ lists' = IF Listed(n) THEN Unlink(lists, n) ELSE lists
  /\ IF n = run THEN SwitchTo(lists') ELSE UNCHANGED run

\* osTimerListDelete is called on the flags, not on the node: DELAY or TIMEOUT
\* with a node the tick already unlinked dereferences NULL.
LOS_TaskDelete(t, n) ==
  /\ CanCall(t, "delete")
  /\ n # Idle
  /\ "unused" \notin status[n]
  /\ n = run => lock = 0
  /\ IF status[n] \cap {"delay", "timeout"} # {} /\ timer[n] = 0
     THEN Fault("unlink")
     ELSE /\ Discard(n)
          /\ UNCHANGED <<prio, lock, isr, slice, scheduled, fault>>

LOS_TaskDelay(t, k) ==
  /\ CanCall(t, "delay")
  /\ lock = 0
  /\ lists' = Unlink(lists, t)
  /\ status' = [status EXCEPT ![t] = (@ \ {"ready"}) \cup {"delay"}]
  /\ timer' = [timer EXCEPT ![t] = k]
  /\ pc' = [pc EXCEPT ![t] = "sched"]
  /\ UNCHANGED <<prio, run, lock, isr, slice, scheduled, fault>>

\* osTaskPriModify and the body of LOS_TaskPriSet: a ready task moves to the
\* tail of its new queue, any other task only gets the number.
MutRequeueAlways(q, n, p) == Enqueue(Unlink(q, n), n, p)
Requeue(q, n, p) ==
  IF "ready" \in status[n] THEN Enqueue(Unlink(q, n), n, p) ELSE q

LOS_TaskPriSet(t, n, p) ==
  /\ CanCall(t, "priset")
  /\ n # Idle
  /\ "unused" \notin status[n]
  /\ prio' = [prio EXCEPT ![n] = p]
  /\ lists' = Requeue(lists, n, p)
  /\ pc' = Scheduling(t, "ready" \in status[n])
  /\ UNCHANGED <<status, timer, run, lock, isr, slice, scheduled, fault>>

\* Also LOS_TaskDelay(0).
LOS_TaskYield(t) ==
  /\ CanCall(t, "yield")
  /\ Len(lists[prio[t]]) > 1
  /\ lists' = Enqueue(Unlink(lists, t), t, prio[t])
  /\ status' = [status EXCEPT ![t] = @ \cup {"ready"}]
  /\ pc' = [pc EXCEPT ![t] = "sched"]
  /\ UNCHANGED <<prio, timer, run, lock, isr, slice, scheduled, fault>>

LOS_TaskLock(t) ==
  /\ CanCall(t, "lock")
  /\ lock < MaxLock
  /\ lock' = lock + 1
  /\ UNCHANGED <<status, prio, lists, timer, run, pc, isr, slice, scheduled,
                 fault>>

LOS_TaskUnlock(t) ==
  /\ CanCall(t, "lock")
  /\ lock > 0
  /\ lock' = lock - 1
  /\ pc' = Scheduling(t, lock = 1)
  /\ UNCHANGED <<status, prio, lists, timer, run, isr, slice, scheduled, fault>>

-----------------------------------------------------------------------------
(***************************************************************************)
(* osTaskEntry after the task's function has returned.                     *)
(***************************************************************************)

\* A detached task: the scheduler lock is dropped and osTaskSelfDelete runs.
DetachedReturn(t) ==
  /\ CanCall(t, "return")
  /\ "detached" \in status[t]
  /\ lock' = 0
  /\ Discard(t)
  /\ UNCHANGED <<prio, isr, slice, scheduled, fault>>

\* A joinable task drops the scheduler lock, takes it again, and under it
\* leaves the ready queue; it keeps its TCB until somebody deletes it.
JoinableReturn(t) ==
  /\ CanCall(t, "return")
  /\ "detached" \notin status[t]
  /\ lock' = 0
  /\ pc' = [pc EXCEPT ![t] = "leave"]
  /\ UNCHANGED <<status, prio, lists, timer, run, isr, slice, scheduled, fault>>

\* The code takes the lock, looks at READY, unlinks the node and clears the
\* flag with interrupts open; here that is one step.  No other task comes
\* between, and the tick neither reads the flag nor moves the node of a running
\* task, unless its time slice ends: programs with slices do not return here.
\* (What a tick that wakes another task into the same list would do to
\* LOS_ListDelete's two writes is below the grain of lists.)
JoinableLeave(t) ==
  /\ Running(t)
  /\ pc[t] = "leave"
  /\ lock < MaxLock
  /\ lock' = lock + 1
  /\ lists' = IF "ready" \in status[t] THEN Unlink(lists, t) ELSE lists
  /\ status' = [status EXCEPT ![t] = @ \ {"ready"}]
  /\ pc' = [pc EXCEPT ![t] = "unlock"]
  /\ UNCHANGED <<prio, timer, run, isr, slice, scheduled, fault>>

JoinableUnlock(t) ==
  /\ Running(t)
  /\ pc[t] = "unlock"
  /\ lock' = IF lock > 0 THEN lock - 1 ELSE 0
  /\ pc' = [pc EXCEPT ![t] = "exit"]
  /\ UNCHANGED <<status, prio, lists, timer, run, isr, slice, scheduled, fault>>

\* Back on the CPU with nothing left to run: the entry function returns into
\* osTaskExit.
RunOffEnd(t) ==
  /\ Running(t)
  /\ pc[t] = "done"
  /\ Fault("exit")

-----------------------------------------------------------------------------
(***************************************************************************)
(* osTickHandler.                                                          *)
(***************************************************************************)

\* osTimesliceCheck: a task that was not running at the last check gets a new
\* slice, the check counts down, and at zero it yields for the running task.
MutSliceRearmed == TimesliceTimeout - 1
SliceLeft == IF slice.task # run THEN TimesliceTimeout - 1 ELSE slice.left - 1
SliceOver == TimesliceTimeout > 0 /\ SliceLeft = 0
SliceYields == SliceOver /\ Len(lists[prio[run]]) > 1

\* What a tick leaves of a timer, whatever else its task is in.
MutTickedUnlinked(t) == timer[t] - 1
MutTickedAwake(t) ==
  IF timer[t] > 0 /\ "suspend" \notin status[t] THEN timer[t] - 1 ELSE timer[t]
Ticked(t) == IF timer[t] > 0 THEN timer[t] - 1 ELSE 0

\* osTimesliceCheck and the first half of osTaskScan: every timer loses a
\* tick, those that reach 0 are due.  LOS_TaskYield unlinks the node of the
\* running task without looking whether it is linked.
TickBegin ==
  /\ scheduled
  /\ fault = "no"
  /\ ~isr.active
  /\ IF SliceYields /\ ~Linked(run)
     THEN Fault("unlink")
     ELSE /\ isr' = [active |-> TRUE,
                     due    |-> {t \in Tasks : timer[t] = 1},
                     sched  |-> SliceYields]
          /\ timer' = [t \in Tasks |-> Ticked(t)]
          /\ slice' = CASE TimesliceTimeout = 0 -> slice
                        [] SliceOver -> [task |-> None, left |-> 0]
                        [] OTHER -> [task |-> run, left |-> SliceLeft]
          /\ IF SliceYields
             THEN /\ lists' = Enqueue(Unlink(lists, run), run, prio[run])
                  /\ status' = [status EXCEPT ![run] = @ \cup {"ready"}]
             ELSE UNCHANGED <<lists, status>>
          /\ UNCHANGED <<prio, run, lock, pc, scheduled, fault>>

\* The lists once a task whose time is over has left its wait list.
GivenUp(t) == IF "pend" \in status[t] THEN Unlink(lists, t) ELSE lists

\* The flag of the wait that is over.
WaitFlag(t) == IF "pend" \in status[t] THEN {"pend"} ELSE {"delay"}

\* One turn of osTaskScan's loop.  TIMEOUT stays set: the woken call reads it.
TickExpire(t) ==
  /\ isr.active
  /\ t \in isr.due
  /\ LET suspended == "suspend" \in status[t]
     IN  /\ status' = [status EXCEPT ![t] =
                         (@ \ WaitFlag(t)) \cup (IF suspended THEN {} ELSE {"ready"})]
         /\ lists' = IF suspended THEN GivenUp(t)
                     ELSE Enqueue(GivenUp(t), t, prio[t])
         /\ isr' = [isr EXCEPT !.due = @ \ {t}, !.sched = @ \/ ~suspended]
  /\ UNCHANGED <<prio, timer, run, lock, pc, slice, scheduled, fault>>

\* The interrupt returns; PendSV, if LOS_Schedule asked for it, switches.
TickEnd ==
  /\ isr.active
  /\ isr.due = {}
  /\ isr' = [active |-> FALSE, due |-> {}, sched |-> FALSE]
  /\ IF isr.sched /\ MaySwitch THEN SwitchTo(lists) ELSE UNCHANGED run
  /\ UNCHANGED <<status, prio, lists, timer, lock, pc, slice, scheduled, fault>>

Tick == TickBegin \/ (\E t \in Tasks : TickExpire(t)) \/ TickEnd

-----------------------------------------------------------------------------
\* DETACHED is looked at only when a task returns.
Detached == IF "return" \in Calls THEN {{}, {"detached"}} ELSE {{}}

Boot ==
  \/ \E n \in Tasks, p \in Priorities, d \in Detached : BootCreate(n, p, d)
  \/ Start

TaskCall(t) ==
  \/ \E n \in Tasks, p \in Priorities, d \in Detached :
       LOS_TaskCreate(t, n, p, d) \/ LOS_TaskCreateOnly(t, n, p, d)
  \/ \E n \in Tasks :
       LOS_TaskResume(t, n) \/ LOS_TaskSuspend(t, n) \/ LOS_TaskDelete(t, n)
  \/ \E n \in Tasks, p \in Priorities : LOS_TaskPriSet(t, n, p)
  \/ \E k \in Timeouts : LOS_TaskDelay(t, k)
  \/ LOS_TaskYield(t)
  \/ LOS_TaskLock(t)
  \/ LOS_TaskUnlock(t)
  \/ DetachedReturn(t)
  \/ JoinableReturn(t)

\* What the kernel does for a task without the application asking.
TaskInternal(t) ==
  \/ LOS_Schedule(t)
  \/ JoinableLeave(t) \/ JoinableUnlock(t) \/ RunOffEnd(t)

TaskNext ==
  \/ Boot
  \/ \E t \in Tasks : TaskCall(t) \/ TaskInternal(t)
  \/ Tick

\* SysTick never stops.  Its handler is shorter than a tick, so a task inside
\* the kernel executes between two interrupts whenever it has the CPU: strong
\* fairness, because each interrupt disables it for a while.  What the
\* application calls, and whether it calls, is its own.
KernelFairness ==
  /\ WF_taskVars(Start)
  /\ WF_taskVars(Tick)
  /\ \A t \in Tasks : SF_taskVars(TaskInternal(t))

TaskSpec == Init /\ [][TaskNext]_taskVars /\ KernelFairness
-----------------------------------------------------------------------------
(***************************************************************************)
(* Properties.                                                             *)
(***************************************************************************)
Pcs ==
  {"none", "app", "sched", "pend", "tail", "leave", "unlock", "exit", "done"}

\* Every variable stays in its type.
TypeOK ==
  /\ status \in [Tasks -> SUBSET Flags]
  /\ prio \in [Tasks -> Priorities]
  /\ lists \in [Lists -> Seq(Tasks)]
  /\ timer \in [Tasks -> 0 .. MaxTimeout]
  /\ run \in Tasks \cup {None}
  /\ lock \in 0 .. MaxLock
  /\ pc \in [Tasks -> Pcs]
  /\ isr \in [active : BOOLEAN, due : SUBSET Tasks, sched : BOOLEAN]
  /\ slice \in [task : Tasks \cup {None}, left : 0 .. TimesliceTimeout]
  /\ scheduled \in BOOLEAN
  /\ fault \in {"no", "unlink", "exit"}

\* A TCB has one stPendList node: it is linked at most once, in at most one of
\* the ready queues and wait lists.
OneList ==
  \A l, k \in Lists : \A i \in DOMAIN lists[l], j \in DOMAIN lists[k] :
    lists[l][i] = lists[k][j] => l = k /\ i = j

\* The READY flag says that the node is in the ready queue of the task's own
\* priority, and PEND that it is in a wait list: every call that unlinks a
\* node decides by these flags.
FlagsMatchLists ==
  \A t \in Tasks :
    /\ \A p \in Priorities :
         t \in Range(lists[p]) <=> "ready" \in status[t] /\ prio[t] = p
    /\ "pend" \in status[t] <=> \E w \in WaitObjects : t \in Range(lists[w])

\* A task that waits for time has its timer running, or is about to be woken
\* by the interrupt under way; nobody else has one: no task sleeps for ever
\* and no late tick strikes a task that was woken otherwise.
TimerMatchesFlags ==
  \A t \in Tasks :
    ("delay" \in status[t] \/ {"pend", "timeout"} \subseteq status[t])
      <=> (timer[t] > 0 \/ t \in isr.due)

\* What a task can be at a time: a free TCB is nothing else, a task that waits
\* or is suspended is not ready, and it waits for one thing.
OneState ==
  \A t \in Tasks :
    /\ "unused" \in status[t] => status[t] = {"unused"}
    /\ "ready" \in status[t] => status[t] \cap {"suspend", "pend", "delay"} = {}
    /\ ~({"pend", "delay"} \subseteq status[t])

\* No task is forgotten: one that exists and has not finished is ready, or
\* waits, or is suspended.  (A flag dropped without the matching Enqueue would
\* leave a task nobody can ever wake.)
NoTaskLost ==
  \A t \in Tasks :
    \/ status[t] \cap {"unused", "ready", "pend", "delay", "suspend"} # {}
    \/ pc[t] \in {"unlock", "exit", "done"}

\* The task that executes application code is a ready one, and while the
\* scheduler is not locked it is the first of the highest non-empty queue:
\* LOS_Schedule ran after every change that could make another task the top.
RunIsTop ==
  scheduled /\ fault = "no" /\ ~isr.active /\ pc[run] \in {"app", "tail"} =>
    /\ "ready" \in status[run]
    /\ lock = 0 => IsTop(lists, run)

\* "Move a task in a queue of tasks with the same priority to the tail", says
\* los_task.h of LOS_TaskYield: when a slice ends so, the running task is in
\* that queue.
YieldsQueued ==
  scheduled /\ fault = "no" /\ ~isr.active /\ SliceYields =>
    run \in Range(lists[prio[run]])

\* Neither a NULL list node is dereferenced nor a finished task resumed.
NoFault == fault = "no"

\* LOS_TaskLock keeps the CPU: while g_usLosTaskLock stays positive no step,
\* the tick's included, gives it to another task.
LockPinsRunning ==
  [][lock > 0 /\ lock' > 0 => run' = run]_taskVars

\* LOS_TaskDelay ends: the tick eventually takes DELAY away, from a task that
\* was suspended meanwhile as well.
DelayEnds ==
  \A t \in Tasks : "delay" \in status[t] ~> "delay" \notin status[t]

\* The time slice shares the CPU: a ready task whose priority is that of the
\* running task gets it, though the running task never gives it up.
SliceShares ==
  \A t \in Tasks \ {Idle} :
    "ready" \in status[t] ~> run = t \/ "ready" \notin status[t]
=============================================================================
