------------------------------- MODULE LosSem -------------------------------
(***************************************************************************)
(* The semaphores of LiteOS_Kernel (los_sem.c) on the scheduler of         *)
(* LosTask.  Tasks take and post them; interrupt handlers (the UART's, for *)
(* one) post them.  A semaphore's wait list is lists[s].                   *)
(***************************************************************************)
EXTENDS LosTask, FiniteSets

CONSTANTS
  Sems,         \* the control blocks of g_pstAllSem
  CountMax,     \* OS_SEM_COUNT_MAX
  SemTimeouts,  \* the waiting times the application passes to LOS_SemPend
  Devices       \* the semaphores an interrupt handler posts

ASSUME SemAssumption ==
  /\ IsFiniteSet(Tasks)
  /\ Sems = WaitObjects
  /\ None \notin Sems
  /\ CountMax \in Nat \ {0}
  /\ SemTimeouts \subseteq 1 .. LOS_WAIT_FOREVER
  /\ Devices \subseteq Sems

VARIABLES
  sem,      \* the SEM_CB_S of each semaphore: used, uwSemCount
  handle,   \* the semaphore a task inside LOS_SemPend waits for
  balance   \* tokens the callers put in and have not been told they got

semVars == <<sem, handle, balance>>
vars == <<taskVars, semVars>>

SemInit ==
  /\ Init
  /\ sem = [s \in Sems |-> [used |-> FALSE, count |-> 0]]
  /\ handle = [t \in Tasks |-> None]
  /\ balance = [s \in Sems |-> 0]

-----------------------------------------------------------------------------
LOS_SemCreate(s, k) ==
  /\ ~scheduled \/ \E t \in Tasks : CanCall(t, "sem_create")
  /\ ~sem[s].used
  /\ sem' = [sem EXCEPT ![s] = [used |-> TRUE, count |-> k]]
  /\ balance' = [balance EXCEPT ![s] = @ + k]
  /\ UNCHANGED <<taskVars, handle>>

\* The tokens in the counter perish with it.
LOS_SemDelete(t, s) ==
  /\ CanCall(t, "sem_delete")
  /\ sem[s].used
  /\ lists[s] = <<>>
  /\ sem' = [sem EXCEPT ![s].used = FALSE]
  /\ balance' = [balance EXCEPT ![s] = @ - sem[s].count]
  /\ UNCHANGED <<taskVars, handle>>

-----------------------------------------------------------------------------
(***************************************************************************)
(* LOS_SemPend.  With a timeout of 0, or under the scheduler lock, a call  *)
(* that finds no token fails and changes nothing.                          *)
(***************************************************************************)

\* A token is there.
Available(s) == sem[s].count > 0

SemTake(t, s) ==
  /\ CanCall(t, "sem_pend")
  /\ sem[s].used
  /\ Available(s)
  /\ sem' = [sem EXCEPT ![s].count = @ - 1]
  /\ balance' = [balance EXCEPT ![s] = @ - 1]
  /\ UNCHANGED <<taskVars, handle>>

SemBlock(t, s, k) ==
  /\ CanCall(t, "sem_pend")
  /\ sem[s].used
  /\ ~Available(s)
  /\ lock = 0
  /\ lists' = Enqueue(Unlink(lists, t), t, s)
  /\ status' = [status EXCEPT ![t] =
                  (@ \ {"ready", "timeout"}) \cup {"pend"}
                    \cup (IF k = LOS_WAIT_FOREVER THEN {} ELSE {"timeout"})]
  /\ timer' = IF k = LOS_WAIT_FOREVER THEN timer ELSE [timer EXCEPT ![t] = k]
  /\ pc' = [pc EXCEPT ![t] = "pend"]
  /\ handle' = [handle EXCEPT ![t] = s]
  /\ UNCHANGED <<prio, run, lock, isr, slice, scheduled, fault, sem, balance>>

\* Back from LOS_Schedule: TIMEOUT still set means that the time ran out, and
\* anything else that a token was handed over.
Timed(t) == "timeout" \in status[t]

SemReturn(t) ==
  /\ Running(t)
  /\ pc[t] = "tail"
  /\ handle[t] \in Sems
  /\ status' = [status EXCEPT ![t] = @ \ {"timeout"}]
  /\ balance' = IF Timed(t) THEN balance
                ELSE [balance EXCEPT ![handle[t]] = @ - 1]
  /\ pc' = [pc EXCEPT ![t] = "app"]
  /\ handle' = [handle EXCEPT ![t] = None]
  /\ UNCHANGED <<prio, lists, timer, run, lock, isr, slice, scheduled, fault,
                 sem>>

-----------------------------------------------------------------------------
(***************************************************************************)
(* LOS_SemPost: by a task, which goes on to LOS_Schedule when it woke      *)
(* somebody, or by an interrupt handler, at whose end PendSV switches.  At *)
(* OS_SEM_COUNT_MAX it fails and changes nothing.                          *)
(***************************************************************************)
CanPost(s) ==
  /\ sem[s].used
  /\ sem[s].count < CountMax

\* The waiter that is served.
MutLastWaiter(s) == lists[s][Len(lists[s])]
FirstWaiter(s) == Head(lists[s])

\* Its wait is over, and so is its time limit.
MutWaitOverTimed(n) == status[n] \ {"pend"}
WaitOver(n) == status[n] \ {"pend", "timeout"}

\* What a token counts when nobody waits, and when somebody does.
MutCounted(s) == sem[s].count + 1
Counted(s) == IF lists[s] = <<>> THEN sem[s].count + 1 ELSE sem[s].count

\* What both kinds of caller do under LOS_IntLock.
SemPost(s) ==
  /\ CanPost(s)
  /\ sem' = [sem EXCEPT ![s].count = Counted(s)]
  /\ balance' = [balance EXCEPT ![s] = @ + 1]
  /\ IF lists[s] = <<>>
     THEN UNCHANGED <<lists, status, timer>>
     ELSE LET n == FirstWaiter(s)
          IN  /\ lists' = Wake(lists, n)
              /\ status' = [status EXCEPT ![n] =
                   WaitOver(n) \cup (IF "suspend" \in @ THEN {} ELSE {"ready"})]
              /\ timer' = IF Timed(n) THEN TimerOff(n) ELSE timer

\* A post reaches LOS_Schedule when it served a waiter.
Reschedules(s) == lists[s] # <<>>

TaskPost(t, s) ==
  /\ CanCall(t, "sem_post")
  /\ SemPost(s)
  /\ pc' = Scheduling(t, Reschedules(s))
  /\ UNCHANGED <<prio, run, lock, isr, slice, scheduled, fault, handle>>

\* An interrupt other than the tick; the two do not nest.
DevicePost(s) ==
  /\ scheduled
  /\ fault = "no"
  /\ ~isr.active
  /\ SemPost(s)
  /\ IF Reschedules(s) /\ MaySwitch THEN SwitchTo(lists') ELSE UNCHANGED run
  /\ UNCHANGED <<prio, lock, pc, isr, slice, scheduled, fault, handle>>

-----------------------------------------------------------------------------
SchedulerStep ==
  /\ TaskNext
  /\ handle' = [t \in Tasks |-> IF pc'[t] = "none" THEN None ELSE handle[t]]
  /\ UNCHANGED <<sem, balance>>

SemCall(t) ==
  \E s \in Sems :
    \/ LOS_SemDelete(t, s)
    \/ SemTake(t, s)
    \/ \E k \in SemTimeouts : SemBlock(t, s, k)
    \/ TaskPost(t, s)

SemNext ==
  \/ SchedulerStep
  \/ \E s \in Sems, k \in 0 .. CountMax : LOS_SemCreate(s, k)
  \/ \E t \in Tasks : SemCall(t) \/ SemReturn(t)
  \/ \E s \in Devices : DevicePost(s)

SemSafety == SemInit /\ [][SemNext]_vars

\* The fairness of the scheduler, and devices that go on interrupting: a
\* handler runs as soon as no other does.
SemFairness ==
  /\ WF_vars(Start /\ SchedulerStep)
  /\ WF_vars(Tick /\ SchedulerStep)
  /\ \A t \in Tasks : SF_vars((TaskInternal(t) /\ SchedulerStep) \/ SemReturn(t))
  /\ \A s \in Devices : SF_vars(DevicePost(s))

SemLive == SemSafety /\ SemFairness
-----------------------------------------------------------------------------
(***************************************************************************)
(* Properties.                                                             *)
(***************************************************************************)

\* The tasks whose LOS_SemPend(s) will return LOS_OK.
Granted(s) ==
  {t \in Tasks : /\ pc[t] \in {"pend", "tail"}
                 /\ handle[t] = s
                 /\ status[t] \cap {"pend", "timeout"} = {}}

\* Tokens are neither lost nor doubled: those put in and not yet confirmed to
\* a taker are in the counter or on their way to a task that was woken.  (As
\* long as no task is deleted between its wake-up and its return.)
TokensKept ==
  \A s \in Sems :
    balance[s] = Cardinality(Granted(s))
                   + (IF sem[s].used THEN sem[s].count ELSE 0)

\* A queued task is inside LOS_SemPend for that semaphore, which exists and
\* has no token left: nobody sleeps next to a token.
NobodySleepsOnToken ==
  \A s \in Sems : \A i \in DOMAIN lists[s] :
    LET t == lists[s][i] IN
      /\ pc[t] \in {"pend", "tail"} /\ handle[t] = s
      /\ sem[s].used /\ sem[s].count = 0

\* The semaphores as SemSpec sees them.
Abstract == INSTANCE SemSpec WITH
  used  <- [s \in Sems |-> sem[s].used],
  count <- [s \in Sems |-> sem[s].count],
  queue <- [s \in Sems |-> lists[s]],
  granted <- [s \in Sems |-> Granted(s)]

\* Whatever the scheduler, the tick, the devices and the application do, the
\* semaphores are counters with a first-come first-served queue.
ImplementsSemaphore == Abstract!Spec

\* As long as the device goes on posting, every task that waits for it is
\* served or gives up: later arrivals do not overtake it for ever.
WaitEnds ==
  \A t \in Tasks : "pend" \in status[t] ~> "pend" \notin status[t]
=============================================================================
