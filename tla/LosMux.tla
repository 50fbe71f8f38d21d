------------------------------- MODULE LosMux -------------------------------
(***************************************************************************)
(* The mutexes of LiteOS_Kernel (los_mux.c) on the scheduler of LosTask:   *)
(* recursive, handed over in first-come order, with one level of priority  *)
(* inheritance.  A mutex's wait list is lists[m].                          *)
(***************************************************************************)
EXTENDS LosTask

CONSTANTS
  Mutexes,      \* the control blocks of g_pstAllMux
  MaxCount,     \* bound on usMuxCount
  MuxTimeouts   \* the waiting times the application passes to LOS_MuxPend

ASSUME MuxAssumption ==
  /\ Mutexes = WaitObjects
  /\ None \notin Mutexes
  /\ MaxCount \in Nat \ {0}
  /\ MuxTimeouts \subseteq 1 .. LOS_WAIT_FOREVER

VARIABLES
  mux,     \* the MUX_CB_S of each mutex: used, usMuxCount, pstOwner, usPriority
  handle,  \* the mutex a task inside LOS_MuxPend waits for
  held     \* how often a task was told LOS_OK and has not posted: its own view

muxVars == <<mux, handle, held>>
vars == <<taskVars, muxVars>>

MuxInit ==
  /\ Init
  /\ mux = [m \in Mutexes |->
              [used |-> FALSE, count |-> 0, owner |-> None, prio |-> 0]]
  /\ handle = [t \in Tasks |-> None]
  /\ held = [t \in Tasks |-> [m \in Mutexes |-> 0]]

-----------------------------------------------------------------------------
\* main creates mutexes before LOS_Start, tasks at any time.
LOS_MuxCreate(m) ==
  /\ ~scheduled \/ \E t \in Tasks : CanCall(t, "mux_create")
  /\ ~mux[m].used
  /\ mux' = [mux EXCEPT ![m] =
               [used |-> TRUE, count |-> 0, owner |-> None, prio |-> 0]]
  /\ UNCHANGED <<taskVars, handle, held>>

\* A mutex somebody owns or waits for is not deleted.
MuxBusy(m) == lists[m] # <<>> \/ mux[m].count > 0

LOS_MuxDelete(t, m) ==
  /\ CanCall(t, "mux_delete")
  /\ mux[m].used
  /\ ~MuxBusy(m)
  /\ mux' = [mux EXCEPT ![m].used = FALSE]
  /\ UNCHANGED <<taskVars, handle, held>>

-----------------------------------------------------------------------------
\* The TIMEOUT flag: a wait with a time limit and, once the wait is over,
\* one whose time ran out.
Timed(t) == "timeout" \in status[t]

(***************************************************************************)
(* LOS_MuxPend.  With a timeout of 0, or under the scheduler lock, a call  *)
(* that cannot have the mutex fails and changes nothing.                   *)
(***************************************************************************)
MuxTake(t, m) ==
  /\ CanCall(t, "mux_pend")
  /\ mux[m].used
  /\ mux[m].count = 0
  /\ mux' = [mux EXCEPT ![m].count = 1, ![m].owner = t, ![m].prio = prio[t]]
  /\ held' = [held EXCEPT ![t][m] = @ + 1]
  /\ UNCHANGED <<taskVars, handle>>

MuxReenter(t, m) ==
  /\ CanCall(t, "mux_pend")
  /\ mux[m].used
  /\ mux[m].count \in 1 .. MaxCount - 1
  /\ mux[m].owner = t
  /\ mux' = [mux EXCEPT ![m].count = @ + 1]
  /\ held' = [held EXCEPT ![t][m] = @ + 1]
  /\ UNCHANGED <<taskVars, handle>>

\* The owner runs below the caller.
Lends(t, o) == prio[o] > prio[t]

\* The caller leaves the ready queue, lends its priority to an owner of lower
\* priority, and joins the tail of the wait list.
MuxBlock(t, m, k) ==
  /\ CanCall(t, "mux_pend")
  /\ mux[m].used
  /\ mux[m].count > 0
  /\ mux[m].owner # t
  /\ lock = 0
  /\ LET o     == mux[m].owner
         rest  == Unlink(lists, t)
     IN  /\ prio' = IF Lends(t, o) THEN [prio EXCEPT ![o] = prio[t]] ELSE prio
         /\ lists' = Enqueue(IF Lends(t, o) THEN Requeue(rest, o, prio[t])
                             ELSE rest, t, m)
  /\ status' = [status EXCEPT ![t] =
                  (@ \ {"ready", "timeout"}) \cup {"pend"}
                    \cup (IF k = LOS_WAIT_FOREVER THEN {} ELSE {"timeout"})]
  /\ timer' = IF k = LOS_WAIT_FOREVER THEN timer ELSE [timer EXCEPT ![t] = k]
  /\ pc' = [pc EXCEPT ![t] = "pend"]
  /\ handle' = [handle EXCEPT ![t] = m]
  /\ UNCHANGED <<run, lock, isr, slice, scheduled, fault, mux, held>>

\* Back from LOS_Schedule: TIMEOUT still set means that the time ran out, and
\* anything else that the mutex was handed over.
MuxReturn(t) ==
  /\ Running(t)
  /\ pc[t] = "tail"
  /\ handle[t] \in Mutexes
  /\ status' = [status EXCEPT ![t] = @ \ {"timeout"}]
  /\ held' = IF Timed(t) THEN held
             ELSE [held EXCEPT ![t][handle[t]] = @ + 1]
  /\ pc' = [pc EXCEPT ![t] = "app"]
  /\ handle' = [handle EXCEPT ![t] = None]
  /\ UNCHANGED <<prio, lists, timer, run, lock, isr, slice, scheduled, fault,
                 mux>>

-----------------------------------------------------------------------------
(***************************************************************************)
(* LOS_MuxPost by the owner; anybody else gets an error.                   *)
(***************************************************************************)
MutCanPostAny(t, m) ==
  CanCall(t, "mux_post") /\ mux[m].used /\ mux[m].count > 0
CanPost(t, m) ==
  /\ CanCall(t, "mux_post")
  /\ mux[m].used
  /\ mux[m].count > 0
  /\ mux[m].owner = t

Posted(t, m) == [held EXCEPT ![t][m] = IF @ > 0 THEN @ - 1 ELSE 0]

MuxUnwind(t, m) ==
  /\ CanPost(t, m)
  /\ mux[m].count > 1
  /\ mux' = [mux EXCEPT ![m].count = @ - 1]
  /\ held' = Posted(t, m)
  /\ UNCHANGED <<taskVars, handle>>

\* The owner goes back to the priority it had when it took the mutex.
MutPrioKept(t, m) == prio
RestoredPrio(t, m) == [prio EXCEPT ![t] = mux[m].prio]

RestoredLists(t, m) ==
  IF prio[t] # mux[m].prio THEN Requeue(lists, t, mux[m].prio) ELSE lists

\* Nobody waits: the mutex is free.  There is no LOS_Schedule on this path.
MuxRelease(t, m) ==
  /\ CanPost(t, m)
  /\ mux[m].count = 1
  /\ lists[m] = <<>>
  /\ prio' = RestoredPrio(t, m)
  /\ lists' = RestoredLists(t, m)
  /\ mux' = [mux EXCEPT ![m].count = 0]
  /\ held' = Posted(t, m)
  /\ UNCHANGED <<status, timer, run, lock, pc, isr, slice, scheduled, fault,
                 handle>>

\* The waiter that is served.
MutLastWaiter(m) == lists[m][Len(lists[m])]
FirstWaiter(m) == Head(lists[m])

\* It is the owner before it runs again.
Given(m, n) ==
  [mux EXCEPT ![m].count = 1, ![m].owner = n, ![m].prio = prio[n]]

\* Its wait is over, and so is its time limit.
MutWaitOverTimed(n) == status[n] \ {"pend"}
WaitOver(n) == status[n] \ {"pend", "timeout"}

MuxHandOver(t, m) ==
  /\ CanPost(t, m)
  /\ mux[m].count = 1
  /\ lists[m] # <<>>
  /\ LET n == FirstWaiter(m)
     IN  /\ prio' = RestoredPrio(t, m)
         /\ lists' = Wake(RestoredLists(t, m), n)
         /\ status' = [status EXCEPT ![n] =
                         WaitOver(n) \cup (IF "suspend" \in @ THEN {} ELSE {"ready"})]
         /\ timer' = IF Timed(n) THEN TimerOff(n) ELSE timer
         /\ mux' = Given(m, n)
  /\ held' = Posted(t, m)
  /\ pc' = [pc EXCEPT ![t] = "sched"]
  /\ UNCHANGED <<run, lock, isr, slice, scheduled, fault, handle>>

-----------------------------------------------------------------------------
\* The scheduler's own steps.  The kernel does not look at the mutexes of a
\* task it deletes; the next task in that TCB has taken nothing.
SchedulerStep ==
  /\ TaskNext
  /\ handle' = [t \in Tasks |-> IF pc'[t] = "none" THEN None ELSE handle[t]]
  /\ held' = [t \in Tasks |->
                IF pc'[t] = "none" THEN [m \in Mutexes |-> 0] ELSE held[t]]
  /\ UNCHANGED mux

MuxCall(t) ==
  \E m \in Mutexes :
    \/ LOS_MuxDelete(t, m)
    \/ MuxTake(t, m) \/ MuxReenter(t, m)
    \/ \E k \in MuxTimeouts : MuxBlock(t, m, k)
    \/ MuxUnwind(t, m) \/ MuxRelease(t, m) \/ MuxHandOver(t, m)

MuxNext ==
  \/ SchedulerStep
  \/ \E m \in Mutexes : LOS_MuxCreate(m)
  \/ \E t \in Tasks : MuxCall(t) \/ MuxReturn(t)

MuxSpec == MuxInit /\ [][MuxNext]_vars
-----------------------------------------------------------------------------
(***************************************************************************)
(* Properties.                                                             *)
(***************************************************************************)

\* A task that LOS_MuxPend told LOS_OK owns the mutex, as often as it was told:
\* mutual exclusion as the callers see it.
Exclusion ==
  \A t \in Tasks, m \in Mutexes :
    held[t][m] > 0 =>
      mux[m].used /\ mux[m].owner = t /\ mux[m].count = held[t][m]

\* The task is in LOS_MuxPend(m), no longer waits, and was not timed out.
Granted(t, m) ==
  /\ pc[t] \in {"pend", "tail"}
  /\ handle[t] = m
  /\ status[t] \cap {"pend", "timeout"} = {}

\* A task that is still inside LOS_MuxPend for a mutex it owns will be told
\* LOS_OK: a mutex handed over at the tick at which the waiter's time runs out
\* would otherwise be locked for ever, with nobody to post it.
GrantIsTold ==
  \A t \in Tasks, m \in Mutexes :
    handle[t] = m /\ mux[m].count > 0 /\ mux[m].owner = t => Granted(t, m)

\* The task owns no mutex.
OwnsNone(t) == \A m \in Mutexes : mux[m].count > 0 => mux[m].owner # t

\* A lent priority is given back: a task that owns nothing runs with the one
\* it was created with (where CreatePrio gives each task one priority and the
\* application does not call LOS_TaskPriSet).
PriorityGivenBack ==
  \A t \in Tasks \ {Idle} :
    "unused" \notin status[t] /\ OwnsNone(t) => prio[t] \in CreatePrio[t]

\* los_mux.h: a higher-priority task waiting on a mutex changes the priority
\* of the task that owns it: the owner never runs below one of its waiters.
OwnerInherits ==
  \A m \in Mutexes : \A i \in DOMAIN lists[m] :
    prio[mux[m].owner] <= prio[lists[m][i]]

\* The mutexes as MutexSpec sees them.
Abstract == INSTANCE MutexSpec WITH
  owner <- [m \in Mutexes |-> IF mux[m].count = 0 THEN None ELSE mux[m].owner],
  count <- [m \in Mutexes |-> mux[m].count],
  queue <- [m \in Mutexes |-> lists[m]]

\* Whatever the scheduler, the tick and the application do, the mutexes are
\* first-come first-served recursive locks.
ImplementsMutex == Abstract!Spec
=============================================================================
