------------------------------ MODULE LosWait ------------------------------
(***************************************************************************)
(* What LOS_QueueRead, LOS_QueueWrite and LOS_EventRead have in common:    *)
(* how a task begins to wait in a list of its own choice, and how those    *)
(* that serve it end the wait.                                             *)
(***************************************************************************)
EXTENDS LosTask

\* The running task waits for k ticks; the caller chooses its place in line.
BeginWait(t, k) ==
  /\ status' = [status EXCEPT ![t] =
                  (@ \ {"ready", "timeout"}) \cup {"pend"}
                    \cup (IF k = LOS_WAIT_FOREVER THEN {} ELSE {"timeout"})]
  /\ timer' = IF k = LOS_WAIT_FOREVER THEN timer ELSE [timer EXCEPT ![t] = k]
  /\ pc' = [pc EXCEPT ![t] = "pend"]
  /\ UNCHANGED <<prio, run, lock, isr, slice, scheduled, fault>>

\* A suspended task that is served stays suspended.
Suspended(t) == "suspend" \in status[t]

\* The waits of the tasks in set, all in wait list l, end; their limits too.
Ended(t) == status[t] \ {"pend", "timeout"}

\* The lists after each turn of the loop over wait list l.
Turns(l, set) ==
  LET turn[i \in 0 .. Len(lists[l])] ==
        IF i = 0 THEN lists
        ELSE IF lists[l][i] \in set THEN Wake(turn[i - 1], lists[l][i])
        ELSE turn[i - 1]
  IN turn

EndWaits(l, set) ==
  /\ lists' = Turns(l, set)[Len(lists[l])]
  /\ status' = [t \in Tasks |->
       IF t \in set THEN Ended(t) \cup (IF Suspended(t) THEN {} ELSE {"ready"})
       ELSE status[t]]
  /\ timer' = [t \in Tasks |->
       IF t \in set /\ "timeout" \in status[t] THEN 0 ELSE timer[t]]

\* The caller goes on to LOS_Schedule if it served anybody.
TaskGoesOn(t, set) ==
  /\ pc' = [pc EXCEPT ![t] = IF set # {} THEN "sched" ELSE "app"]
  /\ UNCHANGED <<prio, run, lock, isr, slice, scheduled, fault>>

\* An interrupt handler other than the tick: PendSV switches at its end.
InHandler == scheduled /\ fault = "no" /\ ~isr.active

HandlerGoesOn(set) ==
  /\ IF set # {} /\ MaySwitch THEN SwitchTo(lists') ELSE UNCHANGED run
  /\ UNCHANGED <<prio, lock, pc, isr, slice, scheduled, fault>>
=============================================================================
