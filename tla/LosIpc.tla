------------------------------- MODULE LosIpc -------------------------------
(***************************************************************************)
(* Tasks and interrupt handlers that use queues and events together, on    *)
(* one scheduler.                                                          *)
(***************************************************************************)
EXTENDS LosQueue, LosEvent

ASSUME IpcAssumption ==
  \A q \in Queues : ReadList[q] \notin Events /\ WriteList[q] \notin Events

vars == <<taskVars, queueVars, eventVars>>

IpcInit == Init /\ QueueInit /\ EventInit

SchedulerStep ==
  /\ TaskNext
  /\ RequestsKept
  /\ WantedKept
  /\ UNCHANGED <<queue, store, out, event>>

IpcNext ==
  \/ SchedulerStep
  \/ QueueStep /\ UNCHANGED eventVars
  \/ EventStep /\ UNCHANGED queueVars

IpcSpec == IpcInit /\ [][IpcNext]_vars
=============================================================================
