------------------------------ MODULE LosEvent ------------------------------
(***************************************************************************)
(* The events of LiteOS_Kernel (los_event.c) on the scheduler of LosTask:  *)
(* sets of bits, and tasks that wait for any or all of some of them.  The  *)
(* wait list of an event is lists[e].                                      *)
(***************************************************************************)
EXTENDS LosWait

CONSTANTS
  Events,         \* the EVENT_CB_S the application declares
  Bits,           \* the bits it uses
  Reads,          \* the ways it reads: mask, mode, and LOS_WAITMODE_CLR
  EventTimeouts,  \* the waiting times it passes
  HandlerEvents   \* the events an interrupt handler writes

ASSUME EventAssumption ==
  /\ Events \subseteq WaitObjects
  /\ None \notin Events
  /\ Reads \subseteq [mask : (SUBSET Bits) \ {{}}, mode : {"or", "and"}, clear : BOOLEAN]
  /\ EventTimeouts \subseteq 1 .. LOS_WAIT_FOREVER
  /\ HandlerEvents \subseteq Events

VARIABLES
  event,   \* uwEventID of each event, and whether it is initialised
  wanted   \* uwEventMask and uwEventMode of a task inside LOS_EventRead

eventVars == <<event, wanted>>

NotWanting == [event |-> None, read |-> None]

EventInit ==
  /\ event = [e \in Events |-> [used |-> FALSE, bits |-> {}]]
  /\ wanted = [t \in Tasks |-> NotWanting]

-----------------------------------------------------------------------------
\* Neither call looks at what the event is used for.
LOS_EventInit(e) ==
  /\ ~scheduled \/ \E t \in Tasks : CanCall(t, "event_init")
  /\ event' = [event EXCEPT ![e] = [used |-> TRUE, bits |-> {}]]
  /\ UNCHANGED <<taskVars, wanted>>

LOS_EventDestory(t, e) ==
  /\ CanCall(t, "event_destroy")
  /\ event' = [event EXCEPT ![e].used = FALSE]
  /\ UNCHANGED <<taskVars, wanted>>

\* Nothing but the application's care keeps the two from an event that tasks
\* wait for; these would hang on a list without a head.
NobodyWaits(e) == lists[e] = <<>>

-----------------------------------------------------------------------------
(***************************************************************************)
(* Reading.                                                                *)
(***************************************************************************)

\* LOS_EventPoll: whether the read succeeds, and what it leaves.
Met(r, bits) ==
  IF r.mode = "or" THEN r.mask \cap bits # {} ELSE r.mask \subseteq bits

Polled(r, bits) == IF Met(r, bits) /\ r.clear THEN bits \ r.mask ELSE bits

\* LOS_EventPoll itself, and LOS_EventRead that need not wait.
EventTake(t, e, r) ==
  /\ CanCall(t, "event_read")
  /\ event[e].used
  /\ Met(r, event[e].bits)
  /\ event' = [event EXCEPT ![e].bits = Polled(r, @)]
  /\ UNCHANGED <<taskVars, wanted>>

EventBlock(t, e, r, k) ==
  /\ CanCall(t, "event_read")
  /\ event[e].used
  /\ ~Met(r, event[e].bits)
  /\ lock = 0
  /\ lists' = Enqueue(Unlink(lists, t), t, e)
  /\ BeginWait(t, k)
  /\ wanted' = [wanted EXCEPT ![t] = [event |-> e, read |-> r]]
  /\ UNCHANGED event

\* Back from LOS_Schedule: too late, or polled again.  (The bits may be gone by
\* then; the call returns 0.)
EventReturn(t) ==
  /\ Running(t)
  /\ pc[t] = "tail"
  /\ wanted[t] # NotWanting
  /\ status' = [status EXCEPT ![t] = @ \ {"timeout"}]
  /\ wanted' = [wanted EXCEPT ![t] = NotWanting]
  /\ event' = IF "timeout" \in status[t] THEN event
              ELSE [event EXCEPT ![wanted[t].event].bits = Polled(wanted[t].read, @)]
  /\ TaskGoesOn(t, {})
  /\ UNCHANGED <<lists, timer>>

-----------------------------------------------------------------------------
(***************************************************************************)
(* Writing.                                                                *)
(***************************************************************************)

\* Whether a write of new, which makes the event bits, serves the waiter t.
MutServes(t, new, bits) == Met(wanted[t].read, new)
Serves(t, new, bits) ==
  IF wanted[t].read.mode = "or" THEN wanted[t].read.mask \cap new # {}
  ELSE wanted[t].read.mask \subseteq bits

\* The loop of LOS_EventWrite serves every waiter it can.
ServedBy(e, new) ==
  {t \in Range(lists[e]) : Serves(t, new, event[e].bits \cup new)}

EventWrite(e, new) ==
  /\ event[e].used
  /\ event' = [event EXCEPT ![e].bits = @ \cup new]
  /\ EndWaits(e, ServedBy(e, new))
  /\ UNCHANGED wanted

LOS_EventWrite(t, e, new) ==
  /\ CanCall(t, "event_write")
  /\ EventWrite(e, new)
  /\ TaskGoesOn(t, ServedBy(e, new))

HandlerEventWrite(e, new) ==
  /\ InHandler
  /\ EventWrite(e, new)
  /\ HandlerGoesOn(ServedBy(e, new))

\* uwEvents are the bits that stay.
LOS_EventClear(t, e, kept) ==
  /\ CanCall(t, "event_clear")
  /\ event[e].used
  /\ event' = [event EXCEPT ![e].bits = @ \cap kept]
  /\ UNCHANGED <<taskVars, wanted>>

-----------------------------------------------------------------------------
EventCall(t) ==
  \E e \in Events :
    \/ NobodyWaits(e) /\ LOS_EventDestory(t, e)
    \/ \E r \in Reads :
         EventTake(t, e, r) \/ \E k \in EventTimeouts : EventBlock(t, e, r, k)
    \/ \E set \in SUBSET Bits : LOS_EventWrite(t, e, set) \/ LOS_EventClear(t, e, set)

EventHandler == \E e \in HandlerEvents, set \in SUBSET Bits : HandlerEventWrite(e, set)

EventStep ==
  \/ \E e \in Events : NobodyWaits(e) /\ LOS_EventInit(e)
  \/ \E t \in Tasks : EventCall(t) \/ EventReturn(t)
  \/ EventHandler

\* A task whose control block is given back waits for nothing.
WantedKept ==
  wanted' = [t \in Tasks |-> IF pc'[t] = "none" THEN NotWanting ELSE wanted[t]]
-----------------------------------------------------------------------------
(***************************************************************************)
(* Properties.                                                             *)
(***************************************************************************)

\* No wake-up is lost: a task in the wait list of an event is inside
\* LOS_EventRead for it, and what it waits for is not there.
NobodySleepsOnEvent ==
  \A e \in Events : \A t \in Range(lists[e]) :
    /\ event[e].used
    /\ wanted[t].event = e
    /\ ~Met(wanted[t].read, event[e].bits)
=============================================================================
