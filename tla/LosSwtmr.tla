------------------------------ MODULE LosSwtmr ------------------------------
(***************************************************************************)
(* The software timers of LiteOS_Kernel (los_swtmr.c): the list of ticking *)
(* timers, in which each counts the ticks after its predecessor; the tick  *)
(* that counts down its first element and queues the handlers of those     *)
(* that are due; and the task that takes handlers from the queue and runs  *)
(* them.                                                                   *)
(*                                                                         *)
(* The loops of osSwTmrStart and osSwTmrTimeoutHandle are steps of their   *)
(* own.  They run with interrupts off, so that nothing else moves while    *)
(* cs says that one of them is under way.                                  *)
(*                                                                         *)
(* A definition named Mut... is a faulty variant of the one that follows   *)
(* it, used by no specification.                                           *)
(***************************************************************************)
EXTENDS Naturals, Sequences, SequencesExt, FiniteSets

CONSTANTS
  Timers,     \* the control blocks of m_pstSwtmrCBArray
  NoTimer,    \* NULL
  Intervals   \* the periods timers are created with, in ticks

ASSUME SwtmrAssumption ==
  /\ IsFiniteSet(Timers)
  /\ NoTimer \notin Timers
  /\ Intervals \subseteq Nat \ {0}

VARIABLES
  list,      \* m_pstSwtmrSortList
  free,      \* m_pstSwtmrFreeList
  taken,     \* control blocks that LOS_SwtmrCreate has still to fill
  state,     \* ucState of each timer
  mode,      \* ucMode
  interval,  \* uwInterval, which is uwExpiry as well
  count,     \* uwCount
  cs,        \* the code that runs with interrupts off
  pool,      \* free items of m_aucSwTmrHandlerPool
  queued,    \* handlers in m_uwSwTmrHandlerQueue
  hand,      \* where osSwTmrTask is: it waits, has read an item, runs a handler
  left,      \* history: ticks until each timer is due, on a clock of its own
  behind,    \* history: handlers were still waiting when the last tick came
  lost       \* history: the last tick found no room for a handler

vars == <<list, free, taken, state, mode, interval, count, cs, pool, queued, hand,
          left, behind, lost>>

Modes == {"once", "period"}

\* Nothing runs with interrupts off.
Idle == [in |-> "no", timer |-> NoTimer, pos |-> 1, rest |-> 0]

MutPoolSize == Cardinality(Timers) - 1
\* OS_SWTMR_HANDLE_QUEUE_SIZE, the length of the queue and of its pool.
HandleQueueSize == Cardinality(Timers)

Init ==
  /\ list = <<>>
  /\ free \in {s \in [1 .. Cardinality(Timers) -> Timers] :
                 \A i, j \in DOMAIN s : s[i] = s[j] => i = j}
  /\ taken = {}
  /\ state = [t \in Timers |-> "unused"]
  /\ mode = [t \in Timers |-> "once"]
  /\ interval = [t \in Timers |-> 0]
  /\ count = [t \in Timers |-> 0]
  /\ cs = Idle
  /\ pool = HandleQueueSize
  /\ queued = 0
  /\ hand = "wait"
  /\ left = [t \in Timers |-> 0]
  /\ behind = FALSE
  /\ lost = FALSE

-----------------------------------------------------------------------------
(***************************************************************************)
(* The list.                                                               *)
(***************************************************************************)
Position(t) == CHOOSE i \in DOMAIN list : list[i] = t

MutFollowerKept(t) == [count EXCEPT ![t] = 0]
\* The ticks of a timer that leaves the list go to the one behind it.
FollowerGets(t) ==
  LET i == Position(t) IN
    [x \in Timers |->
       IF i < Len(list) /\ x = list[i + 1] THEN count[x] + count[t] ELSE count[x]]

\* osSwtmrStop on a ticking timer.
Unlinked(t) ==
  /\ list' = RemoveAt(list, Position(t))
  /\ count' = FollowerGets(t)
  /\ left' = [left EXCEPT ![t] = 0]

\* The walk of osSwTmrStart stops before the first timer that is due later.
MutPassed(i) == count[list[i]] < cs.rest + 2
Passed(i) == count[list[i]] <= cs.rest

\* Entering osSwTmrStart, from a call or from the tick.
Walking(in, t) == [in |-> in, timer |-> t, pos |-> 1, rest |-> interval[t]]

WalkOn ==
  /\ cs.timer # NoTimer
  /\ cs.pos <= Len(list)
  /\ Passed(cs.pos)
  /\ cs' = [cs EXCEPT !.pos = @ + 1, !.rest = @ - count[list[cs.pos]]]
  /\ UNCHANGED <<list, free, taken, state, mode, interval, count, pool, queued, hand,
                 left, behind, lost>>

\* The timer that is overtaken counts from the new one on.
MutSuccessorKept(x) == count[x]
Shortened(x) ==
  IF cs.pos <= Len(list) /\ x = list[cs.pos] THEN count[x] - cs.rest ELSE count[x]

WalkEnd ==
  /\ cs.timer # NoTimer
  /\ cs.pos <= Len(list) => ~Passed(cs.pos)
  /\ list' = InsertAt(list, cs.pos, cs.timer)
  /\ count' = [x \in Timers |-> IF x = cs.timer THEN cs.rest ELSE Shortened(x)]
  /\ state' = [state EXCEPT ![cs.timer] = "ticking"]
  /\ left' = [left EXCEPT ![cs.timer] = interval[cs.timer]]
  /\ cs' = IF cs.in = "call" THEN Idle ELSE [Idle EXCEPT !.in = "tick"]
  /\ UNCHANGED <<free, taken, mode, interval, pool, queued, hand, behind, lost>>

-----------------------------------------------------------------------------
(***************************************************************************)
(* The calls that return LOS_OK, of a task, a handler included.  The       *)
(* others, those with the ID of a timer that has gone among them, change   *)
(* nothing.                                                                *)
(***************************************************************************)
LOS_SwtmrCreate ==
  /\ cs.in = "no"
  /\ free # <<>>
  /\ taken' = taken \cup {Head(free)}
  /\ free' = Tail(free)
  /\ UNCHANGED <<list, state, mode, interval, count, cs, pool, queued, hand,
                 left, behind, lost>>

\* Interrupts are on again when the block is filled; until its state is written
\* the other calls refuse it.
Created(t, m, k) ==
  /\ cs.in = "no"
  /\ t \in taken
  /\ taken' = taken \ {t}
  /\ state' = [state EXCEPT ![t] = "created"]
  /\ mode' = [mode EXCEPT ![t] = m]
  /\ interval' = [interval EXCEPT ![t] = k]
  /\ count' = [count EXCEPT ![t] = 0]
  /\ UNCHANGED <<list, free, cs, pool, queued, hand, left, behind, lost>>

\* A ticking timer is stopped first.
LOS_SwtmrStart(t) ==
  /\ cs.in = "no"
  /\ \/ /\ state[t] = "created"
        /\ UNCHANGED <<list, count, state, left>>
     \/ /\ state[t] = "ticking"
        /\ Unlinked(t)
        /\ state' = [state EXCEPT ![t] = "created"]
  /\ cs' = Walking("call", t)
  /\ UNCHANGED <<free, taken, mode, interval, pool, queued, hand, behind, lost>>

LOS_SwtmrStop(t) ==
  /\ cs.in = "no"
  /\ state[t] = "ticking"
  /\ Unlinked(t)
  /\ state' = [state EXCEPT ![t] = "created"]
  /\ UNCHANGED <<free, taken, mode, interval, cs, pool, queued, hand, behind, lost>>

LOS_SwtmrDelete(t) ==
  /\ cs.in = "no"
  /\ \/ /\ state[t] = "created"
        /\ UNCHANGED <<list, count, left>>
     \/ /\ state[t] = "ticking"
        /\ Unlinked(t)
  /\ free' = <<t>> \o free
  /\ state' = [state EXCEPT ![t] = "unused"]
  /\ UNCHANGED <<taken, mode, interval, cs, pool, queued, hand, behind, lost>>

-----------------------------------------------------------------------------
(***************************************************************************)
(* The tick interrupt.                                                     *)
(***************************************************************************)

\* osSwtmrScan.  (history: every ticking timer has a tick less.)
Tick ==
  /\ cs.in = "no"
  /\ list # <<>>
  /\ count' = [count EXCEPT ![list[1]] = @ - 1]
  /\ cs' = IF count[list[1]] = 1 THEN [Idle EXCEPT !.in = "tick"] ELSE Idle
  /\ left' = [t \in Timers |-> IF state[t] = "ticking" THEN left[t] - 1 ELSE left[t]]
  /\ behind' = (queued > 0 \/ hand = "read")
  /\ lost' = FALSE
  /\ UNCHANGED <<list, free, taken, state, mode, interval, pool, queued, hand>>

\* A handler item and a place in the queue.
Room == pool > 0 /\ queued < HandleQueueSize

\* The item goes back to the pool when the queue is full.
Queued ==
  /\ queued' = IF Room THEN queued + 1 ELSE queued
  /\ pool' = IF Room THEN pool - 1 ELSE pool
  /\ lost' = (lost \/ ~Room)

\* osSwtmrDelete of a one-off timer that has expired.
MutReleased(t) == free
Released(t) == <<t>> \o free

\* One turn of osSwTmrTimeoutHandle's loop.
Expire ==
  /\ cs.in = "tick"
  /\ cs.timer = NoTimer
  /\ list # <<>>
  /\ count[list[1]] = 0
  /\ LET t == list[1] IN
       /\ list' = Tail(list)
       /\ Queued
       /\ \/ /\ mode[t] = "once"
             /\ free' = Released(t)
             /\ state' = [state EXCEPT ![t] = "unused"]
             /\ UNCHANGED cs
          \/ /\ mode[t] = "period"
             /\ cs' = Walking("tick", t)
             /\ UNCHANGED <<free, state>>
  /\ UNCHANGED <<taken, mode, interval, count, hand, left, behind>>

TickEnd ==
  /\ cs.in = "tick"
  /\ cs.timer = NoTimer
  /\ list # <<>> => count[list[1]] > 0
  /\ cs' = Idle
  /\ UNCHANGED <<list, free, taken, state, mode, interval, count, pool, queued, hand,
                 left, behind, lost>>

-----------------------------------------------------------------------------
(***************************************************************************)
(* osSwTmrTask.  It has the highest priority, but locks, interrupts and    *)
(* slow handlers hold it up, so a tick may come at each of its points.     *)
(***************************************************************************)
TaskReads ==
  /\ cs.in = "no"
  /\ hand = "wait"
  /\ queued > 0
  /\ hand' = "read"
  /\ queued' = queued - 1
  /\ UNCHANGED <<list, free, taken, state, mode, interval, count, cs, pool, left,
                 behind, lost>>

\* LOS_MemboxFree, before the handler is called.
ItemFreed == pool + 1

TaskFrees ==
  /\ cs.in = "no"
  /\ hand = "read"
  /\ pool' = ItemFreed
  /\ hand' = "run"
  /\ UNCHANGED <<list, free, taken, state, mode, interval, count, cs, queued, left,
                 behind, lost>>

HandlerReturns ==
  /\ cs.in = "no"
  /\ hand = "run"
  /\ hand' = "wait"
  /\ UNCHANGED <<list, free, taken, state, mode, interval, count, cs, pool, queued,
                 left, behind, lost>>

-----------------------------------------------------------------------------
Call ==
  \/ LOS_SwtmrCreate
  \/ \E t \in Timers, m \in Modes, k \in Intervals : Created(t, m, k)
  \/ \E t \in Timers :
       LOS_SwtmrStart(t) \/ LOS_SwtmrStop(t) \/ LOS_SwtmrDelete(t)

Interrupt == Tick \/ Expire \/ TickEnd
Walk == WalkOn \/ WalkEnd
SwtmrTask == TaskReads \/ TaskFrees \/ HandlerReturns

Next == Call \/ Interrupt \/ Walk \/ SwtmrTask

SwtmrSpec == Init /\ [][Next]_vars
-----------------------------------------------------------------------------
(***************************************************************************)
(* Properties.                                                             *)
(***************************************************************************)

\* Every variable stays in its type: no count runs below 0, where uwCount
\* would wrap to 2^32 - 1 and its timer sleep for weeks.
SwtmrTypeOK ==
  /\ list \in Seq(Timers)
  /\ free \in Seq(Timers)
  /\ taken \subseteq Timers
  /\ state \in [Timers -> {"unused", "created", "ticking"}]
  /\ mode \in [Timers -> Modes]
  /\ interval \in [Timers -> Nat]
  /\ count \in [Timers -> Nat]
  /\ cs \in [in : {"no", "call", "tick"}, timer : Timers \cup {NoTimer},
             pos : Nat \ {0}, rest : Nat]
  /\ pool \in Nat
  /\ queued \in Nat
  /\ hand \in {"wait", "read", "run"}
  /\ left \in [Timers -> Nat]
  /\ behind \in BOOLEAN
  /\ lost \in BOOLEAN

\* The counts, each relative to the timer before, add up to what an own clock
\* would show for each timer, whatever is started, stopped, restarted or
\* expires around it: no timer fires a tick early or late.
CountsAddUp ==
  \A i \in DOMAIN list :
    left[list[i]] = count[list[i]] + (IF i = 1 THEN 0 ELSE left[list[i - 1]])

\* A timer whose time has come does not stay behind in the list: outside the
\* interrupt everything in it is still to come.
NoneOverdue ==
  cs.in = "no" => \A i \in DOMAIN list : left[list[i]] > 0

\* Both lists use pstNext of the control block: a block is in the free list,
\* or in the timer list, or in neither, as its state says, and only once.
\* (Those being created, and the timer being restarted by the tick, are in
\* neither.)
OneLink ==
  /\ \A t \in Timers :
       /\ t \in Range(free) <=> state[t] = "unused" /\ t \notin taken
       /\ t \in Range(list) <=> state[t] = "ticking" /\ cs.timer # t
  /\ \A i, j \in DOMAIN list : list[i] = list[j] => i = j
  /\ \A i, j \in DOMAIN free : free[i] = free[j] => i = j

\* The queue and the pool are long enough for all that one tick can bring: an
\* expiry is dropped only when handlers of an earlier tick were still waiting.
LostOnlyWhenBehind == lost => behind
=============================================================================
