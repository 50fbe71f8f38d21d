---------------------------- MODULE LosMuxProofs ----------------------------
(***************************************************************************)
(* What LosMux keeps for every number of tasks, mutexes and priorities,    *)
(* every nesting depth and every timeout, when there is no time slice.     *)
(* (With one, TickBegin moves a task that has just begun to wait back to   *)
(* the ready queue: LosMux_window.cfg shows what becomes of the mutex.)    *)
(***************************************************************************)
EXTENDS LosMux, LosTaskProofs

MuxRecord == [used : BOOLEAN, count : 0 .. MaxCount,
              owner : Tasks \cup {None}, prio : Priorities \cup {0}]

MuxTypeOK ==
  /\ mux \in [Mutexes -> MuxRecord]
  /\ handle \in [Tasks -> Mutexes \cup {None}]
  /\ held \in [Tasks -> [Mutexes -> Nat]]

\* A mutex that is taken exists and has an owner.
Owned ==
  \A m \in Mutexes :
    mux[m].count > 0 =>
      mux[m].used /\ mux[m].owner \in Tasks /\ mux[m].prio \in Priorities

\* A task in a wait list is inside LOS_MuxPend for that mutex, which somebody
\* else owns.
Waiters ==
  \A m \in Mutexes : \A t \in Range(lists[m]) :
    Inside(t) /\ handle[t] = m /\ mux[m].count > 0 /\ mux[m].owner # t

\* The handle is that of a call under way.
Handles == \A t \in Tasks : handle[t] # None => Inside(t)

MuxInv ==
  /\ Consistent
  /\ FreeIsOut
  /\ MuxTypeOK
  /\ Owned
  /\ Waiters
  /\ Handles

LEMMA InitMux == MuxInit => MuxInv
<1> SUFFICES ASSUME MuxInit PROVE MuxInv
  OBVIOUS
<1>1. Consistent
  BY InitConsistent DEF MuxInit
<1>2. FreeIsOut
  BY DEF MuxInit, Init, FreeIsOut
<1>3. MuxTypeOK /\ Owned /\ Handles
  BY MuxAssumption DEF MuxInit, MuxTypeOK, Owned, Handles, MuxRecord
<1>4. \A m \in Mutexes : lists[m] = <<>>
  BY MuxAssumption, ParamAssumption DEF MuxInit, Init, Lists, Priorities
<1>5. Waiters
  BY <1>4 DEF Waiters, Range
<1> QED BY <1>1, <1>2, <1>3, <1>5 DEF MuxInv

LEMMA TypeFacts ==
  ASSUME MuxInv
  PROVE  /\ status \in [Tasks -> SUBSET Flags] /\ pc \in [Tasks -> Pcs]
         /\ prio \in [Tasks -> Priorities] /\ timer \in [Tasks -> 0 .. MaxTimeout]
         /\ lists \in [Lists -> Seq(Tasks)] /\ run \in Tasks \cup {None}
         /\ Mutexes \subseteq Lists /\ Mutexes = WaitObjects
         /\ Matches(lists, status, prio) /\ Nodes(lists)
         /\ mux \in [Mutexes -> MuxRecord]
         /\ handle \in [Tasks -> Mutexes \cup {None}]
         /\ held \in [Tasks -> [Mutexes -> Nat]]
         /\ \A m \in Mutexes : mux[m].count \in Nat
<1>1. mux \in [Mutexes -> MuxRecord]
  BY DEF MuxInv, MuxTypeOK
<1>2. \A m \in Mutexes : mux[m].count \in Nat
  BY <1>1, MuxAssumption DEF MuxRecord
<1> QED BY <1>1, <1>2, MuxAssumption, ListsAreLists
        DEF MuxInv, Consistent, TypeInv, TypeOK, Matches, MuxTypeOK

\* Who makes a call.
LEMMA CallerFacts ==
  ASSUME MuxInv, NEW t \in Tasks, NEW call, CanCall(t, call)
  PROVE  /\ Running(t) /\ scheduled /\ ~isr.active /\ run = t /\ pc[t] = "app"
         /\ t # Idle /\ "ready" \in status[t]
         /\ status[t] \cap {"unused", "pend"} = {}
         /\ handle[t] = None
         /\ \A w \in WaitObjects : t \notin Range(lists[w])
<1>1. /\ Running(t) /\ scheduled /\ ~isr.active /\ run = t /\ pc[t] = "app"
      /\ t # Idle
  BY DEF CanCall, Running
<1>2. "ready" \in status[t]
  BY <1>1 DEF MuxInv, Consistent, RunReady
<1>3. status[t] \cap {"unused", "pend"} = {}
  BY <1>2 DEF MuxInv, Consistent, States, OneState
<1>4. \A w \in WaitObjects : t \notin Range(lists[w])
  BY <1>3 DEF MuxInv, Consistent, Matches, Fits
<1>5. handle[t] = None
  BY <1>1 DEF MuxInv, Handles, Inside
<1> QED BY <1>1, <1>2, <1>3, <1>4, <1>5

\* A waiting task exists and does not run.
WaitersExist ==
  \A m \in Mutexes : \A t \in Range(lists[m]) :
    t \in Tasks /\ "pend" \in status[t] /\ pc[t] # "none"

LEMMA WaitingIsInside == Consistent /\ FreeIsOut => WaitersExist
<1> SUFFICES ASSUME Consistent, FreeIsOut,
                    NEW m \in Mutexes, NEW t \in Range(lists[m])
             PROVE  t \in Tasks /\ "pend" \in status[t] /\ pc[t] # "none"
  BY DEF WaitersExist
<1>0. m \in WaitObjects
  BY MuxAssumption
<1>1. lists[m] \in Seq(Tasks)
  BY <1>0 DEF Consistent, TypeInv, TypeOK, Lists
<1>2. t \in Tasks
  BY <1>1 DEF Range
<1>3. "pend" \in status[t]
  BY <1>0, <1>2 DEF Consistent, Matches, Fits
<1>4. "unused" \notin status[t]
  BY <1>2, <1>3 DEF Consistent, States, OneState
<1> QED BY <1>2, <1>3, <1>4 DEF FreeIsOut

LEMMA EmptyList ==
  ASSUME NEW S, NEW q \in Seq(S), Range(q) = {}
  PROVE  q = <<>>
<1>1. Len(q) \in Nat /\ DOMAIN q = 1 .. Len(q)
  BY LenProperties
<1>2. Len(q) = 0
  <2>1. \A i \in DOMAIN q : q[i] \in Range(q)
    BY DEF Range
  <2> QED BY <1>1, <2>1
<1> QED BY <1>2, EmptySeq

\* Nobody waits for a mutex that is free.
LEMMA NobodyWaits ==
  ASSUME MuxInv, NEW m \in Mutexes, mux[m].count = 0
  PROVE  lists[m] = <<>>
<1>1. Range(lists[m]) = {}
  BY DEF MuxInv, Waiters
<1>2. lists[m] \in Seq(Tasks)
  BY TypeFacts
<1> QED BY <1>1, <1>2, EmptyList

-----------------------------------------------------------------------------
(***************************************************************************)
(* The steps keep the invariant.                                           *)
(***************************************************************************)
LEMMA ListsShrink ==
  ASSUME MuxInv, ListsLeft, NEW m \in Mutexes
  PROVE  Range(lists'[m]) \subseteq Range(lists[m])
<1>1. PICK n \in Tasks : \/ \A w \in WaitObjects : lists'[w] = lists[w]
                         \/ \A w \in WaitObjects : lists'[w] = Without(lists[w], n)
  BY DEF ListsLeft
<1>2. lists[m] \in Seq(Tasks) /\ IsInjective(lists[m])
  BY TypeFacts DEF Nodes
<1>3. Range(Without(lists[m], n)) = Range(lists[m]) \ {n}
  BY <1>2, WithoutFacts
<1> QED BY <1>1, <1>3, MuxAssumption

LEMMA SchedulerKeeps ==
  ASSUME MuxInv, TimesliceTimeout = 0, SchedulerStep
  PROVE  MuxInv'
<1> USE DEF MuxInv
<1>1. Consistent'
  BY NextConsistent DEF SchedulerStep
<1>2. ListsLeft /\ CallsLeft /\ FreeIsOut'
  BY StepLeaves DEF SchedulerStep
<1>3. MuxTypeOK' /\ Owned'
  <2>1. mux' = mux
    BY DEF SchedulerStep
  <2>2. handle' \in [Tasks -> Mutexes \cup {None}]
    BY TypeFacts DEF SchedulerStep
  <2>3. held' \in [Tasks -> [Mutexes -> Nat]]
    BY TypeFacts DEF SchedulerStep
  <2> QED BY <2>1, <2>2, <2>3 DEF MuxTypeOK, Owned
<1>4. Waiters'
  <2> SUFFICES ASSUME NEW m \in Mutexes, NEW t \in Range(lists'[m])
               PROVE  /\ pc'[t] \in {"pend", "tail"} /\ handle'[t] = m
                      /\ mux'[m].count > 0 /\ mux'[m].owner # t
    BY DEF Waiters, Inside
  <2>1. t \in Range(lists[m])
    BY <1>2, ListsShrink
  <2>2. t \in Tasks /\ pc'[t] # "none"
    <3>1. WaitersExist'
      BY <1>1, <1>2, WaitingIsInside, PTL
    <3> QED BY <3>1 DEF WaitersExist
  <2>3. Inside(t) /\ handle[t] = m /\ mux[m].count > 0 /\ mux[m].owner # t
    BY <2>1 DEF Waiters
  <2>4. pc'[t] \in {"pend", "tail"}
    BY <1>2, <2>2, <2>3 DEF CallsLeft, Inside
  <2> QED BY <2>2, <2>3, <2>4 DEF SchedulerStep
<1>5. Handles'
  <2> SUFFICES ASSUME NEW t \in Tasks, handle'[t] # None
               PROVE  pc'[t] \in {"pend", "tail"}
    BY DEF Handles, Inside
  <2>1. pc'[t] # "none" /\ handle[t] # None
    BY DEF SchedulerStep
  <2>2. Inside(t)
    BY <2>1 DEF Handles
  <2> QED BY <1>2, <2>1, <2>2 DEF CallsLeft, Inside
<1> QED BY <1>1, <1>2, <1>3, <1>4, <1>5

\* Calls that leave the tasks alone: they change a mutex that nobody waits
\* for, or not its owner.
LEMMA MutexKeeps ==
  ASSUME MuxInv, UNCHANGED <<taskVars, handle>>, NEW m \in Mutexes,
         MuxTypeOK', Owned',
         \A n \in Mutexes \ {m} : mux'[n] = mux[n],
         \/ mux[m].count = 0
         \/ mux'[m].count > 0 /\ mux'[m].owner = mux[m].owner
  PROVE  MuxInv'
<1>1. UNCHANGED <<status, prio, lists, timer, run, lock, pc, isr, slice,
                  scheduled, fault, handle>>
  BY DEF taskVars
<1>2. Consistent'
  BY <1>1 DEF MuxInv, Consistent, TypeInv, TypeOK, Matches, States, OneState,
    NoTaskLost, Timers, TimerMatchesFlags, DueInv, RunReady
<1>3. FreeIsOut' /\ Handles'
  BY <1>1 DEF MuxInv, FreeIsOut, Handles, Inside
<1>4. mux[m].count = 0 => Range(lists[m]) = {}
  BY DEF MuxInv, Waiters
<1>5. Waiters'
  BY <1>1, <1>4 DEF MuxInv, Waiters, Inside
<1> QED BY <1>2, <1>3, <1>5 DEF MuxInv

LEMMA StutterKeeps ==
  ASSUME MuxInv, UNCHANGED vars
  PROVE  MuxInv'
<1>1. UNCHANGED <<status, prio, lists, timer, run, lock, pc, isr, slice,
                  scheduled, fault, mux, handle, held>>
  BY DEF vars, taskVars, muxVars
<1>2. Consistent'
  BY <1>1 DEF MuxInv, Consistent, TypeInv, TypeOK, Matches, States, OneState,
    NoTaskLost, Timers, TimerMatchesFlags, DueInv, RunReady
<1>3. FreeIsOut' /\ Handles' /\ MuxTypeOK' /\ Owned'
  BY <1>1 DEF MuxInv, FreeIsOut, Handles, Inside, MuxTypeOK, Owned
<1>4. Waiters'
  BY <1>1 DEF MuxInv, Waiters, Inside
<1> QED BY <1>2, <1>3, <1>4 DEF MuxInv

\* osTaskPriModify, wherever the other tasks are.
LEMMA ModifyMatches ==
  ASSUME NEW q, NEW st, NEW pr, Matches(q, st, pr),
         NEW o \in Tasks, NEW p \in Priorities, st[o] = status[o],
         "ready" \in st[o] => "pend" \notin st[o]
  PROVE  /\ Matches(Requeue(q, o, p), st, [pr EXCEPT ![o] = p])
         /\ \A w \in WaitObjects : Requeue(q, o, p)[w] = q[w]
<1>1. Matches(Requeue(q, o, p), st, [pr EXCEPT ![o] = p])
  <2>1. CASE "ready" \in status[o]
    <3>1. Matches(Enqueue(Unlink(q, o), o, p), st, [pr EXCEPT ![o] = p])
      BY <2>1, MoveInQueue
    <3> QED BY <2>1, <3>1 DEF Requeue
  <2>2. CASE "ready" \notin status[o]
    <3>1. Matches(q, st, [pr EXCEPT ![o] = p])
      BY <2>2, ChangePrio
    <3> QED BY <2>2, <3>1 DEF Requeue
  <2> QED BY <2>1, <2>2
<1>2. \A w \in WaitObjects : Requeue(q, o, p)[w] = q[w]
  <2>1. CASE "ready" \in status[o]
    <3>1. q \in [Lists -> Seq(Tasks)]
      BY DEF Matches, Nodes
    <3>2. Unlink(q, o) \in [Lists -> Seq(Tasks)]
      BY <3>1, UnlinkFacts
    <3>3. \A r \in [Lists -> Seq(Tasks)] : \A w \in WaitObjects :
            Enqueue(r, o, p)[w] = r[w]
      BY QueuesOnly
    <3>4. \A w \in WaitObjects : o \notin Range(q[w])
      BY <2>1 DEF Matches, Fits
    <3>5. \A w \in WaitObjects : Unlink(q, o)[w] = q[w]
      BY <3>4, ListsAreLists DEF Unlink, Without
    <3>6. Requeue(q, o, p) = Enqueue(Unlink(q, o), o, p)
      BY <2>1 DEF Requeue
    <3> QED BY <3>2, <3>3, <3>5, <3>6
  <2>2. CASE "ready" \notin status[o]
    BY <2>2 DEF Requeue
  <2> QED BY <2>1, <2>2
<1> QED BY <1>1, <1>2

\* What MuxBlock leaves of the queues before the caller joins the wait list.
LentLists(t, m) ==
  IF Lends(t, mux[m].owner)
  THEN Requeue(Unlink(lists, t), mux[m].owner, prio[t])
  ELSE Unlink(lists, t)
LentPrio(t, m) ==
  IF Lends(t, mux[m].owner) THEN [prio EXCEPT ![mux[m].owner] = prio[t]]
  ELSE prio

LEMMA LendingMatches ==
  ASSUME MuxInv, NEW t \in Tasks, NEW m \in Mutexes, CanCall(t, "mux_pend"),
         mux[m].count > 0, mux[m].owner # t
  PROVE  /\ Matches(LentLists(t, m),
                    [status EXCEPT ![t] = status[t] \ {"ready"}], LentPrio(t, m))
         /\ \A w \in WaitObjects : LentLists(t, m)[w] = lists[w]
         /\ LentPrio(t, m) \in [Tasks -> Priorities]
<1> DEFINE g == status[t] \ {"ready"}
           st1 == [status EXCEPT ![t] = g]
           q1 == Unlink(lists, t)
           o == mux[m].owner
<1>t. /\ status \in [Tasks -> SUBSET Flags] /\ prio \in [Tasks -> Priorities]
      /\ Mutexes = WaitObjects /\ Matches(lists, status, prio)
  BY TypeFacts
<1>c. "ready" \in status[t] /\ "pend" \notin status[t]
  BY CallerFacts
<1>g. g \in SUBSET Flags /\ g \cap {"ready", "pend"} = {}
  BY <1>t, <1>c
<1>1. Matches(q1, st1, prio)
  BY <1>t, <1>g, LeaveList
<1>2. \A w \in WaitObjects : q1[w] = lists[w]
  BY <1>t, <1>c, UnlinkReady
<1>3. o \in Tasks /\ o # t
  BY DEF MuxInv, Owned
<1> HIDE DEF o
<1>4. st1[o] = status[o]
  BY <1>3, <1>t
<1>5. "ready" \in status[o] => "pend" \notin status[o]
  BY <1>3 DEF MuxInv, Consistent, States, OneState
<1>p. prio[t] \in Priorities
  BY <1>t
<1> HIDE DEF q1, st1, g
<1>6. /\ Matches(Requeue(q1, o, prio[t]), st1, [prio EXCEPT ![o] = prio[t]])
      /\ \A w \in WaitObjects : Requeue(q1, o, prio[t])[w] = q1[w]
  BY <1>1, <1>3, <1>4, <1>5, <1>p, ModifyMatches
<1>7. /\ LentLists(t, m) = IF Lends(t, o) THEN Requeue(q1, o, prio[t]) ELSE q1
      /\ LentPrio(t, m) = IF Lends(t, o) THEN [prio EXCEPT ![o] = prio[t]] ELSE prio
  BY DEF LentLists, LentPrio, o, q1
<1>8. /\ Matches(LentLists(t, m), st1, LentPrio(t, m))
      /\ \A w \in WaitObjects : LentLists(t, m)[w] = lists[w]
  BY <1>1, <1>2, <1>6, <1>7
<1>9. LentPrio(t, m) \in [Tasks -> Priorities]
  BY <1>8 DEF Matches
<1> QED BY <1>8, <1>9 DEF st1, g

LEMMA BlockKeeps ==
  ASSUME MuxInv, NEW t \in Tasks, NEW m \in Mutexes, NEW k \in MuxTimeouts,
         MuxBlock(t, m, k)
  PROVE  /\ MuxInv'
         /\ lists'[m] = Append(lists[m], t)
         /\ \A n \in Mutexes \ {m} : lists'[n] = lists[n]
<1> DEFINE f == (status[t] \ {"ready", "timeout"}) \cup {"pend"}
                  \cup (IF k = LOS_WAIT_FOREVER THEN {} ELSE {"timeout"})
           q == LentLists(t, m)
           g == status[t] \ {"ready"}
           st1 == [status EXCEPT ![t] = g]
<1>t. /\ status \in [Tasks -> SUBSET Flags] /\ pc \in [Tasks -> Pcs]
      /\ handle \in [Tasks -> Mutexes \cup {None}]
      /\ lists \in [Lists -> Seq(Tasks)]
      /\ Mutexes \subseteq Lists /\ Mutexes = WaitObjects
      /\ Matches(lists, status, prio) /\ Nodes(lists)
  BY TypeFacts
<1>b. /\ CanCall(t, "mux_pend") /\ mux[m].used /\ mux[m].count > 0
      /\ mux[m].owner # t /\ lock = 0
  BY DEF MuxBlock
<1>c. /\ Running(t) /\ run = t /\ pc[t] = "app"
      /\ "ready" \in status[t] /\ status[t] \cap {"unused", "pend"} = {}
      /\ \A w \in WaitObjects : t \notin Range(lists[w])
  BY <1>b, CallerFacts
<1>f. f \in SUBSET Flags /\ "ready" \notin f /\ "pend" \in f /\ "unused" \notin f
  BY <1>t, <1>c DEF Flags
<1>k. k \in 1 .. LOS_WAIT_FOREVER
  BY MuxAssumption
<1>0. /\ status' = [status EXCEPT ![t] = f]
      /\ lists' = Enqueue(q, t, m) /\ prio' = LentPrio(t, m)
      /\ pc' = [pc EXCEPT ![t] = "pend"]
      /\ handle' = [handle EXCEPT ![t] = m] /\ mux' = mux /\ held' = held
  BY DEF MuxBlock, LentLists, LentPrio
<1>1. /\ Matches(q, st1, LentPrio(t, m))
      /\ \A w \in WaitObjects : q[w] = lists[w]
  BY <1>b, LendingMatches
<1> HIDE DEF q
<1>2. /\ lists'[m] = Append(lists[m], t)
      /\ \A n \in Mutexes \ {m} : lists'[n] = lists[n]
  <2>1. q \in [Lists -> Seq(Tasks)]
    BY <1>1 DEF Matches, Nodes
  <2> QED BY <1>0, <1>1, <1>t, <2>1 DEF Enqueue
<1>3. Matches(lists', status', prio')
  <2>2. st1[t] \cap {"ready", "pend"} = {}
    BY <1>t, <1>c
  <2>3. \A l \in Lists : t \notin Range(q[l])
    BY <1>1, <2>2, NotInList
  <2>4. Nodes(q)
    BY <1>1 DEF Matches
  <2>c. m \in Lists
    BY <1>t
  <2> HIDE DEF f
  <2>5. /\ Nodes(lists')
        /\ Range(lists'[m]) = Range(q[m]) \cup {t}
        /\ \A l \in Lists \ {m} : Range(lists'[l]) = Range(q[l])
    <3>1. Nodes(Enqueue(q, t, m))
      BY <2>c, <2>3, <2>4, EnqueueFacts
    <3>2. Range(Enqueue(q, t, m)[m]) = Range(q[m]) \cup {t}
      BY <2>c, <2>3, <2>4, EnqueueFacts
    <3>3. \A l \in Lists \ {m} : Range(Enqueue(q, t, m)[l]) = Range(q[l])
      BY <2>c, <2>3, <2>4, EnqueueFacts
    <3> QED BY <1>0, <3>1, <3>2, <3>3
  <2>6. [st1 EXCEPT ![t] = f] = status'
    <3>1. status' = [status EXCEPT ![t] = f]
      BY <1>0
    <3> HIDE DEF g
    <3> QED BY <3>1
  <2> HIDE DEF st1
  <2>7. Matches(lists', [st1 EXCEPT ![t] = f], LentPrio(t, m))
    BY <1>1, <2>2, <2>5, <1>f, <1>t, EnterWait
  <2> QED BY <1>0, <2>6, <2>7
<1>4. Consistent'
  <2>1. lists' \in [Lists -> Seq(Tasks)] /\ prio' \in [Tasks -> Priorities]
    BY <1>3 DEF Matches, Nodes
  <2>2. /\ timer' = IF k = LOS_WAIT_FOREVER THEN timer
                    ELSE [timer EXCEPT ![t] = k]
        /\ UNCHANGED <<run, lock, isr, slice, scheduled, fault>>
    BY DEF MuxBlock
  <2> QED BY <1>0, <1>3, <1>b, <1>c, <1>k, <2>1, <2>2, BlockConsistent DEF MuxInv
<1> HIDE DEF f
<1>5. MuxTypeOK' /\ Owned'
  BY <1>0 DEF MuxInv, MuxTypeOK, Owned
<1>6. FreeIsOut'
  BY <1>0, <1>t, <1>c, <1>f DEF MuxInv, FreeIsOut
<1>7. Waiters'
  <2>1. Range(Append(lists[m], t)) = Range(lists[m]) \cup {t}
    BY <1>t, AppendFacts
  <2>2. ASSUME NEW n \in Mutexes, NEW u \in Range(lists'[n])
        PROVE  /\ pc'[u] \in {"pend", "tail"} /\ handle'[u] = n
               /\ mux'[n].count > 0 /\ mux'[n].owner # u
    <3>1. CASE u = t
      <4>1. n = m
        BY <1>2, <1>c, <1>t, <3>1, <2>2
      <4> QED BY <1>0, <1>b, <1>t, <3>1, <4>1
    <3>2. CASE u # t
      <4>1. u \in Range(lists[n])
        BY <1>2, <2>1, <2>2, <3>2
      <4>2. u \in Tasks
        BY <4>1, <1>t DEF Range
      <4>3. Inside(u) /\ handle[u] = n /\ mux[n].count > 0 /\ mux[n].owner # u
        BY <4>1 DEF MuxInv, Waiters
      <4> QED BY <1>0, <1>t, <3>2, <4>2, <4>3 DEF Inside
    <3> QED BY <3>1, <3>2
  <2> QED BY <2>2 DEF Waiters, Inside
<1>8. Handles'
  BY <1>0, <1>t DEF MuxInv, Handles, Inside
<1> QED BY <1>2, <1>4, <1>5, <1>6, <1>7, <1>8 DEF MuxInv

LEMMA ReturnKeeps ==
  ASSUME MuxInv, NEW t \in Tasks, MuxReturn(t)
  PROVE  MuxInv'
<1>t. /\ status \in [Tasks -> SUBSET Flags] /\ pc \in [Tasks -> Pcs]
      /\ handle \in [Tasks -> Mutexes \cup {None}]
      /\ held \in [Tasks -> [Mutexes -> Nat]]
  BY TypeFacts
<1>0. /\ status' = [status EXCEPT ![t] = status[t] \ {"timeout"}]
      /\ pc' = [pc EXCEPT ![t] = "app"]
      /\ handle' = [handle EXCEPT ![t] = None]
      /\ handle[t] \in Mutexes /\ pc[t] = "tail"
      /\ UNCHANGED <<lists, mux>>
  BY DEF MuxReturn
<1>1. Consistent'
  BY <1>0, ReturnConsistent DEF MuxReturn, MuxInv
<1>2. "pend" \notin status[t]
  BY DEF MuxReturn, Running, MuxInv, Consistent, RunReady, States, OneState
<1>3. FreeIsOut'
  BY <1>0, <1>t DEF MuxInv, FreeIsOut
<1>4. MuxTypeOK' /\ Owned'
  <2>1. held' \in [Tasks -> [Mutexes -> Nat]]
    <3>1. PICK m \in Mutexes : m = handle[t]
      BY <1>0
    <3>2. held' = IF Timed(t) THEN held
                  ELSE [held EXCEPT ![t] = [held[t] EXCEPT ![m] = held[t][m] + 1]]
      BY <3>1 DEF MuxReturn
    <3>3. held[t] \in [Mutexes -> Nat] /\ held[t][m] + 1 \in Nat
      BY <1>t
    <3>4. [held[t] EXCEPT ![m] = held[t][m] + 1] \in [Mutexes -> Nat]
      BY <3>3
    <3> QED BY <1>t, <3>2, <3>4
  <2>2. handle' \in [Tasks -> Mutexes \cup {None}]
    BY <1>0, <1>t
  <2> QED BY <2>1, <2>2, <1>0 DEF MuxInv, MuxTypeOK, Owned
<1>5. Waiters'
  <2>1. ASSUME NEW m \in Mutexes, NEW u \in Range(lists[m])
        PROVE  u \in Tasks \ {t}
    BY <1>2, WaitingIsInside DEF MuxInv, WaitersExist
  <2> QED BY <1>0, <1>t, <2>1 DEF MuxInv, Waiters, Inside
<1>6. Handles'
  BY <1>0, <1>t DEF MuxInv, Handles, Inside
<1> QED BY <1>1, <1>3, <1>4, <1>5, <1>6 DEF MuxInv

-----------------------------------------------------------------------------
\* Some fields of a control block change, the others stay.
LEMMA ThreeFields ==
  ASSUME NEW r \in MuxRecord,
         NEW c, NEW o, NEW p
  PROVE  [r EXCEPT !.count = c, !.owner = o, !.prio = p]
           = [used |-> r.used, count |-> c, owner |-> o, prio |-> p]
<1> DEFINE r1 == [used |-> r.used, count |-> c, owner |-> r.owner, prio |-> r.prio]
           r2 == [used |-> r.used, count |-> c, owner |-> o, prio |-> r.prio]
<1>1. [r EXCEPT !.count = c] = r1
  BY DEF MuxRecord
<1>2. [r1 EXCEPT !.owner = o] = r2
  OBVIOUS
<1>3. [r2 EXCEPT !.prio = p]
        = [used |-> r.used, count |-> c, owner |-> o, prio |-> p]
  OBVIOUS
<1>4. [r EXCEPT !.count = c, !.owner = o, !.prio = p]
        = [[[r EXCEPT !.count = c] EXCEPT !.owner = o] EXCEPT !.prio = p]
  OBVIOUS
<1> QED BY <1>1, <1>2, <1>3, <1>4

LEMMA MuxFields ==
  ASSUME MuxInv, NEW m \in Mutexes, NEW c
  PROVE  /\ [mux EXCEPT ![m].count = c]
              = [mux EXCEPT ![m] = [used |-> mux[m].used, count |-> c,
                                    owner |-> mux[m].owner, prio |-> mux[m].prio]]
         /\ [mux EXCEPT ![m].used = c]
              = [mux EXCEPT ![m] = [used |-> c, count |-> mux[m].count,
                                    owner |-> mux[m].owner, prio |-> mux[m].prio]]
<1>1. mux[m] \in MuxRecord
  BY TypeFacts
<1>2. /\ [mux[m] EXCEPT !.count = c]
           = [used |-> mux[m].used, count |-> c,
              owner |-> mux[m].owner, prio |-> mux[m].prio]
      /\ [mux[m] EXCEPT !.used = c]
           = [used |-> c, count |-> mux[m].count,
              owner |-> mux[m].owner, prio |-> mux[m].prio]
  BY <1>1 DEF MuxRecord
<1> QED BY <1>2

\* A mutex is taken by t, or given to it.
LEMMA OwnerFields ==
  ASSUME MuxInv, NEW m \in Mutexes, NEW t,
         mux' = [mux EXCEPT ![m].count = 1, ![m].owner = t, ![m].prio = prio[t]]
  PROVE  mux' = [mux EXCEPT ![m] = [used |-> mux[m].used, count |-> 1,
                                    owner |-> t, prio |-> prio[t]]]
<1>1. mux[m] \in MuxRecord
  BY TypeFacts
<1>2. [mux[m] EXCEPT !.count = 1, !.owner = t, !.prio = prio[t]]
        = [used |-> mux[m].used, count |-> 1, owner |-> t, prio |-> prio[t]]
  BY <1>1, ThreeFields
<1> QED BY <1>2

\* How the calls change the count of a task.
LEMMA HeldFields ==
  ASSUME MuxInv, NEW t \in Tasks, NEW m \in Mutexes
  PROVE  /\ Posted(t, m)
              = [held EXCEPT ![t] = [held[t] EXCEPT ![m] =
                   IF held[t][m] > 0 THEN held[t][m] - 1 ELSE 0]]
         /\ [held EXCEPT ![t][m] = @ + 1]
              = [held EXCEPT ![t] = [held[t] EXCEPT ![m] = held[t][m] + 1]]
         /\ Posted(t, m) \in [Tasks -> [Mutexes -> Nat]]
         /\ [held EXCEPT ![t][m] = @ + 1] \in [Tasks -> [Mutexes -> Nat]]
<1>1. held \in [Tasks -> [Mutexes -> Nat]]
  BY TypeFacts
<1>2. held[t] \in [Mutexes -> Nat] /\ held[t][m] \in Nat
  BY <1>1
<1>3. /\ (IF held[t][m] > 0 THEN held[t][m] - 1 ELSE 0) \in Nat
      /\ held[t][m] + 1 \in Nat
  BY <1>2
<1>4. /\ [held[t] EXCEPT ![m] = IF held[t][m] > 0 THEN held[t][m] - 1 ELSE 0]
           \in [Mutexes -> Nat]
      /\ [held[t] EXCEPT ![m] = held[t][m] + 1] \in [Mutexes -> Nat]
  BY <1>2, <1>3
<1>5. /\ Posted(t, m)
           = [held EXCEPT ![t] = [held[t] EXCEPT ![m] =
                IF held[t][m] > 0 THEN held[t][m] - 1 ELSE 0]]
      /\ [held EXCEPT ![t][m] = @ + 1]
           = [held EXCEPT ![t] = [held[t] EXCEPT ![m] = held[t][m] + 1]]
  BY DEF Posted
<1> QED BY <1>1, <1>4, <1>5

LEMMA CreateKeeps ==
  ASSUME MuxInv, NEW m \in Mutexes, LOS_MuxCreate(m)
  PROVE  MuxInv'
<1>0. /\ ~mux[m].used /\ UNCHANGED <<taskVars, handle, held>>
      /\ mux' = [mux EXCEPT ![m] =
                   [used |-> TRUE, count |-> 0, owner |-> None, prio |-> 0]]
  BY DEF LOS_MuxCreate
<1>1. mux[m].count = 0
  BY <1>0, TypeFacts DEF MuxInv, Owned
<1>2. MuxTypeOK' /\ Owned'
  BY <1>0, MuxAssumption DEF MuxInv, MuxTypeOK, Owned, MuxRecord
<1>3. \A n \in Mutexes \ {m} : mux'[n] = mux[n]
  BY <1>0, TypeFacts
<1> QED BY <1>0, <1>1, <1>2, <1>3, MutexKeeps

\* LOS_MuxDelete, LOS_MuxPend and LOS_MuxPost where they do not wait, serve or
\* change a priority.
LEMMA CountKeeps ==
  ASSUME MuxInv, NEW m \in Mutexes, UNCHANGED <<taskVars, handle>>,
         NEW u \in BOOLEAN, NEW c \in 0 .. MaxCount, NEW o \in Tasks \cup {None},
         NEW p \in Priorities \cup {0},
         mux' = [mux EXCEPT ![m] = [used |-> u, count |-> c, owner |-> o,
                                    prio |-> p]],
         held' \in [Tasks -> [Mutexes -> Nat]],
         c > 0 => u /\ o \in Tasks /\ p \in Priorities,
         mux[m].count = 0 \/ (c > 0 /\ o = mux[m].owner)
  PROVE  MuxInv'
<1>1. mux' \in [Mutexes -> MuxRecord]
  BY TypeFacts DEF MuxRecord
<1>2. MuxTypeOK'
  BY <1>1, TypeFacts DEF MuxTypeOK
<1>3. /\ \A n \in Mutexes \ {m} : mux'[n] = mux[n]
      /\ mux'[m].count = c /\ mux'[m].owner = o /\ mux'[m].prio = p
      /\ mux'[m].used = u
  BY TypeFacts
<1>4. Owned'
  BY <1>3 DEF MuxInv, Owned
<1> QED BY <1>2, <1>3, <1>4, MutexKeeps

LEMMA DeleteKeeps ==
  ASSUME MuxInv, NEW t \in Tasks, NEW m \in Mutexes, LOS_MuxDelete(t, m)
  PROVE  /\ MuxInv' /\ UNCHANGED <<taskVars, handle, held>>
         /\ mux[m].count = 0
         /\ mux' = [mux EXCEPT ![m] =
                      [used |-> FALSE, count |-> mux[m].count,
                       owner |-> mux[m].owner, prio |-> mux[m].prio]]
<1>0. /\ ~(mux[m].count > 0) /\ UNCHANGED <<taskVars, handle, held>>
      /\ mux' = [mux EXCEPT ![m].used = FALSE]
  BY DEF LOS_MuxDelete, MuxBusy
<1>1. mux[m].count = 0
  BY <1>0, TypeFacts
<1>2. mux' = [mux EXCEPT ![m] = [used |-> FALSE, count |-> mux[m].count,
                       owner |-> mux[m].owner, prio |-> mux[m].prio]]
  BY <1>0, MuxFields
<1>3. /\ mux[m].owner \in Tasks \cup {None} /\ mux[m].prio \in Priorities \cup {0}
      /\ mux[m].count \in 0 .. MaxCount
  BY TypeFacts DEF MuxRecord
<1>4. held' \in [Tasks -> [Mutexes -> Nat]]
  BY <1>0, TypeFacts
<1>5. MuxInv'
  BY <1>0, <1>1, <1>2, <1>3, <1>4, CountKeeps
<1> QED BY <1>0, <1>1, <1>2, <1>5

LEMMA TakeKeeps ==
  ASSUME MuxInv, NEW t \in Tasks, NEW m \in Mutexes, MuxTake(t, m)
  PROVE  /\ MuxInv'
         /\ mux' = [mux EXCEPT ![m] = [used |-> mux[m].used, count |-> 1,
                                       owner |-> t, prio |-> prio[t]]]
<1>0. /\ mux[m].used /\ mux[m].count = 0 /\ UNCHANGED <<taskVars, handle>>
      /\ mux' = [mux EXCEPT ![m].count = 1, ![m].owner = t, ![m].prio = prio[t]]
      /\ held' = [held EXCEPT ![t][m] = @ + 1]
  BY DEF MuxTake
<1>1. mux' = [mux EXCEPT ![m] = [used |-> mux[m].used, count |-> 1,
                                 owner |-> t, prio |-> prio[t]]]
  BY <1>0, OwnerFields
<1>2. prio[t] \in Priorities /\ 1 \in 0 .. MaxCount /\ mux[m].used \in BOOLEAN
  BY TypeFacts, MuxAssumption DEF MuxRecord
<1>3. held' \in [Tasks -> [Mutexes -> Nat]]
  BY <1>0, HeldFields
<1>4. MuxInv'
  BY <1>0, <1>1, <1>2, <1>3, CountKeeps
<1> QED BY <1>1, <1>4

\* The owner enters again, or leaves and still owns the mutex.
LEMMA NestKeeps ==
  ASSUME MuxInv, NEW t \in Tasks, NEW m \in Mutexes, NEW c,
         \/ MuxReenter(t, m) /\ c = mux[m].count + 1
         \/ MuxUnwind(t, m) /\ c = mux[m].count - 1
  PROVE  /\ MuxInv' /\ c > 0
         /\ mux' = [mux EXCEPT ![m] =
                      [used |-> mux[m].used, count |-> c,
                       owner |-> mux[m].owner, prio |-> mux[m].prio]]
<1>t. /\ mux[m].count \in 0 .. MaxCount /\ MaxCount \in Nat
      /\ mux[m].owner \in Tasks \cup {None} /\ mux[m].prio \in Priorities \cup {0}
  BY TypeFacts, MuxAssumption DEF MuxRecord
<1>0. /\ mux[m].count > 0 /\ c \in 1 .. MaxCount
      /\ UNCHANGED <<taskVars, handle>>
      /\ mux' = [mux EXCEPT ![m].count = c]
  BY <1>t DEF MuxReenter, MuxUnwind, CanPost
<1>1. mux' = [mux EXCEPT ![m] = [used |-> mux[m].used, count |-> c,
                       owner |-> mux[m].owner, prio |-> mux[m].prio]]
  BY <1>0, MuxFields
<1>2. mux[m].used /\ mux[m].owner \in Tasks /\ mux[m].prio \in Priorities
  BY <1>0 DEF MuxInv, Owned
<1>3. held' \in [Tasks -> [Mutexes -> Nat]]
  <2>1. held' = Posted(t, m) \/ held' = [held EXCEPT ![t][m] = @ + 1]
    BY DEF MuxReenter, MuxUnwind
  <2>2. /\ Posted(t, m) \in [Tasks -> [Mutexes -> Nat]]
        /\ [held EXCEPT ![t][m] = @ + 1] \in [Tasks -> [Mutexes -> Nat]]
    BY HeldFields
  <2> QED BY <2>1, <2>2, Zenon
<1>4. c \in 0 .. MaxCount /\ c > 0
  BY <1>0, <1>t
<1>5. MuxInv'
  <2>1. PICK u \in BOOLEAN, o \in Tasks \cup {None}, p \in Priorities \cup {0} :
           u = mux[m].used /\ o = mux[m].owner /\ p = mux[m].prio
    BY TypeFacts DEF MuxRecord
  <2>2. mux' = [mux EXCEPT ![m] = [used |-> u, count |-> c, owner |-> o,
                                   prio |-> p]]
    BY <1>1, <2>1
  <2> QED BY <1>0, <1>2, <1>3, <1>4, <2>1, <2>2, CountKeeps
<1> QED BY <1>1, <1>4, <1>5

\* The owner is back at the priority it had.
LEMMA RestoredMatches ==
  ASSUME MuxInv, NEW t \in Tasks, NEW m \in Mutexes, CanPost(t, m)
  PROVE  /\ Matches(RestoredLists(t, m), status, RestoredPrio(t, m))
         /\ \A w \in WaitObjects : RestoredLists(t, m)[w] = lists[w]
         /\ \A u \in Tasks \ {t} : RestoredPrio(t, m)[u] = prio[u]
<1>t. Matches(lists, status, prio) /\ prio \in [Tasks -> Priorities]
  BY TypeFacts
<1>1. mux[m].prio \in Priorities
  BY DEF CanPost, MuxInv, Owned
<1>2. "ready" \in status[t] => "pend" \notin status[t]
  BY DEF MuxInv, Consistent, States, OneState
<1>3. /\ Matches(Requeue(lists, t, mux[m].prio), status,
                 [prio EXCEPT ![t] = mux[m].prio])
      /\ \A w \in WaitObjects : Requeue(lists, t, mux[m].prio)[w] = lists[w]
  <2>1. PICK p \in Priorities : p = mux[m].prio
    BY <1>1
  <2>2. /\ Matches(Requeue(lists, t, p), status, [prio EXCEPT ![t] = p])
        /\ \A w \in WaitObjects : Requeue(lists, t, p)[w] = lists[w]
    BY <1>t, <1>2, ModifyMatches
  <2> QED BY <2>1, <2>2
<1>4. CASE prio[t] # mux[m].prio
  BY <1>t, <1>3, <1>4 DEF RestoredLists, RestoredPrio
<1>5. CASE prio[t] = mux[m].prio
  <2>1. RestoredPrio(t, m) = prio
    BY <1>t, <1>5 DEF RestoredPrio
  <2> QED BY <1>t, <1>5, <2>1 DEF RestoredLists
<1> QED BY <1>4, <1>5

LEMMA ReleaseKeeps ==
  ASSUME MuxInv, NEW t \in Tasks, NEW m \in Mutexes, MuxRelease(t, m)
  PROVE  /\ MuxInv'
         /\ \A n \in Mutexes : lists'[n] = lists[n]
         /\ mux' = [mux EXCEPT ![m] =
                      [used |-> mux[m].used, count |-> 0,
                       owner |-> mux[m].owner, prio |-> mux[m].prio]]
<1>t. /\ status \in [Tasks -> SUBSET Flags] /\ pc \in [Tasks -> Pcs]
      /\ timer \in [Tasks -> 0 .. MaxTimeout]
      /\ mux \in [Mutexes -> MuxRecord] /\ Mutexes = WaitObjects
  BY TypeFacts
<1>0. /\ CanPost(t, m) /\ mux[m].count = 1 /\ lists[m] = <<>>
      /\ prio' = RestoredPrio(t, m) /\ lists' = RestoredLists(t, m)
      /\ mux' = [mux EXCEPT ![m].count = 0] /\ held' = Posted(t, m)
      /\ UNCHANGED <<status, timer, run, lock, pc, isr, slice, scheduled, fault,
                     handle>>
  BY DEF MuxRelease
<1>c. scheduled /\ ~isr.active
  BY <1>0, CallerFacts DEF CanPost
<1>1. /\ Matches(lists', status', prio')
      /\ \A n \in Mutexes : lists'[n] = lists[n]
  BY <1>0, <1>t, RestoredMatches
<1>2. mux' = [mux EXCEPT ![m] = [used |-> mux[m].used, count |-> 0,
                       owner |-> mux[m].owner, prio |-> mux[m].prio]]
  BY <1>0, MuxFields
<1>3. Consistent'
  <2>1. lists' \in [Lists -> Seq(Tasks)] /\ prio' \in [Tasks -> Priorities]
    BY <1>1 DEF Matches, Nodes
  <2>2. WaitsEnd({})
    BY <1>0, <1>t DEF WaitsEnd
  <2>3. Consistent
    BY DEF MuxInv
  <2> QED BY <1>0, <1>1, <1>c, <2>1, <2>2, <2>3, ServeConsistent
<1>4. MuxTypeOK'
  <2>1. mux' \in [Mutexes -> MuxRecord]
    BY <1>2, <1>t, MuxAssumption DEF MuxRecord
  <2>2. held' \in [Tasks -> [Mutexes -> Nat]] /\ handle' = handle
    BY <1>0, HeldFields
  <2> QED BY <2>1, <2>2 DEF MuxInv, MuxTypeOK
<1>5. /\ \A n \in Mutexes \ {m} : mux'[n] = mux[n]
      /\ mux'[m].count = 0
  BY <1>2, <1>t
<1>6. Owned'
  BY <1>5 DEF MuxInv, Owned
<1>7. Waiters'
  <2>1. Range(lists'[m]) = {}
    BY <1>0, <1>1 DEF Range
  <2>2. \A n \in Mutexes \ {m} : Range(lists'[n]) = Range(lists[n])
    BY <1>1
  <2> QED BY <1>0, <1>5, <2>1, <2>2 DEF MuxInv, Waiters, Inside
<1>8. FreeIsOut' /\ Handles'
  BY <1>0 DEF MuxInv, FreeIsOut, Handles, Inside
<1> QED BY <1>1, <1>2, <1>3, <1>4, <1>6, <1>7, <1>8 DEF MuxInv

LEMMA HandOverKeeps ==
  ASSUME MuxInv, NEW t \in Tasks, NEW m \in Mutexes, MuxHandOver(t, m)
  PROVE  /\ MuxInv'
         /\ FirstWaiter(m) \in Range(lists[m]) /\ FirstWaiter(m) \in Tasks \ {t}
         /\ lists'[m] = Tail(lists[m])
         /\ \A n \in Mutexes \ {m} : lists'[n] = lists[n]
         /\ mux' = [mux EXCEPT ![m] =
                      [used |-> mux[m].used, count |-> 1,
                       owner |-> FirstWaiter(m), prio |-> prio[FirstWaiter(m)]]]
         /\ status'[FirstWaiter(m)] \cap {"pend", "timeout"} = {}
         /\ \A u \in Tasks \ {FirstWaiter(m)} : status'[u] = status[u]
<1> DEFINE n == FirstWaiter(m)
           f == (status[n] \ {"pend", "timeout"})
                  \cup (IF "suspend" \in status[n] THEN {} ELSE {"ready"})
<1>t. /\ status \in [Tasks -> SUBSET Flags] /\ pc \in [Tasks -> Pcs]
      /\ prio \in [Tasks -> Priorities] /\ timer \in [Tasks -> 0 .. MaxTimeout]
      /\ lists \in [Lists -> Seq(Tasks)] /\ run \in Tasks \cup {None}
      /\ Mutexes \subseteq Lists /\ Mutexes = WaitObjects
      /\ Matches(lists, status, prio) /\ Nodes(lists)
      /\ mux \in [Mutexes -> MuxRecord]
  BY TypeFacts
<1>0. CanPost(t, m) /\ lists[m] # <<>> /\ mux[m].owner = t
  BY DEF MuxHandOver, CanPost
<1>c. /\ Running(t) /\ run = t /\ scheduled /\ ~isr.active /\ pc[t] = "app"
      /\ "ready" \in status[t]
  BY <1>0, CallerFacts DEF CanPost
<1>1. lists[m] \in Seq(Tasks) /\ IsInjective(lists[m])
  BY <1>t DEF Nodes
<1>2. n \in Range(lists[m]) /\ Without(lists[m], n) = Tail(lists[m])
  BY <1>0, <1>1, HeadLeaves DEF FirstWaiter
<1>3. n \in Tasks
  BY <1>1, <1>2 DEF Range
<1>4. "pend" \in status[n]
  BY <1>2, <1>3, <1>t DEF Matches, Fits
<1>5. status[n] \cap {"unused", "ready", "delay"} = {}
  BY <1>3, <1>4 DEF MuxInv, Consistent, States, OneState
<1>n. n # t
  BY <1>5, <1>c
<1>6. /\ lists' = Wake(RestoredLists(t, m), n) /\ prio' = RestoredPrio(t, m)
      /\ status' = [status EXCEPT ![n] = f]
      /\ timer' = IF "timeout" \in status[n] THEN [timer EXCEPT ![n] = 0] ELSE timer
      /\ mux' = [mux EXCEPT ![m].count = 1, ![m].owner = n, ![m].prio = prio[n]]
      /\ held' = Posted(t, m) /\ pc' = [pc EXCEPT ![t] = "sched"]
      /\ UNCHANGED <<run, lock, isr, slice, scheduled, fault, handle>>
  BY DEF MuxHandOver, Wake, WaitOver, Timed, TimerOff, Given
<1>7. mux' = [mux EXCEPT ![m] = [used |-> mux[m].used, count |-> 1,
                                 owner |-> n, prio |-> prio[n]]]
  BY <1>6, OwnerFields
<1>8. f \in SUBSET Flags /\ f \cap {"unused", "pend", "timeout"} = {}
  BY <1>5, <1>3, <1>t DEF Flags
<1> HIDE DEF n
<1>q. /\ status'[n] = f
      /\ \A u \in Tasks \ {n} : status'[u] = status[u]
  BY <1>6, <1>3, <1>t
<1>r. /\ Matches(RestoredLists(t, m), status, RestoredPrio(t, m))
      /\ \A w \in WaitObjects : RestoredLists(t, m)[w] = lists[w]
      /\ RestoredPrio(t, m)[n] = prio[n]
  BY <1>0, <1>3, <1>n, RestoredMatches
<1>9. Matches(lists', status', prio')
  <2>2. "ready" \notin status[n]
    BY <1>5
  <2>3. Matches(Wake(RestoredLists(t, m), n), status', RestoredPrio(t, m))
    BY <1>r, <1>3, <1>4, <1>6, <2>2, WakeMatches
  <2> QED BY <1>6, <2>3
<1>10. Consistent'
  <2>1. lists' \in [Lists -> Seq(Tasks)] /\ prio' \in [Tasks -> Priorities]
    BY <1>9 DEF Matches, Nodes
  <2>2. WaitsEnd({n})
    <3>1. status' = [u \in Tasks |-> IF u \in {n} THEN f ELSE status[u]]
      BY <1>t, <1>6
    <3>2. timer' = [u \in Tasks |->
             IF u \in {n} /\ "timeout" \in status[u] THEN 0 ELSE timer[u]]
      BY <1>t, <1>6
    <3>3. status' = [u \in Tasks |->
             IF u \in {n}
             THEN (status[u] \ {"pend", "timeout"})
                    \cup (IF "suspend" \in status[u] THEN {} ELSE {"ready"})
             ELSE status[u]]
      BY <3>1
    <3> QED BY <3>2, <3>3 DEF WaitsEnd
  <2>3. {n} \in SUBSET Tasks /\ \A u \in {n} : "pend" \in status[u]
    BY <1>3, <1>4
  <2>4. pc[run] \in {"app", "tail"} /\ pc' = [pc EXCEPT ![run] = "sched"]
    BY <1>c, <1>6
  <2>5. Consistent
    BY DEF MuxInv
  <2> QED BY <1>c, <1>6, <1>9, <2>1, <2>2, <2>3, <2>4, <2>5, ServeConsistent
<1>11. \A w \in Mutexes : lists'[w] = Without(lists[w], n)
  <2> DEFINE q == RestoredLists(t, m)
  <2>0. q \in [Lists -> Seq(Tasks)]
    BY <1>r DEF Matches, Nodes
  <2>1. Unlink(q, n) \in [Lists -> Seq(Tasks)] /\ prio[n] \in Priorities
    BY <2>0, <1>3, <1>t, UnlinkFacts
  <2>2. \A w \in WaitObjects :
          Enqueue(Unlink(q, n), n, prio[n])[w] = Unlink(q, n)[w]
    <3>1. \A r \in [Lists -> Seq(Tasks)] : \A w \in WaitObjects :
            Enqueue(r, n, prio[n])[w] = r[w]
      BY <1>3, <2>1, QueuesOnly
    <3> QED BY <2>1, <3>1
  <2>3. \A w \in Mutexes : Unlink(q, n)[w] = Without(lists[w], n)
    BY <1>t, <1>r DEF Unlink
  <2> HIDE DEF q
  <2>4. lists' = Wake(q, n)
    BY <1>6 DEF q
  <2> QED BY <1>t, <2>2, <2>3, <2>4 DEF Wake
<1>12. lists'[m] = Tail(lists[m])
  BY <1>2, <1>11
<1>13. ASSUME NEW r \in Mutexes \ {m} PROVE lists'[r] = lists[r]
  <2>1. n \notin Range(lists[r])
    BY <1>2, <1>t DEF Nodes
  <2> QED BY <1>11, <2>1 DEF Without
<1>14. Range(Tail(lists[m])) = Range(lists[m]) \ {n}
  BY <1>1, <1>2, WithoutFacts
<1>15. FreeIsOut'
  <2>1. \A u \in Tasks : "unused" \in status'[u] <=> "unused" \in status[u]
    BY <1>q, <1>3, <1>5, <1>8
  <2>2. \A u \in Tasks : pc'[u] = "none" <=> pc[u] = "none"
    BY <1>t, <1>6, <1>c
  <2> QED BY <2>1, <2>2 DEF MuxInv, FreeIsOut
<1>16. MuxTypeOK'
  <2>1. mux[m].used \in BOOLEAN /\ prio[n] \in Priorities /\ 1 \in 0 .. MaxCount
    BY <1>t, <1>3, MuxAssumption DEF MuxRecord
  <2>2. mux' \in [Mutexes -> MuxRecord]
    BY <1>7, <1>t, <1>3, <2>1 DEF MuxRecord
  <2>3. held' \in [Tasks -> [Mutexes -> Nat]] /\ handle' = handle
    BY <1>6, HeldFields
  <2> QED BY <2>2, <2>3 DEF MuxInv, MuxTypeOK
<1>17. /\ \A r \in Mutexes \ {m} : mux'[r] = mux[r]
       /\ mux'[m].used = mux[m].used /\ mux'[m].count = 1
       /\ mux'[m].owner = n /\ mux'[m].prio = prio[n]
  BY <1>7, <1>t
<1>18. Owned'
  BY <1>0, <1>3, <1>17, <1>t DEF MuxInv, Owned, CanPost
<1>19. Waiters'
  <2>1. ASSUME NEW r \in Mutexes, NEW u \in Range(lists'[r])
        PROVE  /\ pc'[u] \in {"pend", "tail"} /\ handle'[u] = r
               /\ mux'[r].count > 0 /\ mux'[r].owner # u
    <3>1. u \in Range(lists[r]) /\ (r = m => u # n)
      BY <2>1, <1>12, <1>13, <1>14
    <3>2. Inside(u) /\ handle[u] = r /\ mux[r].count > 0 /\ mux[r].owner # u
      BY <3>1 DEF MuxInv, Waiters
    <3>3. u \in Tasks
      BY <3>1, <1>t DEF Range
    <3>4. pc'[u] = pc[u]
      BY <3>2, <3>3, <1>t, <1>c, <1>6 DEF Inside
    <3>5. mux'[r].count > 0 /\ mux'[r].owner # u
      <4>1. CASE r = m
        BY <3>1, <4>1, <1>17
      <4>2. CASE r # m
        BY <3>2, <4>2, <1>17
      <4> QED BY <4>1, <4>2
    <3> QED BY <3>2, <3>4, <3>5, <1>6 DEF Inside
  <2> QED BY <2>1 DEF Waiters, Inside
<1>20. Handles'
  BY <1>6, <1>c, <1>t DEF MuxInv, Handles, Inside
<1>21. status'[n] \cap {"pend", "timeout"} = {}
  BY <1>q, <1>8
<1> QED BY <1>2, <1>3, <1>n, <1>7, <1>10, <1>12, <1>13, <1>15, <1>16, <1>18, <1>19,
           <1>20, <1>21, <1>q
        DEF MuxInv, n

LEMMA NextMux == MuxInv /\ TimesliceTimeout = 0 /\ [MuxNext]_vars => MuxInv'
<1> SUFFICES ASSUME MuxInv, TimesliceTimeout = 0, [MuxNext]_vars
             PROVE  MuxInv'
  OBVIOUS
<1>1. CASE SchedulerStep
  BY <1>1, SchedulerKeeps
<1>2. ASSUME NEW m \in Mutexes, LOS_MuxCreate(m)
      PROVE  MuxInv'
  BY <1>2, CreateKeeps
<1>3. ASSUME NEW t \in Tasks, NEW m \in Mutexes,
             MuxReenter(t, m) \/ MuxUnwind(t, m)
      PROVE  MuxInv'
  BY <1>3, NestKeeps
<1>4. ASSUME NEW t \in Tasks, MuxCall(t)
      PROVE  MuxInv'
  BY <1>3, <1>4, DeleteKeeps, TakeKeeps, BlockKeeps, ReleaseKeeps, HandOverKeeps
     DEF MuxCall
<1>5. ASSUME NEW t \in Tasks, MuxReturn(t)
      PROVE  MuxInv'
  BY <1>5, ReturnKeeps
<1>6. CASE UNCHANGED vars
  BY <1>6, StutterKeeps
<1> QED BY <1>1, <1>2, <1>4, <1>5, <1>6 DEF MuxNext

LEMMA AlwaysMuxInv == ASSUME TimesliceTimeout = 0 PROVE MuxSpec => []MuxInv
BY InitMux, NextMux, PTL DEF MuxSpec

-----------------------------------------------------------------------------
(***************************************************************************)
(* Who was granted a mutex.                                                *)
(***************************************************************************)
LEMMA GrantedIs ==
  \A t \in Tasks, m \in Mutexes :
    Granted(t, m) <=> Inside(t) /\ handle[t] = m /\ WaitServed(t)
BY DEF Granted, Inside, WaitServed

\* A task was granted the mutex and stays so until it is told or deleted.
LEMMA SchedulerGrants ==
  ASSUME MuxInv, TimesliceTimeout = 0, SchedulerStep
  PROVE  \A t \in Tasks, m \in Mutexes :
           Granted(t, m)' <=> Granted(t, m) /\ pc'[t] # "none"
<1>1. CallsLeft
  BY StepLeaves DEF MuxInv, SchedulerStep
<1> SUFFICES ASSUME NEW t \in Tasks, NEW m \in Mutexes
             PROVE  Granted(t, m)' <=> Granted(t, m) /\ pc'[t] # "none"
  OBVIOUS
<1>2. Granted(t, m)' <=> /\ pc'[t] \in {"pend", "tail"} /\ handle'[t] = m
                         /\ status'[t] \cap {"pend", "timeout"} = {}
  BY DEF Granted
<1>3. Granted(t, m) <=> Inside(t) /\ handle[t] = m /\ WaitServed(t)
  BY GrantedIs
<1>4. CASE pc'[t] = "none"
  BY <1>2, <1>4
<1>5. CASE pc'[t] # "none"
  <2>1. handle'[t] = handle[t]
    BY <1>5 DEF SchedulerStep
  <2>2. handle[t] = m => pc[t] # "none"
    BY MuxAssumption DEF MuxInv, Handles, Inside
  <2>3. pc[t] # "none" => (pc'[t] \in {"pend", "tail"} <=> Inside(t))
    BY <1>1, <1>5 DEF CallsLeft, Inside
  <2>4. Inside(t) =>
          (status'[t] \cap {"pend", "timeout"} = {} <=> WaitServed(t))
    BY <1>1, <1>5 DEF CallsLeft
  <2> QED BY <1>2, <1>3, <1>5, <2>1, <2>2, <2>3, <2>4
<1> QED BY <1>4, <1>5

\* The other steps grant it to the task they serve, and end the grant of the
\* task that returns.
LEMMA SameGrants ==
  ASSUME UNCHANGED <<status, pc, handle>>, NEW t \in Tasks, NEW m \in Mutexes
  PROVE  Granted(t, m)' <=> Granted(t, m)
BY DEF Granted

LEMMA BlockGrants ==
  ASSUME MuxInv, NEW t \in Tasks, NEW m \in Mutexes, NEW k \in MuxTimeouts,
         MuxBlock(t, m, k)
  PROVE  \A u \in Tasks, n \in Mutexes :
           /\ Granted(u, n)' <=> Granted(u, n)
           /\ ~Granted(t, n)
           /\ u # t => handle'[u] = handle[u] /\ pc'[u] = pc[u]
<1>1. pc[t] = "app"
  BY CallerFacts DEF MuxBlock
<1>2. /\ status' = [status EXCEPT ![t] =
            (status[t] \ {"ready", "timeout"}) \cup {"pend"}
              \cup (IF k = LOS_WAIT_FOREVER THEN {} ELSE {"timeout"})]
      /\ pc' = [pc EXCEPT ![t] = "pend"] /\ handle' = [handle EXCEPT ![t] = m]
  BY DEF MuxBlock
<1>3. /\ "pend" \in status'[t]
      /\ \A u \in Tasks \ {t} : status'[u] = status[u] /\ pc'[u] = pc[u]
                                  /\ handle'[u] = handle[u]
  BY <1>2, TypeFacts
<1> QED BY <1>1, <1>3 DEF Granted

LEMMA ReturnGrants ==
  ASSUME MuxInv, NEW t \in Tasks, MuxReturn(t), NEW m \in Mutexes, m = handle[t]
  PROVE  /\ \A n \in Mutexes : ~Granted(t, n)'
         /\ \A n \in Mutexes : Granted(t, n) <=> n = m /\ ~Timed(t)
         /\ \A u \in Tasks \ {t} : \A n \in Mutexes :
              /\ Granted(u, n)' <=> Granted(u, n)
              /\ handle'[u] = handle[u] /\ pc'[u] = pc[u]
<1>1. /\ pc[t] = "tail" /\ handle[t] = m
      /\ status' = [status EXCEPT ![t] = status[t] \ {"timeout"}]
      /\ pc' = [pc EXCEPT ![t] = "app"] /\ handle' = [handle EXCEPT ![t] = None]
  BY DEF MuxReturn
<1>2. "pend" \notin status[t]
  BY DEF MuxReturn, Running, MuxInv, Consistent, RunReady, States, OneState
<1>3. \A u \in Tasks \ {t} : status'[u] = status[u] /\ pc'[u] = pc[u]
                               /\ handle'[u] = handle[u]
  BY <1>1, TypeFacts
<1>4. pc'[t] = "app"
  BY <1>1, TypeFacts
<1>5. \A u \in Tasks \ {t} : \A n \in Mutexes : Granted(u, n)' <=> Granted(u, n)
  BY <1>3 DEF Granted
<1>6. \A n \in Mutexes : ~Granted(t, n)'
  BY <1>4 DEF Granted
<1>7. \A n \in Mutexes : Granted(t, n) <=> n = m /\ ~Timed(t)
  BY <1>1, <1>2 DEF Granted, Timed
<1> QED BY <1>3, <1>5, <1>6, <1>7

LEMMA HandOverGrants ==
  ASSUME MuxInv, NEW t \in Tasks, NEW m \in Mutexes, MuxHandOver(t, m)
  PROVE  \A u \in Tasks, r \in Mutexes :
           /\ Granted(u, r)' <=> Granted(u, r) \/ (u = FirstWaiter(m) /\ r = m)
           /\ ~Granted(FirstWaiter(m), r)
           /\ ~Granted(t, r)
<1> DEFINE n == FirstWaiter(m)
<1>1. /\ n \in Range(lists[m]) /\ n \in Tasks \ {t}
      /\ status'[n] \cap {"pend", "timeout"} = {}
      /\ \A u \in Tasks \ {n} : status'[u] = status[u]
  BY HandOverKeeps
<1> HIDE DEF n
<1>2. "pend" \in status[n]
  BY <1>1, WaitingIsInside DEF MuxInv, WaitersExist
<1>3. Inside(n) /\ handle[n] = m
  BY <1>1 DEF MuxInv, Waiters
<1>4. pc[t] = "app"
  BY CallerFacts DEF MuxHandOver, CanPost
<1>5. handle' = handle /\ pc' = [pc EXCEPT ![t] = "sched"]
  BY DEF MuxHandOver
<1>6. \A u \in Tasks : pc'[u] \in {"pend", "tail"} <=> pc[u] \in {"pend", "tail"}
  BY <1>4, <1>5, TypeFacts
<1>7. ASSUME NEW u \in Tasks, NEW r \in Mutexes
      PROVE  Granted(u, r)' <=> Granted(u, r) \/ (u = n /\ r = m)
  <2>1. CASE u = n
    <3>1. pc'[n] \in {"pend", "tail"} /\ handle'[n] = m
      BY <1>1, <1>3, <1>5, <1>6 DEF Inside
    <3>2. ~Granted(n, r)
      BY <1>2 DEF Granted
    <3> QED BY <1>1, <2>1, <3>1, <3>2 DEF Granted
  <2>2. CASE u # n
    BY <1>1, <1>5, <1>6, <2>2 DEF Granted
  <2> QED BY <2>1, <2>2
<1>8. \A r \in Mutexes : ~Granted(n, r) /\ ~Granted(t, r)
  BY <1>2, <1>4 DEF Granted
<1> QED BY <1>7, <1>8 DEF n

LEMMA NextTold ==
  MuxInv /\ TimesliceTimeout = 0 /\ GrantIsTold /\ [MuxNext]_vars
    => GrantIsTold'
<1> SUFFICES ASSUME MuxInv, TimesliceTimeout = 0, GrantIsTold, [MuxNext]_vars,
                    NEW t \in Tasks, NEW m \in Mutexes,
                    handle'[t] = m, mux'[m].count > 0, mux'[m].owner = t
             PROVE  Granted(t, m)'
  BY DEF GrantIsTold
<1>t. /\ mux \in [Mutexes -> MuxRecord] /\ None \notin Mutexes
      /\ handle \in [Tasks -> Mutexes \cup {None}]
      /\ \A n \in Mutexes : mux[n].count \in Nat
  BY TypeFacts, MuxAssumption
<1>g. ASSUME handle[t] = m, mux[m].count > 0, mux[m].owner = t
      PROVE  Granted(t, m)
  BY <1>g DEF GrantIsTold
<1>1. CASE SchedulerStep
  <2>1. mux' = mux /\ pc'[t] # "none" /\ handle[t] = m
    BY <1>1, <1>t DEF SchedulerStep
  <2>2. Granted(t, m)
    BY <1>g, <2>1
  <2> QED BY <1>1, <2>1, <2>2, SchedulerGrants
<1>2. ASSUME NEW n \in Mutexes, LOS_MuxCreate(n)
      PROVE  Granted(t, m)'
  <2>1. /\ UNCHANGED <<status, pc, handle>>
        /\ mux' = [mux EXCEPT ![n] =
                     [used |-> TRUE, count |-> 0, owner |-> None, prio |-> 0]]
    BY <1>2 DEF LOS_MuxCreate, taskVars
  <2>2. m # n /\ mux'[m] = mux[m]
    BY <2>1, <1>t
  <2> QED BY <1>g, <2>1, <2>2, SameGrants
<1>3. ASSUME NEW u \in Tasks, NEW n \in Mutexes, LOS_MuxDelete(u, n)
      PROVE  Granted(t, m)'
  <2>1. /\ UNCHANGED <<status, pc, handle>> /\ mux[n].count = 0
        /\ mux' = [mux EXCEPT ![n] =
                     [used |-> FALSE, count |-> mux[n].count,
                      owner |-> mux[n].owner, prio |-> mux[n].prio]]
    BY <1>3, DeleteKeeps DEF taskVars
  <2>2. m # n /\ mux'[m] = mux[m]
    BY <2>1, <1>t
  <2> QED BY <1>g, <2>1, <2>2, SameGrants
<1>4. ASSUME NEW u \in Tasks, NEW n \in Mutexes, MuxTake(u, n)
      PROVE  Granted(t, m)'
  <2>1. /\ UNCHANGED <<status, pc, handle>> /\ handle[u] = None
        /\ mux' = [mux EXCEPT ![n] = [used |-> mux[n].used, count |-> 1,
                                      owner |-> u, prio |-> prio[u]]]
    BY <1>4, TakeKeeps, CallerFacts DEF MuxTake, taskVars
  <2>2. t # u
    BY <2>1, <1>t
  <2>3. m # n /\ mux'[m] = mux[m]
    BY <2>1, <2>2, <1>t
  <2> QED BY <1>g, <2>1, <2>3, SameGrants
<1>5. ASSUME NEW u \in Tasks, NEW n \in Mutexes, NEW c \in Int,
             \/ MuxReenter(u, n) /\ c = mux[n].count + 1
             \/ MuxUnwind(u, n) /\ c = mux[n].count - 1
      PROVE  Granted(t, m)'
  <2>1. /\ UNCHANGED <<status, pc, handle>> /\ mux[n].count > 0
        /\ mux' = [mux EXCEPT ![n] =
                     [used |-> mux[n].used, count |-> c,
                      owner |-> mux[n].owner, prio |-> mux[n].prio]]
    <3>1. UNCHANGED <<status, pc, handle>> /\ mux[n].count > 0
      BY <1>5, <1>t DEF MuxReenter, MuxUnwind, CanPost, taskVars
    <3>2. mux' = [mux EXCEPT ![n] =
                    [used |-> mux[n].used, count |-> c,
                     owner |-> mux[n].owner, prio |-> mux[n].prio]]
      BY <1>5, NestKeeps
    <3> QED BY <3>1, <3>2
  <2>2. mux[m].count > 0 /\ mux'[m].owner = mux[m].owner
    BY <2>1, <1>t
  <2> QED BY <1>g, <2>1, <2>2, SameGrants
<1>6. ASSUME NEW u \in Tasks, NEW n \in Mutexes, NEW k \in MuxTimeouts,
             MuxBlock(u, n, k)
      PROVE  Granted(t, m)'
  <2>1. mux' = mux /\ handle' = [handle EXCEPT ![u] = n] /\ mux[n].owner # u
    BY <1>6 DEF MuxBlock
  <2>2. t # u
    BY <2>1, <1>t
  <2> QED BY <1>g, <1>6, <2>1, <2>2, <1>t, BlockGrants
<1>7. ASSUME NEW u \in Tasks, NEW n \in Mutexes, MuxRelease(u, n)
      PROVE  Granted(t, m)'
  <2>1. /\ UNCHANGED <<status, pc, handle>>
        /\ mux' = [mux EXCEPT ![n] =
                     [used |-> mux[n].used, count |-> 0,
                      owner |-> mux[n].owner, prio |-> mux[n].prio]]
    BY <1>7, ReleaseKeeps DEF MuxRelease
  <2>2. m # n /\ mux'[m] = mux[m]
    BY <2>1, <1>t
  <2> QED BY <1>g, <2>1, <2>2, SameGrants
<1>8. ASSUME NEW u \in Tasks, NEW n \in Mutexes, MuxHandOver(u, n)
      PROVE  Granted(t, m)'
  <2>1. /\ handle' = handle
        /\ mux' = [mux EXCEPT ![n] =
                     [used |-> mux[n].used, count |-> 1,
                      owner |-> FirstWaiter(n), prio |-> prio[FirstWaiter(n)]]]
    BY <1>8, HandOverKeeps DEF MuxHandOver
  <2>2. CASE m = n
    <3>1. t = FirstWaiter(n)
      BY <2>1, <2>2, <1>t
    <3> QED BY <1>8, <2>2, <3>1, HandOverGrants
  <2>3. CASE m # n
    <3>1. mux'[m] = mux[m]
      BY <2>1, <2>3, <1>t
    <3>2. Granted(t, m)
      BY <1>g, <2>1, <3>1
    <3> QED BY <1>8, <3>2, HandOverGrants
  <2> QED BY <2>2, <2>3
<1>9. ASSUME NEW u \in Tasks, MuxReturn(u)
      PROVE  Granted(t, m)'
  <2>1. mux' = mux /\ handle' = [handle EXCEPT ![u] = None] /\ handle[u] \in Mutexes
    BY <1>9 DEF MuxReturn
  <2>2. t # u
    BY <2>1, <1>t
  <2>3. PICK n \in Mutexes : n = handle[u]
    BY <2>1
  <2> QED BY <1>g, <1>9, <2>1, <2>2, <2>3, <1>t, ReturnGrants
<1>10. CASE UNCHANGED vars
  <2>1. UNCHANGED <<status, pc, handle>> /\ mux' = mux
    BY <1>10 DEF vars, taskVars, muxVars
  <2> QED BY <1>g, <2>1, SameGrants
<1>11. \A n \in Mutexes : mux[n].count + 1 \in Int /\ mux[n].count - 1 \in Int
  BY <1>t
<1> QED BY <1>1, <1>2, <1>3, <1>4, <1>5, <1>6, <1>7, <1>8, <1>9, <1>10, <1>11
        DEF MuxNext, MuxCall

\* A mutex is never handed over to a task that is then told that its time ran
\* out: whoever owns a mutex it is still inside LOS_MuxPend for is told LOS_OK
\* when it returns, whatever the tick, suspensions and deletions do in between.
THEOREM HandOverIsTold ==
  ASSUME TimesliceTimeout = 0
  PROVE  MuxSpec => []GrantIsTold
<1>1. MuxInit => GrantIsTold
  BY MuxAssumption DEF MuxInit, GrantIsTold
<1> QED BY AlwaysMuxInv, NextTold, <1>1, PTL DEF MuxSpec

-----------------------------------------------------------------------------
(***************************************************************************)
(* Mutual exclusion, as long as no task goes away: the kernel keeps the    *)
(* mutexes of a task that is deleted or returns locked for the next task   *)
(* in its control block.                                                   *)
(***************************************************************************)

\* The owner was told as often as the mutex counts, but for a mutex that was
\* handed over to it and it has not returned with; nobody else was told.
Told(t, m) ==
  /\ Granted(t, m) => mux[m].count = 1 /\ mux[m].owner = t
  /\ held[t][m] = IF mux[m].count > 0 /\ mux[m].owner = t /\ ~Granted(t, m)
                  THEN mux[m].count ELSE 0

AllTold == \A t \in Tasks, m \in Mutexes : Told(t, m)

\* A free control block was told nothing.
FreeHoldsNone == \A t \in Tasks : pc[t] = "none" => \A m \in Mutexes : held[t][m] = 0

\* Only the caller's own view changes.
LEMMA CallerHeld ==
  ASSUME MuxInv, NEW u \in Tasks, NEW m \in Mutexes, pc[u] = "app" \/ pc[u] = "tail",
         pc' = pc \/ pc' = [pc EXCEPT ![u] = "sched"] \/ pc' = [pc EXCEPT ![u] = "app"],
         \/ held' = held
         \/ held' = Posted(u, m)
         \/ held' = [held EXCEPT ![u][m] = @ + 1]
  PROVE  FreeHoldsNone => FreeHoldsNone'
<1>1. /\ pc \in [Tasks -> Pcs] /\ held \in [Tasks -> [Mutexes -> Nat]]
  BY TypeFacts
<1>2. \A t \in Tasks : pc'[t] = "none" => pc[t] = "none" /\ t # u
  BY <1>1
<1>3. /\ Posted(u, m)
           = [held EXCEPT ![u] = [held[u] EXCEPT ![m] =
                IF held[u][m] > 0 THEN held[u][m] - 1 ELSE 0]]
      /\ [held EXCEPT ![u][m] = @ + 1]
           = [held EXCEPT ![u] = [held[u] EXCEPT ![m] = held[u][m] + 1]]
  BY HeldFields
<1>4. \A t \in Tasks \ {u} : held'[t] = held[t]
  BY <1>1, <1>3
<1> QED BY <1>2, <1>4 DEF FreeHoldsNone

LEMMA NextHoldsNone == MuxInv /\ FreeHoldsNone /\ [MuxNext]_vars => FreeHoldsNone'
<1> SUFFICES ASSUME MuxInv, FreeHoldsNone, [MuxNext]_vars
             PROVE  FreeHoldsNone'
  OBVIOUS
<1>1. CASE SchedulerStep
  BY <1>1 DEF SchedulerStep, FreeHoldsNone
<1>2. ASSUME NEW m \in Mutexes, LOS_MuxCreate(m)
      PROVE  FreeHoldsNone'
  BY <1>2 DEF LOS_MuxCreate, taskVars, FreeHoldsNone
<1>3. ASSUME NEW u \in Tasks, NEW m \in Mutexes,
             \/ LOS_MuxDelete(u, m) \/ MuxTake(u, m) \/ MuxReenter(u, m)
             \/ MuxUnwind(u, m) \/ MuxRelease(u, m) \/ MuxHandOver(u, m)
      PROVE  FreeHoldsNone'
  <2>1. pc[u] = "app"
    BY <1>3 DEF LOS_MuxDelete, MuxTake, MuxReenter, MuxUnwind, MuxRelease,
      MuxHandOver, CanPost, CanCall
  <2>2. pc' = pc \/ pc' = [pc EXCEPT ![u] = "sched"]
    BY <1>3 DEF LOS_MuxDelete, MuxTake, MuxReenter, MuxUnwind, MuxRelease,
      MuxHandOver, taskVars
  <2>3. \/ held' = held
        \/ held' = Posted(u, m)
        \/ held' = [held EXCEPT ![u][m] = @ + 1]
    BY <1>3 DEF LOS_MuxDelete, MuxTake, MuxReenter, MuxUnwind, MuxRelease,
      MuxHandOver
  <2> QED BY <2>1, <2>2, <2>3, CallerHeld
<1>4. ASSUME NEW u \in Tasks, NEW m \in Mutexes, NEW k \in MuxTimeouts,
             MuxBlock(u, m, k)
      PROVE  FreeHoldsNone'
  <2>1. held' = held /\ pc' = [pc EXCEPT ![u] = "pend"]
    BY <1>4 DEF MuxBlock
  <2>2. \A t \in Tasks : pc'[t] = "none" => pc[t] = "none"
    BY <2>1, TypeFacts
  <2> QED BY <2>1, <2>2 DEF FreeHoldsNone
<1>5. ASSUME NEW u \in Tasks, MuxReturn(u)
      PROVE  FreeHoldsNone'
  <2>1. PICK m \in Mutexes : m = handle[u]
    BY <1>5 DEF MuxReturn
  <2>2. /\ pc[u] = "tail" /\ pc' = [pc EXCEPT ![u] = "app"]
        /\ held' = held \/ held' = [held EXCEPT ![u][m] = @ + 1]
    BY <1>5, <2>1 DEF MuxReturn
  <2> QED BY <2>2, CallerHeld
<1>6. CASE UNCHANGED vars
  BY <1>6 DEF vars, taskVars, muxVars, FreeHoldsNone
<1> QED BY <1>1, <1>2, <1>3, <1>4, <1>5, <1>6 DEF MuxNext, MuxCall

LEMMA NextExclusion ==
  MuxInv /\ TimesliceTimeout = 0 /\ "delete" \notin Calls
    /\ "return" \notin Calls /\ AllTold /\ FreeHoldsNone /\ [MuxNext]_vars
    => AllTold'
<1> SUFFICES ASSUME MuxInv, TimesliceTimeout = 0, "delete" \notin Calls,
                    "return" \notin Calls, AllTold, FreeHoldsNone, [MuxNext]_vars,
                    NEW t \in Tasks, NEW m \in Mutexes
             PROVE  Told(t, m)'
  BY DEF AllTold
<1>t. /\ mux \in [Mutexes -> MuxRecord] /\ None \notin Mutexes
      /\ held \in [Tasks -> [Mutexes -> Nat]]
      /\ \A n \in Mutexes : mux[n].count \in Nat
  BY TypeFacts, MuxAssumption
<1>g. \A u \in Tasks, n \in Mutexes : Told(u, n)
  BY DEF AllTold
\* What decides for t and m stays.
<1>s. ASSUME mux'[m].count = mux[m].count, mux'[m].owner = mux[m].owner,
             held'[t][m] = held[t][m], Granted(t, m)' <=> Granted(t, m)
      PROVE  Told(t, m)'
  BY <1>s, <1>g DEF Told
\* Nobody owns the mutex, before and after.
<1>z. ASSUME mux'[m].count = 0, mux[m].count = 0,
             held'[t][m] = held[t][m], Granted(t, m)' <=> Granted(t, m)
      PROVE  Told(t, m)'
  BY <1>z, <1>g DEF Told
<1>1. CASE SchedulerStep
  <2>1. pc[t] # "none" => pc'[t] # "none"
    BY <1>1, NobodyGoes DEF MuxInv, SchedulerStep
  <2>2. mux' = mux
    BY <1>1 DEF SchedulerStep
  <2>3. Granted(t, m) => pc[t] # "none"
    BY DEF Granted
  <2>4. Granted(t, m)' <=> Granted(t, m)
    BY <1>1, <2>1, <2>3, SchedulerGrants
  <2>5. held'[t] = IF pc'[t] = "none" THEN [n \in Mutexes |-> 0] ELSE held[t]
    BY <1>1 DEF SchedulerStep
  <2>6. CASE pc'[t] # "none"
    BY <1>s, <2>2, <2>4, <2>5, <2>6
  <2>7. CASE pc'[t] = "none"
    <3>1. held[t][m] = 0
      BY <2>1, <2>7 DEF FreeHoldsNone
    <3> QED BY <1>s, <2>2, <2>4, <2>5, <2>7, <3>1
  <2> QED BY <2>6, <2>7
<1>2. ASSUME NEW n \in Mutexes, LOS_MuxCreate(n)
      PROVE  Told(t, m)'
  <2>1. /\ UNCHANGED <<status, pc, handle>> /\ held' = held
        /\ mux' = [mux EXCEPT ![n] =
                     [used |-> TRUE, count |-> 0, owner |-> None, prio |-> 0]]
        /\ ~mux[n].used
    BY <1>2 DEF LOS_MuxCreate, taskVars
  <2>2. mux[n].count = 0 /\ mux'[n].count = 0
    BY <2>1, <1>t DEF MuxInv, Owned
  <2>3. m # n => mux'[m] = mux[m]
    BY <2>1, <1>t
  <2>4. Granted(t, m)' <=> Granted(t, m)
    BY <2>1, SameGrants
  <2> QED BY <1>s, <1>z, <2>1, <2>2, <2>3, <2>4
<1>3. ASSUME NEW u \in Tasks, NEW n \in Mutexes, LOS_MuxDelete(u, n)
      PROVE  Told(t, m)'
  <2>1. /\ UNCHANGED <<status, pc, handle>> /\ mux[n].count = 0 /\ held' = held
        /\ mux' = [mux EXCEPT ![n] =
                     [used |-> FALSE, count |-> mux[n].count,
                      owner |-> mux[n].owner, prio |-> mux[n].prio]]
    BY <1>3, DeleteKeeps DEF taskVars
  <2>2. mux'[m].count = mux[m].count /\ mux'[m].owner = mux[m].owner
    BY <2>1, <1>t
  <2>4. Granted(t, m)' <=> Granted(t, m)
    BY <2>1, SameGrants
  <2> QED BY <1>s, <2>1, <2>2, <2>4
<1>4. ASSUME NEW u \in Tasks, NEW n \in Mutexes, MuxTake(u, n)
      PROVE  Told(t, m)'
  <2>1. /\ UNCHANGED <<status, pc, handle>> /\ pc[u] = "app" /\ mux[n].count = 0
        /\ mux' = [mux EXCEPT ![n] = [used |-> mux[n].used, count |-> 1,
                                      owner |-> u, prio |-> prio[u]]]
    BY <1>4, TakeKeeps, CallerFacts DEF MuxTake, taskVars
  <2>2. held' = [held EXCEPT ![u] = [held[u] EXCEPT ![n] = held[u][n] + 1]]
    BY <1>4, HeldFields DEF MuxTake
  <2>3. Granted(t, m)' <=> Granted(t, m)
    BY <2>1, SameGrants
  <2>4. CASE m # n
    <3>1. mux'[m] = mux[m] /\ held'[t][m] = held[t][m]
      BY <1>t, <2>1, <2>2, <2>4
    <3> QED BY <1>s, <2>3, <3>1
  <2>5. CASE m = n
    <3>1. mux'[m].count = 1 /\ mux'[m].owner = u
      BY <1>t, <2>1, <2>5
    <3>2. held[t][m] = 0 /\ ~Granted(t, m)
      BY <1>g, <2>1, <2>5 DEF Told
    <3>3. held'[t][m] = IF t = u THEN 1 ELSE 0
      BY <1>t, <2>2, <2>5, <3>2
    <3> QED BY <2>3, <3>1, <3>2, <3>3 DEF Told
  <2> QED BY <2>4, <2>5
<1>5. ASSUME NEW u \in Tasks, NEW n \in Mutexes, MuxReenter(u, n)
      PROVE  Told(t, m)'
  <2>1. /\ UNCHANGED <<status, pc, handle>> /\ pc[u] = "app"
        /\ mux[n].count > 0 /\ mux[n].owner = u
    BY <1>5, <1>t, CallerFacts DEF MuxReenter, taskVars
  <2>2. held' = [held EXCEPT ![u] = [held[u] EXCEPT ![n] = held[u][n] + 1]]
    BY <1>5, HeldFields DEF MuxReenter
  <2>3. Granted(t, m)' <=> Granted(t, m)
    BY <2>1, SameGrants
  <2>m. mux' = [mux EXCEPT ![n] =
                  [used |-> mux[n].used, count |-> mux[n].count + 1,
                   owner |-> mux[n].owner, prio |-> mux[n].prio]]
    BY <1>5, NestKeeps
  <2>4. CASE m # n
    <3>1. mux'[m] = mux[m] /\ held'[t][m] = held[t][m]
      BY <1>t, <2>m, <2>2, <2>4
    <3> QED BY <1>s, <2>3, <3>1
  <2>5. CASE m = n
    <3>1. mux'[m].count = mux[m].count + 1 /\ mux'[m].owner = u
      BY <1>t, <2>1, <2>m, <2>5
    <3>2. CASE t = u
      <4>1. ~Granted(t, m)
        BY <2>1, <3>2 DEF Granted
      <4>2. held[t][m] = mux[m].count
        BY <1>g, <2>1, <2>5, <3>2, <4>1 DEF Told
      <4>3. held'[t][m] = held[t][m] + 1
        BY <1>t, <2>2, <2>5, <3>2
      <4> QED BY <1>t, <2>3, <3>1, <3>2, <4>1, <4>2, <4>3 DEF Told
    <3>3. CASE t # u
      <4>1. ~Granted(t, m) /\ held[t][m] = 0
        BY <1>g, <2>1, <2>5, <3>3 DEF Told
      <4>2. held'[t][m] = held[t][m]
        BY <1>t, <2>2, <3>3
      <4> QED BY <2>3, <3>1, <3>3, <4>1, <4>2 DEF Told
    <3> QED BY <3>2, <3>3
  <2> QED BY <2>4, <2>5
<1>6. ASSUME NEW u \in Tasks, NEW n \in Mutexes, NEW k \in MuxTimeouts,
             MuxBlock(u, n, k)
      PROVE  Told(t, m)'
  <2>1. mux' = mux /\ held' = held
    BY <1>6 DEF MuxBlock
  <2> QED BY <1>s, <1>6, <2>1, BlockGrants
<1>7. ASSUME NEW u \in Tasks, MuxReturn(u)
      PROVE  Told(t, m)'
  <2>1. mux' = mux /\ handle[u] \in Mutexes
    BY <1>7 DEF MuxReturn
  <2>2. PICK r \in Mutexes : r = handle[u]
    BY <2>1
  <2>3. held' = IF Timed(u) THEN held
                ELSE [held EXCEPT ![u][r] = @ + 1]
    BY <1>7, <2>2 DEF MuxReturn
  <2>4. held' = IF Timed(u) THEN held
                ELSE [held EXCEPT ![u] = [held[u] EXCEPT ![r] = held[u][r] + 1]]
    BY <2>3, HeldFields
  <2>5. /\ \A x \in Mutexes : ~Granted(u, x)'
        /\ \A x \in Mutexes : Granted(u, x) <=> x = r /\ ~Timed(u)
        /\ \A v \in Tasks \ {u} : \A x \in Mutexes : Granted(v, x)' <=> Granted(v, x)
    BY <1>7, <2>2, ReturnGrants
  <2>6. CASE t # u
    <3>1. held'[t][m] = held[t][m]
      BY <1>t, <2>4, <2>6
    <3> QED BY <1>s, <2>1, <2>5, <2>6, <3>1
  <2>7. CASE t = u /\ (m # r \/ Timed(u))
    <3>1. held'[t][m] = held[t][m]
      BY <1>t, <2>4, <2>7
    <3> QED BY <1>s, <2>1, <2>5, <2>7, <3>1
  <2>8. CASE t = u /\ m = r /\ ~Timed(u)
    <3>1. Granted(t, m)
      BY <2>5, <2>8
    <3>2. mux[m].count = 1 /\ mux[m].owner = t /\ held[t][m] = 0
      BY <1>g, <3>1 DEF Told
    <3>3. held'[t][m] = 1
      BY <1>t, <2>4, <2>8, <3>2
    <3> QED BY <2>1, <2>5, <2>8, <3>2, <3>3 DEF Told
  <2> QED BY <2>6, <2>7, <2>8
\* The owner posts.
<1>8. ASSUME NEW u \in Tasks, NEW n \in Mutexes, CanPost(u, n), held' = Posted(u, n)
      PROVE  /\ pc[u] = "app" /\ mux[n].count > 0 /\ mux[n].owner = u
             /\ held[u][n] = mux[n].count /\ held'[u][n] = mux[n].count - 1
             /\ \A x \in Mutexes : ~Granted(u, x)
             /\ \A v \in Tasks \ {u} : ~Granted(v, n) /\ held[v][n] = 0
             /\ \A v \in Tasks, x \in Mutexes :
                  v # u \/ x # n => held'[v][x] = held[v][x]
  <2>1. pc[u] = "app" /\ mux[n].count > 0 /\ mux[n].owner = u
    BY <1>8, CallerFacts DEF CanPost
  <2>2. held' = [held EXCEPT ![u] = [held[u] EXCEPT ![n] =
                   IF held[u][n] > 0 THEN held[u][n] - 1 ELSE 0]]
    BY <1>8, HeldFields
  <2>3. \A x \in Mutexes : ~Granted(u, x)
    BY <2>1 DEF Granted
  <2>4. held[u][n] = mux[n].count
    BY <1>g, <2>1, <2>3 DEF Told
  <2>5. held'[u][n] = mux[n].count - 1
    BY <1>t, <2>1, <2>2, <2>4
  <2>6. \A v \in Tasks \ {u} : ~Granted(v, n) /\ held[v][n] = 0
    BY <1>g, <2>1 DEF Told
  <2>7. \A v \in Tasks, x \in Mutexes : v # u \/ x # n => held'[v][x] = held[v][x]
    BY <1>t, <2>2
  <2> QED BY <2>1, <2>3, <2>4, <2>5, <2>6, <2>7
<1>9. ASSUME NEW u \in Tasks, NEW n \in Mutexes, MuxUnwind(u, n)
      PROVE  Told(t, m)'
  <2>1. /\ UNCHANGED <<status, pc, handle>> /\ CanPost(u, n)
        /\ held' = Posted(u, n) /\ mux[n].count > 1
    BY <1>9 DEF MuxUnwind, taskVars
  <2>2. mux' = [mux EXCEPT ![n] =
                  [used |-> mux[n].used, count |-> mux[n].count - 1,
                   owner |-> mux[n].owner, prio |-> mux[n].prio]]
    BY <1>9, NestKeeps
  <2>3. Granted(t, m)' <=> Granted(t, m)
    BY <2>1, SameGrants
  <2>4. CASE m # n
    <3>1. mux'[m] = mux[m] /\ held'[t][m] = held[t][m]
      BY <1>t, <1>8, <2>1, <2>2, <2>4
    <3> QED BY <1>s, <2>3, <3>1
  <2>5. CASE m = n
    <3>1. mux'[m].count = mux[m].count - 1 /\ mux'[m].owner = u
      BY <1>t, <1>8, <2>1, <2>2, <2>5
    <3>2. CASE t = u
      <4>1. held'[t][m] = mux[m].count - 1 /\ ~Granted(t, m)
        BY <1>8, <2>1, <2>5, <3>2
      <4> QED BY <1>t, <2>1, <2>3, <2>5, <3>1, <3>2, <4>1 DEF Told
    <3>3. CASE t # u
      <4>1. held'[t][m] = 0 /\ ~Granted(t, m)
        BY <1>8, <2>1, <2>5, <3>3
      <4> QED BY <2>3, <3>1, <3>3, <4>1 DEF Told
    <3> QED BY <3>2, <3>3
  <2> QED BY <2>4, <2>5
<1>10. ASSUME NEW u \in Tasks, NEW n \in Mutexes, MuxRelease(u, n)
      PROVE  Told(t, m)'
  <2>1. /\ UNCHANGED <<status, pc, handle>> /\ CanPost(u, n)
        /\ held' = Posted(u, n) /\ mux[n].count = 1
        /\ mux' = [mux EXCEPT ![n] =
                     [used |-> mux[n].used, count |-> 0,
                      owner |-> mux[n].owner, prio |-> mux[n].prio]]
    BY <1>10, ReleaseKeeps DEF MuxRelease
  <2>3. Granted(t, m)' <=> Granted(t, m)
    BY <2>1, SameGrants
  <2>4. CASE m # n
    <3>1. mux'[m] = mux[m] /\ held'[t][m] = held[t][m]
      BY <1>t, <1>8, <2>1, <2>4
    <3> QED BY <1>s, <2>3, <3>1
  <2>5. CASE m = n
    <3>1. mux'[m].count = 0
      BY <1>t, <2>1, <2>5
    <3>2. held'[t][m] = 0 /\ ~Granted(t, m)
      BY <1>8, <2>1, <2>5
    <3> QED BY <2>3, <3>1, <3>2 DEF Told
  <2> QED BY <2>4, <2>5
<1>11. ASSUME NEW u \in Tasks, NEW n \in Mutexes, MuxHandOver(u, n)
      PROVE  Told(t, m)'
  <2>1. PICK w \in Tasks \ {u} : w = FirstWaiter(n)
    BY <1>11, HandOverKeeps
  <2>2. /\ CanPost(u, n) /\ held' = Posted(u, n) /\ mux[n].count = 1
        /\ mux' = [mux EXCEPT ![n] =
                     [used |-> mux[n].used, count |-> 1,
                      owner |-> w, prio |-> prio[w]]]
    BY <1>11, <2>1, HandOverKeeps DEF MuxHandOver
  <2>3. \A v \in Tasks, x \in Mutexes :
          /\ Granted(v, x)' <=> Granted(v, x) \/ (v = w /\ x = n)
          /\ ~Granted(w, x)
    BY <1>11, <2>1, HandOverGrants
  <2>4. CASE m # n
    <3>1. mux'[m] = mux[m] /\ held'[t][m] = held[t][m]
      BY <1>t, <1>8, <2>2, <2>4
    <3>2. Granted(t, m)' <=> Granted(t, m)
      BY <2>3, <2>4
    <3> QED BY <1>s, <3>1, <3>2
  <2>5. CASE m = n
    <3>1. mux'[m].count = 1 /\ mux'[m].owner = w
      BY <1>t, <2>2, <2>5
    <3>2. held'[t][m] = 0
      <4>1. CASE t = u
        BY <1>8, <2>2, <2>5, <4>1
      <4>2. CASE t # u
        BY <1>8, <2>2, <2>5, <4>2
      <4> QED BY <4>1, <4>2
    <3>3. ~Granted(t, m)
      BY <1>8, <2>2, <2>5
    <3>4. Granted(t, m)' <=> t = w
      BY <2>3, <2>5, <3>3
    <3> QED BY <3>1, <3>2, <3>4 DEF Told
  <2> QED BY <2>4, <2>5
<1>12. CASE UNCHANGED vars
  <2>1. UNCHANGED <<status, pc, handle>> /\ mux' = mux /\ held' = held
    BY <1>12 DEF vars, taskVars, muxVars
  <2> QED BY <1>s, <2>1, SameGrants
<1> QED BY <1>1, <1>2, <1>3, <1>4, <1>5, <1>6, <1>7, <1>9, <1>10, <1>11, <1>12
        DEF MuxNext, MuxCall

LEMMA ToldExcludes == MuxInv /\ AllTold => Exclusion
<1> SUFFICES ASSUME MuxInv, AllTold, NEW t \in Tasks, NEW m \in Mutexes,
                    held[t][m] > 0
             PROVE  mux[m].used /\ mux[m].owner = t /\ mux[m].count = held[t][m]
  BY DEF Exclusion
<1>1. mux[m].count > 0 /\ mux[m].owner = t /\ held[t][m] = mux[m].count
  BY DEF AllTold, Told
<1> QED BY <1>1 DEF MuxInv, Owned

\* Mutual exclusion: a task that was told LOS_OK owns the mutex until it posts
\* it, as often as it was told, so that no two tasks are told of one mutex.
THEOREM MutualExclusion ==
  ASSUME TimesliceTimeout = 0, "delete" \notin Calls, "return" \notin Calls
  PROVE  MuxSpec => []Exclusion
<1>1. MuxInit => AllTold
  BY DEF MuxInit, Init, AllTold, Told, Granted
<1>2. MuxInit => FreeHoldsNone
  BY DEF MuxInit, FreeHoldsNone
<1> QED BY AlwaysMuxInv, NextExclusion, NextHoldsNone, ToldExcludes, <1>1, <1>2, PTL
        DEF MuxSpec

-----------------------------------------------------------------------------
(***************************************************************************)
(* Every step is a step of MutexSpec or none.                              *)
(***************************************************************************)

\* The i-th node of a list, unlinked.
LEMMA WithoutIsCut ==
  ASSUME NEW S, NEW q \in Seq(S), IsInjective(q), NEW i \in DOMAIN q
  PROVE  Without(q, q[i]) = SubSeq(q, 1, i - 1) \o SubSeq(q, i + 1, Len(q))
<1>1. q[i] \in Range(q)
  BY DEF Range
<1>2. (CHOOSE j \in DOMAIN q : q[j] = q[i]) = i
  <2>1. \A j \in DOMAIN q : q[j] = q[i] => j = i
    BY DEF IsInjective
  <2> QED BY <2>1
<1> QED BY <1>1, <1>2 DEF Without, RemoveAt

\* A mutex as MutexSpec sees it.
AbstractOwner(m) == IF mux[m].count = 0 THEN None ELSE mux[m].owner

SameQueues == \A n \in Mutexes : lists'[n] = lists[n]
SameLocks ==
  \A n \in Mutexes :
    mux'[n].count = mux[n].count /\ AbstractOwner(n)' = AbstractOwner(n)

LEMMA AbstractStutters ==
  ASSUME SameLocks, SameQueues
  PROVE  UNCHANGED Abstract!vars
BY DEF Abstract!vars, SameQueues, SameLocks, AbstractOwner

\* The variables of MutexSpec.
Owners == [n \in Mutexes |-> IF mux[n].count = 0 THEN None ELSE mux[n].owner]
Counts == [n \in Mutexes |-> mux[n].count]
Queues == [n \in Mutexes |-> lists[n]]

\* One mutex changes.
LEMMA AbstractMoves ==
  ASSUME NEW m \in Mutexes, NEW o, NEW c, NEW q,
         AbstractOwner(m)' = o, mux'[m].count = c, lists'[m] = q,
         \A n \in Mutexes \ {m} :
           mux'[n].count = mux[n].count /\ AbstractOwner(n)' = AbstractOwner(n)
             /\ lists'[n] = lists[n]
  PROVE  /\ Owners' = [Owners EXCEPT ![m] = o]
         /\ Counts' = [Counts EXCEPT ![m] = c]
         /\ Queues' = [Queues EXCEPT ![m] = q]
         /\ o = AbstractOwner(m) => Owners' = Owners
         /\ c = mux[m].count => Counts' = Counts
         /\ q = lists[m] => Queues' = Queues
BY DEF AbstractOwner, Owners, Counts, Queues

LEMMA AbstractLeave ==
  ASSUME MuxInv, SameLocks, NEW n \in Tasks,
         \A r \in Mutexes : lists'[r] = Without(lists[r], n),
         NEW m \in Mutexes, n \in Range(lists[m])
  PROVE  Abstract!Next
<1>1. /\ \A r \in Mutexes : lists[r] \in Seq(Tasks) /\ IsInjective(lists[r])
      /\ \A r \in Mutexes \ {m} : n \notin Range(lists[r])
  BY TypeFacts DEF Nodes
<1>2. PICK i \in DOMAIN lists[m] : lists[m][i] = n
  BY DEF Range
<1>3. lists'[m] = SubSeq(lists[m], 1, i - 1) \o SubSeq(lists[m], i + 1, Len(lists[m]))
  BY <1>1, <1>2, WithoutIsCut
<1>4. \A r \in Mutexes \ {m} : lists'[r] = lists[r]
  BY <1>1 DEF Without
<1>5. Abstract!Leave(m, i)
  BY <1>2, <1>3, <1>4 DEF Abstract!Leave, SameLocks, AbstractOwner
<1> QED BY <1>2, <1>5 DEF Abstract!Next

LEMMA AbstractStep ==
  ASSUME MuxInv, TimesliceTimeout = 0, [MuxNext]_vars
  PROVE  [Abstract!Next]_(Abstract!vars)
<1>t. /\ mux \in [Mutexes -> MuxRecord] /\ Mutexes = WaitObjects
      /\ \A n \in Mutexes : mux[n].count \in Nat
  BY TypeFacts
<1>q. ASSUME UNCHANGED taskVars PROVE SameQueues
  BY <1>q DEF taskVars, SameQueues
\* Nobody owns the mutex, before and after.
<1>z. ASSUME NEW m \in Mutexes, UNCHANGED taskVars, mux[m].count = 0,
             mux'[m].count = 0, \A n \in Mutexes \ {m} : mux'[n] = mux[n]
      PROVE  UNCHANGED Abstract!vars
  <2>1. SameLocks
    BY <1>z DEF SameLocks, AbstractOwner
  <2> QED BY <2>1, <1>q, <1>z, AbstractStutters
<1>1. CASE SchedulerStep
  <2>1. SameLocks
    BY <1>1 DEF SchedulerStep, SameLocks, AbstractOwner
  <2>2. ListsLeft
    BY <1>1, StepLeaves DEF MuxInv, SchedulerStep
  <2>3. PICK n \in Tasks : \/ \A w \in Mutexes : lists'[w] = lists[w]
                           \/ \A w \in Mutexes : lists'[w] = Without(lists[w], n)
    BY <1>t, <2>2 DEF ListsLeft
  <2>4. CASE SameQueues
    BY <2>1, <2>4, AbstractStutters
  <2>5. CASE ~SameQueues
    <3>1. \A w \in Mutexes : lists'[w] = Without(lists[w], n)
      BY <2>3, <2>5 DEF SameQueues
    <3>2. PICK m \in Mutexes : n \in Range(lists[m])
      BY <2>5, <3>1 DEF SameQueues, Without
    <3> QED BY <2>1, <3>1, <3>2, AbstractLeave
  <2> QED BY <2>4, <2>5
<1>2. ASSUME NEW m \in Mutexes, LOS_MuxCreate(m)
      PROVE  UNCHANGED Abstract!vars
  <2>1. /\ ~mux[m].used /\ UNCHANGED taskVars
        /\ mux' = [mux EXCEPT ![m] =
                     [used |-> TRUE, count |-> 0, owner |-> None, prio |-> 0]]
    BY <1>2 DEF LOS_MuxCreate
  <2>2. mux[m].count = 0 /\ mux'[m].count = 0
    BY <2>1, <1>t DEF MuxInv, Owned
  <2> QED BY <1>z, <1>t, <2>1, <2>2
<1>3. ASSUME NEW t \in Tasks, NEW m \in Mutexes, LOS_MuxDelete(t, m)
      PROVE  UNCHANGED Abstract!vars
  <2>1. /\ UNCHANGED taskVars /\ mux[m].count = 0
        /\ mux' = [mux EXCEPT ![m] =
                     [used |-> FALSE, count |-> mux[m].count,
                      owner |-> mux[m].owner, prio |-> mux[m].prio]]
    BY <1>3, DeleteKeeps
  <2>2. mux'[m].count = 0
    BY <2>1, <1>t
  <2> QED BY <1>z, <1>t, <2>1, <2>2
<1>4. ASSUME NEW t \in Tasks, NEW m \in Mutexes, MuxTake(t, m)
      PROVE  Abstract!Next
  <2>1. /\ UNCHANGED taskVars /\ mux[m].count = 0
        /\ mux' = [mux EXCEPT ![m] = [used |-> mux[m].used, count |-> 1,
                                      owner |-> t, prio |-> prio[t]]]
    BY <1>4, TakeKeeps DEF MuxTake
  <2>2. Abstract!Acquire(t, m)
    <3>1. /\ AbstractOwner(m)' = t /\ mux'[m].count = 1 /\ lists'[m] = lists[m]
          /\ \A n \in Mutexes \ {m} :
               mux'[n].count = mux[n].count /\ AbstractOwner(n)' = AbstractOwner(n)
                 /\ lists'[n] = lists[n]
      BY <1>q, <1>t, <2>1 DEF AbstractOwner, SameQueues
    <3>3. /\ Owners' = [Owners EXCEPT ![m] = t]
          /\ Counts' = [Counts EXCEPT ![m] = 1]
          /\ Queues' = Queues
      BY <3>1, AbstractMoves
    <3> QED BY <2>1, <3>3 DEF Abstract!Acquire, Owners, Counts, Queues
  <2> QED BY <2>2 DEF Abstract!Next
<1>5. ASSUME NEW t \in Tasks, NEW m \in Mutexes, MuxReenter(t, m)
      PROVE  Abstract!Next
  <2>1. /\ UNCHANGED taskVars /\ mux[m].count > 0 /\ mux[m].owner = t
        /\ mux' = [mux EXCEPT ![m] =
                     [used |-> mux[m].used, count |-> mux[m].count + 1,
                      owner |-> mux[m].owner, prio |-> mux[m].prio]]
    <3>1. UNCHANGED taskVars /\ mux[m].count > 0 /\ mux[m].owner = t
      BY <1>5, <1>t DEF MuxReenter
    <3> QED BY <1>5, <3>1, NestKeeps
  <2>2. Abstract!Reenter(t, m)
    <3>1. /\ AbstractOwner(m)' = t /\ AbstractOwner(m) = t
          /\ mux'[m].count = mux[m].count + 1 /\ lists'[m] = lists[m]
          /\ \A n \in Mutexes \ {m} :
               mux'[n].count = mux[n].count /\ AbstractOwner(n)' = AbstractOwner(n)
                 /\ lists'[n] = lists[n]
      BY <1>q, <1>t, <2>1 DEF AbstractOwner, SameQueues
    <3>2. mux[m].count # 0
      BY <1>t, <2>1
    <3>3. /\ Owners' = Owners
          /\ Counts' = [Counts EXCEPT ![m] = mux[m].count + 1]
          /\ Queues' = Queues
      BY <3>1, AbstractMoves
    <3> QED BY <2>1, <3>3, <3>2 DEF Abstract!Reenter, Owners, Counts, Queues
  <2> QED BY <2>2 DEF Abstract!Next
<1>6. ASSUME NEW t \in Tasks, NEW m \in Mutexes, NEW k \in MuxTimeouts,
             MuxBlock(t, m, k)
      PROVE  Abstract!Next
  <2>1. mux' = mux /\ mux[m].count > 0 /\ mux[m].owner # t
    BY <1>6 DEF MuxBlock
  <2>2. /\ lists'[m] = Append(lists[m], t)
        /\ \A r \in Mutexes \ {m} : lists'[r] = lists[r]
    BY <1>6, BlockKeeps
  <2>3. \A r \in Mutexes : \A i \in DOMAIN lists[r] : lists[r][i] # t
    <3>1. \A r \in Mutexes : t \notin Range(lists[r])
      BY <1>6, <1>t, CallerFacts DEF MuxBlock
    <3> QED BY <3>1 DEF Range
  <2>4. Abstract!Wait(t, m)
    <3>1. /\ AbstractOwner(m)' = AbstractOwner(m) /\ AbstractOwner(m) = mux[m].owner
          /\ mux'[m].count = mux[m].count /\ lists'[m] = Append(lists[m], t)
          /\ \A n \in Mutexes \ {m} :
               mux'[n].count = mux[n].count /\ AbstractOwner(n)' = AbstractOwner(n)
                 /\ lists'[n] = lists[n]
      BY <1>t, <2>1, <2>2 DEF AbstractOwner
    <3>2. mux[m].count # 0
      BY <1>t, <2>1
    <3>3. /\ Owners' = Owners
          /\ Counts' = Counts
          /\ Queues' = [Queues EXCEPT ![m] = Append(lists[m], t)]
      BY <3>1, AbstractMoves
    <3> QED BY <2>1, <2>3, <3>3, <3>2 DEF Abstract!Wait, Owners, Counts, Queues
  <2> QED BY <2>4 DEF Abstract!Next
<1>7. ASSUME NEW t \in Tasks, MuxReturn(t)
      PROVE  UNCHANGED Abstract!vars
  <2>1. SameLocks /\ SameQueues
    BY <1>7 DEF MuxReturn, SameLocks, SameQueues, AbstractOwner
  <2> QED BY <2>1, AbstractStutters
<1>8. ASSUME NEW t \in Tasks, NEW m \in Mutexes, MuxUnwind(t, m)
      PROVE  Abstract!Next
  <2>1. /\ UNCHANGED taskVars /\ mux[m].count > 1 /\ mux[m].owner = t
        /\ mux' = [mux EXCEPT ![m] =
                     [used |-> mux[m].used, count |-> mux[m].count - 1,
                      owner |-> mux[m].owner, prio |-> mux[m].prio]]
    <3>1. UNCHANGED taskVars /\ mux[m].count > 1 /\ mux[m].owner = t
      BY <1>8 DEF MuxUnwind, CanPost
    <3> QED BY <1>8, <3>1, NestKeeps
  <2>2. Abstract!Unwind(t, m)
    <3>1. /\ AbstractOwner(m)' = t /\ AbstractOwner(m) = t
          /\ mux'[m].count = mux[m].count - 1 /\ lists'[m] = lists[m]
          /\ \A n \in Mutexes \ {m} :
               mux'[n].count = mux[n].count /\ AbstractOwner(n)' = AbstractOwner(n)
                 /\ lists'[n] = lists[n]
      BY <1>q, <1>t, <2>1 DEF AbstractOwner, SameQueues
    <3>2. mux[m].count # 0
      BY <1>t, <2>1
    <3>3. /\ Owners' = Owners
          /\ Counts' = [Counts EXCEPT ![m] = mux[m].count - 1]
          /\ Queues' = Queues
      BY <3>1, AbstractMoves
    <3> QED BY <2>1, <3>3, <3>2 DEF Abstract!Unwind, Owners, Counts, Queues
  <2> QED BY <2>2 DEF Abstract!Next
<1>9. ASSUME NEW t \in Tasks, NEW m \in Mutexes, MuxRelease(t, m)
      PROVE  Abstract!Next
  <2>1. /\ mux[m].count = 1 /\ mux[m].owner = t /\ lists[m] = <<>>
        /\ \A n \in Mutexes : lists'[n] = lists[n]
        /\ mux' = [mux EXCEPT ![m] =
                     [used |-> mux[m].used, count |-> 0,
                      owner |-> mux[m].owner, prio |-> mux[m].prio]]
    BY <1>9, ReleaseKeeps DEF MuxRelease, CanPost
  <2>2. Abstract!Release(t, m)
    <3>1. /\ AbstractOwner(m)' = None /\ mux'[m].count = 0 /\ lists'[m] = lists[m]
          /\ \A n \in Mutexes \ {m} :
               mux'[n].count = mux[n].count /\ AbstractOwner(n)' = AbstractOwner(n)
                 /\ lists'[n] = lists[n]
      BY <1>t, <2>1 DEF AbstractOwner
    <3>3. /\ Owners' = [Owners EXCEPT ![m] = None]
          /\ Counts' = [Counts EXCEPT ![m] = 0]
          /\ Queues' = Queues
      BY <3>1, AbstractMoves
    <3> QED BY <2>1, <3>3 DEF Abstract!Release, Owners, Counts, Queues
  <2> QED BY <2>2 DEF Abstract!Next
<1>10. ASSUME NEW t \in Tasks, NEW m \in Mutexes, MuxHandOver(t, m)
       PROVE  Abstract!Next
  <2>1. /\ mux[m].count = 1 /\ mux[m].owner = t /\ lists[m] # <<>>
        /\ lists'[m] = Tail(lists[m])
        /\ \A n \in Mutexes \ {m} : lists'[n] = lists[n]
        /\ mux' = [mux EXCEPT ![m] =
                     [used |-> mux[m].used, count |-> 1,
                      owner |-> Head(lists[m]), prio |-> prio[Head(lists[m])]]]
    BY <1>10, HandOverKeeps DEF MuxHandOver, CanPost, FirstWaiter
  <2>2. Abstract!HandOver(t, m)
    <3>1. /\ AbstractOwner(m)' = Head(lists[m]) /\ mux'[m].count = mux[m].count
          /\ lists'[m] = Tail(lists[m])
          /\ \A n \in Mutexes \ {m} :
               mux'[n].count = mux[n].count /\ AbstractOwner(n)' = AbstractOwner(n)
                 /\ lists'[n] = lists[n]
      BY <1>t, <2>1 DEF AbstractOwner
    <3>3. /\ Owners' = [Owners EXCEPT ![m] = Head(lists[m])]
          /\ Counts' = Counts
          /\ Queues' = [Queues EXCEPT ![m] = Tail(lists[m])]
      <4>1. \E h, q : h = Head(lists[m]) /\ q = Tail(lists[m])
        OBVIOUS
      <4>2. PICK h, q : h = Head(lists[m]) /\ q = Tail(lists[m])
        BY <4>1
      <4>3. /\ Owners' = [Owners EXCEPT ![m] = h]
            /\ Counts' = Counts
            /\ Queues' = [Queues EXCEPT ![m] = q]
        <5>1. /\ AbstractOwner(m)' = h /\ mux'[m].count = mux[m].count
              /\ lists'[m] = q
          BY <3>1, <4>2
        <5> QED BY <3>1, <5>1, AbstractMoves
      <4> QED BY <4>2, <4>3
    <3> QED BY <2>1, <3>3 DEF Abstract!HandOver, Owners, Counts, Queues
  <2> QED BY <2>2 DEF Abstract!Next
<1>11. CASE UNCHANGED vars
  <2>1. SameLocks /\ SameQueues
    BY <1>11 DEF vars, taskVars, muxVars, SameLocks, SameQueues, AbstractOwner
  <2> QED BY <2>1, AbstractStutters
<1> QED BY <1>1, <1>2, <1>3, <1>4, <1>5, <1>6, <1>7, <1>8, <1>9, <1>10, <1>11
        DEF MuxNext, MuxCall

LEMMA AbstractInit == MuxInit => Abstract!Init
<1> SUFFICES ASSUME MuxInit PROVE Abstract!Init
  OBVIOUS
<1>1. \A m \in Mutexes : lists[m] = <<>>
  BY MuxAssumption, ParamAssumption DEF MuxInit, Init, Lists, Priorities
<1>2. \A m \in Mutexes : mux[m].count = 0
  BY DEF MuxInit
<1> QED BY <1>1, <1>2 DEF Abstract!Init

\* Whatever happens around them, the mutexes are recursive locks with
\* first-come first-served queues: only the owner posts, the release hands the
\* mutex to the head of the queue, and nobody takes it past a waiting task.
THEOREM MutexesImplemented ==
  ASSUME TimesliceTimeout = 0
  PROVE  MuxSpec => ImplementsMutex
<1>1. MuxInv /\ [MuxNext]_vars => [Abstract!Next]_(Abstract!vars)
  BY AbstractStep
<1> QED BY AlwaysMuxInv, AbstractInit, <1>1, PTL
        DEF MuxSpec, ImplementsMutex, Abstract!Spec

-----------------------------------------------------------------------------
(***************************************************************************)
(* Lent priorities, where there is one mutex: with two, a task that takes  *)
(* the second while it runs at a lent priority keeps that priority.        *)
(***************************************************************************)

\* The priority the owner goes back to is its own, and the idle task neither
\* owns nor waits.
KeptPrio ==
  /\ handle[Idle] = None
  /\ \A m \in Mutexes : mux[m].count > 0 =>
       mux[m].owner # Idle /\ mux[m].prio \in CreatePrio[mux[m].owner]

\* A step in which nobody's priority changes, and at most the owner's flags.
LEMMA SamePrio ==
  ASSUME PriorityGivenBack, prio' = prio,
         \A t \in Tasks \ {Idle} :
           "unused" \notin status'[t] /\ OwnsNone(t)'
             => "unused" \notin status[t] /\ OwnsNone(t)
  PROVE  PriorityGivenBack'
BY DEF PriorityGivenBack

LEMMA NextPrio ==
  MuxInv /\ TimesliceTimeout = 0 /\ "priset" \notin Calls
    /\ (\A m, n \in Mutexes : m = n)
    /\ KeptPrio /\ PriorityGivenBack /\ [MuxNext]_vars
    => KeptPrio' /\ PriorityGivenBack'
<1> SUFFICES ASSUME MuxInv, TimesliceTimeout = 0, "priset" \notin Calls,
                    \A m, n \in Mutexes : m = n,
                    KeptPrio, PriorityGivenBack, [MuxNext]_vars
             PROVE  KeptPrio' /\ PriorityGivenBack'
  OBVIOUS
<1>t. /\ mux \in [Mutexes -> MuxRecord] /\ Idle \in Tasks /\ None \notin Mutexes
      /\ handle \in [Tasks -> Mutexes \cup {None}]
      /\ status \in [Tasks -> SUBSET Flags] /\ prio \in [Tasks -> Priorities]
      /\ \A n \in Mutexes : mux[n].count \in Nat
  BY TypeFacts, ParamAssumption, MuxAssumption
<1>p. ASSUME NEW t \in Tasks \ {Idle}, "unused" \notin status[t], OwnsNone(t)
      PROVE  prio[t] \in CreatePrio[t]
  BY <1>p DEF PriorityGivenBack
\* The mutex is the only one: what it does not say of an owner, none does.
<1>o. ASSUME NEW m \in Mutexes, NEW t \in Tasks
      PROVE  /\ OwnsNone(t) <=> (mux[m].count > 0 => mux[m].owner # t)
             /\ OwnsNone(t)' <=> (mux'[m].count > 0 => mux'[m].owner # t)
  BY DEF OwnsNone
<1>1. CASE SchedulerStep
  <2>1. mux' = mux /\ handle'[Idle] = None
    BY <1>1, <1>t DEF SchedulerStep, KeptPrio
  <2>2. KeptPrio'
    BY <2>1 DEF KeptPrio
  <2>3. FreeIsOut'
    BY <1>1, StepLeaves DEF MuxInv, SchedulerStep
  <2>4. ASSUME NEW t \in Tasks \ {Idle}, "unused" \notin status'[t], OwnsNone(t)'
        PROVE  prio'[t] \in CreatePrio[t]
    <3>1. pc'[t] # "none"
      BY <2>3, <2>4 DEF FreeIsOut
    <3>2. \/ prio'[t] \in CreatePrio[t]
          \/ pc[t] # "none" /\ prio'[t] = prio[t]
      BY <1>1, <3>1, PriosLeft DEF MuxInv, SchedulerStep
    <3>3. pc[t] # "none" => "unused" \notin status[t]
      BY DEF MuxInv, FreeIsOut
    <3>4. OwnsNone(t)
      BY <2>1, <2>4 DEF OwnsNone
    <3> QED BY <1>p, <3>2, <3>3, <3>4
  <2>5. PriorityGivenBack'
    BY <2>4 DEF PriorityGivenBack
  <2> QED BY <2>2, <2>5
\* A free mutex is created or deleted.
<1>2. ASSUME NEW m \in Mutexes, UNCHANGED <<taskVars, handle>>,
             mux[m].count = 0, mux'[m].count = 0
      PROVE  KeptPrio' /\ PriorityGivenBack'
  <2>1. status' = status /\ prio' = prio /\ handle' = handle
    BY <1>2 DEF taskVars
  <2>2. KeptPrio'
    BY <1>2, <2>1 DEF KeptPrio
  <2>3. \A t \in Tasks : OwnsNone(t) /\ OwnsNone(t)'
    BY <1>2, <1>o
  <2> QED BY <2>1, <2>2, <2>3, SamePrio
<1>3. ASSUME NEW m \in Mutexes, LOS_MuxCreate(m)
      PROVE  KeptPrio' /\ PriorityGivenBack'
  <2>1. /\ ~mux[m].used /\ UNCHANGED <<taskVars, handle>>
        /\ mux' = [mux EXCEPT ![m] =
                     [used |-> TRUE, count |-> 0, owner |-> None, prio |-> 0]]
    BY <1>3 DEF LOS_MuxCreate
  <2>2. mux[m].count = 0 /\ mux'[m].count = 0
    BY <2>1, <1>t DEF MuxInv, Owned
  <2> QED BY <1>2, <2>1, <2>2
<1>4. ASSUME NEW t \in Tasks, NEW m \in Mutexes, LOS_MuxDelete(t, m)
      PROVE  KeptPrio' /\ PriorityGivenBack'
  <2>1. /\ UNCHANGED <<taskVars, handle>> /\ mux[m].count = 0
        /\ mux' = [mux EXCEPT ![m] =
                     [used |-> FALSE, count |-> mux[m].count,
                      owner |-> mux[m].owner, prio |-> mux[m].prio]]
    BY <1>4, DeleteKeeps
  <2>2. mux'[m].count = 0
    BY <2>1, <1>t
  <2> QED BY <1>2, <2>1, <2>2
<1>5. ASSUME NEW t \in Tasks, NEW m \in Mutexes, MuxTake(t, m)
      PROVE  KeptPrio' /\ PriorityGivenBack'
  <2>1. /\ UNCHANGED <<taskVars, handle>> /\ mux[m].count = 0
        /\ t # Idle /\ status[t] \cap {"unused", "pend"} = {}
        /\ mux' = [mux EXCEPT ![m] = [used |-> mux[m].used, count |-> 1,
                                      owner |-> t, prio |-> prio[t]]]
    BY <1>5, TakeKeeps, CallerFacts DEF MuxTake
  <2>2. status' = status /\ prio' = prio /\ handle' = handle
    BY <2>1 DEF taskVars
  <2>3. \A u \in Tasks : OwnsNone(u)
    BY <2>1, <1>o
  <2>4. prio[t] \in CreatePrio[t]
    BY <1>p, <2>1, <2>3
  <2>5. mux'[m].owner = t /\ mux'[m].prio = prio[t]
    BY <2>1, <1>t
  <2>6. KeptPrio'
    BY <2>1, <2>2, <2>4, <2>5 DEF KeptPrio
  <2> QED BY <2>2, <2>3, <2>6, SamePrio
<1>6. ASSUME NEW t \in Tasks, NEW m \in Mutexes, NEW c \in Int,
             \/ MuxReenter(t, m) /\ c = mux[m].count + 1
             \/ MuxUnwind(t, m) /\ c = mux[m].count - 1
      PROVE  KeptPrio' /\ PriorityGivenBack'
  <2>1. UNCHANGED <<taskVars, handle>> /\ mux[m].count > 0
    BY <1>6, <1>t DEF MuxReenter, MuxUnwind, CanPost
  <2>2. /\ c > 0
        /\ mux' = [mux EXCEPT ![m] =
                     [used |-> mux[m].used, count |-> c,
                      owner |-> mux[m].owner, prio |-> mux[m].prio]]
    BY <1>6, NestKeeps
  <2>3. status' = status /\ prio' = prio /\ handle' = handle
    BY <2>1 DEF taskVars
  <2>4. mux'[m].owner = mux[m].owner /\ mux'[m].prio = mux[m].prio
        /\ mux'[m].count = c
    BY <2>2, <1>t
  <2>5. KeptPrio'
    BY <2>1, <2>3, <2>4 DEF KeptPrio
  <2>6. \A u \in Tasks : OwnsNone(u)' <=> OwnsNone(u)
    BY <2>1, <2>2, <2>4, <1>o
  <2> QED BY <2>3, <2>5, <2>6, SamePrio
\* Only the owner's priority is raised.
<1>7. ASSUME NEW t \in Tasks, NEW m \in Mutexes, NEW k \in MuxTimeouts,
             MuxBlock(t, m, k)
      PROVE  KeptPrio' /\ PriorityGivenBack'
  <2>1. /\ mux[m].count > 0 /\ t # Idle /\ mux' = mux
        /\ handle' = [handle EXCEPT ![t] = m]
        /\ prio' = LentPrio(t, m)
        /\ status' = [status EXCEPT ![t] =
                  (status[t] \ {"ready", "timeout"}) \cup {"pend"}
                    \cup (IF k = LOS_WAIT_FOREVER THEN {} ELSE {"timeout"})]
    BY <1>7 DEF MuxBlock, CanCall, LentPrio
  <2>2. KeptPrio'
    BY <1>t, <2>1 DEF KeptPrio
  <2>3. \A u \in Tasks : u # mux[m].owner => prio'[u] = prio[u]
    BY <1>t, <2>1 DEF LentPrio
  <2>4. \A u \in Tasks : "unused" \in status'[u] <=> "unused" \in status[u]
    BY <1>t, <2>1
  <2>5. ASSUME NEW u \in Tasks \ {Idle}, "unused" \notin status'[u], OwnsNone(u)'
        PROVE  prio'[u] \in CreatePrio[u]
    <3>1. u # mux[m].owner /\ OwnsNone(u)
      BY <1>o, <2>1, <2>5 DEF OwnsNone
    <3> QED BY <1>p, <2>3, <2>4, <2>5, <3>1
  <2> QED BY <2>2, <2>5 DEF PriorityGivenBack
\* The owner posts: it is the only task whose priority changes.
<1>8. ASSUME NEW t \in Tasks, NEW m \in Mutexes, CanPost(t, m),
             prio' = RestoredPrio(t, m),
             \A u \in Tasks : "unused" \in status'[u] <=> "unused" \in status[u]
      PROVE  PriorityGivenBack'
  <2>1. mux[m].count > 0 /\ mux[m].owner = t /\ mux[m].prio \in CreatePrio[t]
    BY <1>8 DEF CanPost, KeptPrio
  <2>2. prio'[t] = mux[m].prio /\ \A u \in Tasks \ {t} : prio'[u] = prio[u]
    BY <1>8, <1>t DEF RestoredPrio
  <2>3. \A u \in Tasks \ {t} : OwnsNone(u)
    BY <1>o, <2>1
  <2>4. ASSUME NEW u \in Tasks \ {Idle}, "unused" \notin status'[u]
        PROVE  prio'[u] \in CreatePrio[u]
    BY <1>p, <1>8, <2>1, <2>2, <2>3, <2>4
  <2> QED BY <2>4 DEF PriorityGivenBack
<1>9. ASSUME NEW t \in Tasks, NEW m \in Mutexes, MuxRelease(t, m)
      PROVE  KeptPrio' /\ PriorityGivenBack'
  <2>1. /\ CanPost(t, m) /\ prio' = RestoredPrio(t, m)
        /\ status' = status /\ handle' = handle
        /\ mux' = [mux EXCEPT ![m] =
                     [used |-> mux[m].used, count |-> 0,
                      owner |-> mux[m].owner, prio |-> mux[m].prio]]
    BY <1>9, ReleaseKeeps DEF MuxRelease
  <2>2. mux'[m].count = 0
    BY <2>1, <1>t
  <2>3. KeptPrio'
    BY <2>1, <2>2 DEF KeptPrio
  <2> QED BY <1>8, <2>1, <2>3
<1>10. ASSUME NEW t \in Tasks, NEW m \in Mutexes, MuxHandOver(t, m)
       PROVE  KeptPrio' /\ PriorityGivenBack'
  <2>1. PICK w \in Tasks \ {t} : w = FirstWaiter(m)
    BY <1>10, HandOverKeeps
  <2>2. /\ CanPost(t, m) /\ prio' = RestoredPrio(t, m) /\ handle' = handle
        /\ mux' = [mux EXCEPT ![m] =
                     [used |-> mux[m].used, count |-> 1,
                      owner |-> w, prio |-> prio[w]]]
        /\ w \in Range(lists[m])
        /\ status'[w] = WaitOver(w) \cup (IF "suspend" \in status[w] THEN {}
                                          ELSE {"ready"})
        /\ \A u \in Tasks \ {w} : status'[u] = status[u]
    <3>1. status' = [status EXCEPT ![w] = WaitOver(w) \cup
                      (IF "suspend" \in status[w] THEN {} ELSE {"ready"})]
      BY <1>10, <2>1 DEF MuxHandOver
    <3>2. status'[w] = WaitOver(w) \cup (IF "suspend" \in status[w] THEN {}
                                         ELSE {"ready"})
      BY <3>1, <1>t
    <3> QED BY <1>10, <2>1, <3>2, HandOverKeeps DEF MuxHandOver
  <2>3. handle[w] = m /\ w # Idle
    <3>1. handle[w] = m
      BY <2>2 DEF MuxInv, Waiters
    <3> QED BY <3>1, <1>t DEF KeptPrio
  <2>4. "unused" \notin status[w]
    <3>1. "pend" \in status[w]
      BY <2>2, WaitingIsInside DEF MuxInv, WaitersExist
    <3> QED BY <3>1 DEF MuxInv, Consistent, States, OneState
  <2>5. OwnsNone(w)
    BY <1>o, <2>1, <2>2 DEF CanPost
  <2>6. prio[w] \in CreatePrio[w]
    BY <1>p, <2>3, <2>4, <2>5
  <2>7. mux'[m].owner = w /\ mux'[m].prio = prio[w]
    BY <2>2, <1>t
  <2>8. KeptPrio'
    BY <2>2, <2>3, <2>6, <2>7 DEF KeptPrio
  <2>9. \A u \in Tasks : "unused" \in status'[u] <=> "unused" \in status[u]
    BY <2>2, <2>4 DEF WaitOver
  <2> QED BY <1>8, <2>2, <2>8, <2>9
<1>11. ASSUME NEW t \in Tasks, MuxReturn(t)
       PROVE  KeptPrio' /\ PriorityGivenBack'
  <2>1. /\ mux' = mux /\ prio' = prio
        /\ handle' = [handle EXCEPT ![t] = None]
        /\ status' = [status EXCEPT ![t] = status[t] \ {"timeout"}]
    BY <1>11 DEF MuxReturn
  <2>2. KeptPrio'
    BY <1>t, <2>1 DEF KeptPrio
  <2>3. \A u \in Tasks : "unused" \in status'[u] <=> "unused" \in status[u]
    BY <1>t, <2>1
  <2>4. \A u \in Tasks : OwnsNone(u)' <=> OwnsNone(u)
    BY <2>1 DEF OwnsNone
  <2> QED BY <2>1, <2>2, <2>3, <2>4, SamePrio
<1>12. CASE UNCHANGED vars
  <2>1. mux' = mux /\ prio' = prio /\ handle' = handle /\ status' = status
    BY <1>12 DEF vars, taskVars, muxVars
  <2> QED BY <2>1 DEF KeptPrio, PriorityGivenBack, OwnsNone
<1>13. \A n \in Mutexes : mux[n].count + 1 \in Int /\ mux[n].count - 1 \in Int
  BY <1>t
<1> QED BY <1>1, <1>3, <1>4, <1>5, <1>6, <1>7, <1>9, <1>10, <1>11, <1>12, <1>13
        DEF MuxNext, MuxCall

\* A lent priority is given back: with one mutex, a task that owns nothing
\* runs at a priority it was created with, however often it was lent another.
THEOREM LentPriorityReturns ==
  ASSUME TimesliceTimeout = 0, "priset" \notin Calls,
         \A m, n \in Mutexes : m = n
  PROVE  MuxSpec => []PriorityGivenBack
<1>1. MuxInit => KeptPrio /\ PriorityGivenBack
  BY ParamAssumption DEF MuxInit, Init, KeptPrio, PriorityGivenBack
<1> QED BY AlwaysMuxInv, NextPrio, <1>1, PTL DEF MuxSpec
=============================================================================
