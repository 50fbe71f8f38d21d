---------------------------- MODULE LosSemProofs ----------------------------
(***************************************************************************)
(* What LosSem keeps for every number of tasks, semaphores and priorities, *)
(* every counter limit and every timeout, when there is no time slice.     *)
(***************************************************************************)
EXTENDS LosSem, LosTaskProofs, FiniteSetTheorems

SemTypeOK ==
  /\ sem \in [Sems -> [used : BOOLEAN, count : 0 .. CountMax]]
  /\ handle \in [Tasks -> Sems \cup {None}]
  /\ balance \in [Sems -> Int]

\* A task in a wait list is inside LOS_SemPend for that semaphore, which has
\* no token.
Waiters ==
  \A s \in Sems : \A t \in Range(lists[s]) :
    Inside(t) /\ handle[t] = s /\ sem[s].used /\ sem[s].count = 0

SemInv ==
  /\ Consistent
  /\ FreeIsOut
  /\ SemTypeOK
  /\ Waiters

LEMMA WaitersAsleep == TypeOK => (Waiters <=> NobodySleepsOnToken)
<1> SUFFICES ASSUME TypeOK PROVE Waiters <=> NobodySleepsOnToken
  OBVIOUS
<1>1. \A s \in Sems : Range(lists[s]) = {lists[s][i] : i \in DOMAIN lists[s]}
  BY DEF Range
<1> QED BY <1>1 DEF Waiters, NobodySleepsOnToken, Inside

LEMMA InitSem == SemInit => SemInv
<1> SUFFICES ASSUME SemInit PROVE SemInv
  OBVIOUS
<1>1. Consistent
  BY InitConsistent DEF SemInit
<1>2. FreeIsOut
  BY DEF SemInit, Init, FreeIsOut
<1>3. SemTypeOK
  BY SemAssumption DEF SemInit, SemTypeOK
<1>4. \A s \in Sems : lists[s] = <<>>
  BY SemAssumption, ParamAssumption DEF SemInit, Init, Lists, Priorities
<1>5. Waiters
  BY <1>4 DEF Waiters, Range
<1> QED BY <1>1, <1>2, <1>3, <1>5 DEF SemInv

LEMMA TypeFacts ==
  ASSUME SemInv
  PROVE  /\ status \in [Tasks -> SUBSET Flags] /\ pc \in [Tasks -> Pcs]
         /\ prio \in [Tasks -> Priorities] /\ timer \in [Tasks -> 0 .. MaxTimeout]
         /\ lists \in [Lists -> Seq(Tasks)] /\ run \in Tasks \cup {None}
         /\ Sems \subseteq Lists /\ Sems = WaitObjects
         /\ Matches(lists, status, prio) /\ Nodes(lists)
         /\ sem \in [Sems -> [used : BOOLEAN, count : 0 .. CountMax]]
         /\ handle \in [Tasks -> Sems \cup {None}]
         /\ balance \in [Sems -> Int]
BY SemAssumption, ListsAreLists
DEF SemInv, Consistent, TypeInv, TypeOK, Matches, SemTypeOK

\* Who makes a call.
LEMMA CallerFacts ==
  ASSUME SemInv, NEW t \in Tasks, NEW call, CanCall(t, call)
  PROVE  /\ Running(t) /\ scheduled /\ ~isr.active /\ run = t /\ pc[t] = "app"
         /\ "ready" \in status[t] /\ "pend" \notin status[t]
         /\ \A w \in WaitObjects : t \notin Range(lists[w])
<1>1. Running(t) /\ scheduled /\ ~isr.active /\ run = t /\ pc[t] = "app"
  BY DEF CanCall, Running
<1>2. "ready" \in status[t]
  BY <1>1 DEF SemInv, Consistent, RunReady
<1>3. "pend" \notin status[t]
  BY <1>2 DEF SemInv, Consistent, States, OneState
<1>4. \A w \in WaitObjects : t \notin Range(lists[w])
  BY <1>3 DEF SemInv, Consistent, Matches, Fits
<1> QED BY <1>1, <1>2, <1>3, <1>4

-----------------------------------------------------------------------------
(***************************************************************************)
(* The steps.  Each keeps the invariant, and is a step of SemSpec.         *)
(***************************************************************************)

\* The scheduler takes tasks out of wait lists and puts none in.
LEMMA ListsShrink ==
  ASSUME SemInv, ListsLeft, NEW s \in Sems
  PROVE  Range(lists'[s]) \subseteq Range(lists[s])
<1>1. CASE \A w \in WaitObjects : lists'[w] = lists[w]
  BY <1>1, SemAssumption
<1>2. ASSUME NEW n \in Tasks, \A w \in WaitObjects : lists'[w] = Without(lists[w], n)
      PROVE  Range(lists'[s]) \subseteq Range(lists[s])
  <2>1. lists[s] \in Seq(Tasks) /\ IsInjective(lists[s])
    BY TypeFacts DEF Nodes
  <2>2. Range(Without(lists[s], n)) = Range(lists[s]) \ {n}
    BY <2>1, WithoutFacts
  <2> QED BY <1>2, <2>2, SemAssumption
<1> QED BY <1>1, <1>2 DEF ListsLeft

\* A waiting task is not free.
WaitersExist ==
  \A w \in WaitObjects : \A t \in Range(lists[w]) :
    t \in Tasks /\ "pend" \in status[t] /\ pc[t] # "none"

LEMMA WaitingIsInside == Consistent /\ FreeIsOut => WaitersExist
<1> SUFFICES ASSUME Consistent, FreeIsOut,
                    NEW w \in WaitObjects, NEW t \in Range(lists[w])
             PROVE  t \in Tasks /\ "pend" \in status[t] /\ pc[t] # "none"
  BY DEF WaitersExist
<1>1. lists[w] \in Seq(Tasks)
  BY DEF Consistent, TypeInv, TypeOK, Lists
<1>2. t \in Tasks
  BY <1>1 DEF Range
<1>3. "pend" \in status[t]
  BY <1>2 DEF Consistent, Matches, Fits
<1>4. "unused" \notin status[t]
  BY <1>2, <1>3 DEF Consistent, States, OneState
<1> QED BY <1>2, <1>3, <1>4 DEF FreeIsOut

LEMMA SchedulerKeeps ==
  ASSUME SemInv, TimesliceTimeout = 0, SchedulerStep
  PROVE  SemInv'
<1> USE DEF SemInv
<1>1. Consistent'
  BY NextConsistent DEF SchedulerStep
<1>2. ListsLeft /\ CallsLeft /\ FreeIsOut'
  BY StepLeaves DEF SchedulerStep
<1>3. SemTypeOK'
  BY DEF SchedulerStep, SemTypeOK
<1>4. Waiters'
  <2> SUFFICES ASSUME NEW s \in Sems, NEW t \in Range(lists'[s])
               PROVE  /\ pc'[t] \in {"pend", "tail"} /\ handle'[t] = s
                      /\ sem'[s].used /\ sem'[s].count = 0
    BY DEF Waiters, Inside
  <2>1. t \in Range(lists[s])
    BY <1>2, ListsShrink
  <2>2. t \in Tasks /\ pc'[t] # "none"
    <3>1. WaitersExist'
      BY <1>1, <1>2, WaitingIsInside, PTL
    <3> QED BY <3>1, SemAssumption DEF WaitersExist
  <2>3. Inside(t) /\ handle[t] = s /\ sem[s].used /\ sem[s].count = 0
    BY <2>1 DEF Waiters
  <2>4. pc'[t] \in {"pend", "tail"}
    BY <1>2, <2>2, <2>3 DEF CallsLeft, Inside
  <2> QED BY <2>2, <2>3, <2>4 DEF SchedulerStep
<1> QED BY <1>1, <1>2, <1>3, <1>4

LEMMA BlockKeeps ==
  ASSUME SemInv, NEW t \in Tasks, NEW s \in Sems, NEW k \in SemTimeouts,
         SemBlock(t, s, k)
  PROVE  /\ SemInv'
         /\ lists'[s] = Append(lists[s], t)
         /\ \A r \in Sems \ {s} : lists'[r] = lists[r]
<1> DEFINE f == (status[t] \ {"ready", "timeout"}) \cup {"pend"}
                  \cup (IF k = LOS_WAIT_FOREVER THEN {} ELSE {"timeout"})
           q == Unlink(lists, t)
<1>t. /\ status \in [Tasks -> SUBSET Flags] /\ pc \in [Tasks -> Pcs]
      /\ prio \in [Tasks -> Priorities] /\ lists \in [Lists -> Seq(Tasks)]
      /\ Sems \subseteq Lists /\ Sems = WaitObjects
      /\ Matches(lists, status, prio) /\ Nodes(lists)
  BY TypeFacts
<1>c. /\ Running(t) /\ run = t /\ pc[t] = "app"
      /\ "ready" \in status[t] /\ "pend" \notin status[t]
      /\ \A w \in WaitObjects : t \notin Range(lists[w])
  BY CallerFacts DEF SemBlock
<1>f. f \in SUBSET Flags /\ "ready" \notin f /\ "pend" \in f
  BY <1>t DEF Flags
<1>k. k \in 1 .. LOS_WAIT_FOREVER
  BY SemAssumption
<1>0. /\ status' = [status EXCEPT ![t] = f]
      /\ lists' = Enqueue(q, t, s) /\ prio' = prio
      /\ pc' = [pc EXCEPT ![t] = "pend"]
      /\ handle' = [handle EXCEPT ![t] = s] /\ sem' = sem /\ balance' = balance
  BY DEF SemBlock
<1>1. \A w \in Sems : q[w] = lists[w]
  BY <1>t, <1>c, UnlinkReady
<1>2. /\ lists'[s] = Append(lists[s], t)
      /\ \A r \in Sems \ {s} : lists'[r] = lists[r]
  <2>1. q \in [Lists -> Seq(Tasks)]
    BY <1>t, UnlinkFacts
  <2> HIDE DEF q
  <2> QED BY <1>0, <1>1, <1>t, <2>1 DEF Enqueue
<1>3. Matches(lists', status', prio')
  <2> DEFINE g == status[t] \ {"ready"}
             st1 == [status EXCEPT ![t] = g]
  <2>1. Matches(q, st1, prio)
    BY <1>t, <1>c, LeaveList
  <2>2. st1[t] \cap {"ready", "pend"} = {}
    BY <1>t, <1>c
  <2>3. \A l \in Lists : t \notin Range(q[l])
    BY <2>1, <2>2, NotInList
  <2>4. Nodes(q)
    BY <2>1 DEF Matches
  <2>c. s \in Lists
    BY <1>t
  <2> HIDE DEF q, f
  <2>5. /\ Nodes(lists')
        /\ Range(lists'[s]) = Range(q[s]) \cup {t}
        /\ \A l \in Lists \ {s} : Range(lists'[l]) = Range(q[l])
    <3>1. Nodes(Enqueue(q, t, s))
      BY <2>c, <2>3, <2>4, EnqueueFacts
    <3>2. Range(Enqueue(q, t, s)[s]) = Range(q[s]) \cup {t}
      BY <2>c, <2>3, <2>4, EnqueueFacts
    <3>3. \A l \in Lists \ {s} : Range(Enqueue(q, t, s)[l]) = Range(q[l])
      BY <2>c, <2>3, <2>4, EnqueueFacts
    <3> QED BY <1>0, <3>1, <3>2, <3>3
  <2>6. [st1 EXCEPT ![t] = f] = status'
    <3>1. status' = [status EXCEPT ![t] = f]
      BY <1>0
    <3> HIDE DEF g
    <3> QED BY <3>1
  <2> HIDE DEF st1
  <2>7. Matches(lists', [st1 EXCEPT ![t] = f], prio)
    BY <2>1, <2>2, <2>5, <1>f, <1>t, EnterWait
  <2> QED BY <1>0, <2>6, <2>7
<1>4. Consistent'
  <2>1. lists' \in [Lists -> Seq(Tasks)] /\ prio' \in [Tasks -> Priorities]
    BY <1>3 DEF Matches, Nodes
  <2> HIDE DEF q
  <2> QED BY <1>3, <1>c, <1>k, <2>1, BlockConsistent DEF SemBlock, SemInv
<1> HIDE DEF f, q
<1>5. SemTypeOK'
  BY <1>0 DEF SemInv, SemTypeOK
<1>6. FreeIsOut'
  <2>1. "unused" \in f <=> "unused" \in status[t]
    BY DEF f
  <2>2. "unused" \notin status[t]
    BY <1>c DEF SemInv, FreeIsOut
  <2> QED BY <1>0, <1>t, <1>c, <2>1, <2>2 DEF SemInv, FreeIsOut
<1>7. Waiters'
  <2>1. Range(Append(lists[s], t)) = Range(lists[s]) \cup {t}
    BY <1>t, AppendFacts
  <2>2. ASSUME NEW r \in Sems, NEW u \in Range(lists'[r])
        PROVE  /\ pc'[u] \in {"pend", "tail"} /\ handle'[u] = r
               /\ sem'[r].used /\ sem'[r].count = 0
    <3>1. CASE u = t
      <4>1. r = s
        BY <1>2, <1>c, <1>t, <3>1, <2>2
      <4>2. sem[s].used /\ ~(sem[s].count > 0) /\ sem[s].count \in Nat
        BY TypeFacts, SemAssumption DEF SemBlock, Available
      <4> QED BY <1>0, <1>t, <3>1, <4>1, <4>2, TypeFacts
    <3>2. CASE u # t
      <4>1. u \in Range(lists[r])
        BY <1>2, <2>1, <2>2, <3>2
      <4>2. u \in Tasks
        BY <4>1, <1>t DEF Range
      <4> QED BY <1>0, <1>t, <3>2, <4>1, <4>2, TypeFacts DEF SemInv, Waiters, Inside
    <3> QED BY <3>1, <3>2
  <2> QED BY <2>2 DEF Waiters, Inside
<1> QED BY <1>2, <1>4, <1>5, <1>6, <1>7 DEF SemInv

LEMMA ReturnKeeps ==
  ASSUME SemInv, NEW t \in Tasks, SemReturn(t)
  PROVE  SemInv'
<1>t. /\ status \in [Tasks -> SUBSET Flags] /\ pc \in [Tasks -> Pcs]
      /\ handle \in [Tasks -> Sems \cup {None}]
  BY TypeFacts
<1>0. /\ status' = [status EXCEPT ![t] = status[t] \ {"timeout"}]
      /\ pc' = [pc EXCEPT ![t] = "app"]
      /\ handle' = [handle EXCEPT ![t] = None]
      /\ handle[t] \in Sems /\ pc[t] = "tail"
      /\ UNCHANGED <<lists, sem>>
  BY DEF SemReturn
<1>1. Consistent'
  BY <1>0, ReturnConsistent DEF SemReturn, SemInv
<1>2. "pend" \notin status[t]
  BY DEF SemReturn, Running, SemInv, Consistent, RunReady, States, OneState
<1>3. FreeIsOut'
  BY <1>0, <1>t DEF SemInv, FreeIsOut
<1>4. SemTypeOK'
  <2>1. balance' \in [Sems -> Int]
    BY <1>0, TypeFacts DEF SemReturn
  <2> QED BY <2>1, <1>0 DEF SemInv, SemTypeOK
<1>5. Waiters'
  <2>1. ASSUME NEW s \in Sems, NEW u \in Range(lists[s])
        PROVE  u \in Tasks \ {t}
    BY <1>2, SemAssumption, WaitingIsInside DEF SemInv, WaitersExist
  <2> QED BY <1>0, <1>t, <2>1 DEF SemInv, Waiters, Inside
<1> QED BY <1>1, <1>3, <1>4, <1>5 DEF SemInv

\* The first waiter leaves, and goes back to the scheduler's hands.
LEMMA ServeKeeps ==
  ASSUME SemInv, NEW s \in Sems, lists[s] # <<>>, SemPost(s),
         scheduled, ~isr.active,
         \/ pc' = pc
         \/ /\ pc[run] = "app"
            /\ pc' = [pc EXCEPT ![run] = "sched"],
         run' = run \/ (pc' = pc /\ SwitchTo(lists')),
         UNCHANGED <<prio, lock, isr, slice, scheduled, fault, handle>>
  PROVE  /\ SemInv'
         /\ FirstWaiter(s) \in Range(lists[s])
         /\ lists'[s] = Tail(lists[s])
         /\ \A r \in Sems \ {s} : lists'[r] = lists[r]
         /\ status'[FirstWaiter(s)] \cap {"pend", "timeout"} = {}
         /\ \A u \in Tasks \ {FirstWaiter(s)} : status'[u] = status[u]
<1> DEFINE n == FirstWaiter(s)
           f == (status[n] \ {"pend", "timeout"})
                  \cup (IF "suspend" \in status[n] THEN {} ELSE {"ready"})
<1>t. /\ status \in [Tasks -> SUBSET Flags] /\ pc \in [Tasks -> Pcs]
      /\ prio \in [Tasks -> Priorities] /\ timer \in [Tasks -> 0 .. MaxTimeout]
      /\ lists \in [Lists -> Seq(Tasks)] /\ run \in Tasks \cup {None}
      /\ Sems \subseteq Lists /\ Sems = WaitObjects
      /\ Matches(lists, status, prio) /\ Nodes(lists)
      /\ sem \in [Sems -> [used : BOOLEAN, count : 0 .. CountMax]]
  BY TypeFacts
<1>1. lists[s] \in Seq(Tasks) /\ IsInjective(lists[s])
  BY <1>t DEF Nodes
<1>2. n \in Range(lists[s]) /\ Without(lists[s], n) = Tail(lists[s])
  BY <1>1, HeadLeaves DEF FirstWaiter
<1>3. n \in Tasks
  BY <1>1, <1>2 DEF Range
<1>4. "pend" \in status[n]
  BY <1>2, <1>3, <1>t DEF Matches, Fits
<1>5. status[n] \cap {"unused", "ready", "delay"} = {}
  BY <1>3, <1>4 DEF SemInv, Consistent, States, OneState
<1>6. /\ lists' = Wake(lists, n)
      /\ status' = [status EXCEPT ![n] = f]
      /\ timer' = IF "timeout" \in status[n] THEN [timer EXCEPT ![n] = 0] ELSE timer
      /\ sem' = [sem EXCEPT ![s].count = sem[s].count]
      /\ balance' = [balance EXCEPT ![s] = balance[s] + 1]
  BY DEF SemPost, Wake, WaitOver, Timed, TimerOff, Counted
<1>7. sem' = sem
  BY <1>6, <1>t
<1>8. /\ f \in SUBSET Flags /\ f \cap {"unused", "pend", "timeout"} = {}
  BY <1>5, <1>3, <1>t DEF Flags
<1> HIDE DEF n
<1>q. /\ status'[n] = f
      /\ \A u \in Tasks \ {n} : status'[u] = status[u]
  BY <1>6, <1>3, <1>t
<1>9. Matches(lists', status', prio')
  <2>1. prio' = prio
    OBVIOUS
  <2>2. "ready" \notin status[n]
    BY <1>5
  <2>3. Matches(Wake(lists, n), status', prio)
    BY <1>t, <1>3, <1>4, <1>6, <2>2, WakeMatches
  <2> QED BY <1>6, <2>1, <2>3
<1>10. Consistent'
  <2>1. lists' \in [Lists -> Seq(Tasks)] /\ prio' \in [Tasks -> Priorities]
    BY <1>9 DEF Matches, Nodes
  <2>2. WaitsEnd({n})
    <3>1. status' = [t \in Tasks |-> IF t \in {n} THEN f ELSE status[t]]
      BY <1>t, <1>6
    <3>2. timer' = [t \in Tasks |->
             IF t \in {n} /\ "timeout" \in status[t] THEN 0 ELSE timer[t]]
      BY <1>t, <1>6
    <3>3. status' = [t \in Tasks |->
             IF t \in {n}
             THEN (status[t] \ {"pend", "timeout"})
                    \cup (IF "suspend" \in status[t] THEN {} ELSE {"ready"})
             ELSE status[t]]
      BY <3>1
    <3> QED BY <3>2, <3>3 DEF WaitsEnd
  <2>3. {n} \in SUBSET Tasks /\ \A t \in {n} : "pend" \in status[t]
    BY <1>3, <1>4
  <2>4. \/ pc' = pc
        \/ /\ pc[run] \in {"app", "tail"}
           /\ \/ pc' = [pc EXCEPT ![run] = "sched"]
              \/ pc' = [pc EXCEPT ![run] = "app"]
    OBVIOUS
  <2>5. Consistent
    BY DEF SemInv
  <2> QED BY <1>9, <2>1, <2>2, <2>3, <2>4, <2>5, ServeConsistent
<1>11. \A w \in Sems : lists'[w] = Without(lists[w], n)
  <2>1. Unlink(lists, n) \in [Lists -> Seq(Tasks)] /\ prio[n] \in Priorities
    BY <1>3, <1>t, UnlinkFacts
  <2>2. \A w \in WaitObjects :
          Enqueue(Unlink(lists, n), n, prio[n])[w] = Unlink(lists, n)[w]
    <3>1. \A q \in [Lists -> Seq(Tasks)] : \A w \in WaitObjects :
            Enqueue(q, n, prio[n])[w] = q[w]
      BY <1>3, <2>1, QueuesOnly
    <3> QED BY <2>1, <3>1
  <2>3. \A w \in Sems : Unlink(lists, n)[w] = Without(lists[w], n)
    BY <1>t DEF Unlink
  <2> QED BY <1>6, <1>t, <2>2, <2>3 DEF Wake
<1>12. lists'[s] = Tail(lists[s])
  BY <1>2, <1>11
<1>13. ASSUME NEW r \in Sems \ {s} PROVE lists'[r] = lists[r]
  <2>1. n \notin Range(lists[r])
    BY <1>2, <1>t DEF Nodes
  <2> QED BY <1>11, <2>1 DEF Without
<1>14. Range(Tail(lists[s])) = Range(lists[s]) \ {n}
  BY <1>1, <1>2, WithoutFacts
<1>15. FreeIsOut'
  <2>1. \A u \in Tasks : "unused" \in status'[u] <=> "unused" \in status[u]
    BY <1>q, <1>3, <1>5, <1>8
  <2>2. \A u \in Tasks : pc'[u] = "none" <=> pc[u] = "none"
    BY <1>t
  <2> QED BY <2>1, <2>2 DEF SemInv, FreeIsOut
<1>16. SemTypeOK'
  <2>1. balance' \in [Sems -> Int]
    BY <1>6, TypeFacts
  <2>2. handle' = handle
    OBVIOUS
  <2> QED BY <1>7, <2>1, <2>2 DEF SemInv, SemTypeOK
<1>17. Waiters'
  <2>1. ASSUME NEW r \in Sems, NEW u \in Range(lists'[r])
        PROVE  /\ pc'[u] \in {"pend", "tail"} /\ handle'[u] = r
               /\ sem'[r].used /\ sem'[r].count = 0
    <3>1. u \in Range(lists[r])
      BY <2>1, <1>12, <1>13, <1>14
    <3>2. Inside(u) /\ handle[u] = r /\ sem[r].used /\ sem[r].count = 0
      BY <3>1 DEF SemInv, Waiters
    <3>3. u \in Tasks
      BY <3>1, <1>t DEF Range
    <3>4. pc'[u] = pc[u]
      BY <3>2, <3>3, <1>t DEF Inside
    <3> QED BY <3>2, <3>4, <1>7 DEF Inside
  <2> QED BY <2>1 DEF Waiters, Inside
<1>18. status'[n] \cap {"pend", "timeout"} = {}
  BY <1>q, <1>8
<1> QED BY <1>2, <1>10, <1>12, <1>13, <1>15, <1>16, <1>17, <1>18, <1>q
        DEF SemInv, n

\* The calls that touch a counter and nothing else.
LEMMA CounterKeeps ==
  ASSUME SemInv, UNCHANGED <<taskVars, handle>>, SemTypeOK',
         NEW s \in Sems, \A r \in Sems \ {s} : sem'[r] = sem[r],
         lists[s] = <<>>
  PROVE  SemInv'
<1>1. UNCHANGED <<status, prio, lists, timer, run, lock, pc, isr, slice,
                  scheduled, fault, handle>>
  BY DEF taskVars
<1>2. Consistent'
  BY <1>1 DEF SemInv, Consistent, TypeInv, TypeOK, Matches, States, OneState,
    NoTaskLost, Timers, TimerMatchesFlags, DueInv, RunReady
<1>3. FreeIsOut'
  BY <1>1 DEF SemInv, FreeIsOut
<1>4. Range(lists[s]) = {}
  BY DEF Range
<1>5. Waiters'
  BY <1>1, <1>4 DEF SemInv, Waiters, Inside
<1> QED BY <1>2, <1>3, <1>5 DEF SemInv

\* A field of a record changes, the other stays.
LEMMA SemFields ==
  ASSUME NEW s \in Sems, NEW x,
         sem \in [Sems -> [used : BOOLEAN, count : 0 .. CountMax]]
  PROVE  /\ [sem EXCEPT ![s].count = x]
              = [sem EXCEPT ![s] = [used |-> sem[s].used, count |-> x]]
         /\ [sem EXCEPT ![s].used = x]
              = [sem EXCEPT ![s] = [used |-> x, count |-> sem[s].count]]
<1>1. sem[s] \in [used : BOOLEAN, count : 0 .. CountMax]
  OBVIOUS
<1>2. /\ [sem[s] EXCEPT !.count = x] = [used |-> sem[s].used, count |-> x]
      /\ [sem[s] EXCEPT !.used = x] = [used |-> x, count |-> sem[s].count]
  BY <1>1
<1> QED BY <1>2

LEMMA EmptyList ==
  ASSUME NEW S, NEW q \in Seq(S), Range(q) = {}
  PROVE  q = <<>>
<1>1. Len(q) \in Nat /\ DOMAIN q = 1 .. Len(q)
  BY LenProperties
<1>2. Len(q) = 0
  <2>1. \A i \in DOMAIN q : q[i] \in Range(q)
    BY DEF Range
  <2> QED BY <1>1, <2>1
<1> QED BY <1>2, EmptySeq

\* No task waits for a semaphore that is free or has a token.
LEMMA NobodyWaits ==
  ASSUME SemInv, NEW s \in Sems, ~sem[s].used \/ sem[s].count > 0
  PROVE  lists[s] = <<>>
<1>1. sem[s].count \in Nat
  BY TypeFacts, SemAssumption
<1>2. Range(lists[s]) = {}
  BY <1>1 DEF SemInv, Waiters
<1>3. lists[s] \in Seq(Tasks)
  BY TypeFacts
<1> QED BY <1>2, <1>3, EmptyList

\* A post is made by the running task or by an interrupt handler.
LEMMA PostIs ==
  ASSUME SemInv, NEW s \in Sems, lists[s] # <<>>,
         (\E t \in Tasks : TaskPost(t, s)) \/ DevicePost(s)
  PROVE  /\ SemPost(s) /\ scheduled /\ ~isr.active
         /\ \/ pc' = pc
            \/ /\ pc[run] = "app"
               /\ pc' = [pc EXCEPT ![run] = "sched"]
         /\ run' = run \/ (pc' = pc /\ SwitchTo(lists'))
         /\ UNCHANGED <<prio, lock, isr, slice, scheduled, fault, handle>>
<1>1. ASSUME NEW t \in Tasks, TaskPost(t, s)
      PROVE  /\ SemPost(s) /\ scheduled /\ ~isr.active
             /\ pc[run] = "app" /\ pc' = [pc EXCEPT ![run] = "sched"]
             /\ UNCHANGED <<run, prio, lock, isr, slice, scheduled, fault, handle>>
  BY <1>1 DEF TaskPost, CanCall, Running, Scheduling, Reschedules
<1>2. ASSUME DevicePost(s)
      PROVE  /\ SemPost(s) /\ scheduled /\ ~isr.active
             /\ pc' = pc /\ (run' = run \/ SwitchTo(lists'))
             /\ UNCHANGED <<prio, lock, isr, slice, scheduled, fault, handle>>
  BY <1>2 DEF DevicePost
<1> QED BY <1>1, <1>2

\* A post that finds nobody only counts.
LEMMA PostCounts ==
  ASSUME SemInv, NEW s \in Sems, lists[s] = <<>>,
         (\E t \in Tasks : TaskPost(t, s)) \/ DevicePost(s)
  PROVE  /\ SemInv' /\ UNCHANGED <<taskVars, handle>>
         /\ sem[s].used /\ sem[s].count < CountMax
         /\ sem' = [sem EXCEPT ![s] = [used |-> sem[s].used,
                                       count |-> sem[s].count + 1]]
         /\ balance' = [balance EXCEPT ![s] = balance[s] + 1]
<1>1. /\ SemPost(s)
      /\ UNCHANGED <<prio, run, lock, pc, isr, slice, scheduled, fault, handle>>
  BY DEF TaskPost, DevicePost, Scheduling, Reschedules
<1>2. /\ UNCHANGED <<taskVars, handle>>
      /\ sem[s].used /\ sem[s].count < CountMax
      /\ sem' = [sem EXCEPT ![s].count = sem[s].count + 1]
      /\ balance' = [balance EXCEPT ![s] = balance[s] + 1]
  BY <1>1 DEF SemPost, CanPost, Counted, taskVars
<1>3. sem \in [Sems -> [used : BOOLEAN, count : 0 .. CountMax]]
  BY TypeFacts
<1>4. sem' = [sem EXCEPT ![s] = [used |-> sem[s].used,
                                 count |-> sem[s].count + 1]]
  BY <1>2, <1>3, SemFields
<1>5. SemTypeOK'
  <2>1. sem[s].count + 1 \in 0 .. CountMax
    BY <1>2, <1>3, SemAssumption
  <2>2. sem' \in [Sems -> [used : BOOLEAN, count : 0 .. CountMax]]
    BY <1>3, <1>4, <2>1
  <2>3. balance' \in [Sems -> Int] /\ handle' = handle
    BY <1>2, TypeFacts
  <2> QED BY <2>2, <2>3 DEF SemInv, SemTypeOK
<1>6. \A r \in Sems \ {s} : sem'[r] = sem[r]
  BY <1>3, <1>4
<1>7. SemInv'
  BY <1>2, <1>5, <1>6, CounterKeeps
<1> QED BY <1>2, <1>4, <1>7

LEMMA CreateKeeps ==
  ASSUME SemInv, NEW s \in Sems, NEW k \in 0 .. CountMax, LOS_SemCreate(s, k)
  PROVE  SemInv' /\ lists[s] = <<>>
<1>0. /\ ~sem[s].used /\ UNCHANGED <<taskVars, handle>>
      /\ sem' = [sem EXCEPT ![s] = [used |-> TRUE, count |-> k]]
      /\ balance' = [balance EXCEPT ![s] = balance[s] + k]
  BY DEF LOS_SemCreate
<1>1. lists[s] = <<>>
  BY <1>0, NobodyWaits
<1>2. SemTypeOK'
  <2>1. sem' \in [Sems -> [used : BOOLEAN, count : 0 .. CountMax]]
    BY <1>0, TypeFacts
  <2>2. balance' \in [Sems -> Int] /\ handle' = handle
    BY <1>0, TypeFacts, SemAssumption
  <2> QED BY <2>1, <2>2 DEF SemInv, SemTypeOK
<1>3. \A r \in Sems \ {s} : sem'[r] = sem[r]
  BY <1>0, TypeFacts
<1> QED BY <1>0, <1>1, <1>2, <1>3, CounterKeeps

LEMMA DeleteKeeps ==
  ASSUME SemInv, NEW t \in Tasks, NEW s \in Sems, LOS_SemDelete(t, s)
  PROVE  SemInv' /\ sem' = [sem EXCEPT ![s] = [used |-> FALSE,
                                               count |-> sem[s].count]]
<1>0. /\ lists[s] = <<>> /\ UNCHANGED <<taskVars, handle>>
      /\ sem' = [sem EXCEPT ![s].used = FALSE]
      /\ balance' = [balance EXCEPT ![s] = balance[s] - sem[s].count]
  BY DEF LOS_SemDelete
<1>1. sem \in [Sems -> [used : BOOLEAN, count : 0 .. CountMax]]
  BY TypeFacts
<1>2. sem' = [sem EXCEPT ![s] = [used |-> FALSE, count |-> sem[s].count]]
  BY <1>0, <1>1, SemFields
<1>3. SemTypeOK'
  <2>1. sem' \in [Sems -> [used : BOOLEAN, count : 0 .. CountMax]]
    BY <1>1, <1>2
  <2>2. balance' \in [Sems -> Int] /\ handle' = handle
    BY <1>0, <1>1, TypeFacts, SemAssumption
  <2> QED BY <2>1, <2>2 DEF SemInv, SemTypeOK
<1>4. \A r \in Sems \ {s} : sem'[r] = sem[r]
  BY <1>1, <1>2
<1> QED BY <1>0, <1>2, <1>3, <1>4, CounterKeeps

LEMMA TakeKeeps ==
  ASSUME SemInv, NEW t \in Tasks, NEW s \in Sems, SemTake(t, s)
  PROVE  /\ SemInv'
         /\ sem' = [sem EXCEPT ![s] = [used |-> sem[s].used,
                                       count |-> sem[s].count - 1]]
<1>0. /\ sem[s].count > 0 /\ UNCHANGED <<taskVars, handle>>
      /\ sem' = [sem EXCEPT ![s].count = sem[s].count - 1]
      /\ balance' = [balance EXCEPT ![s] = balance[s] - 1]
  BY DEF SemTake, Available
<1>1. sem \in [Sems -> [used : BOOLEAN, count : 0 .. CountMax]]
  BY TypeFacts
<1>2. sem' = [sem EXCEPT ![s] = [used |-> sem[s].used,
                                 count |-> sem[s].count - 1]]
  BY <1>0, <1>1, SemFields
<1>3. SemTypeOK'
  <2>1. sem[s].count - 1 \in 0 .. CountMax
    BY <1>0, <1>1, SemAssumption
  <2>2. sem' \in [Sems -> [used : BOOLEAN, count : 0 .. CountMax]]
    BY <1>1, <1>2, <2>1
  <2>3. balance' \in [Sems -> Int] /\ handle' = handle
    BY <1>0, TypeFacts
  <2> QED BY <2>2, <2>3 DEF SemInv, SemTypeOK
<1>4. \A r \in Sems \ {s} : sem'[r] = sem[r]
  BY <1>1, <1>2
<1>5. lists[s] = <<>>
  BY <1>0, NobodyWaits
<1> QED BY <1>0, <1>2, <1>3, <1>4, <1>5, CounterKeeps

LEMMA StutterKeeps ==
  ASSUME SemInv, UNCHANGED vars
  PROVE  SemInv'
<1>1. UNCHANGED <<status, prio, lists, timer, run, lock, pc, isr, slice,
                  scheduled, fault, sem, handle, balance>>
  BY DEF vars, taskVars, semVars
<1>2. Consistent'
  BY <1>1 DEF SemInv, Consistent, TypeInv, TypeOK, Matches, States, OneState,
    NoTaskLost, Timers, TimerMatchesFlags, DueInv, RunReady
<1>3. FreeIsOut' /\ SemTypeOK'
  BY <1>1 DEF SemInv, FreeIsOut, SemTypeOK
<1>4. Waiters'
  BY <1>1 DEF SemInv, Waiters, Inside
<1> QED BY <1>2, <1>3, <1>4 DEF SemInv

LEMMA NextSem == SemInv /\ TimesliceTimeout = 0 /\ [SemNext]_vars => SemInv'
<1> SUFFICES ASSUME SemInv, TimesliceTimeout = 0, [SemNext]_vars
             PROVE  SemInv'
  OBVIOUS
<1>1. CASE SchedulerStep
  BY <1>1, SchedulerKeeps
<1>2. ASSUME NEW s \in Sems, NEW k \in 0 .. CountMax, LOS_SemCreate(s, k)
      PROVE  SemInv'
  BY <1>2, CreateKeeps
<1>3. ASSUME NEW s \in Sems, (\E t \in Tasks : TaskPost(t, s)) \/ DevicePost(s)
      PROVE  SemInv'
  <2>1. CASE lists[s] = <<>>
    BY <1>3, <2>1, PostCounts
  <2>2. CASE lists[s] # <<>>
    BY <1>3, <2>2, PostIs, ServeKeeps
  <2> QED BY <2>1, <2>2
<1>4. ASSUME NEW t \in Tasks, SemCall(t)
      PROVE  SemInv'
  BY <1>3, <1>4, DeleteKeeps, TakeKeeps, BlockKeeps DEF SemCall
<1>5. ASSUME NEW t \in Tasks, SemReturn(t)
      PROVE  SemInv'
  BY <1>5, ReturnKeeps
<1>6. CASE UNCHANGED vars
  BY <1>6, StutterKeeps
<1>7. Devices \subseteq Sems
  BY SemAssumption
<1> QED BY <1>1, <1>2, <1>3, <1>4, <1>5, <1>6, <1>7 DEF SemNext

LEMMA AlwaysSemInv == ASSUME TimesliceTimeout = 0 PROVE SemSafety => []SemInv
BY InitSem, NextSem, PTL DEF SemSafety

\* Nobody sleeps next to a token: who is in a wait list is inside LOS_SemPend
\* for that semaphore, which exists and has no token, whatever the tick, the
\* devices, deletions, suspensions and changes of priority do meanwhile.
THEOREM WaitersOnlyOnEmpty ==
  ASSUME TimesliceTimeout = 0
  PROVE  SemSafety => []NobodySleepsOnToken
<1>1. SemInv => NobodySleepsOnToken
  BY WaitersAsleep DEF SemInv, Consistent, TypeInv
<1> QED BY AlwaysSemInv, <1>1, PTL

-----------------------------------------------------------------------------
(***************************************************************************)
(* Who was granted a token changes with the wait lists.                    *)
(***************************************************************************)
LEMMA GrantedIs ==
  \A s \in Sems, t \in Tasks :
    t \in Granted(s) <=> Inside(t) /\ handle[t] = s /\ WaitServed(t)
BY DEF Granted, Inside, WaitServed

\* Who still waits was not granted anything.
LEMMA WaitersNotGranted ==
  ASSUME SemInv, NEW t \in Tasks, "pend" \in status[t], NEW s \in Sems
  PROVE  t \notin Granted(s)
BY DEF Granted

LEMMA SchedulerGrants ==
  ASSUME SemInv, TimesliceTimeout = 0, SchedulerStep
  PROVE  \E n \in Tasks :
           /\ \/ \A s \in Sems : lists'[s] = lists[s]
              \/ \A s \in Sems : lists'[s] = Without(lists[s], n)
           /\ \A s \in Sems :
                Granted(s)' = IF pc'[n] = "none" THEN Granted(s) \ {n} ELSE Granted(s)
           /\ "delete" \notin Calls => \A s \in Sems : Granted(s)' = Granted(s)
<1>1. Consistent /\ FreeIsOut
  BY DEF SemInv
<1>2. ListsLeft /\ CallsLeft
  BY <1>1, StepLeaves DEF SchedulerStep
<1>3. PICK n \in Tasks :
        /\ \/ \A w \in WaitObjects : lists'[w] = lists[w]
           \/ \A w \in WaitObjects : lists'[w] = Without(lists[w], n)
        /\ \A t \in Tasks \ {n} : Inside(t) => pc'[t] # "none"
  BY <1>2 DEF ListsLeft
<1>4. ASSUME NEW s \in Sems, NEW t \in Tasks
      PROVE  t \in Granted(s)' <=> (t \in Granted(s) /\ pc'[t] # "none")
  <2>1. handle' = [u \in Tasks |-> IF pc'[u] = "none" THEN None ELSE handle[u]]
    BY DEF SchedulerStep
  <2>2. t \in Granted(s)' <=> /\ pc'[t] \in {"pend", "tail"} /\ handle'[t] = s
                              /\ status'[t] \cap {"pend", "timeout"} = {}
    BY DEF Granted
  <2>3. t \in Granted(s) <=> Inside(t) /\ handle[t] = s /\ WaitServed(t)
    BY GrantedIs
  <2>4. CASE pc'[t] = "none"
    BY <2>2, <2>4
  <2>5. CASE pc'[t] # "none"
    <3>1. handle'[t] = handle[t]
      BY <2>1, <2>5
    <3>2. pc'[t] \in {"pend", "tail"} <=> Inside(t)
      BY <1>2, <2>5 DEF CallsLeft, Inside
    <3>3. Inside(t) =>
            (status'[t] \cap {"pend", "timeout"} = {} <=> WaitServed(t))
      BY <1>2, <2>5 DEF CallsLeft
    <3> QED BY <2>2, <2>3, <2>5, <3>1, <3>2, <3>3
  <2> QED BY <2>4, <2>5
<1>5. \A s \in Sems : Granted(s) \subseteq Tasks /\ Granted(s)' \subseteq Tasks
  BY DEF Granted
<1>6. \A s \in Sems :
        Granted(s)' = IF pc'[n] = "none" THEN Granted(s) \ {n} ELSE Granted(s)
  <2> SUFFICES ASSUME NEW s \in Sems
               PROVE  Granted(s)' = IF pc'[n] = "none" THEN Granted(s) \ {n}
                                    ELSE Granted(s)
    OBVIOUS
  <2>1. ASSUME NEW t \in Tasks, t # n, t \in Granted(s)
        PROVE  pc'[t] # "none"
    BY <1>3, <2>1, GrantedIs
  <2> QED BY <1>4, <1>5, <2>1
<1>7. ASSUME "delete" \notin Calls, NEW s \in Sems
      PROVE  Granted(s)' = Granted(s)
  <2>1. ASSUME NEW t \in Tasks, t \in Granted(s)
        PROVE  pc'[t] # "none"
    BY <1>2, <1>7, <2>1, GrantedIs DEF CallsLeft
  <2> QED BY <1>4, <1>5, <2>1
<1>8. \/ \A s \in Sems : lists'[s] = lists[s]
      \/ \A s \in Sems : lists'[s] = Without(lists[s], n)
  BY <1>3, SemAssumption
<1> QED BY <1>6, <1>7, <1>8

LEMMA BlockGrants ==
  ASSUME SemInv, NEW t \in Tasks, NEW s \in Sems, NEW k \in SemTimeouts,
         SemBlock(t, s, k)
  PROVE  \A r \in Sems : Granted(r)' = Granted(r) /\ t \notin Granted(r)
<1>1. pc[t] = "app"
  BY CallerFacts DEF SemBlock
<1>2. /\ status' = [status EXCEPT ![t] =
            (status[t] \ {"ready", "timeout"}) \cup {"pend"}
              \cup (IF k = LOS_WAIT_FOREVER THEN {} ELSE {"timeout"})]
      /\ pc' = [pc EXCEPT ![t] = "pend"] /\ handle' = [handle EXCEPT ![t] = s]
  BY DEF SemBlock
<1>3. /\ "pend" \in status'[t]
      /\ \A u \in Tasks \ {t} : status'[u] = status[u] /\ pc'[u] = pc[u]
                                  /\ handle'[u] = handle[u]
  BY <1>2, TypeFacts
<1> QED BY <1>1, <1>3 DEF Granted

LEMMA ReturnGrants ==
  ASSUME SemInv, NEW t \in Tasks, SemReturn(t), NEW s \in Sems, s = handle[t]
  PROVE  /\ Timed(t) => \A r \in Sems : Granted(r)' = Granted(r)
         /\ ~Timed(t) =>
              /\ t \in Granted(s)
              /\ Granted(s)' = Granted(s) \ {t}
              /\ \A r \in Sems \ {s} : Granted(r)' = Granted(r)
<1>1. /\ pc[t] = "tail" /\ handle[t] \in Sems
      /\ status' = [status EXCEPT ![t] = status[t] \ {"timeout"}]
      /\ pc' = [pc EXCEPT ![t] = "app"] /\ handle' = [handle EXCEPT ![t] = None]
  BY DEF SemReturn
<1>2. "pend" \notin status[t]
  BY DEF SemReturn, Running, SemInv, Consistent, RunReady, States, OneState
<1>3. \A u \in Tasks \ {t} : status'[u] = status[u] /\ pc'[u] = pc[u]
                               /\ handle'[u] = handle[u]
  BY <1>1, TypeFacts
<1>4. \A r \in Sems : Granted(r)' = Granted(r) \ {t}
  <2>1. pc'[t] = "app"
    BY <1>1, TypeFacts
  <2> QED BY <1>3, <2>1 DEF Granted
<1>5. \A r \in Sems : t \in Granted(r) <=> r = s /\ ~Timed(t)
  <2>1. WaitServed(t) <=> ~Timed(t)
    BY <1>2 DEF WaitServed, Timed
  <2> QED BY <1>1, <2>1, GrantedIs DEF Inside
<1>6. \A r \in Sems : t \notin Granted(r) => Granted(r)' = Granted(r)
  BY <1>4
<1>7. Timed(t) => \A r \in Sems : Granted(r)' = Granted(r)
  BY <1>5, <1>6
<1>8. ASSUME ~Timed(t)
      PROVE  /\ t \in Granted(s)
             /\ Granted(s)' = Granted(s) \ {t}
             /\ \A r \in Sems \ {s} : Granted(r)' = Granted(r)
  BY <1>1, <1>4, <1>5, <1>6, <1>8
<1> QED BY <1>1, <1>7, <1>8

LEMMA ServeGrants ==
  ASSUME SemInv, NEW s \in Sems, lists[s] # <<>>,
         (\E t \in Tasks : TaskPost(t, s)) \/ DevicePost(s)
  PROVE  /\ FirstWaiter(s) \in Tasks /\ FirstWaiter(s) \notin Granted(s)
         /\ Granted(s)' = Granted(s) \cup {FirstWaiter(s)}
         /\ \A r \in Sems \ {s} : Granted(r)' = Granted(r)
<1> DEFINE n == FirstWaiter(s)
<1>1. /\ SemPost(s) /\ handle' = handle
      /\ \/ pc' = pc
         \/ /\ pc[run] = "app"
            /\ pc' = [pc EXCEPT ![run] = "sched"]
  BY PostIs
<1>2. /\ n \in Range(lists[s])
      /\ status'[n] \cap {"pend", "timeout"} = {}
      /\ \A u \in Tasks \ {n} : status'[u] = status[u]
  BY PostIs, ServeKeeps
<1> HIDE DEF n
<1>3. n \in Tasks /\ "pend" \in status[n]
  BY <1>2, SemAssumption, WaitingIsInside DEF SemInv, WaitersExist
<1>4. Inside(n) /\ handle[n] = s
  BY <1>2 DEF SemInv, Waiters
<1>5. \A u \in Tasks : pc'[u] \in {"pend", "tail"} <=> pc[u] \in {"pend", "tail"}
  BY <1>1, TypeFacts
<1>6. ASSUME NEW r \in Sems, NEW u \in Tasks
      PROVE  u \in Granted(r)' <=> u \in Granted(r) \/ (u = n /\ r = s)
  <2>1. CASE u = n
    <3>1. pc'[n] \in {"pend", "tail"} /\ handle'[n] = s
      BY <1>1, <1>3, <1>4, <1>5 DEF Inside
    <3>2. n \notin Granted(r)
      BY <1>3, WaitersNotGranted
    <3> QED BY <1>2, <1>3, <2>1, <3>1, <3>2 DEF Granted
  <2>2. CASE u # n
    BY <1>1, <1>2, <1>5, <2>2 DEF Granted
  <2> QED BY <2>1, <2>2
<1>7. \A r \in Sems : Granted(r) \subseteq Tasks /\ Granted(r)' \subseteq Tasks
  BY DEF Granted
<1>8. n \notin Granted(s)
  BY <1>3, WaitersNotGranted
<1>9. Granted(s)' = Granted(s) \cup {n}
  BY <1>3, <1>6, <1>7
<1>10. \A r \in Sems \ {s} : Granted(r)' = Granted(r)
  BY <1>6, <1>7
<1> QED BY <1>3, <1>8, <1>9, <1>10 DEF n

\* What changes neither the tasks nor their calls grants nothing.
LEMMA CounterGrants ==
  ASSUME UNCHANGED <<taskVars, handle>>
  PROVE  \A r \in Sems : Granted(r)' = Granted(r)
BY DEF taskVars, Granted

-----------------------------------------------------------------------------
(***************************************************************************)
(* Tokens are conserved, as long as no task is deleted that was granted    *)
(* one and has not returned.                                               *)
(***************************************************************************)
Held(s) == IF sem[s].used THEN sem[s].count ELSE 0

LEMMA GrantedFinite ==
  ASSUME NEW s \in Sems
  PROVE  IsFiniteSet(Granted(s)) /\ Cardinality(Granted(s)) \in Nat
<1>1. Granted(s) \in SUBSET Tasks
  BY DEF Granted
<1>2. IsFiniteSet(Granted(s))
  BY <1>1, SemAssumption, FS_Subset
<1> QED BY <1>2, FS_CardinalityType

LEMMA TokensIs ==
  TokensKept <=> \A s \in Sems : balance[s] = Cardinality(Granted(s)) + Held(s)
BY DEF TokensKept, Held

\* Every step moves as many tokens as it accounts for.
LEMMA NextTokens ==
  SemInv /\ TimesliceTimeout = 0 /\ "delete" \notin Calls /\ TokensKept
    /\ [SemNext]_vars => TokensKept'
<1> SUFFICES ASSUME SemInv, TimesliceTimeout = 0, "delete" \notin Calls,
                    TokensKept, [SemNext]_vars
             PROVE  \A s \in Sems :
                      balance'[s] = Cardinality(Granted(s)') + Held(s)'
  BY DEF TokensKept, Held
<1>t. /\ sem \in [Sems -> [used : BOOLEAN, count : 0 .. CountMax]]
      /\ balance \in [Sems -> Int]
      /\ \A s \in Sems : Held(s) \in Nat /\ Cardinality(Granted(s)) \in Nat
  BY TypeFacts, GrantedFinite, SemAssumption DEF Held
<1>b. \A s \in Sems : balance[s] = Cardinality(Granted(s)) + Held(s)
  BY TokensIs
<1>0. ASSUME sem' = sem, balance' = balance,
             \A r \in Sems : Granted(r)' = Granted(r)
      PROVE  \A s \in Sems :
               balance'[s] = Cardinality(Granted(s)') + Held(s)'
  BY <1>0, <1>b DEF Held
\* A step of one semaphore, of which the counter and the granted tasks change.
<1>s. ASSUME NEW s \in Sems, balance'[s] = Cardinality(Granted(s)') + Held(s)',
             \A r \in Sems \ {s} :
               balance'[r] = balance[r] /\ Granted(r)' = Granted(r) /\ sem'[r] = sem[r]
      PROVE  \A r \in Sems :
               balance'[r] = Cardinality(Granted(r)') + Held(r)'
  <2>1. \A r \in Sems \ {s} : Held(r)' = Held(r)
    BY <1>s DEF Held
  <2> QED BY <1>s, <1>b, <2>1
<1>1. CASE SchedulerStep
  BY <1>0, <1>1, SchedulerGrants DEF SchedulerStep
<1>2. ASSUME NEW s \in Sems, NEW k \in 0 .. CountMax, LOS_SemCreate(s, k)
      PROVE  \A r \in Sems :
               balance'[r] = Cardinality(Granted(r)') + Held(r)'
  <2>0. /\ ~sem[s].used /\ UNCHANGED <<taskVars, handle>>
        /\ sem' = [sem EXCEPT ![s] = [used |-> TRUE, count |-> k]]
        /\ balance' = [balance EXCEPT ![s] = balance[s] + k]
    BY <1>2 DEF LOS_SemCreate
  <2>1. \A r \in Sems : Granted(r)' = Granted(r)
    BY <2>0, CounterGrants
  <2>2. Held(s) = 0 /\ Held(s)' = k
    BY <2>0, <1>t DEF Held
  <2>3. balance'[s] = Cardinality(Granted(s)') + Held(s)'
    BY <1>b, <1>t, <2>0, <2>1, <2>2
  <2>4. \A r \in Sems \ {s} : balance'[r] = balance[r] /\ sem'[r] = sem[r]
    BY <1>t, <2>0
  <2> QED BY <1>s, <2>1, <2>3, <2>4
<1>3. ASSUME NEW s \in Sems, (\E t \in Tasks : TaskPost(t, s)) \/ DevicePost(s)
      PROVE  \A r \in Sems :
               balance'[r] = Cardinality(Granted(r)') + Held(r)'
  <2>1. CASE lists[s] = <<>>
    <3>1. /\ UNCHANGED <<taskVars, handle>> /\ sem[s].used
          /\ sem' = [sem EXCEPT ![s] = [used |-> sem[s].used,
                                        count |-> sem[s].count + 1]]
          /\ balance' = [balance EXCEPT ![s] = balance[s] + 1]
      BY <1>3, <2>1, PostCounts
    <3>2. \A r \in Sems : Granted(r)' = Granted(r)
      BY <3>1, CounterGrants
    <3>3. Held(s)' = Held(s) + 1
      BY <3>1, <1>t DEF Held
    <3>4. balance'[s] = Cardinality(Granted(s)') + Held(s)'
      BY <1>b, <1>t, <3>1, <3>2, <3>3
    <3>5. \A r \in Sems \ {s} : balance'[r] = balance[r] /\ sem'[r] = sem[r]
      BY <1>t, <3>1
    <3> QED BY <1>s, <3>2, <3>4, <3>5
  <2>2. CASE lists[s] # <<>>
    <3> DEFINE n == FirstWaiter(s)
    <3>1. /\ n \notin Granted(s) /\ Granted(s)' = Granted(s) \cup {n}
          /\ \A r \in Sems \ {s} : Granted(r)' = Granted(r)
      BY <1>3, <2>2, ServeGrants
    <3>2. SemPost(s)
      BY <1>3, <2>2, PostIs
    <3>3. /\ sem' = [sem EXCEPT ![s].count = sem[s].count]
          /\ balance' = [balance EXCEPT ![s] = balance[s] + 1]
      BY <2>2, <3>2 DEF SemPost, Counted
    <3>4. sem' = sem
      BY <3>3, <1>t
    <3> HIDE DEF n
    <3>5. Cardinality(Granted(s)') = Cardinality(Granted(s)) + 1
      BY <3>1, GrantedFinite, FS_AddElement
    <3>6. Held(s)' = Held(s)
      BY <3>4 DEF Held
    <3>7. balance'[s] = balance[s] + 1
      BY <1>t, <3>3
    <3>8. balance'[s] = Cardinality(Granted(s)') + Held(s)'
      BY <1>b, <1>t, <3>5, <3>6, <3>7
    <3>9. \A r \in Sems \ {s} : balance'[r] = balance[r] /\ sem'[r] = sem[r]
      BY <1>t, <3>3, <3>4
    <3> QED BY <1>s, <3>1, <3>8, <3>9
  <2> QED BY <2>1, <2>2
<1>4. ASSUME NEW t \in Tasks, NEW s \in Sems, LOS_SemDelete(t, s)
      PROVE  \A r \in Sems :
               balance'[r] = Cardinality(Granted(r)') + Held(r)'
  <2>0. /\ sem[s].used /\ UNCHANGED <<taskVars, handle>>
        /\ sem' = [sem EXCEPT ![s] = [used |-> FALSE, count |-> sem[s].count]]
        /\ balance' = [balance EXCEPT ![s] = balance[s] - sem[s].count]
    BY <1>4, DeleteKeeps DEF LOS_SemDelete
  <2>1. \A r \in Sems : Granted(r)' = Granted(r)
    BY <2>0, CounterGrants
  <2>2. Held(s) = sem[s].count /\ Held(s)' = 0
    BY <2>0, <1>t DEF Held
  <2>3. balance'[s] = Cardinality(Granted(s)') + Held(s)'
    BY <1>b, <1>t, <2>0, <2>1, <2>2
  <2>4. \A r \in Sems \ {s} : balance'[r] = balance[r] /\ sem'[r] = sem[r]
    BY <1>t, <2>0
  <2> QED BY <1>s, <2>1, <2>3, <2>4
<1>5. ASSUME NEW t \in Tasks, NEW s \in Sems, SemTake(t, s)
      PROVE  \A r \in Sems :
               balance'[r] = Cardinality(Granted(r)') + Held(r)'
  <2>0. /\ sem[s].used /\ UNCHANGED <<taskVars, handle>>
        /\ sem' = [sem EXCEPT ![s] = [used |-> sem[s].used,
                                      count |-> sem[s].count - 1]]
        /\ balance' = [balance EXCEPT ![s] = balance[s] - 1]
    BY <1>5, TakeKeeps DEF SemTake
  <2>1. \A r \in Sems : Granted(r)' = Granted(r)
    BY <2>0, CounterGrants
  <2>2. Held(s) = sem[s].count /\ Held(s)' = sem[s].count - 1
    BY <2>0, <1>t DEF Held
  <2>3. balance'[s] = Cardinality(Granted(s)') + Held(s)'
    BY <1>b, <1>t, <2>0, <2>1, <2>2
  <2>4. \A r \in Sems \ {s} : balance'[r] = balance[r] /\ sem'[r] = sem[r]
    BY <1>t, <2>0
  <2> QED BY <1>s, <2>1, <2>3, <2>4
<1>6. ASSUME NEW t \in Tasks, NEW s \in Sems, NEW k \in SemTimeouts,
             SemBlock(t, s, k)
      PROVE  \A r \in Sems :
               balance'[r] = Cardinality(Granted(r)') + Held(r)'
  BY <1>0, <1>6, BlockGrants DEF SemBlock
<1>7. ASSUME NEW t \in Tasks, SemReturn(t)
      PROVE  \A r \in Sems :
               balance'[r] = Cardinality(Granted(r)') + Held(r)'
  <2>0. PICK s \in Sems : s = handle[t]
    BY <1>7 DEF SemReturn
  <2>1. /\ Timed(t) => \A r \in Sems : Granted(r)' = Granted(r)
        /\ ~Timed(t) =>
              /\ t \in Granted(s)
              /\ Granted(s)' = Granted(s) \ {t}
              /\ \A r \in Sems \ {s} : Granted(r)' = Granted(r)
    BY <1>7, <2>0, ReturnGrants
  <2>2. sem' = sem
    BY <1>7 DEF SemReturn
  <2>3. CASE Timed(t)
    BY <1>0, <1>7, <2>1, <2>2, <2>3 DEF SemReturn
  <2>4. CASE ~Timed(t)
    <3>1. balance' = [balance EXCEPT ![s] = balance[s] - 1]
      BY <1>7, <2>0, <2>4 DEF SemReturn
    <3>2. Cardinality(Granted(s)') = Cardinality(Granted(s)) - 1
      BY <2>1, <2>4, GrantedFinite, FS_RemoveElement
    <3>3. Held(s)' = Held(s)
      BY <2>2 DEF Held
    <3>4. balance'[s] = balance[s] - 1
      BY <1>t, <3>1
    <3>5. balance'[s] = Cardinality(Granted(s)') + Held(s)'
      BY <1>b, <1>t, <3>2, <3>3, <3>4
    <3>6. \A r \in Sems \ {s} : balance'[r] = balance[r] /\ sem'[r] = sem[r]
      BY <1>t, <2>2, <3>1
    <3> QED BY <1>s, <2>1, <2>4, <3>5, <3>6
  <2> QED BY <2>3, <2>4
<1>8. CASE UNCHANGED vars
  <2>1. UNCHANGED <<taskVars, handle>> /\ sem' = sem /\ balance' = balance
    BY <1>8 DEF vars, semVars
  <2> QED BY <1>0, <2>1, CounterGrants
<1>9. Devices \subseteq Sems
  BY SemAssumption
<1> QED BY <1>1, <1>2, <1>3, <1>4, <1>5, <1>6, <1>7, <1>8, <1>9
        DEF SemNext, SemCall

LEMMA InitTokens == SemInit => TokensKept
<1> SUFFICES ASSUME SemInit, NEW s \in Sems
             PROVE  balance[s] = Cardinality(Granted(s)) + Held(s)
  BY TokensIs
<1>1. handle[s] = handle[s] /\ balance[s] = 0 /\ Held(s) = 0
  BY DEF SemInit, Held
<1>2. Granted(s) = {}
  BY DEF Granted, SemInit, Init
<1> QED BY <1>1, <1>2, FS_EmptySet

\* Tokens are neither lost nor doubled by the tick, the devices, timeouts,
\* suspensions and changes of priority: what the callers put in and were not
\* told they got is in the counter or on its way to a task that was woken.
\* (Deleting such a task does lose its token.)
THEOREM TokensConserved ==
  ASSUME TimesliceTimeout = 0, "delete" \notin Calls
  PROVE  SemSafety => []TokensKept
BY AlwaysSemInv, InitTokens, NextTokens, PTL DEF SemSafety

-----------------------------------------------------------------------------
(***************************************************************************)
(* Every step is a step of SemSpec or none.                                *)
(***************************************************************************)

\* The i-th node of a list, unlinked.
LEMMA WithoutIsCut ==
  ASSUME NEW S, NEW q \in Seq(S), IsInjective(q), NEW i \in DOMAIN q
  PROVE  Without(q, q[i]) = SubSeq(q, 1, i - 1) \o SubSeq(q, i + 1, Len(q))
<1>1. q[i] \in Range(q)
  BY DEF Range
<1>2. (CHOOSE j \in DOMAIN q : q[j] = q[i]) = i
  <2>1. \A j \in DOMAIN q : q[j] = q[i] => j = i
    BY DEF IsInjective
  <2> QED BY <2>1
<1> QED BY <1>1, <1>2 DEF Without, RemoveAt

SameQueues == \A r \in Sems : lists'[r] = lists[r]
SameGrants == \A r \in Sems : Granted(r)' = Granted(r)

LEMMA AbstractStutters ==
  ASSUME sem' = sem, SameQueues, SameGrants
  PROVE  UNCHANGED Abstract!vars
BY DEF Abstract!vars, SameQueues, SameGrants

LEMMA AbstractLeave ==
  ASSUME SemInv, sem' = sem, SameGrants, NEW n \in Tasks,
         \A r \in Sems : lists'[r] = Without(lists[r], n),
         NEW s \in Sems, n \in Range(lists[s])
  PROVE  Abstract!Next
<1>1. /\ \A r \in Sems : lists[r] \in Seq(Tasks) /\ IsInjective(lists[r])
      /\ \A r \in Sems \ {s} : n \notin Range(lists[r])
  BY TypeFacts DEF Nodes
<1>2. PICK i \in DOMAIN lists[s] : lists[s][i] = n
  BY DEF Range
<1>3. lists'[s] = SubSeq(lists[s], 1, i - 1) \o SubSeq(lists[s], i + 1, Len(lists[s]))
  BY <1>1, <1>2, WithoutIsCut
<1>4. \A r \in Sems \ {s} : lists'[r] = lists[r]
  BY <1>1 DEF Without
<1>5. Abstract!Leave(s, i)
  BY <1>2, <1>3, <1>4 DEF Abstract!Leave, SameGrants
<1> QED BY <1>2, <1>5 DEF Abstract!Next

LEMMA AbstractReturn ==
  ASSUME SemInv, sem' = sem, SameQueues, NEW t \in Tasks,
         NEW s \in Sems, t \in Granted(s), Granted(s)' = Granted(s) \ {t},
         \A r \in Sems \ {s} : Granted(r)' = Granted(r)
  PROVE  Abstract!Next
<1>1. Abstract!Return(t, s)
  BY DEF Abstract!Return, SameQueues
<1> QED BY <1>1 DEF Abstract!Next

LEMMA AbstractStep ==
  ASSUME SemInv, TimesliceTimeout = 0, [SemNext]_vars
  PROVE  [Abstract!Next]_(Abstract!vars)
<1>t. /\ sem \in [Sems -> [used : BOOLEAN, count : 0 .. CountMax]]
      /\ Sems = WaitObjects
  BY TypeFacts
\* Steps that only change a counter.
<1>c. ASSUME UNCHANGED <<taskVars, handle>>
      PROVE  SameQueues /\ SameGrants
  BY <1>c, CounterGrants DEF taskVars, SameQueues, SameGrants
<1>1. CASE SchedulerStep
  <2>0. sem' = sem
    BY <1>1 DEF SchedulerStep
  <2>1. PICK n \in Tasks :
           /\ \/ \A s \in Sems : lists'[s] = lists[s]
              \/ \A s \in Sems : lists'[s] = Without(lists[s], n)
           /\ \A s \in Sems :
                Granted(s)' = IF pc'[n] = "none" THEN Granted(s) \ {n} ELSE Granted(s)
    BY <1>1, SchedulerGrants
  <2>2. CASE "pend" \in status[n]
    <3>1. SameGrants
      BY <2>1, <2>2, WaitersNotGranted DEF SameGrants
    <3>2. PICK s \in Sems : n \in Range(lists[s])
      BY <1>t, <2>2, TypeFacts DEF Matches, Fits
    <3>3. CASE SameQueues
      BY <2>0, <3>1, <3>3, AbstractStutters
    <3>4. CASE \A r \in Sems : lists'[r] = Without(lists[r], n)
      BY <2>0, <3>1, <3>2, <3>4, AbstractLeave
    <3> QED BY <2>1, <3>3, <3>4 DEF SameQueues
  <2>3. CASE "pend" \notin status[n]
    <3>1. \A s \in Sems : n \notin Range(lists[s])
      BY <1>t, <2>3, TypeFacts DEF Matches, Fits
    <3>2. SameQueues
      BY <2>1, <3>1 DEF SameQueues, Without
    <3>3. CASE pc'[n] = "none" /\ \E s \in Sems : n \in Granted(s)
      <4>1. PICK s \in Sems : n \in Granted(s)
        BY <3>3
      <4>2. \A r \in Sems \ {s} : n \notin Granted(r)
        BY <4>1, GrantedIs
      <4>3. Granted(s)' = Granted(s) \ {n}
        BY <2>1, <3>3
      <4>4. \A r \in Sems \ {s} : Granted(r)' = Granted(r)
        BY <2>1, <4>2
      <4> QED BY <2>0, <3>2, <4>1, <4>3, <4>4, AbstractReturn
    <3>4. CASE ~(pc'[n] = "none" /\ \E s \in Sems : n \in Granted(s))
      <4>1. SameGrants
        BY <2>1, <3>4 DEF SameGrants
      <4> QED BY <2>0, <3>2, <4>1, AbstractStutters
    <3> QED BY <3>3, <3>4
  <2> QED BY <2>2, <2>3
<1>2. ASSUME NEW s \in Sems, NEW k \in 0 .. CountMax, LOS_SemCreate(s, k)
      PROVE  Abstract!Next
  <2>1. /\ ~sem[s].used /\ UNCHANGED <<taskVars, handle>>
        /\ sem' = [sem EXCEPT ![s] = [used |-> TRUE, count |-> k]]
    BY <1>2 DEF LOS_SemCreate
  <2>2. Abstract!Create(s, k)
    BY <1>c, <1>t, <2>1 DEF Abstract!Create, SameQueues, SameGrants
  <2> QED BY <2>2 DEF Abstract!Next
<1>3. ASSUME NEW s \in Sems, (\E t \in Tasks : TaskPost(t, s)) \/ DevicePost(s)
      PROVE  Abstract!Next
  <2>1. CASE lists[s] = <<>>
    <3>1. /\ UNCHANGED <<taskVars, handle>> /\ sem[s].used
          /\ sem[s].count < CountMax
          /\ sem' = [sem EXCEPT ![s] = [used |-> sem[s].used,
                                        count |-> sem[s].count + 1]]
      BY <1>3, <2>1, PostCounts
    <3>2. Abstract!Post(s)
      BY <1>c, <1>t, <2>1, <3>1 DEF Abstract!Post, SameQueues, SameGrants
    <3> QED BY <3>2 DEF Abstract!Next
  <2>2. CASE lists[s] # <<>>
    <3>1. /\ Granted(s)' = Granted(s) \cup {Head(lists[s])}
          /\ \A r \in Sems \ {s} : Granted(r)' = Granted(r)
      BY <1>3, <2>2, ServeGrants DEF FirstWaiter
    <3>2. /\ lists'[s] = Tail(lists[s])
          /\ \A r \in Sems \ {s} : lists'[r] = lists[r]
      BY <1>3, <2>2, PostIs, ServeKeeps
    <3>3. SemPost(s)
      BY <1>3, <2>2, PostIs
    <3>4. sem[s].used /\ sem' = [sem EXCEPT ![s].count = sem[s].count]
      BY <2>2, <3>3 DEF SemPost, Counted, CanPost
    <3>5. sem' = sem
      BY <3>4, <1>t
    <3>6. Abstract!Serve(s)
      BY <2>2, <3>1, <3>2, <3>4, <3>5 DEF Abstract!Serve
    <3> QED BY <3>6 DEF Abstract!Next
  <2> QED BY <2>1, <2>2
<1>4. ASSUME NEW t \in Tasks, NEW s \in Sems, LOS_SemDelete(t, s)
      PROVE  Abstract!Next
  <2>1. /\ sem[s].used /\ lists[s] = <<>> /\ UNCHANGED <<taskVars, handle>>
        /\ sem' = [sem EXCEPT ![s] = [used |-> FALSE, count |-> sem[s].count]]
    BY <1>4, DeleteKeeps DEF LOS_SemDelete
  <2>2. Abstract!Delete(s)
    BY <1>c, <1>t, <2>1 DEF Abstract!Delete, SameQueues, SameGrants
  <2> QED BY <2>2 DEF Abstract!Next
<1>5. ASSUME NEW t \in Tasks, NEW s \in Sems, SemTake(t, s)
      PROVE  Abstract!Next
  <2>1. /\ sem[s].used /\ sem[s].count > 0 /\ UNCHANGED <<taskVars, handle>>
        /\ sem' = [sem EXCEPT ![s] = [used |-> sem[s].used,
                                      count |-> sem[s].count - 1]]
    BY <1>5, TakeKeeps DEF SemTake, Available
  <2>2. Abstract!Take(s)
    BY <1>c, <1>t, <2>1 DEF Abstract!Take, SameQueues, SameGrants
  <2> QED BY <2>2 DEF Abstract!Next
<1>6. ASSUME NEW t \in Tasks, NEW s \in Sems, NEW k \in SemTimeouts,
             SemBlock(t, s, k)
      PROVE  Abstract!Next
  <2>1. /\ sem[s].used /\ ~(sem[s].count > 0) /\ sem' = sem
    BY <1>6 DEF SemBlock, Available
  <2>2. sem[s].count = 0
    BY <1>t, <2>1, SemAssumption
  <2>3. /\ lists'[s] = Append(lists[s], t)
        /\ \A r \in Sems \ {s} : lists'[r] = lists[r]
    BY <1>6, BlockKeeps
  <2>4. \A r \in Sems : Granted(r)' = Granted(r) /\ t \notin Granted(r)
    BY <1>6, BlockGrants
  <2>5. \A r \in Sems : \A i \in DOMAIN lists[r] : lists[r][i] # t
    <3>1. \A r \in Sems : t \notin Range(lists[r])
      BY <1>6, <1>t, CallerFacts DEF SemBlock
    <3> QED BY <3>1 DEF Range
  <2>6. Abstract!Wait(t, s)
    BY <2>1, <2>2, <2>3, <2>4, <2>5 DEF Abstract!Wait
  <2> QED BY <2>6 DEF Abstract!Next
<1>7. ASSUME NEW t \in Tasks, SemReturn(t)
      PROVE  [Abstract!Next]_(Abstract!vars)
  <2>0. PICK s \in Sems : s = handle[t]
    BY <1>7 DEF SemReturn
  <2>1. sem' = sem /\ SameQueues
    BY <1>7 DEF SemReturn, SameQueues
  <2>2. CASE Timed(t)
    <3>1. SameGrants
      BY <1>7, <2>0, <2>2, ReturnGrants DEF SameGrants
    <3> QED BY <2>1, <3>1, AbstractStutters
  <2>3. CASE ~Timed(t)
    <3>1. /\ t \in Granted(s)
          /\ Granted(s)' = Granted(s) \ {t}
          /\ \A r \in Sems \ {s} : Granted(r)' = Granted(r)
      BY <1>7, <2>0, <2>3, ReturnGrants
    <3> QED BY <2>1, <3>1, AbstractReturn
  <2> QED BY <2>2, <2>3
<1>8. CASE UNCHANGED vars
  <2>1. UNCHANGED <<taskVars, handle>> /\ sem' = sem
    BY <1>8 DEF vars, semVars
  <2> QED BY <1>c, <2>1, AbstractStutters
<1>9. Devices \subseteq Sems
  BY SemAssumption
<1> QED BY <1>1, <1>2, <1>3, <1>4, <1>5, <1>6, <1>7, <1>8, <1>9
        DEF SemNext, SemCall

LEMMA AbstractInit == SemInit => Abstract!Init
<1> SUFFICES ASSUME SemInit PROVE Abstract!Init
  OBVIOUS
<1>1. \A s \in Sems : lists[s] = <<>>
  BY SemAssumption, ParamAssumption DEF SemInit, Init, Lists, Priorities
<1>2. \A s \in Sems : Granted(s) = {}
  BY DEF Granted, SemInit, Init
<1>3. [s \in Sems |-> sem[s].count] \in [Sems -> 0 .. CountMax]
  BY SemAssumption DEF SemInit
<1>4. [s \in Sems |-> sem[s].used] = [s \in Sems |-> FALSE]
  BY DEF SemInit
<1> QED BY <1>1, <1>2, <1>3, <1>4 DEF Abstract!Init

\* Whatever happens around them, the semaphores are counters with first-come
\* first-served queues: a task that is deleted, times out or is served leaves
\* the queue, and the others keep their places.
THEOREM SemaphoresImplemented ==
  ASSUME TimesliceTimeout = 0
  PROVE  SemSafety => ImplementsSemaphore
<1>1. SemInv /\ [SemNext]_vars => [Abstract!Next]_(Abstract!vars)
  BY AbstractStep
<1> QED BY AlwaysSemInv, AbstractInit, <1>1, PTL
        DEF SemSafety, ImplementsSemaphore, Abstract!Spec
=============================================================================
