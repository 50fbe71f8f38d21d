--------------------------- MODULE LosTaskProofs ---------------------------
(***************************************************************************)
(* What LosTask keeps for every number of tasks, priorities, timeouts and  *)
(* every time slice: types, the consistency of the status flags with the   *)
(* lists and the timers, that the scheduler lock holds the CPU, that the   *)
(* highest ready task runs, and when the kernel cannot stop.  The last     *)
(* sections are lemmas on waits that the proofs about LosSem, LosMux and   *)
(* LosIpc share.                                                           *)
(***************************************************************************)
EXTENDS LosTask, SequenceTheorems, TLAPS

(***************************************************************************)
(* Lists.                                                                  *)
(***************************************************************************)

\* Taking the i-th element out of a sequence.
LEMMA RemoveAtElements ==
  ASSUME NEW S, NEW s \in Seq(S), NEW i \in 1 .. Len(s)
  PROVE  /\ RemoveAt(s, i) \in Seq(S)
         /\ Len(RemoveAt(s, i)) = Len(s) - 1
         /\ \A k \in 1 .. Len(s) - 1 :
              RemoveAt(s, i)[k] = IF k < i THEN s[k] ELSE s[k + 1]
<1> DEFINE u == SubSeq(s, 1, i - 1)
           v == SubSeq(s, i + 1, Len(s))
<1>0. /\ 1 \in Int /\ i \in Int /\ i - 1 \in Int /\ i + 1 \in Int
      /\ Len(s) \in Nat /\ Len(s) \in Int
  BY LenProperties
<1>2. /\ u \in Seq(S) /\ Len(u) = i - 1
      /\ \A k \in 1 .. i - 1 : u[k] = s[k]
  BY <1>0
<1>3. /\ v \in Seq(S) /\ Len(v) = Len(s) - i
      /\ \A k \in 1 .. Len(s) - i : v[k] = s[k + i]
  BY <1>0
<1>4. RemoveAt(s, i) = u \o v
  BY DEF RemoveAt
<1> HIDE DEF u, v
<1>5. /\ u \o v \in Seq(S)
      /\ Len(u \o v) = Len(u) + Len(v)
      /\ \A k \in 1 .. Len(u) + Len(v) :
           (u \o v)[k] = IF k <= Len(u) THEN u[k] ELSE v[k - Len(u)]
  BY <1>2, <1>3, ConcatProperties
<1>6. Len(u \o v) = Len(s) - 1
  BY <1>0, <1>2, <1>3, <1>5
<1>7. ASSUME NEW k \in 1 .. Len(s) - 1
      PROVE  (u \o v)[k] = IF k < i THEN s[k] ELSE s[k + 1]
  <2>1. CASE k < i
    BY <2>1, <1>0, <1>2, <1>3, <1>5
  <2>2. CASE ~(k < i)
    <3>1. (u \o v)[k] = v[k - (i - 1)]
      <4>1. Len(u) = i - 1 /\ Len(v) = Len(s) - i
        BY <1>2, <1>3
      <4>2. k \in 1 .. Len(u) + Len(v) /\ ~(k <= Len(u))
        BY <4>1, <2>2, <1>0
      <4> QED BY <4>1, <4>2, <1>5
    <3>2. v[k - (i - 1)] = s[k + 1]
      BY <2>2, <1>0, <1>3
    <3> QED BY <2>2, <1>0, <3>1, <3>2
  <2> QED BY <2>1, <2>2
<1> QED BY <1>4, <1>5, <1>6, <1>7

LEMMA WithoutFacts ==
  ASSUME NEW S, NEW s \in Seq(S), NEW t
  PROVE  /\ Without(s, t) \in Seq(S)
         /\ IsInjective(s) =>
              /\ IsInjective(Without(s, t))
              /\ Range(Without(s, t)) = Range(s) \ {t}
<1>0. /\ DOMAIN s = 1 .. Len(s) /\ Len(s) \in Nat
      /\ Range(s) = {s[k] : k \in 1 .. Len(s)}
  BY LenProperties, RangeEquality
<1>1. CASE t \in Range(s)
  <2>1. PICK i \in 1 .. Len(s) : s[i] = t /\ Without(s, t) = RemoveAt(s, i)
    <3>1. \E j \in DOMAIN s : s[j] = t
      BY <1>0, <1>1
    <3> QED BY <1>0, <1>1, <3>1, Zenon DEF Without
  <2> DEFINE w == RemoveAt(s, i)
  <2>2. /\ w \in Seq(S)
        /\ Len(w) = Len(s) - 1
        /\ \A k \in 1 .. Len(s) - 1 : w[k] = IF k < i THEN s[k] ELSE s[k + 1]
    BY RemoveAtElements
  <2> HIDE DEF w
  <2>3. /\ DOMAIN w = 1 .. Len(s) - 1
        /\ Range(w) = {w[k] : k \in 1 .. Len(s) - 1}
    BY <2>2, LenProperties, RangeEquality
  <2>4. ASSUME IsInjective(s)
        PROVE  IsInjective(w)
    <3> SUFFICES ASSUME NEW j \in 1 .. Len(s) - 1, NEW k \in 1 .. Len(s) - 1,
                        w[j] = w[k]
                 PROVE  j = k
      BY <2>3 DEF IsInjective
    <3>1. \A m, n \in 1 .. Len(s) : s[m] = s[n] => m = n
      BY <1>0, <2>4 DEF IsInjective
    <3> QED BY <1>0, <2>2, <3>1
  <2>5. ASSUME IsInjective(s)
        PROVE  Range(w) = Range(s) \ {t}
    <3>1. \A m, n \in 1 .. Len(s) : s[m] = s[n] => m = n
      BY <1>0, <2>5 DEF IsInjective
    <3>2. ASSUME NEW k \in 1 .. Len(s) - 1
          PROVE  w[k] \in Range(s) \ {t}
      BY <1>0, <2>1, <2>2, <3>1
    <3>3. ASSUME NEW n \in 1 .. Len(s), s[n] # t
          PROVE  \E k \in 1 .. Len(s) - 1 : w[k] = s[n]
      <4>1. CASE n < i
        BY <4>1, <1>0, <2>2
      <4>2. CASE n > i
        <5>1. n - 1 \in 1 .. Len(s) - 1 /\ w[n - 1] = s[n]
          BY <4>2, <1>0, <2>2
        <5> QED BY <5>1
      <4> QED BY <4>1, <4>2, <3>3, <2>1, <1>0
    <3>4. Range(w) \subseteq Range(s) \ {t}
      BY <2>3, <3>2
    <3>5. ASSUME NEW x \in Range(s) \ {t}
          PROVE  x \in Range(w)
      <4>1. PICK n \in 1 .. Len(s) : s[n] = x
        BY <1>0
      <4>2. \E k \in 1 .. Len(s) - 1 : w[k] = s[n]
        BY <4>1, <3>3
      <4> QED BY <4>1, <4>2, <2>3
    <3> QED BY <3>4, <3>5
  <2> QED BY <2>1, <2>2, <2>4, <2>5 DEF w
<1>2. CASE t \notin Range(s)
  BY <1>2 DEF Without
<1> QED BY <1>1, <1>2

LEMMA AppendFacts ==
  ASSUME NEW S, NEW s \in Seq(S), NEW t \in S
  PROVE  /\ Append(s, t) \in Seq(S)
         /\ Range(Append(s, t)) = Range(s) \cup {t}
         /\ IsInjective(s) /\ t \notin Range(s) => IsInjective(Append(s, t))
<1> DEFINE w == Append(s, t)
<1>1. /\ w \in Seq(S) /\ Len(w) = Len(s) + 1 /\ Len(s) \in Nat
      /\ \A k \in 1 .. Len(s) : w[k] = s[k]
      /\ w[Len(s) + 1] = t
  BY AppendProperties, LenProperties
<1> HIDE DEF w
<1>2. /\ DOMAIN w = 1 .. Len(s) + 1 /\ DOMAIN s = 1 .. Len(s)
      /\ Range(w) = {w[k] : k \in 1 .. Len(s) + 1}
      /\ Range(s) = {s[k] : k \in 1 .. Len(s)}
  BY <1>1, LenProperties, RangeEquality
<1>3. Range(w) = Range(s) \cup {t}
  <2>1. ASSUME NEW k \in 1 .. Len(s) + 1
        PROVE  w[k] \in Range(s) \cup {t}
    BY <1>1, <1>2
  <2>2. ASSUME NEW k \in 1 .. Len(s)
        PROVE  s[k] \in Range(w)
    BY <1>1, <1>2
  <2>3. t \in Range(w)
    BY <1>1, <1>2
  <2> QED BY <1>2, <2>1, <2>2, <2>3
<1>4. ASSUME IsInjective(s), t \notin Range(s)
      PROVE  IsInjective(w)
  BY <1>1, <1>2, <1>4 DEF IsInjective
<1> QED BY <1>1, <1>3, <1>4 DEF w
\* No node is in two places.
Nodes(q) ==
  /\ q \in [Lists -> Seq(Tasks)]
  /\ \A l \in Lists : IsInjective(q[l])
  /\ \A l, k \in Lists : l # k => Range(q[l]) \cap Range(q[k]) = {}

\* LOS_ListDelete takes exactly t out, of whatever list it is in.
LEMMA UnlinkFacts ==
  ASSUME NEW q \in [Lists -> Seq(Tasks)], NEW t \in Tasks
  PROVE  /\ Unlink(q, t) \in [Lists -> Seq(Tasks)]
         /\ Nodes(q) =>
              /\ Nodes(Unlink(q, t))
              /\ \A l \in Lists : Range(Unlink(q, t)[l]) = Range(q[l]) \ {t}
<1>1. \A l \in Lists :
        /\ Without(q[l], t) \in Seq(Tasks)
        /\ IsInjective(q[l]) =>
             /\ IsInjective(Without(q[l], t))
             /\ Range(Without(q[l], t)) = Range(q[l]) \ {t}
  BY WithoutFacts
<1>2. \A l \in Lists : Unlink(q, t)[l] = Without(q[l], t)
  BY DEF Unlink
<1>3. Unlink(q, t) \in [Lists -> Seq(Tasks)]
  BY <1>1 DEF Unlink
<1>4. ASSUME Nodes(q)
      PROVE  /\ Nodes(Unlink(q, t))
             /\ \A l \in Lists : Range(Unlink(q, t)[l]) = Range(q[l]) \ {t}
  <2>1. \A l \in Lists :
          /\ IsInjective(Unlink(q, t)[l])
          /\ Range(Unlink(q, t)[l]) = Range(q[l]) \ {t}
    BY <1>1, <1>2, <1>4 DEF Nodes
  <2>2. \A l, k \in Lists :
          l # k => Range(Unlink(q, t)[l]) \cap Range(Unlink(q, t)[k]) = {}
    BY <2>1, <1>4 DEF Nodes
  <2> QED BY <1>3, <2>1, <2>2 DEF Nodes
<1> QED BY <1>3, <1>4

LEMMA EnqueueType ==
  ASSUME NEW q \in [Lists -> Seq(Tasks)], NEW t \in Tasks, NEW l \in Lists
  PROVE  Enqueue(q, t, l) \in [Lists -> Seq(Tasks)]
BY AppendFacts DEF Enqueue

\* A node that is in no list goes to the tail of one.
LEMMA EnqueueFacts ==
  ASSUME NEW q, Nodes(q), NEW t \in Tasks, NEW l \in Lists,
         \A k \in Lists : t \notin Range(q[k])
  PROVE  /\ Nodes(Enqueue(q, t, l))
         /\ Range(Enqueue(q, t, l)[l]) = Range(q[l]) \cup {t}
         /\ \A k \in Lists \ {l} : Range(Enqueue(q, t, l)[k]) = Range(q[k])
<1> DEFINE e == Enqueue(q, t, l)
<1>0. q \in [Lists -> Seq(Tasks)]
  BY DEF Nodes
<1>1. \A k \in Lists : e[k] = IF k = l THEN Append(q[l], t) ELSE q[k]
  BY <1>0 DEF Enqueue
<1>2. /\ Range(Append(q[l], t)) = Range(q[l]) \cup {t}
      /\ IsInjective(q[l]) => IsInjective(Append(q[l], t))
  BY <1>0, AppendFacts
<1>3. e \in [Lists -> Seq(Tasks)]
  BY <1>0, EnqueueType
<1> HIDE DEF e
<1>4. /\ \A k \in Lists : IsInjective(e[k])
      /\ Range(e[l]) = Range(q[l]) \cup {t}
      /\ \A k \in Lists \ {l} : Range(e[k]) = Range(q[k])
  BY <1>1, <1>2 DEF Nodes
<1>5. \A j, k \in Lists : j # k => Range(e[j]) \cap Range(e[k]) = {}
  BY <1>4 DEF Nodes
<1> QED BY <1>3, <1>4, <1>5 DEF Nodes, e

\* OneList and Nodes say the same.
LEMMA NodesIsOneList ==
  ASSUME lists \in [Lists -> Seq(Tasks)]
  PROVE  Nodes(lists) <=> OneList
<1>1. \A l \in Lists : Range(lists[l]) = {lists[l][i] : i \in DOMAIN lists[l]}
  BY DEF Range
<1>2. ASSUME Nodes(lists) PROVE OneList
  <2> SUFFICES ASSUME NEW l \in Lists, NEW k \in Lists,
                      NEW i \in DOMAIN lists[l], NEW j \in DOMAIN lists[k],
                      lists[l][i] = lists[k][j]
               PROVE  l = k /\ i = j
    BY DEF OneList
  <2>1. lists[l][i] \in Range(lists[l]) /\ lists[l][i] \in Range(lists[k])
    BY <1>1
  <2>2. l = k
    BY <2>1, <1>2 DEF Nodes
  <2> QED BY <2>2, <1>2 DEF Nodes, IsInjective
<1>3. ASSUME OneList PROVE Nodes(lists)
  BY <1>1, <1>3 DEF Nodes, OneList, IsInjective
<1> QED BY <1>2, <1>3

-----------------------------------------------------------------------------
(***************************************************************************)
(* Types.  The slice of the running task is never used up between checks,  *)
(* and once the scheduler has started there is a running task.             *)
(***************************************************************************)
TypeInv ==
  /\ TypeOK
  /\ scheduled => run # None
  /\ slice.task # None => slice.left > 0

LEMMA ListsAreLists == Priorities \subseteq Lists /\ WaitObjects \subseteq Lists
BY DEF Lists

LEMMA InitType == Init => TypeInv
<1> SUFFICES ASSUME Init PROVE TypeInv
  OBVIOUS
<1>1. <<Idle>> \in Seq(Tasks) /\ <<>> \in Seq(Tasks)
  BY ParamAssumption
<1>2. lists \in [Lists -> Seq(Tasks)]
  BY <1>1 DEF Init
<1>3. Lowest \in Priorities /\ 0 \in 0 .. MaxTimeout /\ 0 \in 0 .. MaxLock
      /\ 0 \in 0 .. TimesliceTimeout
  BY ParamAssumption DEF Priorities
<1> QED BY <1>2, <1>3, ParamAssumption DEF Init, TypeInv, TypeOK, Flags, Pcs

LEMMA NextType == TypeInv /\ [TaskNext]_taskVars => TypeInv'
<1> SUFFICES ASSUME TypeInv, [TaskNext]_taskVars PROVE TypeInv'
  OBVIOUS
<1> USE DEF TypeInv, TypeOK
<1>u. \A t \in Tasks : Unlink(lists, t) \in [Lists -> Seq(Tasks)]
  BY UnlinkFacts
<1>e. \A q \in [Lists -> Seq(Tasks)], t \in Tasks, p \in Priorities :
        Enqueue(q, t, p) \in [Lists -> Seq(Tasks)]
  BY EnqueueType, ListsAreLists
<1>s. \A q : SwitchTo(q) => run' \in Tasks
  BY DEF SwitchTo
<1>n. None \notin Tasks
  BY ParamAssumption
<1>d. ASSUME NEW n \in Tasks, Discard(n)
      PROVE  /\ status' \in [Tasks -> SUBSET Flags]
             /\ timer' \in [Tasks -> 0 .. MaxTimeout]
             /\ pc' \in [Tasks -> Pcs]
             /\ lists' \in [Lists -> Seq(Tasks)]
             /\ run' \in Tasks \cup {None}
             /\ scheduled => run' # None
  <2>1. 0 \in 0 .. MaxTimeout
    BY ParamAssumption
  <2> QED BY <1>d, <1>u, <1>s, <1>n, <2>1 DEF Discard, TimerOff, Flags, Pcs
<1>c. ASSUME NEW n \in Tasks, NEW p \in Priorities, NEW d \in Detached,
             NEW ready \in BOOLEAN, NewTask(n, p, d, ready)
      PROVE  /\ status' \in [Tasks -> SUBSET Flags]
             /\ prio' \in [Tasks -> Priorities]
             /\ lists' \in [Lists -> Seq(Tasks)]
  BY <1>c, <1>e DEF NewTask, Detached, Flags
<1>1. CASE Boot
  <2>1. ASSUME NEW n \in Tasks, NEW p \in Priorities, NEW d \in Detached,
               BootCreate(n, p, d)
        PROVE  TypeInv'
    BY <2>1, <1>c DEF BootCreate, Pcs
  <2>2. CASE Start
    BY <2>2, <1>s, <1>n DEF Start
  <2> QED BY <1>1, <2>1, <2>2 DEF Boot
<1>2. ASSUME NEW t \in Tasks, TaskCall(t)
      PROVE  TypeInv'
  <2>1. ASSUME NEW n \in Tasks, NEW p \in Priorities, NEW d \in Detached,
               \/ LOS_TaskCreate(t, n, p, d)
               \/ LOS_TaskCreateOnly(t, n, p, d)
        PROVE  TypeInv'
    <3>1. CASE LOS_TaskCreate(t, n, p, d)
      <4>1. NewTask(n, p, d, TRUE)
        BY <3>1 DEF LOS_TaskCreate
      <4> QED BY <3>1, <4>1, <1>c DEF LOS_TaskCreate, Pcs
    <3>2. CASE LOS_TaskCreateOnly(t, n, p, d)
      <4>1. NewTask(n, p, d, FALSE)
        BY <3>2 DEF LOS_TaskCreateOnly
      <4> QED BY <3>2, <4>1, <1>c DEF LOS_TaskCreateOnly, Pcs
    <3> QED BY <2>1, <3>1, <3>2
  <2>2. ASSUME NEW n \in Tasks, LOS_TaskResume(t, n)
        PROVE  TypeInv'
    BY <2>2, <1>e DEF LOS_TaskResume, Scheduling, Flags, Pcs
  <2>3. ASSUME NEW n \in Tasks, LOS_TaskSuspend(t, n)
        PROVE  TypeInv'
    BY <2>3, <1>u DEF LOS_TaskSuspend, Scheduling, Flags, Pcs
  <2>4. ASSUME NEW n \in Tasks, LOS_TaskDelete(t, n)
        PROVE  TypeInv'
    BY <2>4, <1>d DEF LOS_TaskDelete, Fault
  <2>5. ASSUME NEW n \in Tasks, NEW p \in Priorities, LOS_TaskPriSet(t, n, p)
        PROVE  TypeInv'
    BY <2>5, <1>u, <1>e DEF LOS_TaskPriSet, Requeue, Scheduling, Pcs
  <2>6. ASSUME NEW k \in Timeouts, LOS_TaskDelay(t, k)
        PROVE  TypeInv'
    <3>1. k \in 0 .. MaxTimeout
      BY ParamAssumption DEF Timeouts
    <3> QED BY <2>6, <3>1, <1>u DEF LOS_TaskDelay, Flags, Pcs
  <2>7. CASE LOS_TaskYield(t)
    BY <2>7, <1>u, <1>e DEF LOS_TaskYield, Flags, Pcs
  <2>8. CASE LOS_TaskLock(t) \/ LOS_TaskUnlock(t)
    <3>1. lock' \in 0 .. MaxLock
      BY <2>8, ParamAssumption DEF LOS_TaskLock, LOS_TaskUnlock
    <3>2. pc' \in [Tasks -> Pcs]
      BY <2>8 DEF LOS_TaskLock, LOS_TaskUnlock, Scheduling, Pcs
    <3> QED BY <2>8, <3>1, <3>2 DEF LOS_TaskLock, LOS_TaskUnlock
  <2>9. CASE DetachedReturn(t)
    BY <2>9, <1>d, ParamAssumption DEF DetachedReturn
  <2>10. CASE JoinableReturn(t)
    BY <2>10, ParamAssumption DEF JoinableReturn, Pcs
  <2> QED BY <1>2, <2>1, <2>2, <2>3, <2>4, <2>5, <2>6, <2>7, <2>8, <2>9, <2>10
          DEF TaskCall
<1>3. ASSUME NEW t \in Tasks, TaskInternal(t)
      PROVE  TypeInv'
  <2>1. CASE LOS_Schedule(t)
    BY <2>1, <1>s, <1>n DEF LOS_Schedule, AfterSchedule, Pcs
  <2>2. CASE JoinableLeave(t)
    BY <2>2, <1>u, ParamAssumption DEF JoinableLeave, Flags, Pcs
  <2>3. CASE JoinableUnlock(t)
    BY <2>3, ParamAssumption DEF JoinableUnlock, Pcs
  <2>4. CASE RunOffEnd(t)
    BY <2>4 DEF RunOffEnd, Fault
  <2> QED BY <1>3, <2>1, <2>2, <2>3, <2>4 DEF TaskInternal
<1>4. CASE Tick
  <2>1. CASE TickBegin
    <3>1. CASE SliceYields /\ ~Linked(run)
      BY <2>1, <3>1 DEF TickBegin, Fault
    <3>2. CASE ~(SliceYields /\ ~Linked(run))
      <4>r. run \in Tasks
        BY <2>1 DEF TickBegin
      <4>0. /\ isr' = [active |-> TRUE, due |-> {t \in Tasks : timer[t] = 1},
                       sched |-> SliceYields]
            /\ timer' = [t \in Tasks |-> Ticked(t)]
            /\ slice' = CASE TimesliceTimeout = 0 -> slice
                          [] SliceOver -> [task |-> None, left |-> 0]
                          [] OTHER -> [task |-> run, left |-> SliceLeft]
            /\ IF SliceYields
               THEN /\ lists' = Enqueue(Unlink(lists, run), run, prio[run])
                    /\ status' = [status EXCEPT ![run] = @ \cup {"ready"}]
               ELSE UNCHANGED <<lists, status>>
            /\ UNCHANGED <<prio, run, lock, pc, scheduled, fault>>
        BY <2>1, <3>2, Zenon DEF TickBegin
      <4>1. timer' \in [Tasks -> 0 .. MaxTimeout]
        <5>1. \A t \in Tasks : Ticked(t) \in 0 .. MaxTimeout
          BY ParamAssumption DEF Ticked
        <5> QED BY <4>0, <5>1
      <4>2. /\ lists' \in [Lists -> Seq(Tasks)]
            /\ status' \in [Tasks -> SUBSET Flags]
        <5>1. CASE SliceYields
          <6>1. /\ lists' = Enqueue(Unlink(lists, run), run, prio[run])
                /\ status' = [status EXCEPT ![run] = @ \cup {"ready"}]
            BY <4>0, <5>1
          <6>2. lists' \in [Lists -> Seq(Tasks)]
            BY <6>1, <4>r, <1>u, <1>e
          <6> QED BY <6>1, <6>2, <4>r DEF Flags
        <5>2. CASE ~SliceYields
          BY <5>2, <4>0
        <5> QED BY <5>1, <5>2
      <4>3. isr' \in [active : BOOLEAN, due : SUBSET Tasks, sched : BOOLEAN]
        <5>1. SliceYields \in BOOLEAN
          BY DEF SliceYields, SliceOver
        <5> QED BY <4>0, <5>1
      <4>4. /\ slice' \in [task : Tasks \cup {None}, left : 0 .. TimesliceTimeout]
            /\ slice'.task # None => slice'.left > 0
        <5>1. CASE TimesliceTimeout = 0
          BY <5>1, <4>0
        <5>2. CASE TimesliceTimeout # 0 /\ SliceOver
          <6>1. slice' = [task |-> None, left |-> 0]
            BY <5>2, <4>0
          <6> QED BY <6>1, ParamAssumption
        <5>3. CASE TimesliceTimeout # 0 /\ ~SliceOver
          <6>1. SliceLeft \in 1 .. TimesliceTimeout
            BY <5>3, <4>r, <1>n, ParamAssumption DEF SliceOver, SliceLeft
          <6>2. slice' = [task |-> run, left |-> SliceLeft]
            BY <5>3, <4>0
          <6> HIDE DEF SliceLeft
          <6> QED BY <6>1, <6>2, <4>r, ParamAssumption
        <5> QED BY <5>1, <5>2, <5>3
      <4> QED BY <4>0, <4>r, <1>n, <4>1, <4>2, <4>3, <4>4
    <3> QED BY <3>1, <3>2
  <2>2. ASSUME NEW t \in Tasks, TickExpire(t)
        PROVE  TypeInv'
    BY <2>2, <1>u, <1>e DEF TickExpire, GivenUp, WaitFlag, Flags
  <2>3. CASE TickEnd
    BY <2>3, <1>s, <1>n DEF TickEnd
  <2> QED BY <1>4, <2>1, <2>2, <2>3 DEF Tick
<1>5. CASE UNCHANGED taskVars
  BY <1>5 DEF taskVars
<1> QED BY <1>1, <1>2, <1>3, <1>4, <1>5 DEF TaskNext

-----------------------------------------------------------------------------
(***************************************************************************)
(* Flags and lists.  Matches(q, st, pr): the nodes in the lists q are      *)
(* where the flags st and the priorities pr say.  Every kernel call is a   *)
(* composition of the five changes below.                                  *)
(***************************************************************************)
Fits(t, s, p, q) ==
  /\ \A r \in Priorities : t \in Range(q[r]) <=> "ready" \in s /\ p = r
  /\ "pend" \in s <=> \E w \in WaitObjects : t \in Range(q[w])

Matches(q, st, pr) ==
  /\ Nodes(q)
  /\ st \in [Tasks -> SUBSET Flags]
  /\ pr \in [Tasks -> Priorities]
  /\ \A t \in Tasks : Fits(t, st[t], pr[t], q)

LEMMA MatchesIsInvariants ==
  ASSUME TypeOK
  PROVE  Matches(lists, status, prio) <=> OneList /\ FlagsMatchLists
<1>1. FlagsMatchLists <=> \A t \in Tasks : Fits(t, status[t], prio[t], lists)
  BY DEF FlagsMatchLists, Fits
<1> QED BY <1>1, NodesIsOneList DEF TypeOK, Matches

\* A task that is neither ready nor waiting is in no list.
LEMMA NotInList ==
  ASSUME NEW q, NEW st, NEW pr, Matches(q, st, pr),
         NEW t \in Tasks, st[t] \cap {"ready", "pend"} = {}
  PROVE  \A l \in Lists : t \notin Range(q[l])
BY DEF Matches, Fits, Lists

\* Flags that say nothing about lists may change.
LEMMA ChangeFlags ==
  ASSUME NEW q, NEW st, NEW pr, Matches(q, st, pr),
         NEW t \in Tasks, NEW f \in SUBSET Flags,
         f \cap {"ready", "pend"} = st[t] \cap {"ready", "pend"}
  PROVE  Matches(q, [st EXCEPT ![t] = f], pr)
<1>1. "ready" \in f <=> "ready" \in st[t]
  OBVIOUS
<1>2. "pend" \in f <=> "pend" \in st[t]
  OBVIOUS
<1> QED BY <1>1, <1>2 DEF Matches, Fits

\* So may the priority of a task that is not ready.
LEMMA ChangePrio ==
  ASSUME NEW q, NEW st, NEW pr, Matches(q, st, pr),
         NEW t \in Tasks, NEW p \in Priorities, "ready" \notin st[t]
  PROVE  Matches(q, st, [pr EXCEPT ![t] = p])
BY DEF Matches, Fits

\* A task leaves its list and loses the flag.
LEMMA LeaveList ==
  ASSUME NEW q, NEW st, NEW pr, Matches(q, st, pr),
         NEW t \in Tasks, NEW f \in SUBSET Flags, f \cap {"ready", "pend"} = {}
  PROVE  Matches(Unlink(q, t), [st EXCEPT ![t] = f], pr)
<1>1. /\ Nodes(Unlink(q, t))
      /\ \A l \in Lists : Range(Unlink(q, t)[l]) = Range(q[l]) \ {t}
  BY UnlinkFacts DEF Matches, Nodes
<1>2. "ready" \notin f /\ "pend" \notin f
  OBVIOUS
<1>3. ASSUME NEW u \in Tasks
      PROVE  Fits(u, [st EXCEPT ![t] = f][u], pr[u], Unlink(q, t))
  <2>1. CASE u = t
    <3>1. [st EXCEPT ![t] = f][u] = f
      BY <2>1 DEF Matches
    <3>2. \A l \in Lists : u \notin Range(Unlink(q, t)[l])
      BY <1>1, <2>1
    <3> QED BY <1>2, <3>1, <3>2, ListsAreLists DEF Fits
  <2>2. CASE u # t
    <3>1. [st EXCEPT ![t] = f][u] = st[u]
      BY <2>2 DEF Matches
    <3>2. \A l \in Lists :
            u \in Range(Unlink(q, t)[l]) <=> u \in Range(q[l])
      BY <1>1, <2>2
    <3> QED BY <3>1, <3>2, ListsAreLists DEF Matches, Fits
  <2> QED BY <2>1, <2>2
<1> QED BY <1>1, <1>3 DEF Matches

\* A task that is in no list becomes ready.
LEMMA EnterQueue ==
  ASSUME NEW q, NEW st, NEW pr, Matches(q, st, pr),
         NEW t \in Tasks, st[t] \cap {"ready", "pend"} = {},
         NEW p \in Priorities, NEW f \in SUBSET Flags,
         "ready" \in f, "pend" \notin f
  PROVE  Matches(Enqueue(q, t, p), [st EXCEPT ![t] = f], [pr EXCEPT ![t] = p])
<1>0. p \in Lists
  BY DEF Lists
<1>1. \A l \in Lists : t \notin Range(q[l])
  BY NotInList
<1>2. /\ Nodes(Enqueue(q, t, p))
      /\ Range(Enqueue(q, t, p)[p]) = Range(q[p]) \cup {t}
      /\ \A k \in Lists \ {p} : Range(Enqueue(q, t, p)[k]) = Range(q[k])
  <2>1. Nodes(q)
    BY DEF Matches
  <2>2. Nodes(Enqueue(q, t, p))
    BY <2>1, <1>0, <1>1, EnqueueFacts
  <2>3. Range(Enqueue(q, t, p)[p]) = Range(q[p]) \cup {t}
    BY <2>1, <1>0, <1>1, EnqueueFacts
  <2>4. \A k \in Lists \ {p} : Range(Enqueue(q, t, p)[k]) = Range(q[k])
    BY <2>1, <1>0, <1>1, EnqueueFacts
  <2> QED BY <2>2, <2>3, <2>4
<1>3. \A w \in WaitObjects : w # p
  BY ParamAssumption
<1>4. ASSUME NEW u \in Tasks
      PROVE  Fits(u, [st EXCEPT ![t] = f][u], [pr EXCEPT ![t] = p][u],
                  Enqueue(q, t, p))
  <2>1. CASE u = t
    <3>1. [st EXCEPT ![t] = f][u] = f /\ [pr EXCEPT ![t] = p][u] = p
      BY <2>1 DEF Matches
    <3>2. \A l \in Lists : u \in Range(Enqueue(q, t, p)[l]) <=> l = p
      BY <1>0, <1>1, <1>2, <2>1
    <3> QED BY <1>3, <3>1, <3>2, ListsAreLists DEF Fits
  <2>2. CASE u # t
    <3>1. /\ [st EXCEPT ![t] = f][u] = st[u]
          /\ [pr EXCEPT ![t] = p][u] = pr[u]
      BY <2>2 DEF Matches
    <3>2. \A l \in Lists :
            u \in Range(Enqueue(q, t, p)[l]) <=> u \in Range(q[l])
      BY <1>0, <1>2, <2>2
    <3> QED BY <3>1, <3>2, ListsAreLists DEF Matches, Fits
  <2> QED BY <2>1, <2>2
<1> QED BY <1>2, <1>4 DEF Matches

\* A ready task moves to the tail of a queue.
LEMMA MoveInQueue ==
  ASSUME NEW q, NEW st, NEW pr, Matches(q, st, pr),
         NEW t \in Tasks, "ready" \in st[t], "pend" \notin st[t],
         NEW p \in Priorities
  PROVE  Matches(Enqueue(Unlink(q, t), t, p), st, [pr EXCEPT ![t] = p])
<1> DEFINE st1 == [st EXCEPT ![t] = {}]
<1>1. Matches(Unlink(q, t), st1, pr)
  BY LeaveList
<1>2. st1[t] \cap {"ready", "pend"} = {}
  BY DEF Matches
<1>3. st[t] \in SUBSET Flags
  BY DEF Matches
<1>4. Matches(Enqueue(Unlink(q, t), t, p), [st1 EXCEPT ![t] = st[t]],
              [pr EXCEPT ![t] = p])
  BY <1>1, <1>2, <1>3, EnterQueue
<1>5. [st1 EXCEPT ![t] = st[t]] = st
  BY DEF Matches
<1> QED BY <1>4, <1>5

\* osTaskPriModify.
LEMMA RequeueMatches ==
  ASSUME Matches(lists, status, prio), NEW t \in Tasks, NEW p \in Priorities,
         "ready" \in status[t] => "pend" \notin status[t]
  PROVE  Matches(Requeue(lists, t, p), status, [prio EXCEPT ![t] = p])
BY MoveInQueue, ChangePrio DEF Requeue

\* PendSV finds a ready task.
LEMMA SwitchFindsReady ==
  ASSUME NEW q, NEW st, NEW pr, Matches(q, st, pr), SwitchTo(q)
  PROVE  run' \in Tasks /\ "ready" \in st[run']
<1>1. PICK t \in Tasks : IsTop(q, t) /\ run' = t
  BY DEF SwitchTo
<1>2. PICK p \in Priorities : q[p] # <<>> /\ t = Head(q[p])
  BY <1>1 DEF IsTop
<1>3. q[p] \in Seq(Tasks)
  BY DEF Matches, Nodes, Lists
<1>4. t \in Range(q[p])
  <2>1. 1 \in DOMAIN q[p] /\ t = q[p][1]
    BY <1>2, <1>3
  <2> QED BY <2>1 DEF Range
<1> QED BY <1>1, <1>4 DEF Matches, Fits

-----------------------------------------------------------------------------
(***************************************************************************)
(* The inductive invariant: the run's invariants, and what they rest on.   *)
(***************************************************************************)

\* The interrupt wakes only tasks whose timer it has taken out.
DueInv ==
  /\ ~isr.active => isr.due = {}
  /\ \A t \in isr.due : timer[t] = 0

\* The running task is ready where it executes its own code; inside the
\* kernel it may have left the queue, but not under the scheduler lock, so
\* that the LOS_Schedule it is going to call switches away from it.
RunReady ==
  /\ ~scheduled => lock = 0
  /\ scheduled =>
       /\ pc[run] \in {"app", "leave", "tail"} => "ready" \in status[run]
       /\ pc[run] \in {"sched", "pend"} /\ "ready" \notin status[run] => lock = 0

States == OneState /\ NoTaskLost
Timers == TimerMatchesFlags /\ DueInv

Consistent ==
  /\ TypeInv
  /\ Matches(lists, status, prio)
  /\ States
  /\ Timers
  /\ RunReady

LEMMA InitConsistent == Init => Consistent
<1> SUFFICES ASSUME Init PROVE Consistent
  OBVIOUS
<1>1. TypeInv
  BY InitType
<1>2. Matches(lists, status, prio)
  <2>1. /\ lists \in [Lists -> Seq(Tasks)]
        /\ lists[Lowest] = <<Idle>>
        /\ \A l \in Lists \ {Lowest} : lists[l] = <<>>
        /\ Lowest \in Priorities
        /\ Lowest \notin WaitObjects
    BY <1>1, ParamAssumption DEF Init, Lists, Priorities, TypeInv, TypeOK
  <2>2. /\ Range(<<Idle>>) = {Idle} /\ IsInjective(<<Idle>>)
        /\ Range(<<>>) = {} /\ IsInjective(<<>>)
    BY DEF Range, IsInjective
  <2>3. Nodes(lists)
    BY <2>1, <2>2 DEF Nodes
  <2>4. ASSUME NEW t \in Tasks
        PROVE  Fits(t, status[t], prio[t], lists)
    BY <2>1, <2>2, ListsAreLists DEF Init, Fits
  <2> QED BY <1>1, <2>3, <2>4 DEF Matches, TypeInv, TypeOK
<1>3. States
  BY DEF Init, States, OneState, NoTaskLost
<1>4. Timers
  BY DEF Init, Timers, TimerMatchesFlags, DueInv
<1>5. RunReady
  BY DEF Init, RunReady
<1> QED BY <1>1, <1>2, <1>3, <1>4, <1>5 DEF Consistent

\* The TCB of n goes back to the pool.
LEMMA DiscardConsistent ==
  ASSUME Consistent, NEW n \in Tasks, Discard(n), isr.active = FALSE,
         UNCHANGED <<prio, isr, slice, scheduled>>,
         TypeInv', scheduled, n # run => lock' = lock, n = run => lock' = 0
  PROVE  Consistent'
<1> USE DEF Consistent
<1>t. /\ status \in [Tasks -> SUBSET Flags] /\ timer \in [Tasks -> 0 .. MaxTimeout]
      /\ pc \in [Tasks -> Pcs] /\ run \in Tasks
  BY DEF TypeInv, TypeOK
<1>1. Matches(lists', status', prio')
  <2>0. {"unused"} \in SUBSET Flags
    BY DEF Flags
  <2>1. CASE Listed(n)
    BY <2>0, <2>1, LeaveList DEF Discard
  <2>2. CASE ~Listed(n)
    <3>1. {"unused"} \cap {"ready", "pend"} = status[n] \cap {"ready", "pend"}
      BY <2>2 DEF Listed
    <3> QED BY <2>0, <2>2, <3>1, ChangeFlags DEF Discard
  <2> QED BY <2>1, <2>2
<1>2. States'
  BY <1>t DEF Discard, States, OneState, NoTaskLost
<1>3. Timers'
  BY <1>t DEF Discard, TimerOff, Timers, TimerMatchesFlags, DueInv
<1>4. RunReady'
  <2>1. CASE n = run
    BY <1>1, <1>t, <2>1, SwitchFindsReady DEF Discard, RunReady
  <2>2. CASE n # run
    BY <1>t, <2>2 DEF Discard, RunReady
  <2> QED BY <2>1, <2>2
<1> QED BY <1>1, <1>2, <1>3, <1>4

\* A free TCB becomes a task.
LEMMA NewTaskConsistent ==
  ASSUME Consistent, NEW n \in Tasks, NEW p \in Priorities, NEW d \in Detached,
         NEW ready \in BOOLEAN, NewTask(n, p, d, ready),
         \/ ~scheduled /\ pc' = [pc EXCEPT ![n] = "app"]
         \/ /\ scheduled /\ pc[run] = "app"
            /\ \/ pc' = [pc EXCEPT ![n] = "app"]
               \/ pc' = [pc EXCEPT ![n] = "app", ![run] = "sched"],
         UNCHANGED <<timer, run, lock, isr, slice, scheduled, fault>>,
         TypeInv'
  PROVE  Consistent'
<1> USE DEF Consistent
<1> DEFINE f == (IF ready THEN {"ready"} ELSE {"suspend"}) \cup d
<1>t. /\ status \in [Tasks -> SUBSET Flags] /\ prio \in [Tasks -> Priorities]
      /\ timer \in [Tasks -> 0 .. MaxTimeout] /\ pc \in [Tasks -> Pcs]
      /\ run \in Tasks \cup {None}
  BY DEF TypeInv, TypeOK
<1>f. f \in SUBSET Flags /\ "pend" \notin f /\ "unused" \notin f
  BY DEF Flags, Detached
<1>u. status[n] = {"unused"}
  BY DEF NewTask, States, OneState
<1>1. Matches(lists', status', prio')
  <2>0. status[n] \cap {"ready", "pend"} = {} /\ "ready" \notin status[n]
    BY <1>u
  <2>1. CASE ready
    <3>1. "ready" \in f
      BY <2>1
    <3>2. Matches(Enqueue(lists, n, p), [status EXCEPT ![n] = f],
                  [prio EXCEPT ![n] = p])
      BY <1>f, <2>0, <3>1, EnterQueue
    <3> QED BY <2>1, <3>2 DEF NewTask
  <2>2. CASE ~ready
    <3>1. f \cap {"ready", "pend"} = status[n] \cap {"ready", "pend"}
      BY <1>u, <2>2 DEF Detached
    <3>2. Matches(lists, status, [prio EXCEPT ![n] = p])
      BY <2>0, ChangePrio
    <3>3. Matches(lists, [status EXCEPT ![n] = f], [prio EXCEPT ![n] = p])
      BY <1>f, <3>1, <3>2, ChangeFlags
    <3> QED BY <2>2, <3>3 DEF NewTask
  <2> QED BY <2>1, <2>2
<1>s. status' = [status EXCEPT ![n] = f]
  BY DEF NewTask
<1>r. scheduled => run \in Tasks /\ run # n /\ "ready" \in status[run]
  BY <1>t, <1>u DEF TypeInv, RunReady
<1>p. /\ \A u \in Tasks \ {n} : pc'[u] = pc[u] \/ (scheduled /\ u = run)
      /\ scheduled => pc'[run] \in {"app", "sched"}
  BY <1>t, <1>r
<1> HIDE DEF f
<1>2. States'
  <2>1. ASSUME NEW u \in Tasks \ {n}
        PROVE  /\ status'[u] = status[u]
               /\ pc'[u] = pc[u] \/ "ready" \in status[u]
    BY <1>t, <1>s, <1>p, <1>r
  <2>2. status'[n] = f
    BY <1>t, <1>s
  <2>3. /\ f \cap {"unused", "pend", "delay"} = {}
        /\ f \cap {"ready", "suspend"} # {}
        /\ "ready" \in f => "suspend" \notin f
    BY DEF f, Detached
  <2>4. OneState'
    BY <2>1, <2>2, <2>3 DEF States, OneState
  <2>5. NoTaskLost'
    BY <2>1, <2>2, <2>3 DEF States, NoTaskLost
  <2> QED BY <2>4, <2>5 DEF States
<1>3. Timers'
  BY <1>t, <1>s, <1>u, <1>f DEF Timers, TimerMatchesFlags, DueInv, f, Detached
<1>4. RunReady'
  BY <1>t, <1>s, <1>p, <1>r DEF RunReady
<1> QED BY <1>1, <1>2, <1>3, <1>4

LEMMA CallConsistent ==
  ASSUME Consistent, NEW t \in Tasks, TaskCall(t), TypeInv'
  PROVE  Consistent'
<1> USE DEF Consistent
<1>t. /\ status \in [Tasks -> SUBSET Flags] /\ prio \in [Tasks -> Priorities]
      /\ timer \in [Tasks -> 0 .. MaxTimeout] /\ pc \in [Tasks -> Pcs]
      /\ lock \in 0 .. MaxLock
  BY DEF TypeInv, TypeOK
<1>c. ASSUME NEW call, CanCall(t, call)
      PROVE  /\ scheduled /\ run = t /\ isr.active = FALSE
             /\ pc[t] = "app" /\ "ready" \in status[t]
             /\ status[t] \cap {"unused", "suspend", "pend", "delay"} = {}
             /\ timer[t] = 0 /\ isr.due = {}
  <2>1. scheduled /\ run = t /\ ~isr.active /\ pc[t] = "app"
    BY <1>c DEF CanCall, Running
  <2>2. "ready" \in status[t]
    BY <2>1 DEF RunReady
  <2>3. status[t] \cap {"unused", "suspend", "pend", "delay"} = {}
    BY <2>2 DEF States, OneState
  <2>4. isr.due = {}
    BY <2>1 DEF Timers, DueInv
  <2>5. timer[t] = 0
    BY <2>3, <1>t DEF Timers, TimerMatchesFlags
  <2>6. isr.active = FALSE
    BY <2>1 DEF TypeInv, TypeOK
  <2> QED BY <2>1, <2>2, <2>3, <2>4, <2>5, <2>6
<1>1. ASSUME NEW n \in Tasks, NEW p \in Priorities, NEW d \in Detached,
             \/ LOS_TaskCreate(t, n, p, d)
             \/ LOS_TaskCreateOnly(t, n, p, d)
      PROVE  Consistent'
  <2>1. CASE LOS_TaskCreate(t, n, p, d)
    <3>1. NewTask(n, p, d, TRUE) /\ CanCall(t, "create")
      BY <2>1 DEF LOS_TaskCreate
    <3> QED BY <2>1, <3>1, <1>c, NewTaskConsistent DEF LOS_TaskCreate
  <2>2. CASE LOS_TaskCreateOnly(t, n, p, d)
    <3>1. NewTask(n, p, d, FALSE) /\ CanCall(t, "create_only")
      BY <2>2 DEF LOS_TaskCreateOnly
    <3> QED BY <2>2, <3>1, <1>c, NewTaskConsistent DEF LOS_TaskCreateOnly
  <2> QED BY <1>1, <2>1, <2>2
<1>2. ASSUME NEW n \in Tasks, LOS_TaskResume(t, n)
      PROVE  Consistent'
  <2>c. CanCall(t, "resume") /\ n # t
    BY <1>2, <1>c DEF LOS_TaskResume
  <2>1. Matches(lists', status', prio')
    <3>1. CASE Blocked(n)
      BY <1>2, <3>1, <1>t, ChangeFlags DEF LOS_TaskResume
    <3>2. CASE ~Blocked(n)
      <4>1. status[n] \cap {"ready", "pend"} = {}
        BY <1>2, <3>2 DEF LOS_TaskResume, Blocked, States, OneState
      <4>2. (status[n] \ {"suspend"}) \cup {"ready"} \in SUBSET Flags
        BY <1>t DEF Flags
      <4>3. [prio EXCEPT ![n] = prio[n]] = prio
        BY <1>t
      <4> DEFINE f == (status[n] \ {"suspend"}) \cup {"ready"}
      <4>4. "ready" \in f /\ "pend" \notin f
        BY <4>1
      <4> HIDE DEF f
      <4>5. f \in SUBSET Flags
        BY <4>2 DEF f
      <4>6. Matches(Enqueue(lists, n, prio[n]), [status EXCEPT ![n] = f],
                    [prio EXCEPT ![n] = prio[n]])
        BY <4>1, <4>4, <4>5, <1>t, EnterQueue
      <4>7. /\ lists' = Enqueue(lists, n, prio[n])
            /\ status' = [status EXCEPT ![n] = f] /\ prio' = prio
        BY <1>2, <3>2, <1>t DEF LOS_TaskResume, f
      <4> QED BY <4>3, <4>6, <4>7
    <3> QED BY <3>1, <3>2
  <2>2. States'
    <3>1. OneState'
      BY <1>2, <1>t DEF LOS_TaskResume, Blocked, States, OneState
    <3>2. NoTaskLost'
      BY <1>2, <1>t, <1>c, <2>c
      DEF LOS_TaskResume, Scheduling, Blocked, States, NoTaskLost
    <3> QED BY <3>1, <3>2 DEF States
  <2>3. Timers'
    BY <1>2, <1>t DEF LOS_TaskResume, Blocked, Timers, TimerMatchesFlags, DueInv
  <2>4. RunReady'
    BY <1>2, <1>t, <1>c, <2>c DEF LOS_TaskResume, Scheduling, RunReady
  <2> QED BY <2>1, <2>2, <2>3, <2>4
<1>3. ASSUME NEW n \in Tasks, LOS_TaskSuspend(t, n)
      PROVE  Consistent'
  <2>c. CanCall(t, "suspend")
    BY <1>3 DEF LOS_TaskSuspend
  <2>f. (status[n] \ {"ready"}) \cup {"suspend"} \in SUBSET Flags
    BY <1>t DEF Flags
  <2>1. Matches(lists', status', prio')
    <3>1. CASE "ready" \in status[n]
      <4>1. "pend" \notin status[n]
        BY <3>1 DEF States, OneState
      <4> QED BY <1>3, <2>f, <3>1, <4>1, LeaveList DEF LOS_TaskSuspend
    <3>2. CASE "ready" \notin status[n]
      <4> DEFINE f == (status[n] \ {"ready"}) \cup {"suspend"}
      <4>1. f \cap {"ready", "pend"} = status[n] \cap {"ready", "pend"}
        BY <3>2
      <4> HIDE DEF f
      <4>2. Matches(lists, [status EXCEPT ![n] = f], prio)
        BY <2>f, <4>1, ChangeFlags DEF f
      <4>3. lists' = lists /\ status' = [status EXCEPT ![n] = f] /\ prio' = prio
        BY <1>3, <3>2 DEF LOS_TaskSuspend, f
      <4> QED BY <4>2, <4>3
    <3> QED BY <3>1, <3>2
  <2>2. States'
    BY <1>3, <1>t, <1>c, <2>c
    DEF LOS_TaskSuspend, Scheduling, States, OneState, NoTaskLost
  <2>3. Timers'
    BY <1>3, <1>t DEF LOS_TaskSuspend, Timers, TimerMatchesFlags, DueInv
  <2>4. RunReady'
    BY <1>3, <1>t, <1>c, <2>c DEF LOS_TaskSuspend, Scheduling, RunReady
  <2> QED BY <2>1, <2>2, <2>3, <2>4
<1>4. ASSUME NEW n \in Tasks, LOS_TaskDelete(t, n)
      PROVE  Consistent'
  <2>c. CanCall(t, "delete")
    BY <1>4 DEF LOS_TaskDelete
  <2>1. CASE Fault("unlink")
    BY <1>c, <2>c, <2>1
    DEF Fault, States, OneState, NoTaskLost, Timers, TimerMatchesFlags, DueInv,
        RunReady
  <2>2. CASE /\ Discard(n)
             /\ UNCHANGED <<prio, lock, isr, slice, scheduled, fault>>
    BY <1>4, <1>c, <2>c, <2>2, DiscardConsistent DEF LOS_TaskDelete
  <2> QED BY <1>4, <2>1, <2>2 DEF LOS_TaskDelete
<1>5. ASSUME NEW n \in Tasks, NEW p \in Priorities, LOS_TaskPriSet(t, n, p)
      PROVE  Consistent'
  <2>c. CanCall(t, "priset")
    BY <1>5 DEF LOS_TaskPriSet
  <2>1. Matches(lists', status', prio')
    BY <1>5, RequeueMatches DEF LOS_TaskPriSet, States, OneState
  <2>2. States'
    BY <1>5, <1>t, <1>c, <2>c
    DEF LOS_TaskPriSet, Scheduling, States, OneState, NoTaskLost
  <2>3. Timers'
    BY <1>5 DEF LOS_TaskPriSet, Timers, TimerMatchesFlags, DueInv
  <2>4. RunReady'
    BY <1>5, <1>t, <1>c, <2>c DEF LOS_TaskPriSet, Scheduling, RunReady
  <2> QED BY <2>1, <2>2, <2>3, <2>4
<1>6. ASSUME NEW k \in Timeouts, LOS_TaskDelay(t, k)
      PROVE  Consistent'
  <2>c. CanCall(t, "delay")
    BY <1>6 DEF LOS_TaskDelay
  <2>f. (status[t] \ {"ready"}) \cup {"delay"} \in SUBSET Flags
    BY <1>t DEF Flags
  <2>1. Matches(lists', status', prio')
    BY <1>6, <1>c, <2>c, <2>f, LeaveList DEF LOS_TaskDelay
  <2>2. States'
    BY <1>6, <1>t, <1>c, <2>c DEF LOS_TaskDelay, States, OneState, NoTaskLost
  <2>3. Timers'
    <3>1. k > 0
      BY ParamAssumption DEF Timeouts
    <3>2. /\ status' = [status EXCEPT ![t] = (status[t] \ {"ready"}) \cup {"delay"}]
          /\ timer' = [timer EXCEPT ![t] = k] /\ isr' = isr
      BY <1>6, <1>t DEF LOS_TaskDelay
    <3>3. TimerMatchesFlags'
      BY <3>1, <3>2, <1>t DEF Timers, TimerMatchesFlags
    <3>4. DueInv'
      BY <3>2, <1>c, <2>c DEF Timers, DueInv
    <3> QED BY <3>3, <3>4 DEF Timers
  <2>4. RunReady'
    BY <1>6, <1>t, <1>c, <2>c DEF LOS_TaskDelay, RunReady
  <2> QED BY <2>1, <2>2, <2>3, <2>4
<1>7. CASE LOS_TaskYield(t)
  <2>c. CanCall(t, "yield")
    BY <1>7 DEF LOS_TaskYield
  <2>0. status' = status
    BY <1>7, <1>t, <1>c, <2>c DEF LOS_TaskYield
  <2>1. Matches(lists', status', prio')
    <3>1. [prio EXCEPT ![t] = prio[t]] = prio
      BY <1>t
    <3>2. "ready" \in status[t] /\ "pend" \notin status[t]
      BY <1>c, <2>c
    <3>3. Matches(Enqueue(Unlink(lists, t), t, prio[t]), status,
                  [prio EXCEPT ![t] = prio[t]])
      BY <3>2, <1>t, MoveInQueue
    <3> QED BY <1>7, <2>0, <3>1, <3>3 DEF LOS_TaskYield
  <2>2. States'
    BY <1>7, <1>t, <1>c, <2>c, <2>0 DEF LOS_TaskYield, States, OneState, NoTaskLost
  <2>3. Timers'
    BY <1>7, <2>0 DEF LOS_TaskYield, Timers, TimerMatchesFlags, DueInv
  <2>4. RunReady'
    BY <1>7, <1>t, <1>c, <2>c, <2>0 DEF LOS_TaskYield, RunReady
  <2> QED BY <2>1, <2>2, <2>3, <2>4
<1>8. CASE LOS_TaskLock(t) \/ LOS_TaskUnlock(t)
  <2>c. CanCall(t, "lock")
    BY <1>8 DEF LOS_TaskLock, LOS_TaskUnlock
  <2>0. UNCHANGED <<lists, status, prio, timer, isr, run, scheduled>>
    BY <1>8 DEF LOS_TaskLock, LOS_TaskUnlock
  <2>2. States'
    BY <1>8, <1>t, <1>c, <2>c, <2>0
    DEF LOS_TaskLock, LOS_TaskUnlock, Scheduling, States, OneState, NoTaskLost
  <2>3. Timers'
    BY <2>0 DEF Timers, TimerMatchesFlags, DueInv
  <2>4. RunReady'
    BY <1>8, <1>t, <1>c, <2>c, <2>0
    DEF LOS_TaskLock, LOS_TaskUnlock, Scheduling, RunReady
  <2> QED BY <2>0, <2>2, <2>3, <2>4
<1>9. CASE DetachedReturn(t)
  <2>c. CanCall(t, "return")
    BY <1>9 DEF DetachedReturn
  <2> QED BY <1>9, <1>c, <2>c, DiscardConsistent DEF DetachedReturn
<1>10. CASE JoinableReturn(t)
  <2>c. CanCall(t, "return")
    BY <1>10 DEF JoinableReturn
  <2>0. UNCHANGED <<lists, status, prio, timer, isr, run, scheduled>>
    BY <1>10 DEF JoinableReturn
  <2>2. States'
    BY <1>10, <1>t, <1>c, <2>c, <2>0
    DEF JoinableReturn, States, OneState, NoTaskLost
  <2>3. Timers'
    BY <2>0 DEF Timers, TimerMatchesFlags, DueInv
  <2>4. RunReady'
    BY <1>10, <1>t, <1>c, <2>c, <2>0 DEF JoinableReturn, RunReady
  <2> QED BY <2>0, <2>2, <2>3, <2>4
<1> QED BY <1>1, <1>2, <1>3, <1>4, <1>5, <1>6, <1>7, <1>8, <1>9, <1>10
        DEF TaskCall

LEMMA InternalConsistent ==
  ASSUME Consistent, NEW t \in Tasks, TaskInternal(t), TypeInv'
  PROVE  Consistent'
<1> USE DEF Consistent
<1>t. /\ status \in [Tasks -> SUBSET Flags] /\ pc \in [Tasks -> Pcs]
      /\ lock \in 0 .. MaxLock
  BY DEF TypeInv, TypeOK
<1>r. scheduled /\ run = t /\ isr.active = FALSE
  BY DEF TaskInternal, LOS_Schedule, JoinableLeave, JoinableUnlock, RunOffEnd,
         Running, TypeInv, TypeOK
<1>1. CASE LOS_Schedule(t)
  <2>0. /\ pc' = [pc EXCEPT ![t] = AfterSchedule(pc[t])]
        /\ pc[t] \in {"sched", "pend", "exit"}
        /\ IF MaySwitch THEN SwitchTo(lists) ELSE UNCHANGED run
        /\ UNCHANGED <<status, prio, lists, timer, lock, isr, slice, scheduled>>
    BY <1>1, <1>t DEF LOS_Schedule
  <2>2. States'
    BY <2>0, <1>t DEF AfterSchedule, States, OneState, NoTaskLost
  <2>3. Timers'
    BY <2>0 DEF Timers, TimerMatchesFlags, DueInv
  <2>4. RunReady'
    <3>1. CASE MaySwitch
      <4>1. run' \in Tasks /\ "ready" \in status[run']
        BY <2>0, <3>1, SwitchFindsReady
      <4> QED BY <2>0, <1>r, <4>1 DEF RunReady
    <3>2. CASE ~MaySwitch
      BY <2>0, <1>t, <1>r, <3>2 DEF MaySwitch, AfterSchedule, RunReady
    <3> QED BY <3>1, <3>2
  <2> QED BY <2>0, <2>2, <2>3, <2>4
<1>2. CASE JoinableLeave(t)
  <2>r. "ready" \in status[t]
    BY <1>2, <1>r DEF JoinableLeave, RunReady
  <2>f. /\ status[t] \ {"ready"} \in SUBSET Flags
        /\ (status[t] \ {"ready"}) \cap {"ready", "pend"} = {}
    BY <2>r, <1>t DEF States, OneState
  <2>1. Matches(lists', status', prio')
    BY <1>2, <2>r, <2>f, LeaveList DEF JoinableLeave
  <2>2. States'
    BY <1>2, <2>r, <1>t DEF JoinableLeave, States, OneState, NoTaskLost
  <2>3. Timers'
    BY <1>2, <1>t DEF JoinableLeave, Timers, TimerMatchesFlags, DueInv
  <2>4. RunReady'
    BY <1>2, <1>r, <1>t DEF JoinableLeave, RunReady
  <2> QED BY <2>1, <2>2, <2>3, <2>4
<1>3. CASE JoinableUnlock(t)
  <2>0. UNCHANGED <<lists, status, prio, timer, isr, run, scheduled>>
    BY <1>3 DEF JoinableUnlock
  <2>2. States'
    BY <1>3, <1>t, <2>0 DEF JoinableUnlock, States, OneState, NoTaskLost
  <2>3. Timers'
    BY <2>0 DEF Timers, TimerMatchesFlags, DueInv
  <2>4. RunReady'
    BY <1>3, <1>r, <1>t, <2>0 DEF JoinableUnlock, RunReady
  <2> QED BY <2>0, <2>2, <2>3, <2>4
<1>4. CASE RunOffEnd(t)
  BY <1>4 DEF RunOffEnd, Fault, States, OneState, NoTaskLost, Timers,
              TimerMatchesFlags, DueInv, RunReady
<1> QED BY <1>1, <1>2, <1>3, <1>4 DEF TaskInternal

\* The yield of the time slice is harmless for a task that is not on its way
\* to sleep on a wait list.
LEMMA TickConsistent ==
  ASSUME Consistent, Tick, TypeInv',
         TickBegin /\ SliceYields => "pend" \notin status[run]
  PROVE  Consistent'
<1> USE DEF Consistent
<1>t. /\ status \in [Tasks -> SUBSET Flags] /\ prio \in [Tasks -> Priorities]
      /\ timer \in [Tasks -> 0 .. MaxTimeout] /\ pc \in [Tasks -> Pcs]
      /\ isr \in [active : BOOLEAN, due : SUBSET Tasks, sched : BOOLEAN]
  BY DEF TypeInv, TypeOK
<1>1. CASE TickBegin
  <2>1. CASE SliceYields /\ ~Linked(run)
    BY <1>1, <2>1 DEF TickBegin, Fault, States, OneState, NoTaskLost, Timers,
                      TimerMatchesFlags, DueInv, RunReady
  <2>2. CASE ~(SliceYields /\ ~Linked(run))
    <3>r. scheduled /\ run \in Tasks /\ isr.active = FALSE
      BY <1>1, <1>t DEF TickBegin, TypeInv, TypeOK
    <3>0. /\ isr' = [active |-> TRUE, due |-> {t \in Tasks : timer[t] = 1},
                     sched |-> SliceYields]
          /\ timer' = [t \in Tasks |-> Ticked(t)]
          /\ IF SliceYields
             THEN /\ lists' = Enqueue(Unlink(lists, run), run, prio[run])
                  /\ status' = [status EXCEPT ![run] = @ \cup {"ready"}]
             ELSE UNCHANGED <<lists, status>>
          /\ UNCHANGED <<prio, run, lock, pc, scheduled>>
      BY <1>1, <2>2, Zenon DEF TickBegin
    <3>1. status' = status /\ Matches(lists', status', prio')
      <4>1. CASE SliceYields
        <5>1. "pend" \notin status[run]
          BY <1>1, <4>1
        <5>2. "ready" \in status[run]
          BY <2>2, <3>r, <4>1, <5>1 DEF Linked, Lists, Matches, Fits
        <5>3. status' = status
          <6>1. status' = [status EXCEPT ![run] = status[run] \cup {"ready"}]
            BY <3>0, <4>1
          <6>2. status[run] \cup {"ready"} = status[run]
            BY <5>2
          <6> QED BY <6>1, <6>2, <1>t
        <5>4. Matches(Enqueue(Unlink(lists, run), run, prio[run]), status,
                      [prio EXCEPT ![run] = prio[run]])
          BY <3>r, <5>1, <5>2, <1>t, MoveInQueue
        <5>5. [prio EXCEPT ![run] = prio[run]] = prio
          BY <1>t
        <5> QED BY <3>0, <4>1, <5>3, <5>4, <5>5
      <4>2. CASE ~SliceYields
        BY <3>0, <4>2
      <4> QED BY <4>1, <4>2
    <3>2. States'
      BY <3>0, <3>1 DEF States, OneState, NoTaskLost
    <3>3. Timers'
      <4>1. /\ isr'.active = TRUE
            /\ isr'.due = {t \in Tasks : timer[t] = 1}
            /\ \A t \in Tasks : timer'[t] = Ticked(t)
        BY <3>0
      <4>2. isr.due = {}
        BY <3>r DEF Timers, DueInv
      <4>3. \A t \in Tasks :
              /\ timer[t] = 1 => Ticked(t) = 0
              /\ timer[t] > 0 <=> Ticked(t) > 0 \/ timer[t] = 1
        BY <1>t, ParamAssumption DEF Ticked
      <4>4. DueInv'
        BY <4>1, <4>3 DEF DueInv
      <4>5. TimerMatchesFlags'
        BY <3>1, <4>1, <4>2, <4>3 DEF Timers, TimerMatchesFlags
      <4> QED BY <4>4, <4>5 DEF Timers
    <3>4. RunReady'
      BY <3>0, <3>1 DEF RunReady
    <3> QED BY <3>1, <3>2, <3>3, <3>4
  <2> QED BY <2>1, <2>2
<1>2. ASSUME NEW t \in Tasks, TickExpire(t)
      PROVE  Consistent'
  <2> DEFINE s == status[t] \ WaitFlag(t)
             f == s \cup (IF "suspend" \in status[t] THEN {} ELSE {"ready"})
  <2>0. /\ status' = [status EXCEPT ![t] = f]
        /\ lists' = IF "suspend" \in status[t] THEN GivenUp(t)
                    ELSE Enqueue(GivenUp(t), t, prio[t])
        /\ isr'.due = isr.due \ {t} /\ isr'.active = TRUE /\ isr.active = TRUE
        /\ t \in isr.due /\ timer[t] = 0
        /\ UNCHANGED <<prio, timer, run, lock, pc, slice, scheduled>>
    BY <1>2, <1>t DEF TickExpire, TypeInv, TypeOK, Timers, DueInv
  <2>1. /\ "delay" \in status[t] \/ {"pend", "timeout"} \subseteq status[t]
        /\ status[t] \cap {"ready", "unused"} = {}
        /\ ~({"pend", "delay"} \subseteq status[t])
    BY <2>0 DEF Timers, TimerMatchesFlags, States, OneState
  <2>2. /\ s \in SUBSET Flags /\ s \cap {"ready", "pend", "delay", "unused"} = {}
        /\ "suspend" \in s <=> "suspend" \in status[t]
    BY <2>1, <1>t DEF WaitFlag
  <2> HIDE DEF s
  <2>3. /\ f \in SUBSET Flags /\ f \cap {"pend", "delay", "unused"} = {}
        /\ "ready" \in f <=> "suspend" \notin status[t]
        /\ "suspend" \in f <=> "suspend" \in status[t]
    BY <2>2 DEF Flags
  <2> HIDE DEF f
  <2>4. Matches(lists', status', prio')
    <3>1. Matches(GivenUp(t), [status EXCEPT ![t] = s], prio)
      <4>1. CASE "pend" \in status[t]
        BY <2>2, <4>1, LeaveList DEF GivenUp
      <4>2. CASE "pend" \notin status[t]
        <5>1. s \cap {"ready", "pend"} = status[t] \cap {"ready", "pend"}
          BY <2>1, <2>2, <4>2
        <5> QED BY <2>2, <4>2, <5>1, ChangeFlags DEF GivenUp
      <4> QED BY <4>1, <4>2
    <3>2. CASE "suspend" \in status[t]
      <4>1. f = s
        BY <3>2 DEF f
      <4> QED BY <2>0, <3>1, <3>2, <4>1
    <3>3. CASE "suspend" \notin status[t]
      <4> DEFINE st1 == [status EXCEPT ![t] = s]
      <4>1. st1[t] \cap {"ready", "pend"} = {}
        BY <2>2, <1>t
      <4>2. Matches(GivenUp(t), st1, prio)
        BY <3>1
      <4>3. [st1 EXCEPT ![t] = f] = [status EXCEPT ![t] = f]
            /\ [prio EXCEPT ![t] = prio[t]] = prio
        BY <1>t
      <4> HIDE DEF st1
      <4>4. Matches(Enqueue(GivenUp(t), t, prio[t]), [st1 EXCEPT ![t] = f],
                    [prio EXCEPT ![t] = prio[t]])
        BY <2>3, <3>3, <4>1, <4>2, <1>t, EnterQueue
      <4> QED BY <2>0, <3>3, <4>3, <4>4
    <3> QED BY <3>2, <3>3
  <2>5. States'
    BY <2>0, <2>3, <1>t DEF States, OneState, NoTaskLost
  <2>6. Timers'
    BY <2>0, <2>3, <1>t DEF Timers, TimerMatchesFlags, DueInv
  <2>7. RunReady'
    <3>1. "ready" \notin status[t]
      BY <2>1
    <3> QED BY <2>0, <3>1, <1>t DEF RunReady
  <2> QED BY <2>4, <2>5, <2>6, <2>7
<1>3. CASE TickEnd
  <2>0. /\ isr.due = {} /\ isr'.due = {} /\ isr'.active = FALSE
        /\ IF isr.sched /\ MaySwitch THEN SwitchTo(lists) ELSE UNCHANGED run
        /\ UNCHANGED <<status, prio, lists, timer, lock, pc, slice, scheduled>>
    BY <1>3 DEF TickEnd
  <2>2. States'
    BY <2>0 DEF States, OneState, NoTaskLost
  <2>3. Timers'
    BY <2>0 DEF Timers, TimerMatchesFlags, DueInv
  <2>4. RunReady'
    <3>1. CASE isr.sched /\ MaySwitch
      <4>1. run' \in Tasks /\ "ready" \in status[run']
        BY <2>0, <3>1, SwitchFindsReady
      <4> QED BY <2>0, <4>1 DEF RunReady
    <3>2. CASE ~(isr.sched /\ MaySwitch)
      BY <2>0, <3>2 DEF RunReady
    <3> QED BY <3>1, <3>2
  <2> QED BY <2>0, <2>2, <2>3, <2>4
<1> QED BY <1>1, <1>2, <1>3 DEF Tick

-----------------------------------------------------------------------------
(***************************************************************************)
(* The theorems.  Without an IPC object no task of LosTask ever pends.     *)
(***************************************************************************)
NeverPends ==
  \A t \in Tasks : "pend" \notin status[t] /\ "timeout" \notin status[t]

LEMMA NextNeverPends ==
  TypeInv /\ NeverPends /\ [TaskNext]_taskVars => NeverPends'
<1> SUFFICES ASSUME TypeInv, NeverPends, [TaskNext]_taskVars
             PROVE  NeverPends'
  OBVIOUS
<1>t. status \in [Tasks -> SUBSET Flags] /\ (scheduled => run \in Tasks)
  BY DEF TypeInv, TypeOK
<1> USE DEF NeverPends
<1>1. CASE Boot
  BY <1>1, <1>t DEF Boot, BootCreate, Start, NewTask, Detached
<1>2. ASSUME NEW t \in Tasks, TaskCall(t)
      PROVE  NeverPends'
  <2>1. ASSUME NEW n \in Tasks,
               \/ LOS_TaskResume(t, n) \/ LOS_TaskSuspend(t, n)
               \/ LOS_TaskDelete(t, n)
        PROVE  NeverPends'
    BY <2>1, <1>t DEF LOS_TaskResume, LOS_TaskSuspend, LOS_TaskDelete, Discard, Fault
  <2>2. ASSUME NEW n \in Tasks, NEW p \in Priorities, NEW d \in Detached,
               LOS_TaskCreate(t, n, p, d) \/ LOS_TaskCreateOnly(t, n, p, d)
        PROVE  NeverPends'
    <3>1. "pend" \notin d /\ "timeout" \notin d
      BY DEF Detached
    <3>2. \E r \in BOOLEAN : NewTask(n, p, d, r)
      BY <2>2 DEF LOS_TaskCreate, LOS_TaskCreateOnly
    <3>3. PICK r \in BOOLEAN : NewTask(n, p, d, r)
      BY <3>2
    <3>4. status' = [status EXCEPT ![n] =
                       (IF r THEN {"ready"} ELSE {"suspend"}) \cup d]
      BY <3>3 DEF NewTask
    <3> QED BY <3>1, <3>4, <1>t
  <2>3. CASE \/ \E n \in Tasks, p \in Priorities : LOS_TaskPriSet(t, n, p)
             \/ \E k \in Timeouts : LOS_TaskDelay(t, k)
             \/ LOS_TaskYield(t) \/ LOS_TaskLock(t) \/ LOS_TaskUnlock(t)
             \/ DetachedReturn(t) \/ JoinableReturn(t)
    BY <2>3, <1>t DEF LOS_TaskPriSet, LOS_TaskDelay, LOS_TaskYield, LOS_TaskLock,
      LOS_TaskUnlock, DetachedReturn, Discard, JoinableReturn
  <2> QED BY <1>2, <2>1, <2>2, <2>3 DEF TaskCall
<1>3. ASSUME NEW t \in Tasks, TaskInternal(t)
      PROVE  NeverPends'
  BY <1>3, <1>t DEF TaskInternal, LOS_Schedule, JoinableLeave, JoinableUnlock,
    RunOffEnd, Fault
<1>4. CASE Tick
  <2>1. CASE TickBegin
    <3>1. CASE UNCHANGED status
      BY <3>1
    <3>2. CASE status' = [status EXCEPT ![run] = @ \cup {"ready"}]
      BY <2>1, <3>2, <1>t DEF TickBegin
    <3> QED BY <2>1, <3>1, <3>2 DEF TickBegin, Fault
  <2>2. ASSUME NEW t \in Tasks, TickExpire(t)
        PROVE  NeverPends'
    <3>1. status' = [status EXCEPT ![t] =
            (@ \ WaitFlag(t)) \cup (IF "suspend" \in status[t] THEN {} ELSE {"ready"})]
      BY <2>2 DEF TickExpire
    <3> QED BY <3>1, <1>t
  <2>3. CASE TickEnd
    BY <2>3 DEF TickEnd
  <2> QED BY <1>4, <2>1, <2>2, <2>3 DEF Tick
<1>5. CASE UNCHANGED taskVars
  BY <1>5 DEF taskVars
<1> QED BY <1>1, <1>2, <1>3, <1>4, <1>5 DEF TaskNext

\* Without a time slice it makes no difference who waits.
LEMMA NextConsistent ==
  Consistent /\ (NeverPends \/ TimesliceTimeout = 0) /\ [TaskNext]_taskVars
    => Consistent'
<1> SUFFICES ASSUME Consistent, NeverPends \/ TimesliceTimeout = 0,
                    [TaskNext]_taskVars
             PROVE  Consistent'
  OBVIOUS
<1>0. TypeInv'
  BY NextType DEF Consistent
<1>1. CASE Boot
  <2>1. ASSUME NEW n \in Tasks, NEW p \in Priorities, NEW d \in Detached,
               BootCreate(n, p, d)
        PROVE  Consistent'
    <3>1. NewTask(n, p, d, TRUE)
      BY <2>1 DEF BootCreate
    <3> QED BY <1>0, <2>1, <3>1, NewTaskConsistent DEF BootCreate
  <2>2. CASE Start
    <3>1. /\ run' \in Tasks /\ "ready" \in status[run'] /\ scheduled' = TRUE
          /\ UNCHANGED <<status, prio, lists, timer, lock, pc, isr>>
      BY <2>2, SwitchFindsReady DEF Start, Consistent
    <3>2. States' /\ Timers' /\ RunReady' /\ Matches(lists', status', prio')
      BY <3>1 DEF Consistent, States, OneState, NoTaskLost, Timers,
                  TimerMatchesFlags, DueInv, RunReady
    <3> QED BY <1>0, <3>2 DEF Consistent
  <2> QED BY <1>1, <2>1, <2>2 DEF Boot
<1>2. ASSUME NEW t \in Tasks, TaskCall(t) \/ TaskInternal(t)
      PROVE  Consistent'
  BY <1>0, <1>2, CallConsistent, InternalConsistent
<1>3. CASE Tick
  <2>1. TickBegin => run \in Tasks
    BY DEF TickBegin, Consistent, TypeInv, TypeOK
  <2>2. TimesliceTimeout = 0 => ~SliceYields
    BY DEF SliceYields, SliceOver
  <2> QED BY <1>0, <1>3, <2>1, <2>2, TickConsistent DEF NeverPends
<1>4. CASE UNCHANGED taskVars
  BY <1>0, <1>4 DEF taskVars, Consistent, States, OneState, NoTaskLost, Timers,
                    TimerMatchesFlags, DueInv, RunReady
<1> QED BY <1>1, <1>2, <1>3, <1>4 DEF TaskNext

LEMMA AlwaysConsistent == TaskSpec => [](Consistent /\ NeverPends)
<1>1. Init => NeverPends
  BY DEF Init, NeverPends
<1>2. Consistent /\ NeverPends /\ [TaskNext]_taskVars => NeverPends'
  BY NextNeverPends DEF Consistent
<1> QED BY InitConsistent, NextConsistent, <1>1, <1>2, PTL DEF TaskSpec

\* Every variable of the scheduler stays in its type.
THEOREM TypeCorrect == TaskSpec => []TypeOK
<1>1. Consistent => TypeOK
  BY DEF Consistent, TypeInv
<1> QED BY AlwaysConsistent, <1>1, PTL

\* A node is in one list at most, the one that the task's flags and priority
\* name: what every LOS_PriqueueDequeue and LOS_ListDelete of the kernel
\* relies on, whatever the tick and the time slice do in between.
THEOREM NodesFollowFlags == TaskSpec => [](OneList /\ FlagsMatchLists)
<1>1. Consistent => OneList /\ FlagsMatchLists
  BY MatchesIsInvariants DEF Consistent, TypeInv
<1> QED BY AlwaysConsistent, <1>1, PTL

\* Exactly the tasks that wait for time have a timer.
THEOREM TimersFollowFlags == TaskSpec => []TimerMatchesFlags
<1>1. Consistent => TimerMatchesFlags
  BY DEF Consistent, Timers
<1> QED BY AlwaysConsistent, <1>1, PTL

\* The flags of a task never contradict each other, and none is left with
\* nothing that could wake it.
THEOREM NobodyLost == TaskSpec => [](OneState /\ NoTaskLost)
<1>1. Consistent => OneState /\ NoTaskLost
  BY DEF Consistent, States
<1> QED BY AlwaysConsistent, <1>1, PTL

LEMMA StepPinsRunning ==
  ASSUME Consistent, [TaskNext]_taskVars, lock > 0, lock' > 0
  PROVE  run' = run
<1>0. scheduled /\ lock \in Nat
  BY DEF Consistent, RunReady, TypeInv, TypeOK
<1>1. ASSUME NEW t \in Tasks, TaskCall(t)
      PROVE  run' = run
  <2>1. ASSUME NEW n \in Tasks, LOS_TaskResume(t, n) \/ LOS_TaskSuspend(t, n)
        PROVE  run' = run
    BY <2>1 DEF LOS_TaskResume, LOS_TaskSuspend
  <2>2. ASSUME NEW n \in Tasks, LOS_TaskDelete(t, n)
        PROVE  run' = run
    <3>1. n # run
      BY <2>2, <1>0 DEF LOS_TaskDelete
    <3> QED BY <2>2, <3>1 DEF LOS_TaskDelete, Discard, Fault
  <2>3. ASSUME NEW n \in Tasks, NEW p \in Priorities, NEW d \in Detached,
               LOS_TaskCreate(t, n, p, d) \/ LOS_TaskCreateOnly(t, n, p, d)
        PROVE  run' = run
    BY <2>3 DEF LOS_TaskCreate, LOS_TaskCreateOnly
  <2>4. CASE \/ \E n \in Tasks, p \in Priorities : LOS_TaskPriSet(t, n, p)
             \/ \E k \in Timeouts : LOS_TaskDelay(t, k)
             \/ LOS_TaskYield(t) \/ LOS_TaskLock(t) \/ LOS_TaskUnlock(t)
    BY <2>4 DEF LOS_TaskPriSet, LOS_TaskDelay, LOS_TaskYield, LOS_TaskLock,
                LOS_TaskUnlock
  <2>5. CASE DetachedReturn(t) \/ JoinableReturn(t)
    BY <2>5 DEF DetachedReturn, JoinableReturn
  <2> QED BY <1>1, <2>1, <2>2, <2>3, <2>4, <2>5 DEF TaskCall
<1>2. ASSUME NEW t \in Tasks, TaskInternal(t)
      PROVE  run' = run
  BY <1>2 DEF TaskInternal, LOS_Schedule, MaySwitch, JoinableLeave,
    JoinableUnlock, RunOffEnd, Fault
<1>3. CASE Tick
  <2>1. CASE TickBegin
    BY <2>1 DEF TickBegin, Fault
  <2>2. ASSUME NEW t \in Tasks, TickExpire(t)
        PROVE  run' = run
    BY <2>2 DEF TickExpire
  <2>3. CASE TickEnd
    BY <2>3, <1>0 DEF TickEnd, MaySwitch
  <2> QED BY <1>3, <2>1, <2>2, <2>3 DEF Tick
<1>4. CASE Boot
  BY <1>0, <1>4 DEF Boot, BootCreate, Start
<1>5. CASE UNCHANGED taskVars
  BY <1>5 DEF taskVars
<1> QED BY <1>1, <1>2, <1>3, <1>4, <1>5 DEF TaskNext

\* LOS_TaskLock keeps the CPU for the task that called it.
THEOREM LockHolds == TaskSpec => LockPinsRunning
<1>1. Consistent /\ [TaskNext]_taskVars
        => [lock > 0 /\ lock' > 0 => run' = run]_taskVars
  BY StepPinsRunning
<1> QED BY AlwaysConsistent, <1>1, PTL DEF TaskSpec, LockPinsRunning

-----------------------------------------------------------------------------
(***************************************************************************)
(* Who runs.                                                               *)
(***************************************************************************)

\* Taking another task out of the lists leaves the top of the queue.
LEMMA WithoutHead ==
  ASSUME NEW S, NEW s \in Seq(S), NEW n, s # <<>>, Head(s) # n
  PROVE  Without(s, n) # <<>> /\ Head(Without(s, n)) = Head(s)
<1>0. /\ DOMAIN s = 1 .. Len(s) /\ Len(s) \in Nat \ {0} /\ Head(s) = s[1]
      /\ Range(s) = {s[k] : k \in 1 .. Len(s)}
  BY LenProperties, RangeEquality
<1>1. CASE n \in Range(s)
  <2>1. PICK i \in 1 .. Len(s) : s[i] = n /\ Without(s, n) = RemoveAt(s, i)
    <3>1. \E j \in DOMAIN s : s[j] = n
      BY <1>0, <1>1
    <3> QED BY <1>0, <1>1, <3>1, Zenon DEF Without
  <2>2. i # 1
    BY <1>0, <2>1
  <2> DEFINE w == RemoveAt(s, i)
  <2>3. /\ w \in Seq(S)
        /\ Len(w) = Len(s) - 1
        /\ \A k \in 1 .. Len(s) - 1 : w[k] = IF k < i THEN s[k] ELSE s[k + 1]
    BY RemoveAtElements
  <2> HIDE DEF w
  <2>4. Len(w) # 0 /\ w[1] = s[1]
    BY <1>0, <2>1, <2>2, <2>3
  <2>5. w # <<>> /\ Head(w) = w[1]
    BY <2>3, <2>4
  <2> QED BY <1>0, <2>1, <2>4, <2>5 DEF w
<1>2. CASE n \notin Range(s)
  BY <1>2 DEF Without
<1> QED BY <1>1, <1>2

LEMMA UnlinkTop ==
  ASSUME NEW q \in [Lists -> Seq(Tasks)], NEW t \in Tasks, NEW n \in Tasks,
         IsTop(q, t), n # t
  PROVE  IsTop(Unlink(q, n), t)
<1>1. PICK p \in Priorities :
        q[p] # <<>> /\ t = Head(q[p]) /\ \A r \in Priorities : r < p => q[r] = <<>>
  BY DEF IsTop
<1>2. \A l \in Lists : q[l] \in Seq(Tasks) /\ Unlink(q, n)[l] = Without(q[l], n)
  BY DEF Unlink
<1>3. Without(q[p], n) # <<>> /\ Head(Without(q[p], n)) = t
  BY <1>1, <1>2, WithoutHead, ListsAreLists
<1>4. Without(<<>>, n) = <<>>
  BY DEF Without, Range
<1> QED BY <1>1, <1>2, <1>3, <1>4, ListsAreLists DEF IsTop

\* While the scheduler is not locked, and until the interrupt under way has
\* made a task ready, the task that executes its own code is the top.
RunTop ==
  /\ isr.sched => isr.active
  /\ scheduled /\ lock = 0 /\ ~isr.sched /\ pc[run] \in {"app", "tail"}
       => IsTop(lists, run)

LEMMA SwitchTop ==
  SwitchTo(lists') => IsTop(lists', run')
BY DEF SwitchTo

LEMMA CallTop ==
  ASSUME Consistent, RunTop, NEW t \in Tasks, TaskCall(t)
  PROVE  RunTop'
<1>t. /\ lists \in [Lists -> Seq(Tasks)] /\ pc \in [Tasks -> Pcs] /\ lock \in Nat
      /\ status \in [Tasks -> SUBSET Flags]
  BY DEF Consistent, TypeInv, TypeOK
<1>c. ASSUME NEW call, CanCall(t, call)
      PROVE  scheduled /\ ~isr.active /\ ~isr.sched /\ run = t /\ pc[t] = "app"
  BY <1>c DEF CanCall, Running, RunTop
<1>k. ASSUME UNCHANGED <<run, scheduled, isr, lock, lists>>, pc' = pc
      PROVE  RunTop'
  BY <1>k DEF RunTop
<1>s. ASSUME pc'[run] \in {"sched", "leave"}, UNCHANGED <<run, isr>>
      PROVE  RunTop'
  BY <1>s DEF RunTop
<1>u. ASSUME NEW n \in Tasks, n # run, lists' = Unlink(lists, n) \/ lists' = lists,
             UNCHANGED <<run, scheduled, isr, lock>>, pc'[run] = pc[run],
             run \in Tasks
      PROVE  RunTop'
  BY <1>u, <1>t, UnlinkTop DEF RunTop
<1>d. ASSUME NEW n \in Tasks, Discard(n), run \in Tasks, n # run => lock' = lock,
             UNCHANGED <<isr, scheduled>>
      PROVE  RunTop'
  <2>1. CASE n = run
    <3>1. IsTop(lists', run')
      BY <1>d, <2>1, SwitchTop DEF Discard
    <3> QED BY <1>d, <3>1 DEF RunTop
  <2>2. CASE n # run
    <3>1. /\ pc'[run] = pc[run] /\ run' = run
          /\ lists' = Unlink(lists, n) \/ lists' = lists
      BY <1>d, <2>2, <1>t DEF Discard
    <3> QED BY <1>d, <2>2, <3>1, <1>u
  <2> QED BY <2>1, <2>2
<1>1. ASSUME NEW n \in Tasks, NEW p \in Priorities, NEW d \in Detached,
             LOS_TaskCreate(t, n, p, d)
      PROVE  RunTop'
  <2>1. pc'[run] = "sched" /\ UNCHANGED <<run, isr>>
    BY <1>1, <1>c, <1>t DEF LOS_TaskCreate
  <2> QED BY <2>1, <1>s
<1>2. ASSUME NEW n \in Tasks, NEW p \in Priorities, NEW d \in Detached,
             LOS_TaskCreateOnly(t, n, p, d)
      PROVE  RunTop'
  <2>1. /\ scheduled /\ run = t /\ pc[t] = "app" /\ ~isr.sched
        /\ pc' = [pc EXCEPT ![n] = "app"] /\ lists' = lists
        /\ UNCHANGED <<run, isr, lock, scheduled>>
    BY <1>2, <1>c DEF LOS_TaskCreateOnly, NewTask
  <2> QED BY <2>1, <1>t DEF RunTop
<1>3. ASSUME NEW n \in Tasks, LOS_TaskResume(t, n)
      PROVE  RunTop'
  <2>1. CASE Blocked(n)
    BY <1>3, <2>1, <1>k DEF LOS_TaskResume, Scheduling
  <2>2. CASE ~Blocked(n)
    <3>1. pc'[run] = "sched" /\ UNCHANGED <<run, isr>>
      BY <1>3, <2>2, <1>c, <1>t DEF LOS_TaskResume, Scheduling
    <3> QED BY <3>1, <1>s
  <2> QED BY <2>1, <2>2
<1>4. ASSUME NEW n \in Tasks, LOS_TaskSuspend(t, n)
      PROVE  RunTop'
  <2>1. CASE n = run
    <3>1. pc'[run] = "sched" /\ UNCHANGED <<run, isr>>
      BY <1>4, <2>1, <1>c, <1>t DEF LOS_TaskSuspend, Scheduling
    <3> QED BY <3>1, <1>s
  <2>2. CASE n # run
    <3>1. /\ run = t /\ pc' = pc /\ UNCHANGED <<run, scheduled, isr, lock>>
          /\ lists' = Unlink(lists, n) \/ lists' = lists
      BY <1>4, <2>2, <1>c DEF LOS_TaskSuspend, Scheduling
    <3> QED BY <2>2, <3>1, <1>u
  <2> QED BY <2>1, <2>2
<1>5. ASSUME NEW n \in Tasks, LOS_TaskDelete(t, n)
      PROVE  RunTop'
  <2>1. run = t
    BY <1>5, <1>c DEF LOS_TaskDelete
  <2>2. CASE Discard(n) /\ UNCHANGED <<prio, lock, isr, slice, scheduled, fault>>
    BY <2>1, <2>2, <1>d
  <2>3. CASE Fault("unlink")
    BY <2>3, <1>k DEF Fault
  <2> QED BY <1>5, <2>2, <2>3 DEF LOS_TaskDelete
<1>6. ASSUME NEW n \in Tasks, NEW p \in Priorities, LOS_TaskPriSet(t, n, p)
      PROVE  RunTop'
  <2>1. CASE "ready" \in status[n]
    <3>1. pc'[run] = "sched" /\ UNCHANGED <<run, isr>>
      BY <1>6, <2>1, <1>c, <1>t DEF LOS_TaskPriSet, Scheduling
    <3> QED BY <3>1, <1>s
  <2>2. CASE "ready" \notin status[n]
    BY <1>6, <2>2, <1>k DEF LOS_TaskPriSet, Scheduling, Requeue
  <2> QED BY <2>1, <2>2
<1>7. CASE (\E k \in Timeouts : LOS_TaskDelay(t, k)) \/ LOS_TaskYield(t) \/ JoinableReturn(t)
  <2>1. pc'[run] \in {"sched", "leave"} /\ UNCHANGED <<run, isr>>
    BY <1>7, <1>c, <1>t DEF LOS_TaskDelay, LOS_TaskYield, JoinableReturn
  <2> QED BY <2>1, <1>s
<1>8. CASE LOS_TaskLock(t)
  <2>1. lock' # 0
    BY <1>8, <1>t DEF LOS_TaskLock
  <2> QED BY <1>8, <2>1 DEF RunTop, LOS_TaskLock
<1>9. CASE LOS_TaskUnlock(t)
  <2>1. CASE lock = 1
    <3>1. pc'[run] = "sched" /\ UNCHANGED <<run, isr>>
      BY <1>9, <2>1, <1>c, <1>t DEF LOS_TaskUnlock, Scheduling
    <3> QED BY <3>1, <1>s
  <2>2. CASE lock # 1
    <3>1. lock' # 0
      BY <1>9, <2>2, <1>t DEF LOS_TaskUnlock
    <3> QED BY <1>9, <3>1 DEF RunTop, LOS_TaskUnlock
  <2> QED BY <2>1, <2>2
<1>10. CASE DetachedReturn(t)
  <2>1. run = t
    BY <1>10, <1>c DEF DetachedReturn
  <2> QED BY <1>10, <2>1, <1>d DEF DetachedReturn
<1> QED BY <1>1, <1>2, <1>3, <1>4, <1>5, <1>6, <1>7, <1>8, <1>9, <1>10 DEF TaskCall

LEMMA StepTop ==
  Consistent /\ RunTop /\ [TaskNext]_taskVars => RunTop'
<1> SUFFICES ASSUME Consistent, RunTop, [TaskNext]_taskVars
             PROVE  RunTop'
  OBVIOUS
<1>t. /\ lists \in [Lists -> Seq(Tasks)] /\ pc \in [Tasks -> Pcs] /\ lock \in Nat
      /\ status \in [Tasks -> SUBSET Flags]
      /\ isr \in [active : BOOLEAN, due : SUBSET Tasks, sched : BOOLEAN]
      /\ scheduled => run \in Tasks
  BY DEF Consistent, TypeInv, TypeOK
<1>f. ASSUME UNCHANGED <<run, scheduled, isr, lock, lists, pc>>
      PROVE  RunTop'
  BY <1>f DEF RunTop
<1>1. CASE Boot
  <2>1. ASSUME NEW n \in Tasks, NEW p \in Priorities, NEW d \in Detached,
               BootCreate(n, p, d)
        PROVE  RunTop'
    BY <2>1 DEF BootCreate, RunTop
  <2>2. CASE Start
    <3>1. IsTop(lists', run')
      BY <2>2, SwitchTop DEF Start
    <3> QED BY <2>2, <3>1 DEF Start, RunTop
  <2> QED BY <1>1, <2>1, <2>2 DEF Boot
<1>2. ASSUME NEW t \in Tasks, TaskInternal(t)
      PROVE  RunTop'
  <2>1. CASE LOS_Schedule(t)
    <3>1. CASE lock = 0
      <4>1. IsTop(lists', run')
        BY <2>1, <3>1, SwitchTop DEF LOS_Schedule, MaySwitch
      <4> QED BY <2>1, <4>1 DEF LOS_Schedule, RunTop
    <3>2. CASE lock # 0
      BY <2>1, <3>2 DEF LOS_Schedule, RunTop
    <3> QED BY <3>1, <3>2
  <2>2. CASE JoinableLeave(t) \/ JoinableUnlock(t)
    <3>1. pc'[run] \in {"unlock", "exit"} /\ UNCHANGED <<run, isr>>
      BY <2>2, <1>t DEF JoinableLeave, JoinableUnlock, Running
    <3> QED BY <3>1 DEF RunTop
  <2>3. CASE RunOffEnd(t)
    BY <2>3, <1>f DEF RunOffEnd, Fault
  <2> QED BY <1>2, <2>1, <2>2, <2>3 DEF TaskInternal
<1>3. CASE TickBegin
  <2>1. CASE SliceYields /\ ~Linked(run)
    BY <1>3, <2>1, <1>f DEF TickBegin, Fault
  <2>2. CASE SliceYields /\ Linked(run)
    <3>1. isr'.sched /\ isr'.active
      BY <1>3, <2>2 DEF TickBegin
    <3> QED BY <3>1 DEF RunTop
  <2>3. CASE ~SliceYields
    <3>1. /\ ~isr.active /\ isr'.active /\ UNCHANGED <<run, scheduled, lock, lists, pc>>
      BY <1>3, <2>3 DEF TickBegin
    <3> QED BY <3>1 DEF RunTop
  <2> QED BY <2>1, <2>2, <2>3
<1>4. ASSUME NEW t \in Tasks, TickExpire(t)
      PROVE  RunTop'
  <2>1. /\ isr'.sched = (isr.sched \/ "suspend" \notin status[t]) /\ isr'.active = isr.active
        /\ isr.active /\ UNCHANGED <<run, scheduled, lock, pc>>
    BY <1>4, <1>t DEF TickExpire
  <2>2. CASE "suspend" \notin status[t]
    <3>1. isr'.sched = TRUE
      BY <2>1, <2>2
    <3> QED BY <2>1, <3>1 DEF RunTop
  <2>3. CASE "suspend" \in status[t]
    <3>1. lists' = GivenUp(t)
      BY <1>4, <2>3 DEF TickExpire
    <3>2. CASE scheduled /\ pc[run] \in {"app", "tail"}
      <4>1. "ready" \in status[run]
        BY <3>2 DEF Consistent, RunReady
      <4>2. run # t
        BY <4>1, <2>3, <1>t DEF Consistent, States, OneState
      <4>3. IsTop(lists, run) => IsTop(lists', run)
        BY <3>1, <3>2, <4>2, <1>t, UnlinkTop DEF GivenUp
      <4> QED BY <2>1, <2>3, <4>3 DEF RunTop
    <3>3. CASE ~(scheduled /\ pc[run] \in {"app", "tail"})
      BY <2>1, <3>3 DEF RunTop
    <3> QED BY <3>2, <3>3
  <2> QED BY <2>2, <2>3
<1>5. CASE TickEnd
  <2>1. ~isr'.sched /\ UNCHANGED <<lists, scheduled, lock, pc>>
    BY <1>5 DEF TickEnd
  <2>2. CASE lock = 0
    <3>1. CASE isr.sched
      <4>1. IsTop(lists', run')
        BY <1>5, <2>2, <3>1, SwitchTop DEF TickEnd, MaySwitch
      <4> QED BY <2>1, <4>1 DEF RunTop
    <3>2. CASE ~isr.sched
      BY <1>5, <2>1, <3>2 DEF TickEnd, RunTop
    <3> QED BY <3>1, <3>2
  <2>3. CASE lock # 0
    BY <2>1, <2>3 DEF RunTop
  <2> QED BY <2>2, <2>3
<1>6. CASE UNCHANGED taskVars
  BY <1>6, <1>f DEF taskVars
<1> QED BY <1>1, <1>2, <1>3, <1>4, <1>5, <1>6, CallTop DEF TaskNext, Tick

\* The scheduler keeps its promise: whoever executes application code is
\* ready, and unless LOS_TaskLock keeps the others away it is the first task
\* of the highest queue, whatever the calls and the tick did before.
THEOREM HighestRuns == TaskSpec => []RunIsTop
<1>1. Init => RunTop
  BY DEF Init, RunTop
<1>2. Consistent /\ RunTop => RunIsTop
  BY DEF Consistent, RunReady, RunTop, RunIsTop
<1> QED BY AlwaysConsistent, StepTop, <1>1, <1>2, PTL DEF TaskSpec

-----------------------------------------------------------------------------
(***************************************************************************)
(* The timers of the scheduler and the timer wheel meet in TimerSpec.      *)
(***************************************************************************)
Delays == INSTANCE TimerSpec WITH left <- timer

\* A step leaves the timers alone, or sets, cancels or counts them.
LEMMA StepDelays ==
  ASSUME Consistent, [TaskNext]_taskVars
  PROVE  [Delays!Next]_timer
<1> USE DEF Delays!Next
<1>t. timer \in [Tasks -> 0 .. MaxTimeout] /\ status \in [Tasks -> SUBSET Flags]
  BY DEF Consistent, TypeInv, TypeOK
<1>1. ASSUME NEW t \in Tasks, TaskCall(t)
      PROVE  [Delays!Next]_timer
  <2>1. CASE \E n \in Tasks :
               \/ LOS_TaskResume(t, n) \/ LOS_TaskSuspend(t, n)
               \/ \E p \in Priorities, d \in Detached :
                    LOS_TaskCreate(t, n, p, d) \/ LOS_TaskCreateOnly(t, n, p, d)
    BY <2>1 DEF LOS_TaskResume, LOS_TaskSuspend, LOS_TaskCreate,
      LOS_TaskCreateOnly, NewTask
  <2>2. ASSUME NEW n \in Tasks, LOS_TaskDelete(t, n)
        PROVE  [Delays!Next]_timer
    <3>1. timer' = timer \/ timer' = TimerOff(n)
      BY <2>2 DEF LOS_TaskDelete, Discard, Fault
    <3> QED BY <3>1 DEF TimerOff, Delays!Cancel
  <2>3. ASSUME NEW k \in Timeouts, LOS_TaskDelay(t, k)
        PROVE  [Delays!Next]_timer
    <3>1. scheduled /\ ~isr.active /\ t = run /\ pc[t] = "app"
      BY <2>3 DEF LOS_TaskDelay, CanCall, Running
    <3>2. "ready" \in status[t]
      BY <3>1 DEF Consistent, RunReady
    <3>3. "delay" \notin status[t] /\ "pend" \notin status[t]
      BY <3>2 DEF Consistent, States, OneState
    <3>4. timer[t] = 0
      BY <3>3, <1>t DEF Consistent, Timers, TimerMatchesFlags
    <3> QED BY <2>3, <3>4 DEF LOS_TaskDelay, Timeouts, Delays!Set
  <2>4. CASE \/ \E n \in Tasks, p \in Priorities : LOS_TaskPriSet(t, n, p)
             \/ LOS_TaskYield(t) \/ LOS_TaskLock(t) \/ LOS_TaskUnlock(t)
             \/ DetachedReturn(t) \/ JoinableReturn(t)
    <3>1. ASSUME DetachedReturn(t)
          PROVE  [Delays!Next]_timer
      <4>1. timer' = timer \/ timer' = TimerOff(t)
        BY <3>1 DEF DetachedReturn, Discard
      <4> QED BY <4>1 DEF TimerOff, Delays!Cancel
    <3> QED BY <2>4, <3>1 DEF LOS_TaskPriSet, LOS_TaskYield, LOS_TaskLock,
          LOS_TaskUnlock, JoinableReturn
  <2> QED BY <1>1, <2>1, <2>2, <2>3, <2>4 DEF TaskCall
<1>2. ASSUME NEW t \in Tasks, TaskInternal(t)
      PROVE  [Delays!Next]_timer
  BY <1>2 DEF TaskInternal, LOS_Schedule, JoinableLeave, JoinableUnlock,
    RunOffEnd, Fault
<1>3. CASE Tick
  <2>1. CASE TickBegin
    BY <2>1 DEF TickBegin, Fault, Ticked, Delays!Pass
  <2> QED BY <1>3, <2>1 DEF Tick, TickExpire, TickEnd
<1>4. CASE Boot
  BY <1>4 DEF Boot, BootCreate, Start, NewTask
<1>5. CASE UNCHANGED taskVars
  BY <1>5 DEF taskVars
<1> QED BY <1>1, <1>2, <1>3, <1>4, <1>5 DEF TaskNext

\* Whatever the tasks do to each other, a delay is counted as TimerSpec says,
\* which is what the timer wheel implements: a task is woken at the tick it
\* asked for.
THEOREM DelaysCounted == TaskSpec => Delays!Spec
<1>1. Init => Delays!Init
  BY DEF Init, Delays!Init
<1>2. Consistent /\ [TaskNext]_taskVars => [Delays!Next]_timer
  BY StepDelays
<1> QED BY AlwaysConsistent, <1>1, <1>2, PTL DEF TaskSpec, Delays!Spec
-----------------------------------------------------------------------------
(***************************************************************************)
(* Waits.  The modules of the IPC objects add the steps by which a task    *)
(* begins to wait, is served and returns; what they need of the scheduler  *)
(* is that its own steps begin no wait and end one only by giving it up.   *)
(***************************************************************************)

\* The task is inside a call that waits.
Inside(t) == pc[t] \in {"pend", "tail"}

\* Neither waiting nor timed out: a task inside a call was served.
WaitServed(t) == status[t] \cap {"pend", "timeout"} = {}

\* Exactly the free control blocks execute nothing.
FreeIsOut == \A t \in Tasks : "unused" \in status[t] <=> pc[t] = "none"

\* At most one task leaves the wait lists, or its call, in a step of the
\* scheduler.
ListsLeft ==
  \E n \in Tasks :
    /\ \/ \A w \in WaitObjects : lists'[w] = lists[w]
       \/ \A w \in WaitObjects : lists'[w] = Without(lists[w], n)
    /\ \A t \in Tasks \ {n} : Inside(t) => pc'[t] # "none"

\* A task stays inside its call or outside, unless it is deleted, and inside
\* it neither comes to be served nor ceases to be.
CallsLeft ==
  \A t \in Tasks :
    /\ pc[t] = "none" => pc'[t] \in {"none", "app"}
    /\ pc[t] # "none" /\ pc'[t] # "none" => (pc'[t] \in {"pend", "tail"} <=> Inside(t))
    /\ Inside(t) /\ pc'[t] = "none" => "delete" \in Calls
    /\ Inside(t) /\ pc'[t] # "none" =>
         /\ "timeout" \in status'[t] <=> "timeout" \in status[t]
         /\ status'[t] \cap {"pend", "timeout"} = {} <=> WaitServed(t)

\* A step that moves no node of a wait list.
LEMMA QueuesOnly ==
  ASSUME NEW q \in [Lists -> Seq(Tasks)], NEW t \in Tasks, NEW p \in Priorities
  PROVE  \A w \in WaitObjects : Enqueue(q, t, p)[w] = q[w]
BY ParamAssumption DEF Enqueue, Lists

LEMMA UnlinkOne ==
  ASSUME NEW n \in Tasks
  PROVE  \A w \in WaitObjects : Unlink(lists, n)[w] = Without(lists[w], n)
BY DEF Unlink, Lists

\* So does unlinking a task that is in none.
LEMMA UnlinkReady ==
  ASSUME Matches(lists, status, prio), NEW n \in Tasks, "pend" \notin status[n]
  PROVE  \A w \in WaitObjects : Unlink(lists, n)[w] = lists[w]
<1>1. \A w \in WaitObjects : n \notin Range(lists[w])
  BY DEF Matches, Fits
<1> QED BY <1>1, UnlinkOne DEF Without

LEMMA DiscardLeaves ==
  ASSUME Consistent, NEW n \in Tasks, Discard(n),
         Inside(n) => "delete" \in Calls
  PROVE  ListsLeft /\ CallsLeft /\ (FreeIsOut => FreeIsOut')
<1>t. /\ status \in [Tasks -> SUBSET Flags] /\ pc \in [Tasks -> Pcs]
      /\ lists \in [Lists -> Seq(Tasks)]
  BY DEF Consistent, TypeInv, TypeOK
<1>0. /\ status' = [status EXCEPT ![n] = {"unused"}]
      /\ pc' = [pc EXCEPT ![n] = "none"]
  BY DEF Discard
<1>1. ListsLeft
  <2>1. \A t \in Tasks \ {n} : Inside(t) => pc'[t] # "none"
    BY <1>0, <1>t DEF Inside
  <2> QED BY <2>1, UnlinkOne DEF Discard, ListsLeft
<1>2. CallsLeft
  <2>1. ASSUME NEW t \in Tasks, t # n
        PROVE  pc'[t] = pc[t] /\ status'[t] = status[t]
    BY <1>0, <1>t, <2>1
  <2>2. pc'[n] = "none"
    BY <1>0, <1>t
  <2> QED BY <2>1, <2>2 DEF CallsLeft, Inside, WaitServed
<1>3. FreeIsOut => FreeIsOut'
  BY <1>0, <1>t DEF FreeIsOut
<1> QED BY <1>1, <1>2, <1>3

LEMMA NewTaskLeaves ==
  ASSUME Consistent, FreeIsOut, NEW n \in Tasks, NEW p \in Priorities,
         NEW d \in Detached, NEW ready \in BOOLEAN, NewTask(n, p, d, ready),
         \/ pc' = [pc EXCEPT ![n] = "app"]
         \/ /\ pc[run] = "app"
            /\ pc' = [pc EXCEPT ![n] = "app", ![run] = "sched"]
  PROVE  ListsLeft /\ CallsLeft /\ FreeIsOut'
<1>t. /\ status \in [Tasks -> SUBSET Flags] /\ pc \in [Tasks -> Pcs]
      /\ lists \in [Lists -> Seq(Tasks)]
  BY DEF Consistent, TypeInv, TypeOK
<1>0. pc[n] = "none"
  BY DEF NewTask, FreeIsOut
<1>s. /\ "unused" \notin status'[n]
      /\ \A t \in Tasks \ {n} : status'[t] = status[t]
  BY <1>t DEF NewTask, Detached
<1>p. /\ pc'[n] = "app"
      /\ \A t \in Tasks \ {n} :
           pc'[t] = pc[t] \/ (pc[t] = "app" /\ pc'[t] = "sched")
  BY <1>t, <1>0
<1>1. ListsLeft
  <2>1. \A w \in WaitObjects : lists'[w] = lists[w]
    BY <1>t, QueuesOnly DEF NewTask
  <2>2. \A t \in Tasks : Inside(t) => pc'[t] # "none"
    BY <1>0, <1>p DEF Inside
  <2> QED BY <2>1, <2>2 DEF ListsLeft
<1>2. CallsLeft
  BY <1>0, <1>s, <1>p DEF CallsLeft, Inside, WaitServed
<1>3. FreeIsOut'
  BY <1>s, <1>p, <1>0 DEF FreeIsOut
<1> QED BY <1>1, <1>2, <1>3

\* A step that moves no wait list and changes neither waits nor places in the
\* calls.
LEMMA NothingLeaves ==
  ASSUME Consistent, FreeIsOut,
         \A w \in WaitObjects : lists'[w] = lists[w],
         \A t \in Tasks :
           /\ pc'[t] = pc[t] \/ (pc[t] = "pend" /\ pc'[t] = "tail")
                \/ (pc[t] \notin {"none", "pend", "tail"}
                      /\ pc'[t] \notin {"none", "pend", "tail"})
           /\ status'[t] \cap {"pend", "timeout", "unused"}
                = status[t] \cap {"pend", "timeout", "unused"}
  PROVE  ListsLeft /\ CallsLeft /\ FreeIsOut'
<1>1. ASSUME NEW t \in Tasks
      PROVE  /\ "pend" \in status'[t] <=> "pend" \in status[t]
             /\ "timeout" \in status'[t] <=> "timeout" \in status[t]
             /\ "unused" \in status'[t] <=> "unused" \in status[t]
  OBVIOUS
<1>2. CallsLeft
  <2> SUFFICES ASSUME NEW t \in Tasks
               PROVE  CallsLeft!(t)
    BY DEF CallsLeft
  <2>1. status'[t] \cap {"pend", "timeout"} = {} <=> WaitServed(t)
    BY <1>1 DEF WaitServed
  <2> QED BY <1>1, <2>1 DEF Inside
<1>3. FreeIsOut'
  BY <1>1 DEF FreeIsOut
<1>4. ListsLeft
  <2>1. Idle \in Tasks /\ \A t \in Tasks : Inside(t) => pc'[t] # "none"
    BY ParamAssumption DEF Inside
  <2> QED BY <2>1 DEF ListsLeft
<1> QED BY <1>2, <1>3, <1>4

LEMMA CallLeaves ==
  ASSUME Consistent, FreeIsOut, NEW t \in Tasks, TaskCall(t)
  PROVE  ListsLeft /\ CallsLeft /\ FreeIsOut'
<1>t. /\ status \in [Tasks -> SUBSET Flags] /\ pc \in [Tasks -> Pcs]
      /\ prio \in [Tasks -> Priorities] /\ lists \in [Lists -> Seq(Tasks)]
      /\ Matches(lists, status, prio)
  BY DEF Consistent, TypeInv, TypeOK
<1>u. \A n \in Tasks : Unlink(lists, n) \in [Lists -> Seq(Tasks)]
  BY <1>t, UnlinkFacts
<1>c. ASSUME NEW call, CanCall(t, call)
      PROVE  /\ run = t /\ pc[t] = "app" /\ "ready" \in status[t]
             /\ status[t] \cap {"unused", "pend"} = {}
  <2>1. scheduled /\ run = t /\ pc[t] = "app"
    BY <1>c DEF CanCall, Running
  <2> QED BY <2>1 DEF Consistent, RunReady, States, OneState
<1>r. ASSUME NEW n \in Tasks, "ready" \in status[n]
      PROVE  /\ "pend" \notin status[n]
             /\ \A w \in WaitObjects : Unlink(lists, n)[w] = lists[w]
  <2>1. "pend" \notin status[n]
    BY <1>r DEF Consistent, States, OneState
  <2> QED BY <1>t, <2>1, UnlinkReady
<1>1. ASSUME NEW n \in Tasks, NEW p \in Priorities, NEW d \in Detached,
             \/ LOS_TaskCreate(t, n, p, d)
             \/ LOS_TaskCreateOnly(t, n, p, d)
      PROVE  ListsLeft /\ CallsLeft /\ FreeIsOut'
  <2>1. CASE LOS_TaskCreate(t, n, p, d)
    <3>1. NewTask(n, p, d, TRUE) /\ CanCall(t, "create")
      BY <2>1 DEF LOS_TaskCreate
    <3> QED BY <2>1, <3>1, <1>c, NewTaskLeaves DEF LOS_TaskCreate
  <2>2. CASE LOS_TaskCreateOnly(t, n, p, d)
    <3>1. NewTask(n, p, d, FALSE)
      BY <2>2 DEF LOS_TaskCreateOnly
    <3> QED BY <2>2, <3>1, NewTaskLeaves DEF LOS_TaskCreateOnly
  <2> QED BY <1>1, <2>1, <2>2
<1>2. ASSUME NEW n \in Tasks, LOS_TaskDelete(t, n)
      PROVE  ListsLeft /\ CallsLeft /\ FreeIsOut'
  <2>1. "delete" \in Calls
    BY <1>2 DEF LOS_TaskDelete, CanCall
  <2>2. CASE Fault("unlink")
    BY <2>2, NothingLeaves DEF Fault
  <2>3. CASE Discard(n)
    BY <2>1, <2>3, DiscardLeaves
  <2> QED BY <1>2, <2>2, <2>3 DEF LOS_TaskDelete
<1>3. CASE DetachedReturn(t)
  <2>1. CanCall(t, "return") /\ Discard(t)
    BY <1>3 DEF DetachedReturn
  <2>2. ~Inside(t)
    BY <2>1, <1>c DEF Inside
  <2> QED BY <2>1, <2>2, DiscardLeaves
<1>p. ASSUME NEW call, CanCall(t, call), NEW at \in {"app", "sched", "leave"},
             pc' = [pc EXCEPT ![t] = at] \/ pc' = pc
      PROVE  \A n \in Tasks :
               \/ pc'[n] = pc[n]
               \/ /\ pc[n] \notin {"none", "pend", "tail"}
                  /\ pc'[n] \notin {"none", "pend", "tail"}
  BY <1>p, <1>c, <1>t
<1>4. ASSUME NEW n \in Tasks, LOS_TaskResume(t, n)
      PROVE  ListsLeft /\ CallsLeft /\ FreeIsOut'
  <2>1. /\ CanCall(t, "resume")
        /\ pc' = [pc EXCEPT ![t] = "sched"] \/ pc' = pc
    BY <1>4 DEF LOS_TaskResume, Scheduling
  <2>2. \A w \in WaitObjects : lists'[w] = lists[w]
    BY <1>4, <1>t, QueuesOnly DEF LOS_TaskResume
  <2>3. \A m \in Tasks : status'[m] \cap {"pend", "timeout", "unused"}
                           = status[m] \cap {"pend", "timeout", "unused"}
    BY <1>4, <1>t DEF LOS_TaskResume
  <2> QED BY <2>1, <2>2, <2>3, <1>p, NothingLeaves
<1>5. ASSUME NEW n \in Tasks, LOS_TaskSuspend(t, n)
      PROVE  ListsLeft /\ CallsLeft /\ FreeIsOut'
  <2>1. /\ CanCall(t, "suspend")
        /\ pc' = [pc EXCEPT ![t] = "sched"] \/ pc' = pc
    BY <1>5 DEF LOS_TaskSuspend, Scheduling
  <2>2. \A w \in WaitObjects : lists'[w] = lists[w]
    BY <1>5, <1>r DEF LOS_TaskSuspend
  <2>3. \A m \in Tasks : status'[m] \cap {"pend", "timeout", "unused"}
                           = status[m] \cap {"pend", "timeout", "unused"}
    BY <1>5, <1>t DEF LOS_TaskSuspend
  <2> QED BY <2>1, <2>2, <2>3, <1>p, NothingLeaves
<1>6. ASSUME NEW n \in Tasks, NEW p \in Priorities, LOS_TaskPriSet(t, n, p)
      PROVE  ListsLeft /\ CallsLeft /\ FreeIsOut'
  <2>1. /\ CanCall(t, "priset")
        /\ pc' = [pc EXCEPT ![t] = "sched"] \/ pc' = pc
        /\ lists' = Requeue(lists, n, p) /\ status' = status
    BY <1>6 DEF LOS_TaskPriSet, Scheduling
  <2>2. \A w \in WaitObjects : lists'[w] = lists[w]
    BY <2>1, <1>r, <1>u, QueuesOnly DEF Requeue
  <2> QED BY <2>1, <2>2, <1>p, NothingLeaves
<1>7. ASSUME NEW k \in Timeouts, LOS_TaskDelay(t, k)
      PROVE  ListsLeft /\ CallsLeft /\ FreeIsOut'
  <2>1. /\ CanCall(t, "delay")
        /\ pc' = [pc EXCEPT ![t] = "sched"]
    BY <1>7 DEF LOS_TaskDelay
  <2>2. \A w \in WaitObjects : lists'[w] = lists[w]
    BY <1>7, <2>1, <1>c, <1>r DEF LOS_TaskDelay
  <2>3. \A m \in Tasks : status'[m] \cap {"pend", "timeout", "unused"}
                           = status[m] \cap {"pend", "timeout", "unused"}
    BY <1>7, <1>t DEF LOS_TaskDelay
  <2> QED BY <2>1, <2>2, <2>3, <1>p, NothingLeaves
<1>8. CASE LOS_TaskYield(t)
  <2>1. /\ CanCall(t, "yield")
        /\ pc' = [pc EXCEPT ![t] = "sched"]
        /\ lists' = Enqueue(Unlink(lists, t), t, prio[t])
    BY <1>8 DEF LOS_TaskYield
  <2>2. \A w \in WaitObjects : lists'[w] = lists[w]
    <3>1. "ready" \in status[t]
      BY <2>1, <1>c
    <3>2. \A w \in WaitObjects : Unlink(lists, t)[w] = lists[w]
      BY <3>1, <1>r
    <3>3. prio[t] \in Priorities /\ Unlink(lists, t) \in [Lists -> Seq(Tasks)]
      BY <1>t, <1>u
    <3>4. \A w \in WaitObjects :
            Enqueue(Unlink(lists, t), t, prio[t])[w] = Unlink(lists, t)[w]
      BY <3>3, QueuesOnly
    <3> QED BY <2>1, <3>2, <3>4
  <2>3. \A m \in Tasks : status'[m] \cap {"pend", "timeout", "unused"}
                           = status[m] \cap {"pend", "timeout", "unused"}
    BY <1>8, <1>t DEF LOS_TaskYield
  <2> QED BY <2>1, <2>2, <2>3, <1>p, NothingLeaves
<1>9. CASE LOS_TaskLock(t) \/ LOS_TaskUnlock(t) \/ JoinableReturn(t)
  <2>1. /\ \E call : CanCall(t, call)
        /\ UNCHANGED <<lists, status>>
        /\ \E at \in {"app", "sched", "leave"} :
             pc' = [pc EXCEPT ![t] = at] \/ pc' = pc
    BY <1>9 DEF LOS_TaskLock, LOS_TaskUnlock, JoinableReturn, Scheduling
  <2> QED BY <2>1, <1>p, NothingLeaves
<1> QED BY <1>1, <1>2, <1>3, <1>4, <1>5, <1>6, <1>7, <1>8, <1>9 DEF TaskCall

LEMMA StepLeaves ==
  ASSUME Consistent, FreeIsOut, [TaskNext]_taskVars,
         NeverPends \/ TimesliceTimeout = 0
  PROVE  ListsLeft /\ CallsLeft /\ FreeIsOut'
<1>t. /\ status \in [Tasks -> SUBSET Flags] /\ pc \in [Tasks -> Pcs]
      /\ prio \in [Tasks -> Priorities] /\ lists \in [Lists -> Seq(Tasks)]
      /\ Matches(lists, status, prio)
  BY DEF Consistent, TypeInv, TypeOK
<1>1. CASE Boot
  <2>1. ASSUME NEW n \in Tasks, NEW p \in Priorities, NEW d \in Detached,
               BootCreate(n, p, d)
        PROVE  ListsLeft /\ CallsLeft /\ FreeIsOut'
    <3>1. NewTask(n, p, d, TRUE) /\ pc' = [pc EXCEPT ![n] = "app"]
      BY <2>1 DEF BootCreate
    <3> QED BY <3>1, NewTaskLeaves
  <2>2. CASE Start
    BY <2>2, NothingLeaves DEF Start
  <2> QED BY <1>1, <2>1, <2>2 DEF Boot
<1>2. ASSUME NEW t \in Tasks, TaskInternal(t)
      PROVE  ListsLeft /\ CallsLeft /\ FreeIsOut'
  <2>1. CASE LOS_Schedule(t)
    <3>1. /\ pc' = [pc EXCEPT ![t] = AfterSchedule(pc[t])]
          /\ pc[t] \in {"sched", "pend", "exit"}
          /\ UNCHANGED <<status, lists>>
      BY <2>1, <1>t DEF LOS_Schedule
    <3>2. \A n \in Tasks :
            \/ pc'[n] = pc[n] \/ (pc[n] = "pend" /\ pc'[n] = "tail")
            \/ /\ pc[n] \notin {"none", "pend", "tail"}
               /\ pc'[n] \notin {"none", "pend", "tail"}
      BY <3>1, <1>t DEF AfterSchedule
    <3> QED BY <3>1, <3>2, NothingLeaves
  <2>2. CASE JoinableLeave(t)
    <3>1. scheduled /\ run = t /\ pc[t] = "leave"
      BY <2>2 DEF JoinableLeave, Running
    <3>2. "ready" \in status[t] /\ "pend" \notin status[t]
      BY <3>1 DEF Consistent, RunReady, States, OneState
    <3>3. \A w \in WaitObjects : lists'[w] = lists[w]
      BY <2>2, <3>2, <1>t, UnlinkReady DEF JoinableLeave
    <3>4. \A m \in Tasks : status'[m] \cap {"pend", "timeout", "unused"}
                             = status[m] \cap {"pend", "timeout", "unused"}
      BY <2>2, <1>t DEF JoinableLeave
    <3>5. pc' = [pc EXCEPT ![t] = "unlock"]
      BY <2>2 DEF JoinableLeave
    <3> QED BY <3>1, <3>3, <3>4, <3>5, <1>t, NothingLeaves
  <2>3. CASE JoinableUnlock(t)
    BY <2>3, <1>t, NothingLeaves DEF JoinableUnlock
  <2>4. CASE RunOffEnd(t)
    BY <2>4, NothingLeaves DEF RunOffEnd, Fault
  <2> QED BY <1>2, <2>1, <2>2, <2>3, <2>4 DEF TaskInternal
<1>3. CASE Tick
  <2>1. CASE TickBegin
    <3>1. CASE UNCHANGED <<lists, status, pc>>
      BY <3>1, NothingLeaves
    <3>2. CASE NeverPends /\ run \in Tasks /\ pc' = pc
               /\ lists' = Enqueue(Unlink(lists, run), run, prio[run])
               /\ status' = [status EXCEPT ![run] = @ \cup {"ready"}]
      <4>1. Unlink(lists, run) \in [Lists -> Seq(Tasks)] /\ prio[run] \in Priorities
        BY <1>t, <3>2, UnlinkFacts
      <4>2. \A w \in WaitObjects : lists'[w] = lists[w]
        BY <1>t, <3>2, <4>1, QueuesOnly, UnlinkReady DEF NeverPends
      <4>3. \A t \in Tasks : status'[t] \cap {"pend", "timeout", "unused"}
                                = status[t] \cap {"pend", "timeout", "unused"}
        BY <1>t, <3>2
      <4> QED BY <3>2, <4>2, <4>3, NothingLeaves
    <3>3. scheduled => run \in Tasks
      BY DEF Consistent, TypeInv, TypeOK
    <3>4. TimesliceTimeout = 0 => ~SliceYields
      BY DEF SliceYields, SliceOver
    <3> QED BY <2>1, <3>1, <3>2, <3>3, <3>4 DEF TickBegin, Fault
  <2>2. ASSUME NEW n \in Tasks, TickExpire(n)
        PROVE  ListsLeft /\ CallsLeft /\ FreeIsOut'
    <3>1. /\ n \in isr.due
          /\ status' = [status EXCEPT ![n] = (status[n] \ WaitFlag(n)) \cup
                          (IF "suspend" \in status[n] THEN {} ELSE {"ready"})]
          /\ lists' = IF "suspend" \in status[n] THEN GivenUp(n)
                      ELSE Enqueue(GivenUp(n), n, prio[n])
          /\ pc' = pc
      BY <2>2, <1>t DEF TickExpire
    <3>2. "delay" \in status[n] \/ {"pend", "timeout"} \subseteq status[n]
      BY <3>1 DEF Consistent, Timers, TimerMatchesFlags
    <3>b. ~({"pend", "delay"} \subseteq status[n])
      BY DEF Consistent, States, OneState
    <3>g. GivenUp(n) \in [Lists -> Seq(Tasks)] /\ prio[n] \in Priorities
      BY <1>t, UnlinkFacts DEF GivenUp
    <3>q. \A w \in WaitObjects :
            Enqueue(GivenUp(n), n, prio[n])[w] = GivenUp(n)[w]
      BY <3>g, QueuesOnly
    <3>3. \A w \in WaitObjects : lists'[w] = GivenUp(n)[w]
      BY <3>1, <3>q
    <3>4. ListsLeft
      <4>1. \A m \in Tasks : Inside(m) => pc'[m] # "none"
        BY <3>1 DEF Inside
      <4> QED BY <3>3, <4>1, UnlinkOne DEF ListsLeft, GivenUp
    <3>5. /\ "timeout" \in status'[n] <=> "timeout" \in status[n]
          /\ "unused" \in status'[n] <=> "unused" \in status[n]
          /\ status'[n] \cap {"pend", "timeout"} = {}
               <=> status[n] \cap {"pend", "timeout"} = {}
          /\ \A m \in Tasks \ {n} : status'[m] = status[m]
      <4> DEFINE f == (status[n] \ WaitFlag(n)) \cup
                        (IF "suspend" \in status[n] THEN {} ELSE {"ready"})
      <4>1. status'[n] = f /\ \A m \in Tasks \ {n} : status'[m] = status[m]
        BY <3>1, <1>t
      <4>2. /\ "timeout" \in f <=> "timeout" \in status[n]
            /\ "unused" \in f <=> "unused" \in status[n]
        BY DEF WaitFlag
      <4>3. "pend" \notin f
        BY <3>2, <3>b DEF WaitFlag
      <4> HIDE DEF f
      <4>4. f \cap {"pend", "timeout"} = {} <=> "timeout" \notin f
        BY <4>3
      <4>5. status[n] \cap {"pend", "timeout"} = {} <=> "timeout" \notin status[n]
        BY <3>2, <3>b
      <4> QED BY <4>1, <4>2, <4>4, <4>5
    <3>6. CallsLeft
      BY <3>1, <3>5 DEF CallsLeft, Inside, WaitServed
    <3>7. FreeIsOut'
      BY <3>1, <3>5 DEF FreeIsOut
    <3> QED BY <3>4, <3>6, <3>7
  <2>3. CASE TickEnd
    BY <2>3, NothingLeaves DEF TickEnd
  <2> QED BY <1>3, <2>1, <2>2, <2>3 DEF Tick
<1>4. CASE UNCHANGED taskVars
  BY <1>4, NothingLeaves DEF taskVars
<1> QED BY <1>1, <1>2, <1>3, <1>4, CallLeaves DEF TaskNext

-----------------------------------------------------------------------------
(***************************************************************************)
(* The three steps every wait consists of.                                 *)
(***************************************************************************)

\* A task that is in no list goes somewhere into a wait list.
LEMMA EnterWait ==
  ASSUME NEW q, NEW st, NEW pr, Matches(q, st, pr),
         NEW t \in Tasks, st[t] \cap {"ready", "pend"} = {},
         NEW w \in WaitObjects, NEW f \in SUBSET Flags,
         "ready" \notin f, "pend" \in f,
         NEW q2, Nodes(q2), Range(q2[w]) = Range(q[w]) \cup {t},
         \A k \in Lists \ {w} : Range(q2[k]) = Range(q[k])
  PROVE  Matches(q2, [st EXCEPT ![t] = f], pr)
<1>1. \A l \in Lists : t \notin Range(q[l])
  BY NotInList
<1>2. \A p \in Priorities : p # w /\ p \in Lists
  BY ParamAssumption DEF Lists
<1>3. ASSUME NEW u \in Tasks
      PROVE  Fits(u, [st EXCEPT ![t] = f][u], pr[u], q2)
  <2>1. CASE u = t
    <3>1. [st EXCEPT ![t] = f][u] = f
      BY <2>1 DEF Matches
    <3>2. \A l \in Lists : u \in Range(q2[l]) <=> l = w
      BY <1>1, <2>1
    <3> QED BY <1>2, <3>1, <3>2, ListsAreLists DEF Fits
  <2>2. CASE u # t
    <3>1. [st EXCEPT ![t] = f][u] = st[u]
      BY <2>2 DEF Matches
    <3>2. \A l \in Lists : u \in Range(q2[l]) <=> u \in Range(q[l])
      BY <2>2
    <3> QED BY <3>1, <3>2, ListsAreLists DEF Matches, Fits
  <2> QED BY <2>1, <2>2
<1> QED BY <1>3 DEF Matches

\* The first half of a blocking call: the flags, the timer and the list of the
\* running task change together.
LEMMA BlockConsistent ==
  ASSUME Consistent, NEW t \in Tasks, NEW k \in 1 .. LOS_WAIT_FOREVER,
         Running(t), pc[t] = "app", lock = 0,
         status' = [status EXCEPT ![t] =
                      (status[t] \ {"ready", "timeout"}) \cup {"pend"}
                        \cup (IF k = LOS_WAIT_FOREVER THEN {} ELSE {"timeout"})],
         timer' = IF k = LOS_WAIT_FOREVER THEN timer
                  ELSE [timer EXCEPT ![t] = k],
         pc' = [pc EXCEPT ![t] = "pend"],
         prio' \in [Tasks -> Priorities], lists' \in [Lists -> Seq(Tasks)],
         UNCHANGED <<run, lock, isr, slice, scheduled, fault>>,
         Matches(lists', status', prio')
  PROVE  Consistent'
<1> USE DEF Consistent
<1> DEFINE f == (status[t] \ {"ready", "timeout"}) \cup {"pend"}
                  \cup (IF k = LOS_WAIT_FOREVER THEN {} ELSE {"timeout"})
<1>t. /\ status \in [Tasks -> SUBSET Flags] /\ timer \in [Tasks -> 0 .. MaxTimeout]
      /\ pc \in [Tasks -> Pcs] /\ TypeOK
  BY DEF TypeInv, TypeOK
<1>r. /\ scheduled /\ run = t /\ ~isr.active /\ "ready" \in status[t]
      /\ status[t] \cap {"unused", "suspend", "pend", "delay"} = {}
      /\ timer[t] = 0 /\ isr.due = {}
  <2>1. scheduled /\ run = t /\ ~isr.active /\ "ready" \in status[t]
    BY DEF Running, RunReady
  <2>2. status[t] \cap {"unused", "suspend", "pend", "delay"} = {}
    BY <2>1 DEF States, OneState
  <2>3. isr.due = {} /\ timer[t] \in Nat
    BY <2>1, <1>t, ParamAssumption DEF Timers, DueInv
  <2>4. timer[t] = 0
    BY <2>2, <2>3 DEF Timers, TimerMatchesFlags
  <2> QED BY <2>1, <2>2, <2>3, <2>4
<1>f. /\ f \in SUBSET Flags /\ "pend" \in f
      /\ f \cap {"unused", "ready", "delay", "suspend"} = {}
      /\ "timeout" \in f <=> k # LOS_WAIT_FOREVER
  BY <1>t, <1>r DEF Flags
<1>k. k # LOS_WAIT_FOREVER => k \in 1 .. MaxTimeout
  BY ParamAssumption DEF LOS_WAIT_FOREVER
<1>s. /\ status' = [status EXCEPT ![t] = f]
      /\ status'[t] = f /\ \A u \in Tasks \ {t} : status'[u] = status[u]
  BY <1>t
<1> HIDE DEF f
<1>m. /\ timer'[t] = IF k = LOS_WAIT_FOREVER THEN 0 ELSE k
      /\ \A u \in Tasks \ {t} : timer'[u] = timer[u]
      /\ timer' \in [Tasks -> 0 .. MaxTimeout]
  BY <1>t, <1>k, <1>r, ParamAssumption
<1>0. TypeInv'
  <2>1. status' \in [Tasks -> SUBSET Flags] /\ pc' \in [Tasks -> Pcs]
    BY <1>t, <1>s, <1>f DEF Pcs
  <2> QED BY <1>m, <2>1 DEF TypeInv, TypeOK
<1>2. States'
  BY <1>s, <1>f, <1>t DEF States, OneState, NoTaskLost
<1>3. Timers'
  <2>1. timer'[t] > 0 <=> k # LOS_WAIT_FOREVER
    BY <1>m, <1>k
  <2>2. TimerMatchesFlags'
    BY <1>s, <1>f, <1>m, <1>r, <2>1 DEF Timers, TimerMatchesFlags
  <2>3. DueInv'
    BY <1>r DEF DueInv
  <2> QED BY <2>2, <2>3 DEF Timers
<1>4. RunReady'
  BY <1>r, <1>t DEF RunReady
<1> QED BY <1>0, <1>2, <1>3, <1>4

\* The second half: the call takes TIMEOUT away and returns.
LEMMA ReturnConsistent ==
  ASSUME Consistent, NEW t \in Tasks, Running(t), pc[t] = "tail",
         status' = [status EXCEPT ![t] = status[t] \ {"timeout"}],
         pc' = [pc EXCEPT ![t] = "app"],
         UNCHANGED <<prio, lists, timer, run, lock, isr, slice, scheduled, fault>>
  PROVE  Consistent'
<1> USE DEF Consistent
<1>t. /\ status \in [Tasks -> SUBSET Flags] /\ pc \in [Tasks -> Pcs]
  BY DEF TypeInv, TypeOK
<1>r. scheduled /\ run = t /\ "ready" \in status[t] /\ "pend" \notin status[t]
  BY DEF Running, RunReady, States, OneState
<1>s. /\ status'[t] = status[t] \ {"timeout"}
      /\ \A u \in Tasks \ {t} : status'[u] = status[u]
  BY <1>t
<1>0. TypeInv'
  BY <1>t DEF TypeInv, TypeOK, Pcs
<1>1. Matches(lists', status', prio')
  <2>1. (status[t] \ {"timeout"}) \cap {"ready", "pend"}
          = status[t] \cap {"ready", "pend"}
    OBVIOUS
  <2> QED BY <2>1, <1>t, ChangeFlags
<1>2. States'
  BY <1>r, <1>s, <1>t DEF States, OneState, NoTaskLost
<1>3. Timers'
  BY <1>r, <1>s DEF Timers, TimerMatchesFlags, DueInv
<1>4. RunReady'
  BY <1>r, <1>s, <1>t DEF RunReady
<1> QED BY <1>0, <1>1, <1>2, <1>3, <1>4

\* In between the waits of some tasks end: by the running task, which may go
\* on to LOS_Schedule or return from a call of its own, or by an interrupt
\* handler, at whose end PendSV may switch.
WaitsEnd(set) ==
  /\ status' = [t \in Tasks |->
       IF t \in set
       THEN (status[t] \ {"pend", "timeout"})
              \cup (IF "suspend" \in status[t] THEN {} ELSE {"ready"})
       ELSE status[t]]
  /\ timer' = [t \in Tasks |->
       IF t \in set /\ "timeout" \in status[t] THEN 0 ELSE timer[t]]

LEMMA ServeConsistent ==
  ASSUME Consistent, NEW set \in SUBSET Tasks, WaitsEnd(set),
         \A t \in set : "pend" \in status[t],
         scheduled, ~isr.active,
         \/ pc' = pc
         \/ /\ pc[run] \in {"app", "tail"}
            /\ \/ pc' = [pc EXCEPT ![run] = "sched"]
               \/ pc' = [pc EXCEPT ![run] = "app"],
         run' = run \/ (pc' = pc /\ SwitchTo(lists')),
         prio' \in [Tasks -> Priorities], lists' \in [Lists -> Seq(Tasks)],
         UNCHANGED <<lock, isr, slice, scheduled, fault>>,
         Matches(lists', status', prio')
  PROVE  Consistent'
<1> USE DEF Consistent
<1>t. /\ status \in [Tasks -> SUBSET Flags] /\ timer \in [Tasks -> 0 .. MaxTimeout]
      /\ pc \in [Tasks -> Pcs] /\ run \in Tasks /\ TypeOK
  BY DEF TypeInv, TypeOK
<1>i. isr.due = {}
  BY DEF Timers, DueInv
<1>s. /\ \A t \in set :
           /\ status'[t] \cap {"unused", "pend", "timeout", "delay"} = {}
           /\ "suspend" \in status'[t] <=> "suspend" \in status[t]
           /\ "ready" \in status'[t] <=> "suspend" \notin status[t]
           /\ timer'[t] = 0
      /\ \A t \in Tasks \ set : status'[t] = status[t] /\ timer'[t] = timer[t]
  <2>1. ASSUME NEW t \in set
        PROVE  /\ status'[t] \cap {"unused", "pend", "timeout", "delay"} = {}
               /\ "suspend" \in status'[t] <=> "suspend" \in status[t]
               /\ "ready" \in status'[t] <=> "suspend" \notin status[t]
               /\ timer'[t] = 0
    <3>1. status[t] \cap {"unused", "ready", "delay"} = {}
      BY <2>1 DEF States, OneState
    <3>2. "timeout" \notin status[t] => timer[t] = 0
      <4>1. timer[t] \in Nat
        BY <1>t, ParamAssumption
      <4> QED BY <3>1, <4>1 DEF Timers, TimerMatchesFlags
    <3> QED BY <3>1, <3>2 DEF WaitsEnd
  <2> QED BY <2>1 DEF WaitsEnd
<1>p. \A t \in Tasks :
        \/ pc'[t] = pc[t]
        \/ t = run /\ pc[t] \in {"app", "tail"} /\ pc'[t] \in {"app", "sched"}
  BY <1>t
<1>r. pc[run] \in {"app", "leave", "tail"} =>
        "ready" \in status[run] /\ run \notin set
  BY DEF RunReady, States, OneState
<1>0. TypeInv'
  <2>1. status' \in [Tasks -> SUBSET Flags]
    BY <1>t DEF WaitsEnd, Flags
  <2>2. timer' \in [Tasks -> 0 .. MaxTimeout]
    BY <1>t, ParamAssumption DEF WaitsEnd
  <2>3. pc' \in [Tasks -> Pcs]
    BY <1>t DEF Pcs
  <2>4. run' \in Tasks
    BY <1>t DEF SwitchTo
  <2>5. None \notin Tasks
    BY ParamAssumption
  <2> QED BY <2>1, <2>2, <2>3, <2>4, <2>5 DEF TypeInv, TypeOK
<1>2. States'
  <2>1. OneState'
    BY <1>s DEF States, OneState
  <2>2. ASSUME NEW t \in Tasks
        PROVE  \/ status'[t] \cap {"unused", "ready", "pend", "delay", "suspend"} # {}
               \/ pc'[t] \in {"unlock", "exit", "done"}
    BY <1>s, <1>p, <1>r DEF States, NoTaskLost
  <2> QED BY <2>1, <2>2 DEF States, NoTaskLost
<1>3. Timers'
  BY <1>s, <1>i DEF Timers, TimerMatchesFlags, DueInv
<1>4. RunReady'
  <2>1. CASE run' = run
    <3>1. "ready" \in status[run] => "ready" \in status'[run]
      <4>1. "ready" \in status[run] => run \notin set
        BY DEF States, OneState
      <4> QED BY <4>1, <1>s, <1>t
    <3>2. \/ pc'[run] = pc[run]
          \/ pc[run] \in {"app", "tail"} /\ pc'[run] \in {"app", "sched"}
      BY <1>p, <1>t
    <3>3. /\ pc'[run] \in {"app", "leave", "tail"} => "ready" \in status'[run]
          /\ pc'[run] \in {"sched", "pend"} /\ "ready" \notin status'[run]
               => lock = 0
      BY <3>1, <3>2, <1>r DEF RunReady
    <3> QED BY <2>1, <3>3 DEF RunReady
  <2>2. CASE SwitchTo(lists')
    <3>1. run' \in Tasks /\ "ready" \in status'[run']
      BY <2>2, SwitchFindsReady
    <3> QED BY <3>1 DEF RunReady
  <2> QED BY <2>1, <2>2
<1> QED BY <1>0, <1>2, <1>3, <1>4

\* The first of a list is taken out of it.
LEMMA HeadLeaves ==
  ASSUME NEW S, NEW s \in Seq(S), s # <<>>, IsInjective(s)
  PROVE  Head(s) \in Range(s) /\ Without(s, Head(s)) = Tail(s)
<1>1. /\ Len(s) \in Nat \ {0} /\ DOMAIN s = 1 .. Len(s)
      /\ Head(s) = s[1] /\ 1 \in DOMAIN s
  BY LenProperties, EmptySeq
<1>2. Head(s) \in Range(s)
  BY <1>1 DEF Range
<1>3. (CHOOSE i \in DOMAIN s : s[i] = Head(s)) = 1
  <2>1. \A i \in DOMAIN s : s[i] = Head(s) => i = 1
    BY <1>1 DEF IsInjective
  <2>2. \E i \in DOMAIN s : s[i] = Head(s)
    BY <1>1
  <2> QED BY <2>1, <2>2
<1>4. Without(s, Head(s)) = SubSeq(s, 1, 1 - 1) \o SubSeq(s, 1 + 1, Len(s))
  BY <1>2, <1>3 DEF Without, RemoveAt
<1>5. SubSeq(s, 1, 1 - 1) = <<>> /\ SubSeq(s, 1 + 1, Len(s)) = Tail(s)
  BY <1>1
<1>6. Tail(s) \in Seq(S)
  BY HeadTailProperties
<1>7. <<>> \o Tail(s) = Tail(s)
  BY <1>6, ConcatEmptySeq
<1> QED BY <1>2, <1>4, <1>5, <1>7

\* A waiting task is woken, unless it is suspended.
LEMMA WakeMatches ==
  ASSUME NEW q, NEW st0, NEW pr, Matches(q, st0, pr), NEW n \in Tasks,
         st0[n] = status[n], "pend" \in status[n], "ready" \notin status[n],
         pr[n] = prio[n],
         NEW st, st = [st0 EXCEPT ![n] =
                         (status[n] \ {"pend", "timeout"})
                           \cup (IF "suspend" \in status[n] THEN {} ELSE {"ready"})]
  PROVE  Matches(Wake(q, n), st, pr)
<1> DEFINE f == status[n] \ {"pend", "timeout"}
           g == f \cup {"ready"}
<1>t. st0 \in [Tasks -> SUBSET Flags] /\ pr \in [Tasks -> Priorities]
  BY DEF Matches
<1>1. f \in SUBSET Flags /\ f \cap {"ready", "pend"} = {}
  BY <1>t
<1>2. Matches(Unlink(q, n), [st0 EXCEPT ![n] = f], pr)
  BY <1>1, LeaveList
<1>3. CASE "suspend" \in status[n]
  BY <1>2, <1>3 DEF Wake
<1>4. CASE "suspend" \notin status[n]
  <2> DEFINE st1 == [st0 EXCEPT ![n] = f]
  <2>1. st1[n] = f
    BY <1>t
  <2>2. g \in SUBSET Flags /\ "ready" \in g /\ "pend" \notin g
    BY <1>1 DEF Flags
  <2>3. [st1 EXCEPT ![n] = g] = st /\ [pr EXCEPT ![n] = pr[n]] = pr
    BY <1>t, <1>4
  <2>4. pr[n] \in Priorities
    BY <1>t
  <2>5. Matches(Unlink(q, n), st1, pr)
    BY <1>2
  <2> HIDE DEF st1, f, g
  <2>6. st1[n] \cap {"ready", "pend"} = {}
    BY <2>1, <1>1
  <2>7. Matches(Enqueue(Unlink(q, n), n, pr[n]), [st1 EXCEPT ![n] = g],
                [pr EXCEPT ![n] = pr[n]])
    BY <2>2, <2>4, <2>5, <2>6, EnterQueue
  <2> QED BY <1>4, <2>3, <2>7 DEF Wake
<1> QED BY <1>3, <1>4

\* Where nothing deletes tasks none goes.
LEMMA NobodyGoes ==
  ASSUME Consistent, [TaskNext]_taskVars,
         "delete" \notin Calls, "return" \notin Calls,
         NEW u \in Tasks, pc[u] # "none"
  PROVE  pc'[u] # "none"
<1>t. pc \in [Tasks -> Pcs]
  BY DEF Consistent, TypeInv, TypeOK
<1>1. CASE Boot
  BY <1>1, <1>t DEF Boot, BootCreate, Start
<1>2. ASSUME NEW t \in Tasks, TaskCall(t)
      PROVE  pc'[u] # "none"
  <2>1. ~DetachedReturn(t) /\ ~JoinableReturn(t)
        /\ \A n \in Tasks : ~LOS_TaskDelete(t, n)
    BY DEF DetachedReturn, JoinableReturn, LOS_TaskDelete, CanCall
  <2>2. CASE \E n \in Tasks, p \in Priorities, d \in Detached :
               LOS_TaskCreate(t, n, p, d) \/ LOS_TaskCreateOnly(t, n, p, d)
    BY <2>2, <1>t DEF LOS_TaskCreate, LOS_TaskCreateOnly
  <2>3. CASE \/ \E n \in Tasks : LOS_TaskResume(t, n) \/ LOS_TaskSuspend(t, n)
             \/ \E n \in Tasks, p \in Priorities : LOS_TaskPriSet(t, n, p)
             \/ \E k \in Timeouts : LOS_TaskDelay(t, k)
             \/ LOS_TaskYield(t) \/ LOS_TaskLock(t) \/ LOS_TaskUnlock(t)
    <3>1. pc' = pc \/ pc' = [pc EXCEPT ![t] = "sched"]
      BY <2>3 DEF LOS_TaskResume, LOS_TaskSuspend, LOS_TaskPriSet, LOS_TaskDelay,
        LOS_TaskYield, LOS_TaskLock, LOS_TaskUnlock, Scheduling
    <3> QED BY <3>1, <1>t
  <2> QED BY <1>2, <2>1, <2>2, <2>3 DEF TaskCall
<1>3. ASSUME NEW t \in Tasks, TaskInternal(t)
      PROVE  pc'[u] # "none"
  <2>1. CASE LOS_Schedule(t)
    BY <2>1, <1>t DEF LOS_Schedule, AfterSchedule
  <2>2. CASE JoinableLeave(t) \/ JoinableUnlock(t) \/ RunOffEnd(t)
    BY <2>2, <1>t DEF JoinableLeave, JoinableUnlock, RunOffEnd, Fault
  <2> QED BY <1>3, <2>1, <2>2 DEF TaskInternal
<1>4. CASE Tick
  BY <1>4 DEF Tick, TickBegin, TickExpire, TickEnd, Fault
<1>5. CASE UNCHANGED taskVars
  BY <1>5 DEF taskVars
<1> QED BY <1>1, <1>2, <1>3, <1>4, <1>5 DEF TaskNext

\* Where nothing sets priorities a task has the one it was created with.
LEMMA PriosLeft ==
  ASSUME Consistent, [TaskNext]_taskVars, "priset" \notin Calls,
         NEW u \in Tasks, pc'[u] # "none"
  PROVE  \/ prio'[u] \in CreatePrio[u]
         \/ pc[u] # "none" /\ prio'[u] = prio[u]
<1>t. /\ pc \in [Tasks -> Pcs] /\ prio \in [Tasks -> Priorities]
  BY DEF Consistent, TypeInv, TypeOK
<1>n. ASSUME NEW n \in Tasks, NEW p \in Priorities, NEW d, NEW r,
             NewTask(n, p, d, r), \A v \in Tasks \ {n} : pc'[v] # "none" => pc[v] # "none"
      PROVE  \/ prio'[u] \in CreatePrio[u]
             \/ pc[u] # "none" /\ prio'[u] = prio[u]
  BY <1>n, <1>t DEF NewTask
<1>1. CASE Boot
  <2>1. ASSUME NEW n \in Tasks, NEW p \in Priorities, NEW d \in Detached,
               BootCreate(n, p, d)
        PROVE  \/ prio'[u] \in CreatePrio[u]
               \/ pc[u] # "none" /\ prio'[u] = prio[u]
    <3>1. NewTask(n, p, d, TRUE) /\ \A v \in Tasks \ {n} : pc'[v] = pc[v]
      BY <2>1, <1>t DEF BootCreate
    <3> QED BY <3>1, <1>n
  <2>2. CASE Start
    BY <2>2 DEF Start
  <2> QED BY <1>1, <2>1, <2>2 DEF Boot
<1>2. ASSUME NEW t \in Tasks, TaskCall(t)
      PROVE  \/ prio'[u] \in CreatePrio[u]
             \/ pc[u] # "none" /\ prio'[u] = prio[u]
  <2>1. ASSUME NEW n \in Tasks, NEW p \in Priorities, NEW d \in Detached,
               LOS_TaskCreate(t, n, p, d) \/ LOS_TaskCreateOnly(t, n, p, d)
        PROVE  \/ prio'[u] \in CreatePrio[u]
               \/ pc[u] # "none" /\ prio'[u] = prio[u]
    <3>1. pc[t] = "app"
      BY <2>1 DEF LOS_TaskCreate, LOS_TaskCreateOnly, CanCall
    <3>2. \A v \in Tasks \ {n} : pc'[v] # "none" => pc[v] # "none"
      BY <2>1, <3>1, <1>t DEF LOS_TaskCreate, LOS_TaskCreateOnly
    <3>3. \E r \in BOOLEAN : NewTask(n, p, d, r)
      BY <2>1 DEF LOS_TaskCreate, LOS_TaskCreateOnly
    <3> QED BY <3>2, <3>3, <1>n
  <2>2. \A n \in Tasks, p \in Priorities : ~LOS_TaskPriSet(t, n, p)
    BY DEF LOS_TaskPriSet, CanCall
  <2>3. CASE \/ \E n \in Tasks : LOS_TaskResume(t, n) \/ LOS_TaskSuspend(t, n)
             \/ \E k \in Timeouts : LOS_TaskDelay(t, k)
             \/ LOS_TaskYield(t) \/ LOS_TaskLock(t) \/ LOS_TaskUnlock(t)
             \/ JoinableReturn(t)
    <3>1. prio' = prio /\ pc[t] = "app"
      BY <2>3 DEF LOS_TaskResume, LOS_TaskSuspend, LOS_TaskDelay, LOS_TaskYield,
        LOS_TaskLock, LOS_TaskUnlock, JoinableReturn, CanCall
    <3>2. \/ pc' = pc \/ pc' = [pc EXCEPT ![t] = "sched"]
          \/ pc' = [pc EXCEPT ![t] = "leave"]
      BY <2>3 DEF LOS_TaskResume, LOS_TaskSuspend, LOS_TaskDelay, LOS_TaskYield,
        LOS_TaskLock, LOS_TaskUnlock, JoinableReturn, Scheduling
    <3> QED BY <3>1, <3>2, <1>t
  <2>4. CASE \E n \in Tasks : LOS_TaskDelete(t, n) \/ DetachedReturn(t)
    <3>1. /\ prio' = prio
          /\ pc' = pc \/ \E n \in Tasks : pc' = [pc EXCEPT ![n] = "none"]
      BY <2>4 DEF LOS_TaskDelete, DetachedReturn, Discard, Fault
    <3> QED BY <3>1, <1>t
  <2> QED BY <1>2, <2>1, <2>2, <2>3, <2>4 DEF TaskCall
<1>3. ASSUME NEW t \in Tasks, TaskInternal(t)
      PROVE  pc[u] # "none" /\ prio'[u] = prio[u]
  <2>1. prio' = prio /\ pc[t] # "none"
    BY <1>3 DEF TaskInternal, LOS_Schedule, JoinableLeave, JoinableUnlock,
      RunOffEnd, Fault
  <2>2. \A v \in Tasks \ {t} : pc'[v] = pc[v]
    BY <1>3, <1>t DEF TaskInternal, LOS_Schedule, JoinableLeave, JoinableUnlock,
      RunOffEnd, Fault
  <2> QED BY <2>1, <2>2
<1>4. CASE Tick
  BY <1>4 DEF Tick, TickBegin, TickExpire, TickEnd, Fault
<1>5. CASE UNCHANGED taskVars
  BY <1>5 DEF taskVars
<1> QED BY <1>1, <1>2, <1>3, <1>4, <1>5 DEF TaskNext
-----------------------------------------------------------------------------
(***************************************************************************)
(* Faults.  Two things lead to one in this module: a finished task that is *)
(* resumed, and a node taken out of a list it is not in.                   *)
(***************************************************************************)

\* Nobody is on the way out of osTaskEntry.
NobodyReturns ==
  \A t \in Tasks : pc[t] \in {"none", "app", "sched", "pend", "tail"}

\* The priorities t can have where LOS_TaskPriSet is not called.
OwnPrios(t) == CreatePrio[t] \cup (IF t = Idle THEN {Lowest} ELSE {})

\* Two tasks that share a priority are alone with it.
PairsOnly ==
  /\ "priset" \notin Calls
  /\ \A t, u, v \in Tasks :
       t # u /\ u # v /\ t # v => OwnPrios(t) \cap OwnPrios(u) \cap OwnPrios(v) = {}

\* The running task exists, and every task has a priority of its own.
Placed ==
  /\ FreeIsOut
  /\ scheduled => pc[run] # "none"
  /\ "priset" \notin Calls =>
       \A t \in Tasks : pc[t] # "none" => prio[t] \in OwnPrios(t)

LEMMA NextNobodyReturns ==
  Consistent /\ NobodyReturns /\ "return" \notin Calls /\ [TaskNext]_taskVars
    => NobodyReturns'
<1> SUFFICES ASSUME Consistent, NobodyReturns, "return" \notin Calls,
                    [TaskNext]_taskVars
             PROVE  NobodyReturns'
  OBVIOUS
<1>t. pc \in [Tasks -> Pcs]
  BY DEF Consistent, TypeInv, TypeOK
<1> USE DEF NobodyReturns
<1>1. CASE Boot
  BY <1>1, <1>t DEF Boot, BootCreate, Start
<1>2. ASSUME NEW t \in Tasks, TaskCall(t)
      PROVE  NobodyReturns'
  <2>1. ~DetachedReturn(t) /\ ~JoinableReturn(t)
    BY DEF DetachedReturn, JoinableReturn, CanCall
  <2>2. CASE \E n \in Tasks, p \in Priorities, d \in Detached :
               LOS_TaskCreate(t, n, p, d) \/ LOS_TaskCreateOnly(t, n, p, d)
    BY <2>2, <1>t DEF LOS_TaskCreate, LOS_TaskCreateOnly
  <2>3. CASE \/ \E n \in Tasks : LOS_TaskResume(t, n) \/ LOS_TaskSuspend(t, n)
             \/ \E n \in Tasks, p \in Priorities : LOS_TaskPriSet(t, n, p)
             \/ \E k \in Timeouts : LOS_TaskDelay(t, k)
             \/ LOS_TaskYield(t) \/ LOS_TaskLock(t) \/ LOS_TaskUnlock(t)
    <3>1. pc' = pc \/ pc' = [pc EXCEPT ![t] = "sched"]
      BY <2>3 DEF LOS_TaskResume, LOS_TaskSuspend, LOS_TaskPriSet, LOS_TaskDelay,
        LOS_TaskYield, LOS_TaskLock, LOS_TaskUnlock, Scheduling
    <3> QED BY <3>1, <1>t
  <2>4. ASSUME NEW n \in Tasks, LOS_TaskDelete(t, n)
        PROVE  NobodyReturns'
    <3>1. pc' = pc \/ pc' = [pc EXCEPT ![n] = "none"]
      BY <2>4 DEF LOS_TaskDelete, Discard, Fault
    <3> QED BY <3>1, <1>t
  <2> QED BY <1>2, <2>1, <2>2, <2>3, <2>4 DEF TaskCall
<1>3. ASSUME NEW t \in Tasks, TaskInternal(t)
      PROVE  NobodyReturns'
  <2>1. CASE LOS_Schedule(t)
    <3>1. AfterSchedule(pc[t]) \in {"app", "tail"}
      BY <2>1 DEF LOS_Schedule, AfterSchedule
    <3> QED BY <2>1, <3>1, <1>t DEF LOS_Schedule
  <2>2. ~JoinableLeave(t) /\ ~JoinableUnlock(t) /\ ~RunOffEnd(t)
    BY DEF JoinableLeave, JoinableUnlock, RunOffEnd
  <2> QED BY <1>3, <2>1, <2>2 DEF TaskInternal
<1>4. CASE Tick
  BY <1>4 DEF Tick, TickBegin, TickExpire, TickEnd, Fault
<1>5. CASE UNCHANGED taskVars
  BY <1>5 DEF taskVars
<1> QED BY <1>1, <1>2, <1>3, <1>4, <1>5 DEF TaskNext

\* Where the CPU goes to another task, that one is ready.
LEMMA RunGoesOn ==
  ASSUME Consistent, Consistent', [TaskNext]_taskVars
  PROVE  \/ /\ run' = run /\ (scheduled' => scheduled)
            /\ scheduled /\ pc'[run] = "none" => pc[run] = "none"
         \/ ~scheduled'
         \/ run' \in Tasks /\ "ready" \in status'[run']
<1> DEFINE Goes == run' \in Tasks /\ "ready" \in status'[run']
           Stays == /\ run' = run /\ (scheduled' => scheduled)
                    /\ scheduled /\ pc'[run] = "none" => pc[run] = "none"
<1> SUFFICES Stays \/ ~scheduled' \/ Goes
  OBVIOUS
<1>t. /\ pc \in [Tasks -> Pcs] /\ status \in [Tasks -> SUBSET Flags]
      /\ scheduled => run \in Tasks
  BY DEF Consistent, TypeInv, TypeOK
<1>s. SwitchTo(lists') => Goes
  BY SwitchFindsReady DEF Consistent
<1> HIDE DEF Goes
<1>d. ASSUME NEW n \in Tasks, Discard(n), scheduled' = scheduled
      PROVE  Stays \/ Goes
  <2>1. CASE n = run
    BY <1>d, <1>s, <2>1 DEF Discard
  <2>2. CASE n # run
    BY <1>d, <2>2, <1>t DEF Discard
  <2> QED BY <2>1, <2>2
<1>1. CASE Boot
  <2>1. ASSUME NEW n \in Tasks, NEW p \in Priorities, NEW d \in Detached,
               BootCreate(n, p, d)
        PROVE  ~scheduled'
    BY <2>1 DEF BootCreate
  <2>2. CASE Start
    BY <2>2, <1>s DEF Start
  <2> QED BY <1>1, <2>1, <2>2 DEF Boot
<1>2. ASSUME NEW t \in Tasks, TaskCall(t)
      PROVE  Stays \/ Goes
  <2>1. CASE \E n \in Tasks, p \in Priorities, d \in Detached :
               LOS_TaskCreate(t, n, p, d) \/ LOS_TaskCreateOnly(t, n, p, d)
    BY <2>1, <1>t DEF LOS_TaskCreate, LOS_TaskCreateOnly
  <2>2. CASE \/ \E n \in Tasks : LOS_TaskResume(t, n) \/ LOS_TaskSuspend(t, n)
             \/ \E n \in Tasks, p \in Priorities : LOS_TaskPriSet(t, n, p)
             \/ \E k \in Timeouts : LOS_TaskDelay(t, k)
             \/ LOS_TaskYield(t) \/ LOS_TaskLock(t) \/ LOS_TaskUnlock(t)
             \/ JoinableReturn(t)
    <3>1. /\ run' = run /\ scheduled' = scheduled
          /\ \/ pc' = pc \/ pc' = [pc EXCEPT ![t] = "sched"]
             \/ pc' = [pc EXCEPT ![t] = "leave"]
      BY <2>2 DEF LOS_TaskResume, LOS_TaskSuspend, LOS_TaskPriSet, LOS_TaskDelay,
        LOS_TaskYield, LOS_TaskLock, LOS_TaskUnlock, Scheduling, JoinableReturn
    <3> QED BY <3>1, <1>t
  <2>3. ASSUME NEW n \in Tasks, LOS_TaskDelete(t, n)
        PROVE  Stays \/ Goes
    BY <2>3, <1>d DEF LOS_TaskDelete, Fault
  <2>4. CASE DetachedReturn(t)
    BY <2>4, <1>d DEF DetachedReturn
  <2> QED BY <1>2, <2>1, <2>2, <2>3, <2>4 DEF TaskCall
<1>3. ASSUME NEW t \in Tasks, TaskInternal(t)
      PROVE  Stays \/ Goes
  <2>1. CASE LOS_Schedule(t)
    <3>1. AfterSchedule(pc[t]) # "none" /\ lists' = lists /\ scheduled' = scheduled
      BY <2>1 DEF LOS_Schedule, AfterSchedule
    <3> QED BY <2>1, <3>1, <1>t, <1>s DEF LOS_Schedule
  <2>2. CASE JoinableLeave(t) \/ JoinableUnlock(t) \/ RunOffEnd(t)
    BY <2>2, <1>t DEF JoinableLeave, JoinableUnlock, RunOffEnd, Fault
  <2> QED BY <1>3, <2>1, <2>2 DEF TaskInternal
<1>4. CASE Tick
  BY <1>4, <1>s DEF Tick, TickBegin, TickExpire, TickEnd, Fault
<1>5. CASE UNCHANGED taskVars
  BY <1>5 DEF taskVars
<1> QED BY <1>1, <1>2, <1>3, <1>4, <1>5 DEF TaskNext

LEMMA NextPlaced ==
  Consistent /\ Consistent' /\ NeverPends /\ Placed /\ [TaskNext]_taskVars => Placed'
<1> SUFFICES ASSUME Consistent, Consistent', NeverPends, Placed, [TaskNext]_taskVars
             PROVE  Placed'
  OBVIOUS
<1>1. FreeIsOut'
  BY StepLeaves DEF Placed
<1>2. scheduled' => pc'[run'] # "none"
  <2>1. ASSUME run' \in Tasks, "ready" \in status'[run']
        PROVE  pc'[run'] # "none"
    <3>1. "unused" \notin status'[run']
      BY <2>1 DEF Consistent, States, OneState
    <3> QED BY <1>1, <2>1, <3>1 DEF FreeIsOut
  <2>2. scheduled => pc[run] # "none"
    BY DEF Placed
  <2> QED BY <2>1, <2>2, RunGoesOn
<1>3. ASSUME "priset" \notin Calls, NEW t \in Tasks, pc'[t] # "none"
      PROVE  prio'[t] \in OwnPrios(t)
  <2>1. \/ prio'[t] \in CreatePrio[t]
        \/ pc[t] # "none" /\ prio'[t] = prio[t]
    BY <1>3, PriosLeft
  <2> QED BY <1>3, <2>1 DEF Placed, OwnPrios
<1> QED BY <1>1, <1>2, <1>3 DEF Placed

\* A queue the running task has left is no longer than one, so that the time
\* slice does not yield for it.
LEMMA PairYields ==
  ASSUME Consistent, Placed, PairsOnly, scheduled, SliceYields
  PROVE  Linked(run)
<1> SUFFICES ASSUME ~Linked(run) PROVE FALSE
  OBVIOUS
<1>t. /\ run \in Tasks /\ pc[run] # "none" /\ prio[run] \in OwnPrios(run)
      /\ prio[run] \in Priorities /\ prio[run] \in Lists
      /\ Matches(lists, status, prio)
  BY ListsAreLists DEF Consistent, TypeInv, TypeOK, Placed, PairsOnly
<1>0. PICK s \in Seq(Tasks) : s = lists[prio[run]] /\ IsInjective(s)
  BY <1>t DEF Matches, Nodes
<1>1. /\ Len(s) > 1 /\ DOMAIN s = 1 .. Len(s) /\ Len(s) \in Nat
  BY <1>0 DEF SliceYields
<1>2. 1 \in DOMAIN s /\ 2 \in DOMAIN s /\ s[1] # s[2]
  BY <1>0, <1>1 DEF IsInjective
<1>3. ASSUME NEW i \in DOMAIN s
      PROVE  s[i] \in Tasks /\ s[i] # run /\ prio[run] \in OwnPrios(s[i])
  <2>1. s[i] \in Tasks /\ s[i] \in Range(s)
    BY <1>1 DEF Range
  <2>2. s[i] # run
    BY <1>0, <1>t, <2>1 DEF Linked
  <2>3. "ready" \in status[s[i]] /\ prio[s[i]] = prio[run]
    BY <1>0, <1>t, <2>1 DEF Matches, Fits
  <2>4. "unused" \notin status[s[i]]
    BY <2>1, <2>3 DEF Consistent, States, OneState
  <2>5. pc[s[i]] # "none"
    BY <2>1, <2>4 DEF Placed, FreeIsOut
  <2> QED BY <2>1, <2>2, <2>3, <2>5 DEF Placed, PairsOnly
<1> QED BY <1>t, <1>2, <1>3 DEF PairsOnly

LEMMA NextNoFault ==
  ASSUME TimesliceTimeout = 0 \/ PairsOnly, "return" \notin Calls
  PROVE  Consistent /\ NeverPends /\ Placed /\ NobodyReturns /\ NoFault
           /\ [TaskNext]_taskVars => NoFault'
<1> SUFFICES ASSUME Consistent, NeverPends, Placed, NobodyReturns, NoFault,
                    [TaskNext]_taskVars
             PROVE  NoFault'
  OBVIOUS
<1> USE DEF NoFault
<1>1. CASE Boot
  BY <1>1 DEF Boot, BootCreate, Start
<1>2. ASSUME NEW t \in Tasks, TaskCall(t)
      PROVE  NoFault'
  <2>1. ASSUME NEW n \in Tasks, LOS_TaskDelete(t, n)
        PROVE  NoFault'
    <3>1. ~isr.active
      BY <2>1 DEF LOS_TaskDelete, CanCall, Running
    <3>2. n \notin isr.due /\ "timeout" \notin status[n]
      BY <3>1 DEF Consistent, Timers, DueInv, NeverPends
    <3>3. status[n] \cap {"delay", "timeout"} # {} => timer[n] # 0
      <4>1. "delay" \in status[n] => timer[n] > 0
        BY <3>2 DEF Consistent, Timers, TimerMatchesFlags
      <4> QED BY <3>2, <4>1
    <3> QED BY <2>1, <3>3 DEF LOS_TaskDelete
  <2>2. CASE \/ \E n \in Tasks : LOS_TaskResume(t, n) \/ LOS_TaskSuspend(t, n)
             \/ \E n \in Tasks, p \in Priorities, d \in Detached :
                  LOS_TaskCreate(t, n, p, d) \/ LOS_TaskCreateOnly(t, n, p, d)
             \/ \E n \in Tasks, p \in Priorities : LOS_TaskPriSet(t, n, p)
             \/ \E k \in Timeouts : LOS_TaskDelay(t, k)
             \/ LOS_TaskYield(t) \/ LOS_TaskLock(t) \/ LOS_TaskUnlock(t)
             \/ DetachedReturn(t) \/ JoinableReturn(t)
    BY <2>2 DEF LOS_TaskResume, LOS_TaskSuspend, LOS_TaskCreate,
      LOS_TaskCreateOnly, LOS_TaskPriSet, LOS_TaskDelay, LOS_TaskYield,
      LOS_TaskLock, LOS_TaskUnlock, DetachedReturn, JoinableReturn
  <2> QED BY <1>2, <2>1, <2>2 DEF TaskCall
<1>3. ASSUME NEW t \in Tasks, TaskInternal(t)
      PROVE  NoFault'
  <2>1. ~RunOffEnd(t)
    BY DEF NobodyReturns, RunOffEnd
  <2> QED BY <1>3, <2>1 DEF TaskInternal, LOS_Schedule, JoinableLeave, JoinableUnlock
<1>4. CASE Tick
  <2>1. CASE TickBegin
    <3>1. TimesliceTimeout = 0 => ~SliceYields
      BY DEF SliceYields, SliceOver
    <3>2. ~(SliceYields /\ ~Linked(run))
      BY <2>1, <3>1, PairYields DEF TickBegin
    <3> QED BY <2>1, <3>2 DEF TickBegin
  <2> QED BY <1>4, <2>1 DEF Tick, TickExpire, TickEnd
<1>5. CASE UNCHANGED taskVars
  BY <1>5 DEF taskVars
<1> QED BY <1>1, <1>2, <1>3, <1>4, <1>5 DEF TaskNext

\* The scheduler alone never takes out a node that is not linked: a delayed
\* task that is deleted still has its timer, whatever suspended or resumed it
\* before.  Tasks that return are excluded, for a finished task somebody
\* resumes runs off its end; and with a time slice no three tasks may share a
\* priority, for otherwise the slice yields for a task that has just left the
\* queue to sleep.
THEOREM NothingBreaks ==
  ASSUME TimesliceTimeout = 0 \/ PairsOnly, "return" \notin Calls
  PROVE  TaskSpec => []NoFault
<1>1. Init => Placed /\ NobodyReturns /\ NoFault
  BY DEF Init, Placed, FreeIsOut, NobodyReturns, OwnPrios, NoFault
<1>2. Consistent /\ NobodyReturns /\ [TaskNext]_taskVars => NobodyReturns'
  BY NextNobodyReturns
<1> QED BY AlwaysConsistent, NextPlaced, NextNoFault, <1>1, <1>2, PTL DEF TaskSpec
=============================================================================
