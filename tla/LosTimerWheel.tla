--------------------------- MODULE LosTimerWheel ---------------------------
(***************************************************************************)
(* The timer wheel of los_task.c: g_stTskSortLink.  A task waits in the    *)
(* bucket the cursor reaches at the tick its time is over, and its rounds  *)
(* are counted from the task before it in the bucket.                      *)
(*                                                                         *)
(* Each function runs with interrupts locked, or in the tick's handler.    *)
(* What is left in uwIdxRollNum of a task that no longer waits is not read *)
(* again; here it is 0.                                                    *)
(***************************************************************************)
EXTENDS Integers, Sequences, SequencesExt

CONSTANTS
  Tasks,
  Length,      \* OS_TSK_SORTLINK_LEN
  MaxTimeout   \* the longest time asked for

ASSUME WheelAssumption == Length \in Nat \ {0} /\ MaxTimeout \in Nat

VARIABLES
  cursor,    \* usCursor
  sortLink,  \* pstSortLink: the tasks of each bucket
  index,     \* UWSORTINDEX of a task
  rounds     \* UWROLLNUM of a task

vars == <<cursor, sortLink, index, rounds>>

Buckets == 0 .. Length - 1

\* osTaskInit
Init ==
  /\ cursor = 0
  /\ sortLink = [i \in Buckets |-> <<>>]
  /\ index = [t \in Tasks |-> 0]
  /\ rounds = [t \in Tasks |-> 0]

-----------------------------------------------------------------------------
\* The rounds up to and with the j-th task of a bucket.
Total(s, j) == FoldLeft(LAMBDA n, t : n + rounds[t], 0, SubSeq(s, 1, j))

\* How often the cursor passes the bucket before it is time: a multiple of the
\* length ends in the cursor's own bucket, one round earlier.
MutRounds(k) == k \div Length
Rounds(k) == IF k % Length > 0 THEN k \div Length ELSE k \div Length - 1

\* The new task goes behind those whose time is over no later.
Place(s, r) == Cardinality({j \in DOMAIN s : Total(s, j) <= r}) + 1

Waits(t) == \E i \in Buckets : t \in Range(sortLink[i])

\* What the next task waits is counted from the new one.
Following(s, n, rest) ==
  IF n > Len(s) THEN rounds ELSE [rounds EXCEPT ![s[n]] = @ - rest]

osTaskAdd2TimerList(t, k) ==
  LET i    == ((k % Length) + cursor) % Length
      s    == sortLink[i]
      n    == Place(s, Rounds(k))
      rest == Rounds(k) - Total(s, n - 1)
  IN  /\ ~Waits(t)
      /\ index' = [index EXCEPT ![t] = i]
      /\ rounds' = [Following(s, n, rest) EXCEPT ![t] = rest]
      /\ sortLink' = [sortLink EXCEPT ![i] = InsertAt(s, n, t)]
      /\ UNCHANGED cursor

\* The next task takes over the rounds of the one that leaves.
Inherited(s, n) ==
  IF n = Len(s) THEN rounds ELSE [rounds EXCEPT ![s[n + 1]] = @ + rounds[s[n]]]

osTimerListDelete(t) ==
  LET s == sortLink[index[t]]
      n == CHOOSE j \in DOMAIN s : s[j] = t
  IN  /\ Waits(t)
      /\ rounds' = [Inherited(s, n) EXCEPT ![t] = 0]
      /\ index' = [index EXCEPT ![t] = 0]
      /\ sortLink' = [sortLink EXCEPT ![index[t]] = RemoveAt(s, n)]
      /\ UNCHANGED cursor

\* The tasks whose time is over leave, the next has one round less to wait.
osTaskScan ==
  LET i   == (cursor + 1) % Length
      s   == sortLink[i]
      due == Cardinality({j \in DOMAIN s : Total(s, j) = 0})
  IN  /\ cursor' = i
      /\ sortLink' = [sortLink EXCEPT ![i] = SubSeq(s, due + 1, Len(s))]
      /\ rounds' = IF due = Len(s) THEN rounds
                   ELSE [rounds EXCEPT ![s[due + 1]] = @ - 1]
      /\ index' = [t \in Tasks |->
                     IF \E j \in 1 .. due : s[j] = t THEN 0 ELSE index[t]]

-----------------------------------------------------------------------------
Next ==
  \/ \E t \in Tasks :
       \/ \E k \in 1 .. MaxTimeout : osTaskAdd2TimerList(t, k)
       \/ osTimerListDelete(t)
  \/ osTaskScan

Spec == Init /\ [][Next]_vars
-----------------------------------------------------------------------------
(***************************************************************************)
(* Properties.                                                             *)
(***************************************************************************)

\* The ticks a task still waits.
TicksLeft(t) ==
  LET s == sortLink[index[t]]
      n == CHOOSE j \in DOMAIN s : s[j] = t
  IN  IF Waits(t)
      THEN ((index[t] - cursor - 1) % Length) + 1 + Length * Total(s, n)
      ELSE 0

\* The timers as TimerSpec sees them.
Timers == INSTANCE TimerSpec WITH left <- [t \in Tasks |-> TicksLeft(t)]

\* Whoever shares its bucket, joins it or is taken out of it, a task is woken
\* at the tick it asked for: the wheel is the ticks that LosTask counts.
ImplementsTimers == Timers!Spec
=============================================================================
