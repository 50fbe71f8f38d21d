------------------------------ MODULE LosQueue ------------------------------
(***************************************************************************)
(* The message queues of LiteOS_Kernel (los_queue.c) on the scheduler of   *)
(* LosTask.  A read that serves a waiting writer does not count the slot   *)
(* as writable again, and a write that serves a waiting reader does not    *)
(* count the message as readable: the slot, or the message, is kept for    *)
(* the task that was woken, which uses the queue's head or tail when it    *)
(* gets the CPU.                                                           *)
(***************************************************************************)
EXTENDS LosWait, FiniteSets

CONSTANTS
  Queues,         \* the control blocks of g_pstAllQueue
  ReadList,       \* the wait list stReadList of each
  WriteList,      \* and stWriteList
  Lengths,        \* the lengths queues are created with
  Messages,       \* the words that are written
  QueueTimeouts,  \* the waiting times of the application
  HandlerQueues   \* the queues an interrupt handler reads and writes

ASSUME QueueAssumption ==
  /\ IsFiniteSet(Tasks)
  /\ ReadList \in [Queues -> WaitObjects]
  /\ WriteList \in [Queues -> WaitObjects]
  /\ \A q, r \in Queues :
       /\ ReadList[q] # WriteList[r]
       /\ q # r => ReadList[q] # ReadList[r] /\ WriteList[q] # WriteList[r]
  /\ None \notin Queues \cup Messages
  /\ Lengths \subseteq Nat \ {0}
  /\ QueueTimeouts \subseteq 1 .. LOS_WAIT_FOREVER
  /\ HandlerQueues \subseteq Queues

VARIABLES
  queue,    \* the QUEUE_CB_S of each queue; length 0: OS_QUEUE_UNUSED
  store,    \* pucQueue: the message in each slot, None once it was read
  request,  \* what a task inside LOS_QueueRead or LOS_QueueWrite asked for
  out       \* history: the message the last read delivered

queueVars == <<queue, store, request, out>>

NoRequest == [op |-> "none", queue |-> None, msg |-> None]
Unused == [length |-> 0, readable |-> 0, writable |-> 0, head |-> 0, tail |-> 0]

QueueInit ==
  /\ queue = [q \in Queues |-> Unused]
  /\ store = [q \in Queues |-> <<>>]
  /\ request = [t \in Tasks |-> NoRequest]
  /\ out = None

-----------------------------------------------------------------------------
LOS_QueueCreate(q, n) ==
  /\ ~scheduled \/ \E t \in Tasks : CanCall(t, "queue_create")
  /\ queue[q].length = 0
  /\ queue' = [queue EXCEPT ![q] = [Unused EXCEPT !.length = n, !.writable = n]]
  /\ store' = [store EXCEPT ![q] = [i \in 0 .. n - 1 |-> None]]
  /\ UNCHANGED <<taskVars, request, out>>

\* Nobody may wait, and no slot may be on its way to a task that was woken.
MutDeletable(q) == lists[ReadList[q]] = <<>> /\ lists[WriteList[q]] = <<>>
Deletable(q) ==
  /\ lists[ReadList[q]] = <<>>
  /\ lists[WriteList[q]] = <<>>
  /\ queue[q].writable + queue[q].readable = queue[q].length

LOS_QueueDelete(t, q) ==
  /\ CanCall(t, "queue_delete")
  /\ queue[q].length > 0
  /\ Deletable(q)
  /\ queue' = [queue EXCEPT ![q] = Unused]
  /\ store' = [store EXCEPT ![q] = <<>>]
  /\ UNCHANGED <<taskVars, request, out>>

-----------------------------------------------------------------------------
(***************************************************************************)
(* The two ends of the queue.                                              *)
(***************************************************************************)

\* The index after i.
After(q, i) == IF i + 1 = queue[q].length THEN 0 ELSE i + 1

\* The waiter that osQueueWakeUp serves, if any.
Served(l) == IF lists[l] = <<>> THEN {} ELSE {Head(lists[l])}

\* What a finished read adds to usWritableCnt, a finished write to
\* usReadableCnt: nothing when it served somebody.
MutFreed(l) == 1
Freed(l) == IF lists[l] = <<>> THEN 1 ELSE 0

\* Taking the message at the head; used is what usReadableCnt loses.
TakeHead(q, used) ==
  /\ out' = store[q][queue[q].head]
  /\ queue' = [queue EXCEPT ![q].readable = @ - used,
                            ![q].head = After(q, @),
                            ![q].writable = @ + Freed(WriteList[q])]
  /\ store' = [store EXCEPT ![q][queue[q].head] = None]
  /\ EndWaits(WriteList[q], Served(WriteList[q]))

PutTail(q, m, used) ==
  /\ store' = [store EXCEPT ![q][queue[q].tail] = m]
  /\ queue' = [queue EXCEPT ![q].writable = @ - used,
                            ![q].tail = After(q, @),
                            ![q].readable = @ + Freed(ReadList[q])]
  /\ EndWaits(ReadList[q], Served(ReadList[q]))
  /\ UNCHANGED out

-----------------------------------------------------------------------------
(***************************************************************************)
(* The calls.  One with LOS_NO_WAIT, or under the scheduler lock, that     *)
(* would have to wait fails and changes nothing.                           *)
(***************************************************************************)
ReadNow(t, q) ==
  /\ CanCall(t, "queue_read")
  /\ queue[q].readable > 0
  /\ TakeHead(q, 1)
  /\ TaskGoesOn(t, Served(WriteList[q]))
  /\ UNCHANGED request

WriteNow(t, q, m) ==
  /\ CanCall(t, "queue_write")
  /\ queue[q].writable > 0
  /\ PutTail(q, m, 1)
  /\ TaskGoesOn(t, Served(ReadList[q]))
  /\ UNCHANGED request

\* osQueuePend: in front of the first waiter of lower priority.
MutPlace(t, l) == 1
Place(t, l) ==
  LET lower == {i \in DOMAIN lists[l] : prio[t] < prio[lists[l][i]]} IN
    IF lower = {} THEN Len(lists[l]) + 1
    ELSE CHOOSE i \in lower : \A j \in lower : i <= j

QueuePend(t, l, k) ==
  /\ lock = 0
  /\ lists' = [Unlink(lists, t) EXCEPT ![l] = InsertAt(@, Place(t, l), t)]
  /\ BeginWait(t, k)
  /\ UNCHANGED <<queue, store, out>>

ReadWait(t, q, k) ==
  /\ CanCall(t, "queue_read")
  /\ queue[q].length > 0
  /\ queue[q].readable = 0
  /\ QueuePend(t, ReadList[q], k)
  /\ request' = [request EXCEPT ![t] = [op |-> "read", queue |-> q, msg |-> None]]

WriteWait(t, q, m, k) ==
  /\ CanCall(t, "queue_write")
  /\ queue[q].length > 0
  /\ queue[q].writable = 0
  /\ QueuePend(t, WriteList[q], k)
  /\ request' = [request EXCEPT ![t] = [op |-> "write", queue |-> q, msg |-> m]]

\* Back from LOS_Schedule.
Back(t, op) ==
  /\ Running(t)
  /\ pc[t] = "tail"
  /\ request[t].op = op
  /\ request' = [request EXCEPT ![t] = NoRequest]

QueueTimeout(t) ==
  /\ \E op \in {"read", "write"} : Back(t, op)
  /\ "timeout" \in status[t]
  /\ status' = [status EXCEPT ![t] = @ \ {"timeout"}]
  /\ TaskGoesOn(t, {})
  /\ UNCHANGED <<lists, timer, queue, store, out>>

ReadWoken(t) ==
  /\ Back(t, "read")
  /\ "timeout" \notin status[t]
  /\ TakeHead(request[t].queue, 0)
  /\ TaskGoesOn(t, Served(WriteList[request[t].queue]))

WriteWoken(t) ==
  /\ Back(t, "write")
  /\ "timeout" \notin status[t]
  /\ PutTail(request[t].queue, request[t].msg, 0)
  /\ TaskGoesOn(t, Served(ReadList[request[t].queue]))

\* An interrupt handler may not wait.
HandlerRead(q) ==
  /\ InHandler
  /\ queue[q].readable > 0
  /\ TakeHead(q, 1)
  /\ HandlerGoesOn(Served(WriteList[q]))
  /\ UNCHANGED request

HandlerWrite(q, m) ==
  /\ InHandler
  /\ queue[q].writable > 0
  /\ PutTail(q, m, 1)
  /\ HandlerGoesOn(Served(ReadList[q]))
  /\ UNCHANGED request

-----------------------------------------------------------------------------
QueueCall(t) ==
  \E q \in Queues :
    \/ LOS_QueueDelete(t, q)
    \/ ReadNow(t, q)
    \/ \E m \in Messages : WriteNow(t, q, m)
    \/ \E k \in QueueTimeouts :
         \/ ReadWait(t, q, k)
         \/ \E m \in Messages : WriteWait(t, q, m, k)

QueueReturn(t) == QueueTimeout(t) \/ ReadWoken(t) \/ WriteWoken(t)

QueueHandler ==
  \E q \in HandlerQueues :
    HandlerRead(q) \/ \E m \in Messages : HandlerWrite(q, m)

QueueStep ==
  \/ \E q \in Queues, n \in Lengths : LOS_QueueCreate(q, n)
  \/ \E t \in Tasks : QueueCall(t) \/ QueueReturn(t)
  \/ QueueHandler

\* A task whose control block is given back has no request any more.
RequestsKept ==
  request' = [t \in Tasks |-> IF pc'[t] = "none" THEN NoRequest ELSE request[t]]
-----------------------------------------------------------------------------
(***************************************************************************)
(* Properties.                                                             *)
(***************************************************************************)

\* The tasks that were woken to do op on q and have not done it yet.
Woken(q, op) ==
  {t \in Tasks : /\ request[t].op = op
                 /\ request[t].queue = q
                 /\ status[t] \cap {"pend", "timeout"} = {}}

\* The messages the queue holds, those kept for a woken reader included.
Held(q) == queue[q].readable + Cardinality(Woken(q, "read"))

\* Slots are neither lost nor used twice: each is free, or kept for a writer
\* that was woken, or holds a message, and the messages lie between head and
\* tail.  (As long as no task is deleted between its wake-up and its return.)
SlotsAddUp ==
  \A q \in Queues : LET c == queue[q] IN
    /\ Held(q) + c.writable + Cardinality(Woken(q, "write")) = c.length
    /\ c.length > 0 => (c.head + Held(q)) % c.length = c.tail

\* Nobody sleeps in front of what he needs: readers wait only while no message
\* is readable, writers only while no slot is writable, each in its list and
\* inside the call, and, as long as priorities are not changed meanwhile, the
\* most urgent first.
WaitersInLine ==
  \A q \in Queues :
    LET readers == lists[ReadList[q]]
        writers == lists[WriteList[q]]
    IN /\ readers # <<>> => queue[q].length > 0 /\ queue[q].readable = 0
       /\ writers # <<>> => queue[q].length > 0 /\ queue[q].writable = 0
       /\ \A i \in DOMAIN readers :
            request[readers[i]].op = "read" /\ request[readers[i]].queue = q
       /\ \A i \in DOMAIN writers :
            request[writers[i]].op = "write" /\ request[writers[i]].queue = q
       /\ \A s \in {readers, writers} : \A i, j \in DOMAIN s :
            i < j => prio[s[i]] <= prio[s[j]]

\* The queues as FifoSpec sees them.
Fifo == INSTANCE FifoSpec WITH
  length <- [q \in Queues |-> queue[q].length],
  msgs <- [q \in Queues |->
             [i \in 1 .. Held(q) |->
                store[q][(queue[q].head + i - 1) % queue[q].length]]]

\* Whoever waits, is woken and overtakes whom: messages are read in the order
\* they were stored, each once, and none is overwritten before.
ImplementsFifo == Fifo!Spec
=============================================================================
