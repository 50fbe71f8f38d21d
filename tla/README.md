# TLA+ models of iot-codelabs

The repository holds two embedded programs and a web tutorial:

- `1-nbiot-liteos-oceanconnect`: an STM32L476 node that runs **LiteOS_Kernel**,
  a small preemptive real-time kernel, and on it drivers (UART, SPI Ethernet,
  the BC95 NB-IoT modem), a UDP stack, CoAP and **AgentTiny**, the client of the
  OceanConnect platform.
- `2-eciot-agentlite-oceanconnect`: a Linux gateway, one C file (`demo.c`) of
  callbacks around a closed agent library, and two vendored libraries.
- `3-webapp-nodejs-oceanconnect`: text only.

The specifications below model the code under `LiteOS_Kernel` first, because
everything else runs on it and because its hazards (a tick interrupt at every
point, one list node per task for all lists, waits that race their time limit)
are the ones tests do not reach.

## Inventory

Paths are relative to
`src/1-nbiot-liteos-oceanconnect/miniprojects/LiteOS_ThunderSoft_STM32FL476VETx/`.

| Part | State | Operations | Interacts with | What makes it correct |
|---|---|---|---|---|
| Scheduler `LiteOS_Kernel/base/core/los_task.c`, `los_priqueue.c`, `los_tick.c`, `los_timeslice.c`, `cpu/arm/cortex-m4` | TCBs (flags, priority, list nodes), priority queue, timer wheel, running task, scheduler lock, slice | create, delete, suspend, resume, delay, yield, set priority, lock, unlock, tick, switch | every other kernel part, through the TCB flags and `LOS_Schedule` | node, flags, timer and queue agree; the highest ready task runs; nobody is forgotten |
| Mutex `base/ipc/los_mux.c` | count, owner, saved priority, wait list | create, delete, pend, post | scheduler; changes the owner's priority | exclusion, FIFO hand-over, no lost grant, lent priorities come back |
| Semaphore `base/ipc/los_sem.c` | count, wait list | create, delete, pend, post (from tasks and interrupts) | scheduler, interrupts, UART and UDP drivers | no lost or doubled token, FIFO |
| Event `base/ipc/los_event.c` | event word, wait list; mask and mode of each waiter | init, read, poll, write, clear, destroy | scheduler, interrupts | no lost wake-up |
| Queue `base/ipc/los_queue.c` | ring of slots, readable and writable counts, two wait lists by priority | create, delete, read, write | scheduler, interrupts, software timers | slots are used once, messages first in first out, the most urgent waiter first |
| Timer wheel `los_task.c` (`osTaskAdd2TimerList`, `osTimerListDelete`, `osTaskScan`) | cursor, buckets, rounds relative to the task before | add, delete, scan | scheduler, tick | a task is woken at the tick it asked for |
| Software timers `base/core/los_swtmr.c` | list of ticking timers, each counting from the one before; handler queue and pool | create, start, stop, delete, expire, handler task | tick, queue, membox | a timer is due at its tick; a control block is in one list; no expiry is lost while the handler task keeps up |
| Memory `base/mem/los_memory.c`, `los_membox.c` | nodes that tile the pool, lists of free ones by size | alloc, alloc aligned, free, realloc | all | blocks are disjoint, free neighbours merged, what fits is found |
| UART driver `SYSTEM/los_dev_st_uart.c` | two halves of a buffer, read position and count, semaphores | receive and idle interrupts, read, write | semaphores, BC95 driver | bytes are read in order, once, and only a swap of the halves loses any; no reader sleeps beside them |
| UDP ring `LiteOS_Netport/microtcpip/udp_coap_interface.c` | ring of 4 packets, two semaphores | stack task, read | semaphores, CoAP task | packets FIFO, none read twice |
| CoAP port `LiteOS_Netport/microcoap/coap_liteos_port.c` | packet pool, task per socket | malloc, free, receive task, send | tasks, UDP ring, AgentTiny | a packet has one user |
| AgentTiny `LiteOS_Netport/agenttiny/Agenttiny.c` | bind flag, token, output buffer | bind, report, receive, reset | CoAP port, sensor task | a report carries the token of the binding in force |
| BC95 driver `HAREWARE/bc95/neul_bc95.c` | command buffer, socket table | AT command and answer | UART driver | an answer belongs to its command |
| Gateway `2-eciot-agentlite-oceanconnect/miniprojects/src/demo.c` | login flag, files, device id | bind, login, add device, command callbacks | cloud library | commands only when logged in |
| HAL, CMSIS, libmodbus, rs232 | - | - | - | third-party, left out |

The hard behaviour: interrupts between any two instructions outside
`LOS_IntLock`; the window between `LOS_IntRestore` and `LOS_Schedule` in every
blocking call; calls of one task on another that is inside a call; time limits
that run out while the event they guard happens; control blocks deleted and used
again; lost datagrams and answers.

## Modules

| Module | Models |
|---|---|
| `LosTask` | the scheduler: TCBs, priority queue, timer, lock, tick, switch, time slice |
| `LosTaskProofs` | its theorems |
| `LosTimerWheel` | the buckets and rounds behind the timer of `LosTask` |
| `TimerSpec` | ticks counted down one by one: `LosTimerWheel` implements it (checked), and so does the timer of `LosTask` (proved) |
| `LosMux` | `los_mux.c`, extending `LosTask` |
| `LosMuxProofs` | its theorems |
| `MutexSpec` | what `los_mux.h` promises: a recursive FIFO lock; `LosMux` implements it |
| `LosSem` | `los_sem.c`, extending `LosTask`, posted by tasks and by interrupt handlers |
| `LosSemProofs` | its theorems |
| `SemSpec` | a counter with a first-come first-served queue; `LosSem` implements it |
| `LosWait` | how a call begins a wait in a list and how a wait is ended, shared by the next two |
| `LosQueue` | `los_queue.c`, extending `LosWait` |
| `FifoSpec` | a bounded first-in first-out buffer; `LosQueue` implements it |
| `LosEvent` | `los_event.c`, extending `LosWait` |
| `LosIpc` | queues and events together on one scheduler |
| `LosIpcProofs` | its theorems |
| `LosSwtmr` | `los_swtmr.c`: the list of timers, the tick, the handler queue and task |
| `LosSwtmrProofs` | its theorems |
| `LosMemory` | `los_memory.c`: nodes, free lists, split and merge |
| `LosMemoryProofs` | its theorems |
| `LosUart` | the receiving side of `los_dev_st_uart.c` |
| `LosUartProofs` | its theorems |
| `UdpRing` | the receive ring of `udp_coap_interface.c` between the Ethernet and the CoAP task, on counting semaphores |
| `UdpRingProofs` | its theorems |
| `MCLosTask`, `MCLosMux`, `MCLosSem`, `MCLosIpc`, `MCLosTimerWheel`, `MCLosSwtmr`, `MCLosMemory`, `MCLosUart`, `MCUdpRing` | the instances TLC checks |

A definition named `Mut...` in front of another is a faulty variant of it that no
specification uses: put in its place, it breaks the property that is meant to
notice. Calls that fail change nothing and are left out everywhere.

### LosTask

*Steps.* A critical section (`LOS_IntLock` .. `LOS_IntRestore`) is one step. A
caller that goes on to `LOS_Schedule` stops in `pc = "sched"` (`"pend"` in an IPC
call, `"exit"` at the end of `osTaskEntry`), and `LOS_Schedule`, which decides and
takes the PendSV switch, is the next step of that task; the tick may come
between. The interrupt is `TickBegin` (slice check, all timers), one `TickExpire`
for each task whose time is over, and `TickEnd` (PendSV); tasks stand still
meanwhile. `LOS_TaskCreate`'s two critical sections are one step: the
handle of the new task is not known to anyone between them. A task that deletes
itself does not return, so the switch is part of the deletion.

A joinable task that returns leaves the ready queue under the scheduler lock with
interrupts open (`los_task.c:449`); its test of READY, the unlinking and the clearing of the
flag are one step, `JoinableLeave`. The lock keeps every other task out, and the tick does
not read the flag of the task that runs. Two things a finer grain could show are left out:
the end of a time slice there (the run in which tasks return has none), and a tick that wakes
another task into the same list between the two writes of `LOS_ListDelete`, since lists are
sequences here.

*State.* `status` is `usTaskStatus` as a set of flags, without RUNNING, which is
`run = t`; PEND and PEND_QUEUE are one flag, since no code tells them apart. `lists`
maps each priority queue and each wait list to its order; a TCB has a single
`stPendList` node, so `Unlink` removes the task from whatever list it is in, as
`LOS_ListDelete` does. `timer` is the number of ticks until the timer wheel reaches
the task (tasks due at one tick wake in any order). `lock` is `g_usLosTaskLock`,
`slice` the time slice record. `fault` records how the kernel stops: following a
NULL list node that `LOS_ListDelete` left (`"unlink"`), or `osTaskExit` (`"exit"`).

*Calls.* Which calls an application makes is the constant `Calls`; any task may
make any of them at any time with any argument. Where tasks do not return from
their functions, all are created joinable: only the return looks at DETACHED.

### LosTimerWheel

`cursor`, `sortLink`, `index` and `rounds` are `usCursor`, the buckets, `UWSORTINDEX` and
`UWROLLNUM`; the loops of the three functions are sums over a bucket (`Total`). The
refinement mapping reads the ticks left off the distance between cursor and bucket
and the rounds before the task. With `DelaysCounted` of `LosTaskProofs`
the wheel and the counter `timer` of `LosTask` are two implementations of one
specification.

### LosMux

`mux` holds the fields of `MUX_CB_S`, `lists[m]` its wait list, `handle` the local
variable of a task inside `LOS_MuxPend`. `held` is history: how often a task was
told `LOS_OK` and has not posted, which is what the caller believes; `Exclusion`
compares it with the control block. `LOS_MuxPend` is `MuxTake`, `MuxReenter`, or
`MuxBlock` - `LOS_Schedule` - `MuxReturn`; `LOS_MuxPost` is `MuxUnwind`, `MuxRelease`
or `MuxHandOver`. pThreadJoin is never set outside `los_task.c`, so the semaphore
post at the end of `osTaskEntry` is left out.

### LosSem

`sem` holds `SEM_CB_S`, `lists[s]` its wait list. `LOS_SemPend` is `SemTake`, or
`SemBlock` - `LOS_Schedule` - `SemReturn`; `LOS_SemPost` is `SemPost`, used by a task
(`TaskPost`, which may go on to `LOS_Schedule`) and by an interrupt handler
(`DevicePost`, at whose end PendSV switches; like the tick it does not nest).
`balance` is history: tokens put in by create and post and not yet taken by a call
that returned `LOS_OK`. `TokensKept` compares it with the counter and the tasks
that were woken and have not returned.

### LosQueue, LosEvent and LosIpc

`queue[q]` holds the counters and indices of `QUEUE_CB_S`, `store[q]` the slots, `request`
the arguments of a task inside `LOS_QueueRead` or `LOS_QueueWrite`. `LOS_QueueRead` is
`ReadNow`, or `ReadWait` - `LOS_Schedule` - `ReadWoken` or `QueueTimeout`; `HandlerRead`
is the same call from an interrupt handler, which may not wait. A read that serves
a waiting writer does not raise `usWritableCnt`: the slot is kept for the task it
woke, which uses the tail when it has the CPU (`SlotsAddUp` counts such tasks; between
wake-up and return others may fill and empty the ring around them). `out` is
history, the message last delivered. Slots carry one word, as the code copies one.

`event[e]` is `uwEventID` as a set of bits; `used` is the application's knowledge that it
has called `LOS_EventInit` and not `LOS_EventDestory`. Both calls are as the code has them,
without a look at the wait list; `EventCall` makes them only when `NobodyWaits`, which is what is
assumed of the application. `LOS_EventRead` is `EventTake`, or
`EventBlock` - `LOS_Schedule` - `EventReturn`, which polls again and may find nothing.

`LosIpc` runs both over one scheduler: a task may wait for either, and be suspended,
or woken by the tick or by an interrupt handler, at every point. When the scheduler
gives a control block back (`pc` becomes `"none"`) its arguments go with it.

### LosSwtmr

The loops of `osSwTmrStart` (the walk to the place of a timer) and of
`osSwTmrTimeoutHandle` (one turn per timer that is due) are steps, with `cs` saying
that interrupts are off: only the loop moves until it is over. `left` is history, a
clock for each timer that knows nothing of the list. `queued` and `pool` count what is
in the handler queue and free in its membox; `hand` is where `osSwTmrTask` is. Its
scheduling is not modelled beyond that: a tick may come at each of its points.
`behind` and `lost` are history about the last tick. `LOS_SwtmrCreate` takes a control block
with interrupts off and fills it with interrupts on: two steps, with the block in `taken`
between them. The generation that the expiry of a one-off timer adds to its ID
(`los_swtmr.c:283`) serves to reject old IDs, calls that change nothing. `osSwTmrAdjust` and `osSwTmrGetNextTimeout` are called by no code that is built.

### LosMemory

Addresses and sizes are in words, counted from the first node, which is at `Base` (this
matters to alignment only). `heap` is the pool: the node at each address and the
free lists by class; `held` is what the application has. Each step of the C functions
(`osMemMergeNode`, `osMemSpitNode`, `osMemFreeNode`, `osMemFindSuitableFreeBlock`) is an
operator from heap to heap, composed as the functions call each other. `LOS_MemRealloc`
keeps the contents by `memcpy` or in place; contents are not modelled, addresses and
extents are.

### LosUart

The n-th byte that comes in has the value n, so that order, loss and doubling
show. `rx` and `room` are `pRxBuffPtr` and `RxXferCount`, `at` and `readcnt` what the interrupt
shares with the reader, `rsem` the count of the semaphore. Every statement of
`los_dev_uart_read` that uses shared data is a step, and an interrupt may come between any two.
`Swap` is what both interrupts do when a half is ready, whatever the reader has left unread
and wherever it is: nothing in the driver prevents that, and its callers read parts of answers
(`neul_bc95.c:220`) and sleep between reads (`neul_bc95.c:408`). Frames are of any length, the one
that exactly fills a half included, behind which the idle interrupt hands over an empty half.

What a swap does is kept as history: `lost` has the bytes that were unread, and `torn` says that
a swap has fallen between a reader's look at `readcnt` and its last booking of what it took.
After that the code's count need not be that of the bytes: it may become negative, and the
`memcpy` of a negative count ends the behaviour (`pc = "fault"`). A finer grain, inside a statement,
would add more torn swaps and nothing else. A wait that the end of a slice cuts short (see
*UdpRing*) goes on as with a token of data already read, a case that is modelled.

### UdpRing

`unused`, `rhead`, `whead` are the fields of `g_ring_data`; `slot[i]` is buffer `i`
with its length, one value, since both sides cut at 256 bytes. `udp_stack_process`
and `udp_read_data` run in tasks of the same priority (10) that share the CPU in
time slices (`LOSCFG_BASE_CORE_TIMESLICE` is `YES`), so a step is what lies between
two accesses to shared data. `udp_client` calls `udp_read_data` again at once, with
0 bytes as with more. The semaphores are counters, which is what `SemSpec` says of
them and what `LosSem` keeps without time slices. With them there is the window of
`mux_window` in `LOS_SemPend` as well: the wait returns without a token, as if its time were over.
It opens only when two more tasks of the priority are ready, so not for these two alone, for
which everything is checked and proved (`Crowded = FALSE`). The program has other tasks
of priority 10 (the CoAP timer, the board demo): `UdpRing_crowded.cfg` shows that the ring's lock
fails then. Otherwise a wait for `g_udp_wsem` is not modelled as timing out, since its
holders need a few instructions and the limit is 65535 ticks. `g_udp_rsem` is created after
the Ethernet task, which may have stored packets by then: the posts made before
`CreateRsem` go to another semaphore. The CoAP task is started after that, and
after the Ethernet task has initialised the ring (`ocean_res_init` waits 300 ticks).
`queue` is the ghost: the payloads in the ring; `early` marks a copy made while no
payload was complete.

## Runs

| Run | Shows |
|---|---|
| `task_control` | three tasks do to each other everything `los_task.c` offers, with the tick at every point: lists, flags, timers, no task lost, the highest ready task running, and the scheduler lock |
| `task_slice` | two tasks of one priority with a slice of two ticks: delays end, the CPU is shared |
| `mux_forever` | three tasks of three priorities, one recursive mutex, waits without limit, suspend, resume, delay, mutex deletion: exclusion, priorities, refinement of `MutexSpec` |
| `mux_timed` | two recursive mutexes nested in every order, waits with and without limit, tasks deleted while they wait or own, control blocks used again: whoever is handed a mutex is told so, and `MutexSpec` is implemented all the same |
| `sem_shared` | two tasks and an interrupt handler on one semaphore, with limits, suspension, scheduler lock, creation and deletion: tokens, sleepers, refinement of `SemSpec`, and every wait ends while the device posts |
| `ipc_mixed` | two tasks and interrupt handlers on a queue and an event: slots, waiting order, no lost event, refinement of `FifoSpec` |
| `wheel_rounds` | four tasks on a wheel of four buckets: refinement of `TimerSpec` |
| `swtmr_delta` | three software timers, once and periodic, and the handler task: counts against clocks, one list for each block, no expiry dropped but behind an earlier one |
| `memory_pool` | three sizes, aligned and plain, allocated, freed and reallocated in every order: tiling, free lists, disjoint blocks, nothing refused that fits |
| `uart_frames` | frames shorter than, equal to and longer than a half, at any moment, readers of two sizes, blocking and polling: the bytes given are those of the line in order and once but for the unread ones of a swap, no sleeper beside bytes, every read ends |
| `udp_ring` | the four buffers of the ring, filled beyond their number: order, no overwriting, nobody sleeps beside a packet, every packet makes the reader take one |
| `mux_window` | ends in a violation of `Exclusion`: see below |

### What the code does not do

`mux_window`: the running task has queued itself on a mutex and left the ready queue when
its time slice ends, before `LOS_Schedule`: `osTimesliceCheck` yields for it, which moves
it from the wait list to the ready queue, and it returns with `LOS_OK` without the
mutex.

Seven configurations, kept beside the runs for the limits they show, end in the
violation of the property they name:

| Configuration | Property | What happens |
|---|---|---|
| `LosTask_yield.cfg` (`MCLosTask`) | `YieldsQueued` | the same window in `LOS_TaskDelay`: with three tasks on one level two are ready when the running one has left the queue, so the slice check calls `LOS_TaskYield`, which unlinks a node that is in no list, and `LOS_ListDelete` follows the NULL pointers the first deletion left; `los_task.h` says of `LOS_TaskYield` that it moves a task within its queue |
| `LosMux_expired.cfg` (`MCLosMux`) | `NoFault` | `LOS_TaskDelete` of a task whose limited wait has expired, and which has not run since, unlinks its timer a second time |
| `LosMux_inherit.cfg` (`MCLosMux`) | `OwnerInherits` | after a hand-over the new owner does not inherit the priority of the waiters that stay |
| `LosMux_unscheduled.cfg` (`MCLosMux`) | `RunIsTop` | a release that lowers the caller's priority does not reschedule |
| `LosUart_torn.cfg` (`MCLosUart`) | `EnoughToCopy` | the halves are swapped after the reader has found enough bytes for its request and before it copies: it copies and books more than the new half holds, and `readcnt` is negative from then on; the comment at the copy says that there are enough data |
| `UdpRing_early.cfg` (`MCUdpRing`) | `ReadsDeliver` | the ring counts a buffer before it is filled and the reader copies without the semaphore: it returns the former contents and drops the new packet |
| `UdpRing_crowded.cfg` (`MCUdpRing`) | `WsemLocks` | with a third task of the same priority the end of a slice lets a wait for `g_udp_wsem` return without the token, and both sides are inside |

Met while modelling and not turned into properties, since no document of the
repository says what is right: a blocking `los_dev_uart_read` returns 0 when its time is
over although it has copied bytes, and a poll returns the 0 it has just assigned to
the count; a swap drops what is unread in the half it takes away, so a frame
that exactly fills a half is gone at the idle interrupt behind it unless it has been read; `LOS_MemRealloc` of an aligned block returns the address behind the header,
so that its contents move by the gap; `osMemFindSuitableFreeBlock` takes the first
block of a class that is large enough where its comment speaks of the best fit;
`LOS_TaskDelete` between the wake-up of a queue's waiter and its return takes the
slot with it.

### Bounds

Two or three tasks and the idle task: three are what it takes for one task to act on a
second while a third waits, and to have an order in a wait list. Two ready tasks on one
level suffice for sharing the CPU; the yield of a node that is in no list needs three, and
`LosTask_yield.cfg` has them. Timeouts of one or two ticks: a timer is only ever
compared with zero and one (the arithmetic of longer ones is `wheel_rounds`). `MaxLock`
and `MaxCount` of one or two distinguish first, inner and last. Time slices of two ticks:
one is the first tick in the slice, the other the last. No time slice
(`TimesliceTimeout = 0`) where the run is not about slices, since the window of
`mux_window` would break every property of a wait.

- `task_control` allows the system to stop because `osTaskExit` does stop it, and
  `mux_timed` because a deadly embrace leaves only idle, and because of `LosMux_expired.cfg`.
  `PriorityGivenBack` is checked with one mutex: with two, released in the order they were
  taken, a lent priority stays, and no document says which order is supported.
  `RunIsTop` is a property of the scheduler alone (`LosMux_unscheduled.cfg` is the reason).
- `sem_shared` has a counter limit of two, so that posts are refused, and two tasks, so
  that one can be overtaken by the other.
- `ipc_mixed` has one queue of two slots, two messages and two bits, two tasks of different
  priority, and handlers on both objects; queue waits end after a tick or earlier,
  event waits are without limit, one read for any and one for all bits, one of them
  clearing. Two slots let one be full while one is kept for a task that was woken.
- `wheel_rounds` has four buckets and times up to nine ticks: every remainder, multiples of
  the length once and twice, and two full rounds; four tasks let two stand before and
  one behind the one that joins or leaves.
- `swtmr_delta` has intervals of one to three ticks, so that a timer falls before, between,
  beside and behind two others; timers are interchangeable, hence the symmetry.
- `memory_pool` has headers of four words, 38 words in all, requests of 1, 4 and 9 words and
  an alignment of 2, the first node at an odd address: room for up to seven blocks, all
  classes in use, a rest that is too small to split, and every mix of free and used
  neighbours.
- `uart_frames` has halves of two bytes, reads of one and three bytes, and five
  bytes, which is each half full and the first used again. The end of the system after
  the last byte is not an error, hence no deadlock check.
- `udp_ring` has the real number of buffers and two payloads, and a counter limit just above
  the number of buffers (the code's is 65534; that it is not below is `UdpAssumption`).

### Fairness

SysTick never stops: weak fairness of `Tick`, and of the boot loader's `Start`. A task inside
the kernel that has the CPU executes between two interrupts, because the handler is
shorter than the tick: strong fairness of `TaskInternal` per task, strong because every
interrupt disables it for a while. Nothing is assumed of what applications call. `WaitEnds`
also needs the device to go on interrupting (strong fairness of `DevicePost`); it
says that the wait list is fair, not that a device is. In `UdpRing` both tasks get the
CPU, since they have one priority and time slices, and a semaphore serves its waiters
in turn (strong fairness of the two lock steps, what `WaitEnds` shows of `LosSem`);
packets need not arrive and waits need not time out. In `LosUart` a reader that is inside `los_dev_uart_read` gets
the CPU (weak fairness of `Reading`); nobody is assumed to call it, and no byte need come. `ReadEnds`
is ended in the code by the time limit at the latest; in the model, where the clock may go
round any number of times, by the end of the data too (`MaxBytes`). What it adds is that no round
gets stuck, and that a round that finds nothing does not repeat itself.

## Theorems

`LosTaskProofs` proves, for any number of tasks, priorities, wait objects,
timeouts and any time slice, from `ParamAssumption` alone:

- `TypeCorrect`: `TaskSpec => []TypeOK`
- `NodesFollowFlags`: `OneList` and `FlagsMatchLists`
- `TimersFollowFlags`: `TimerMatchesFlags`
- `NobodyLost`: `OneState` and `NoTaskLost`
- `LockHolds`: `LockPinsRunning`
- `HighestRuns`: `RunIsTop`
- `NothingBreaks`: `NoFault`, if no task returns from its function and either there is no time
  slice or priorities are fixed and at most two tasks can have the same one
- `DelaysCounted`: `TaskSpec` implements `TimerSpec`, each task's `timer` being its ticks left

None of the invariants is inductive alone. The inductive invariant `Consistent` says,
next to the type: `Matches` - every node is linked exactly where flags and priority say,
in a form (`Fits`) that the list lemmas preserve; `States`; `Timers`, with `DueInv`
(tasks the tick is about to wake have no timer left); and `RunReady` - while the
running task is in application code it is ready, and while it is between
`LOS_IntRestore` and `LOS_Schedule` without being ready the scheduler is not locked,
so it will leave the CPU. `RunReady` is what makes a yield, a delay and a
suspension of oneself legal; `LOS_TaskLock` being refused to them is what keeps it.
The argument: list lemmas (`RemoveAtElements`, `WithoutFacts`, `AppendFacts`,
`UnlinkFacts`, `EnqueueFacts`) reduce each list operation to a statement about `Nodes`;
`LeaveList`, `EnterQueue`, `MoveInQueue`, `ChangeFlags`, `ChangePrio` say what the
five ways of changing a task do to `Matches`; one lemma for each group of actions
(`CallConsistent`, `InternalConsistent`, `TickConsistent`, ..) puts them together.
`DelaysCounted` needs the invariant for `LOS_TaskDelay`: a task that can call it has no
timer running. `HighestRuns` adds that a switch takes the head of the highest queue that is
not empty, and that whoever enters a queue above the running task, or takes the running
task out of its own, goes on to `LOS_Schedule`. The hypotheses of `NothingBreaks` are the
two ways in which the code does stop: a finished task that is resumed gets to `osTaskExit`,
and with three tasks on one level the end of a slice can fall between a task's leaving the
ready queue and its `LOS_Schedule`, when another is at the head and the yield unlinks a node that
is in no list (`LosTask_yield.cfg`). With two on a level the other one is alone in the queue, and the slice
check sees that it is.

These theorems are about `TaskSpec`. `LosSem`, `LosMux` and `LosIpc` extend `LosTask` with
actions of their own; the last sections of `LosTaskProofs` (*Waits*) prove that those keep
`Consistent`: `BlockConsistent` for a task that begins to wait, `ServeConsistent` and `WakeMatches` for
one that is served, `ReturnConsistent` for its return, and `NextConsistent` and `StepLeaves` for the
scheduler's own steps, which begin no wait and end one only by giving it up. They need
`TimesliceTimeout = 0`: with a slice `TickBegin` moves a task that has just begun to wait
back to the ready queue (`LosMux_window.cfg`), and then no wait is safe. The
theorems of the next three modules are under that hypothesis, which every run of theirs shares.

`LosSemProofs`, for any number of tasks, semaphores and priorities, any counter limit and
timeouts: `WaitersOnlyOnEmpty` (`NobodySleepsOnToken`), `TokensConserved` (`TokensKept`, as long
as no task is deleted: deleting one between its wake-up and its return takes the token with
it) and `SemaphoresImplemented` (`ImplementsSemaphore`, the refinement of `SemSpec`). The
inductive invariant `SemInv` is `Consistent`, `FreeIsOut` (a control block that is free is in no
call), the types, and `Waiters`: who is in a wait list is inside `LOS_SemPend` for that
semaphore, which exists and has no token. For the refinement each action is mapped
to the abstract step it takes, or to a stutter: tokens granted by a post and not yet taken by
the task's return are the abstract semaphore's `granted`, and a wait that the scheduler ends
(time, deletion) is the abstract `Leave`.

`LosMuxProofs`, for any number of tasks, mutexes, priorities and any nesting: `HandOverIsTold`
(`GrantIsTold`), `MutexesImplemented` (`ImplementsMutex`, the refinement of `MutexSpec`),
`MutualExclusion` (`Exclusion`, as long as no task is deleted or returns: both leave what
the task owned locked) and `LentPriorityReturns` (`PriorityGivenBack`, for one mutex and
without `LOS_TaskPriSet`; with two the code does not give it back, see *Bounds*). The
inductive invariant `MuxInv` adds to `Consistent`: `Owned` - a mutex that is taken has an
owner and a priority to restore; `Waiters` - who is in a wait list waits for that mutex,
which another task owns; `Handles` - a handle is that of a call under way. `Exclusion`
needs `AllTold` besides: the owner was told as often as the mutex counts, but for a mutex
that was handed over to it and that it has not returned with, and nobody else was; the
priorities need `KeptPrio`: what the control block keeps for the owner is its own priority.

`LosIpcProofs`, for any number of tasks, queues and events, any lengths, messages, masks and
timeouts: `WaitersNeedTheirBits` (`NobodySleepsOnEvent`), `MostUrgentFirst`
(`WaitersInLine`, without `LOS_TaskPriSet`, which moves a task in the ready queue but not in
a wait list), `SlotsConserved` (`SlotsAddUp`) and `QueuesImplemented` (`ImplementsFifo`, the
refinement of `FifoSpec`), the last two as long as no task is deleted: deleting one between its
wake-up and its return takes the slot with it. The inductive invariant `IpcInv` adds to `Consistent`,
`FreeIsOut` and the types: `Asking` - a task asks one object at a time, and only inside
the call; `QueueWaiters` and `EventWaiters` - who is in a wait list asked for what the list
stands for, and it is not there. `Lines` adds the order of the waiters, which
`Place` keeps. `Slots` adds, for each queue, that messages, writable slots and those kept for
woken writers make up its length, and that the tail is as many slots from the head as there are
messages, those kept for woken readers included. `LOS_EventWrite` wakes its waiters in a loop: its turns are
a sequence of states (`LoopRun`), the induction over them is that a set of naturals has a least
element, and `TurnsFacts` says whom the turns take out. For the refinement `MsgsIn` reads the ring of a queue as a sequence;
`ReadMsgs` and `WriteMsgs` say that a read takes its head and a write appends.

`UdpRingProofs` proves, for any number of buffers, payloads and any counter limit
that is not below the number of buffers (`UdpAssumption`), as long as no third task of the
priority is ready (`Crowded = FALSE`): `UdpTypeCorrect`
(`UdpTypeOK`), `RingInOrder` (`RingHoldsQueue`), `OldestCopied` (`CopyIsOldest`) and
`ReaderAwake` (`NobodySleepsOnPacket`). The inductive invariant adds what the code
relies on without saying it: `WsemLocks` - the semaphore is a lock, held by at most
one side; `Counted` - from the reader's look at `unused` to its removal of the packet
some buffer stays counted, so that under the lock, when no buffer is half filled,
the queue is not empty; `TokensCover` - a waiting reader has a token for each packet.
`FillKeepsRing` and `AdvanceKeepsRing` do the arithmetic of the ring, on the lemmas
about `At` and `Next`.

`LosUartProofs` proves, for halves of any size and requests of any length, with swaps
anywhere (`UartAssumption` is all it needs): `ReaderAwake` (`NobodySleepsOnBytes`) and
`OnlySwapsLose` (`BytesAccounted`). The inductive invariant `UartInv` says the type,
`NobodySleepsOnBytes` and, as long as no swap has come into a read (`torn`), `Sound`:
`Branches` - the comparison of `left` with `readcnt` that chose the reader's branch still
holds; `Apart` - the two sides work in different halves; `InPlace` - every byte that came
was given, written off by a swap, or stands where the reader will look for it, or in the half
being filled. The reader copies before it books: `From` and `Rest` are where the unread bytes
begin and how many they are, in between too, so that the copy and each booking behind it
keep the same invariant. `WriteOff` says what a swap does to the account, `Give` what a copy
does.

`LosSwtmrProofs` proves, for any number of timers and any periods (`SwtmrAssumption`):
`SwtmrTypeCorrect` (`SwtmrTypeOK`), `BlocksLinkedOnce` (`OneLink`), `TimersOnTime`
(`CountsAddUp`), `DueAreTaken` (`NoneOverdue`) and `ExpiriesKept` (`LostOnlyWhenBehind`). The
inductive invariant `SwtmrInv` adds: `Periods` - a timer that can be started has a period
above 0; `Walks` - what is left of the interval during the walk of `osSwTmrStart`, and what
is left of the timer passed last, make up the interval; `Ordered` - the timers stand in the
order in which they are due, which is what the tick needs to look at the first only;
`Coming` - outside the tick's loop all of them are still to come; `Items` - pool, queue and
hand make up the pool's size, and inside the tick the queue has room for the timers
that are due, unless handlers were late; and `Fresh` - a block that `LOS_SwtmrCreate` has taken
is in no other use until it is filled. `UnlinkedKeeps`, `InsertedKeeps`, `TickKeeps` and
`ExpireKeeps` do the arithmetic of the counts, on the list lemmas about `RemoveAt`,
`InsertAt`, `Tail` and linking in front.

`LosMemoryProofs` proves, for pools, headers, requests and alignments of any size and a pool
anywhere (`MemoryAssumption`: the pool has room for two headers, as `LOS_MemInit` checks,
and its size has a class): `PoolIsTiled` (`HeapTiled`), `FreeNodesListed` (`FreeListed`),
`BlocksStayApart` (`BlocksApart`) and `FitIsFound` (`FindsWhatFits`). Inside a function the
properties do not hold: a node has been taken out of its list and not merged yet, or
cut and not listed yet. So the proof follows the functions with `Sound(h, X)`: the nodes tile
the pool, and lists and neighbours are right but for the nodes in `X`. `TakeSound`,
`PutSound`, `MergeSound`, `MergeNextSound`, `CutSound` and `UsedSound` say how each step
of a function changes `X`; `SplitIfSound`, `AllocAtSound` and `FreeNodeSound` put them together as
`osMemSpitNode`, `osMemAllocWithCheck` and `osMemFreeNode` do, and end with `X = {}`. `Tiled` has
what `HeapTiled` leaves out and merging backward needs: the node a header points back to ends
where that header is. `BlocksIn` is `BlocksApart` with the node of a block computed from its
address and gap; two blocks at one address are in one node (`BlockOnce`), so an allocation
never returns an address that is in use. `ClassesGrow` is why a search from the class of the
size misses nothing.

Only model-checked: everything with fairness (`DelayEnds`, `SliceShares`, `WaitEnds`,
`PacketRead`, `ReadEnds`), which the prover cannot reach; and all of
`LosTimerWheel`, where the ticks of a timer are the sum of the rounds before it in its
bucket: what a sum over a list of any length comes to is an induction over data.

## Not modelled

Most lines of the repository are vendor code (the STM32 HAL, its register headers and
CMSIS: over nine tenths), generated start-up code, register accesses, byte-level
coding (`microtcpip.c`, `coap.c`) and Linux libraries, which hold no logic of this
program. Of its own code:

- *AgentTiny and the CoAP port.* The sensor task and the receive task share the bind flag,
  the token and the output buffer, and allocate packets by testing and setting `pkt_used`,
  without a lock. Every promise one could state of a report (its token, its contents)
  fails under interleaving, and no document states one; the hazard list names the places.
- *BC95.* Its logic is a search for the answer in what has arrived; what the modem sends,
  and when, is not in the repository. The line under it is `LosUart`.
- *Gateway.* Callbacks around a closed library whose threads and order of calls are not
  in the repository.
- *Mail calls of `los_queue.c`, `los_membox.c`, the double-free check and the statistics of
  `los_memory.c`.* No caller, or a free list with a count: the pool of the timers' handlers
  is one, and there the count is modelled.
- *UART transmission.* `HAL_UART_Transmit_IT` decides, and is vendor code.
- *`LOS_EventDestory` of an event somebody waits for.* The function does not look; it leaves
  tasks on a list without a head. The action has no guard either: that applications do not
  call it then is an assumption on them (`NobodyWaits` in `EventCall`).
- *Interrupt vectors, tick conversion, the CMSIS layer, Ethernet and SPI drivers, board
  support:* registers, arithmetic and translation of parameters.

## Plan

Every safety property and every refinement the runs check is a theorem, but for that of
`LosTimerWheel`. What is left is proof:

1. `LosTimerWheel`: the ticks each timer has left as a quantity of their own beside the rounds,
   as `CountsAddUp` has them in `LosSwtmr`, so that joining and leaving a bucket become
   statements about neighbours instead of sums.
2. `NothingBreaks` with more than two tasks on a level, as long as a slice cannot end
   between a task's leaving the ready queue and its `LOS_Schedule`.
