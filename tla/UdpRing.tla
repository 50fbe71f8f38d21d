------------------------------- MODULE UdpRing -------------------------------
(***************************************************************************)
(* The receive ring of udp_coap_interface.c: the Ethernet task             *)
(* (udp_stack_process) puts the UDP payloads it gets into a ring of        *)
(* UDP_DATA_BUF_CNT buffers, the CoAP task (udp_client, in a loop) takes   *)
(* them with udp_read_data.  Both tasks have priority 10 and share the CPU *)
(* in time slices, so each can be interrupted by the other anywhere; one   *)
(* action is what lies between two accesses to something shared.           *)
(*                                                                         *)
(* The two semaphores are counters, which is what LosSem shows of          *)
(* los_sem.c without time slices.  With them, a task whose slice ends when *)
(* it has queued itself in LOS_SemPend, and before LOS_Schedule, goes back *)
(* to the ready queue and returns without a token, as if its time were     *)
(* over, provided that two others of its priority are ready (the window of *)
(* mux_window): that is Crowded.  The wait for g_udp_rsem may be over at   *)
(* any time anyhow; the result of a wait for g_udp_wsem is ignored.        *)
(***************************************************************************)
EXTENDS Integers, Sequences

CONSTANTS
  N,         \* UDP_DATA_BUF_CNT
  Packets,   \* payloads
  CountMax,  \* OS_SEM_COUNT_MAX
  None,      \* no payload
  Crowded    \* further tasks of priority 10 may be ready beside these two

ASSUME UdpAssumption ==
  /\ N \in Nat \ {0}
  /\ CountMax \in Nat /\ CountMax >= N
  /\ None \notin Packets
  /\ Crowded \in BOOLEAN

Slots == 0 .. N - 1

VARIABLES
  unused, rhead, whead,  \* of g_ring_data
  slot,                  \* rfifo[i].buf and .datalen
  wsem, rsem,            \* counts of g_udp_wsem and g_udp_rsem
  wpc, payload,          \* where udp_stack_process is, g_r_pos and g_r_len
  rpc, got,              \* where udp_read_data is, and what it has copied
  queue,                 \* ghost: payloads in the ring that were not taken
  early                  \* ghost: got was copied when no payload was complete

ring == <<unused, rhead, whead, slot>>
writer == <<wpc, payload>>
reader == <<rpc, got, early>>
vars == <<ring, wsem, rsem, writer, reader, queue>>

\* udp_init_ring_buf.  The CoAP task does not exist yet, nor does g_udp_rsem.
Init ==
  /\ unused = N
  /\ rhead = 0
  /\ whead = 0
  /\ slot = [i \in Slots |-> None]
  /\ wsem = 1
  /\ rsem = 0
  /\ wpc = "poll"
  /\ payload = None
  /\ rpc = "none"
  /\ got = None
  /\ queue = <<>>
  /\ early = FALSE

\* The field next: the buffer after i.
Next(i) == IF i = N - 1 THEN 0 ELSE i + 1

\* LOS_SemPend on g_udp_wsem returns: with the token, or through the window.
Passed ==
  /\ wsem > 0 \/ Crowded
  /\ wsem' = IF wsem > 0 THEN wsem - 1 ELSE 0

-----------------------------------------------------------------------------
(***************************************************************************)
(* udp_stack_process.  What is not a UDP packet for this host changes       *)
(* nothing here.                                                            *)
(***************************************************************************)
Receive(p) ==
  /\ wpc = "poll"
  /\ wpc' = "lock"
  /\ payload' = p
  /\ UNCHANGED <<ring, wsem, rsem, reader, queue>>

WriterLock ==
  /\ wpc = "lock"
  /\ Passed
  /\ wpc' = "room"
  /\ UNCHANGED <<ring, rsem, payload, reader, queue>>

MutFull == unused < 0
Full == unused = 0

Discard ==
  /\ wpc = "room"
  /\ Full
  /\ wsem' = wsem + 1
  /\ wpc' = "poll"
  /\ payload' = None
  /\ UNCHANGED <<ring, rsem, reader, queue>>

\* The buffer is counted before it is filled.
Reserve ==
  /\ wpc = "room"
  /\ ~Full
  /\ unused' = unused - 1
  /\ wpc' = "fill"
  /\ UNCHANGED <<rhead, whead, slot, wsem, rsem, payload, reader, queue>>

Fill ==
  /\ wpc = "fill"
  /\ slot' = [slot EXCEPT ![whead] = payload]
  /\ whead' = Next(whead)
  /\ queue' = Append(queue, payload)
  /\ wpc' = "unlock"
  /\ UNCHANGED <<unused, rhead, wsem, rsem, payload, reader>>

WriterUnlock ==
  /\ wpc = "unlock"
  /\ wsem' = wsem + 1
  /\ wpc' = "notify"
  /\ UNCHANGED <<ring, rsem, payload, reader, queue>>

\* LOS_SemPost(g_udp_rsem).  Until udp_stack_init has created it the handle
\* is that of another semaphore, and this one gets nothing.
MutNotified == rsem
Notified == IF rpc = "none" \/ rsem = CountMax THEN rsem ELSE rsem + 1

Notify ==
  /\ wpc = "notify"
  /\ rsem' = Notified
  /\ wpc' = "poll"
  /\ payload' = None
  /\ UNCHANGED <<ring, wsem, reader, queue>>

-----------------------------------------------------------------------------
(***************************************************************************)
(* udp_stack_init's last step, and udp_read_data called again and again.    *)
(***************************************************************************)
CreateRsem ==
  /\ rpc = "none"
  /\ rpc' = "check"
  /\ UNCHANGED <<ring, wsem, rsem, writer, got, early, queue>>

Empty == unused = N

CheckEmpty ==
  /\ rpc = "check"
  /\ rpc' = IF Empty THEN "pend" ELSE "copy"
  /\ UNCHANGED <<ring, wsem, rsem, writer, got, early, queue>>

PendData ==
  /\ rpc = "pend"
  /\ rsem > 0
  /\ rsem' = rsem - 1
  /\ rpc' = "recheck"
  /\ UNCHANGED <<ring, wsem, writer, got, early, queue>>

\* LOS_ERRNO_SEM_TIMEOUT: no data, and the caller comes back.
PendTimeout ==
  /\ rpc = "pend"
  /\ rsem = 0
  /\ rpc' = "check"
  /\ UNCHANGED <<ring, wsem, rsem, writer, got, early, queue>>

\* A post whose packet was read without it: "it's maybe a bug".
Recheck ==
  /\ rpc = "recheck"
  /\ rpc' = IF Empty THEN "check" ELSE "copy"
  /\ UNCHANGED <<ring, wsem, rsem, writer, got, early, queue>>

Copy ==
  /\ rpc = "copy"
  /\ got' = slot[rhead]
  /\ early' = (queue = <<>>)
  /\ rpc' = "lock"
  /\ UNCHANGED <<ring, wsem, rsem, writer, queue>>

ReaderLock ==
  /\ rpc = "lock"
  /\ Passed
  /\ rpc' = "advance"
  /\ UNCHANGED <<ring, rsem, writer, got, early, queue>>

MutNextRead == rhead
NextRead == Next(rhead)

Advance ==
  /\ rpc = "advance"
  /\ unused' = unused + 1
  /\ rhead' = NextRead
  /\ queue' = Tail(queue)
  /\ rpc' = "unlock"
  /\ UNCHANGED <<whead, slot, wsem, rsem, writer, got, early>>

ReaderUnlock ==
  /\ rpc = "unlock"
  /\ wsem' = wsem + 1
  /\ rpc' = "check"
  /\ got' = None
  /\ early' = FALSE
  /\ UNCHANGED <<ring, rsem, writer, queue>>

-----------------------------------------------------------------------------
WriterStep ==
  \/ Discard \/ Reserve \/ Fill \/ WriterUnlock \/ Notify

ReaderStep ==
  \/ CreateRsem \/ CheckEmpty \/ PendData \/ Recheck \/ Copy
  \/ Advance \/ ReaderUnlock

UdpNext ==
  \/ \E p \in Packets : Receive(p)
  \/ WriterLock \/ WriterStep
  \/ ReaderLock \/ ReaderStep \/ PendTimeout

UdpSafety == Init /\ [][UdpNext]_vars

\* Time slices give both tasks the CPU, and a semaphore serves its waiters in
\* turn.  Nothing says that packets arrive or that a wait times out.
UdpSpec ==
  /\ UdpSafety
  /\ WF_vars(WriterStep) /\ SF_vars(WriterLock)
  /\ WF_vars(ReaderStep) /\ SF_vars(ReaderLock)
-----------------------------------------------------------------------------
(***************************************************************************)
(* Properties.                                                             *)
(***************************************************************************)

\* g_udp_wsem is a lock: one side at most is between its LOS_SemPend and its
\* LOS_SemPost, and the semaphore has no token then.
WriterInside == wpc \in {"room", "fill", "unlock"}
ReaderInside == rpc \in {"advance", "unlock"}

WsemLocks ==
  /\ WriterInside => wsem = 0
  /\ ReaderInside => wsem = 0
  /\ ~(WriterInside /\ ReaderInside)

\* Every variable stays in its type.
UdpTypeOK ==
  /\ unused \in 0 .. N
  /\ rhead \in Slots /\ whead \in Slots
  /\ slot \in [Slots -> Packets \cup {None}]
  /\ wsem \in {0, 1} /\ rsem \in 0 .. CountMax
  /\ wpc \in {"poll", "lock", "room", "fill", "unlock", "notify"}
  /\ payload \in Packets \cup {None}
  /\ rpc \in {"none", "check", "pend", "recheck", "copy", "lock", "advance",
              "unlock"}
  /\ got \in Packets \cup {None}
  /\ queue \in Seq(Packets)
  /\ early \in BOOLEAN

\* The buffer i places behind the buffer r.
At(r, i) == IF r + i < N THEN r + i ELSE r + i - N

\* The buffers from rhead on hold, in order, the payloads that came and were
\* not taken; whead is behind them, and unused counts the others, less one
\* while it is being filled.
RingHoldsQueue ==
  /\ unused = N - Len(queue) - (IF wpc = "fill" THEN 1 ELSE 0)
  /\ whead = At(rhead, Len(queue))
  /\ \A i \in 1 .. Len(queue) : slot[At(rhead, i - 1)] = queue[i]

\* What the reader copies is the oldest payload and stays so until it is
\* taken: no writer overwrites it meanwhile.  The copies made when no payload
\* was complete are the exception (see ReadsDeliver).
CopyIsOldest ==
  rpc \in {"lock", "advance"} /\ ~early => queue # <<>> /\ got = Head(queue)

\* Nobody sleeps on a semaphore without tokens while there is a packet, unless
\* the writer is about to post.
NobodySleepsOnPacket ==
  rpc = "pend" /\ rsem = 0 /\ queue # <<>> => wpc \in {"unlock", "notify"}

\* A packet in the ring makes the reader take one, timeouts or not.
PacketRead == queue # <<>> ~> rpc = "advance"

\* What udp_read_data takes out of the ring is what it returns ("get udp data,
\* so we should devliver it to coap").
ReadsDeliver ==
  [][rpc = "advance" /\ rpc' # "advance" => got = Head(queue)]_vars
=============================================================================
