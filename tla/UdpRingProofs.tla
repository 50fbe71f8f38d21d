---------------------------- MODULE UdpRingProofs ----------------------------
(***************************************************************************)
(* Proofs about UdpRing, for every number of buffers, as long as no third  *)
(* task of the same priority opens the window in LOS_SemPend (~Crowded).   *)
(***************************************************************************)
EXTENDS UdpRing, TLAPS

\* A packet is in hand from its arrival to the end of its handling.
InHand == wpc # "poll" => payload \in Packets

\* The reader copies only when a buffer is counted.
Counted == rpc \in {"copy", "lock", "advance"} => unused < N

\* A reader that waits finds a token for each packet in the ring.
TokensCover ==
  rpc = "pend" =>
    rsem + (IF wpc \in {"unlock", "notify"} THEN 1 ELSE 0) >= Len(queue)

\* The inductive invariant.
UdpInv ==
  /\ UdpTypeOK
  /\ WsemLocks
  /\ InHand
  /\ Counted
  /\ RingHoldsQueue
  /\ CopyIsOldest
  /\ TokensCover

-----------------------------------------------------------------------------
(***************************************************************************)
(* The arithmetic of the ring.                                             *)
(***************************************************************************)

\* A queue in the ring is never longer than the ring.
LEMMA QueueFits ==
  ASSUME UdpTypeOK, RingHoldsQueue
  PROVE  /\ Len(queue) \in 0 .. N
         /\ wpc = "fill" => Len(queue) < N
BY UdpAssumption DEF UdpTypeOK, RingHoldsQueue

\* The buffers at different distances from one are different buffers.
LEMMA AtInjective ==
  ASSUME NEW r \in Slots, NEW i \in 0 .. N - 1
  PROVE  /\ At(r, i) \in Slots
         /\ \A j \in 0 .. N - 1 : i # j => At(r, i) # At(r, j)
BY UdpAssumption DEF At, Slots

\* The field next goes one place further.
LEMMA NextAt ==
  ASSUME NEW r \in Slots, NEW i \in 0 .. N - 1
  PROVE  /\ Next(r) \in Slots
         /\ Next(At(r, i)) = At(r, i + 1)
         /\ At(Next(r), i) = At(r, i + 1)
         /\ At(r, i + 1) \in Slots
BY UdpAssumption DEF At, Slots, Next

\* The head of a queue moves into the next place when it is served.
LEMMA TailOfQueue ==
  ASSUME NEW q \in Seq(Packets), q # <<>>
  PROVE  /\ Tail(q) \in Seq(Packets)
         /\ Len(Tail(q)) = Len(q) - 1
         /\ \A i \in 1 .. Len(q) - 1 : Tail(q)[i] = q[i + 1]
         /\ Head(q) = q[1] /\ Len(q) >= 1
OBVIOUS

-----------------------------------------------------------------------------
\* The initial state.
LEMMA UdpInitInv == Init => UdpInv
PROOF
<1> SUFFICES ASSUME Init PROVE UdpInv
  OBVIOUS
<1> USE UdpAssumption
<1>1. queue = <<>> /\ Len(queue) = 0 /\ rhead = 0 /\ whead = 0 /\ unused = N
  BY DEF Init
<1>2. UdpTypeOK
  <2>1. 0 \in Slots /\ N \in 0 .. N /\ 0 \in 0 .. CountMax
    BY DEF Slots
  <2>2. <<>> \in Seq(Packets)
    OBVIOUS
  <2>3. slot \in [Slots -> Packets \cup {None}]
    BY DEF Init
  <2> QED BY <1>1, <2>1, <2>2, <2>3 DEF Init, UdpTypeOK
<1>3. RingHoldsQueue
  BY <1>1 DEF Init, RingHoldsQueue, At
<1> QED
  BY <1>1, <1>2, <1>3
     DEF Init, UdpInv, WsemLocks, WriterInside, ReaderInside, InHand, Counted,
         CopyIsOldest, TokensCover

\* Filling a buffer puts its payload behind the others.
LEMMA FillKeepsRing ==
  ASSUME UdpInv, Fill
  PROVE  RingHoldsQueue' /\ UdpTypeOK' /\ CopyIsOldest'
PROOF
<1> USE UdpAssumption
<1> DEFINE n == Len(queue)
<1>1. n \in 0 .. N - 1 /\ payload \in Packets /\ rhead \in Slots
  BY QueueFits DEF UdpInv, Fill, InHand, UdpTypeOK
<1>2. queue' = Append(queue, payload) /\ queue \in Seq(Packets)
  BY DEF UdpInv, Fill, UdpTypeOK
<1>3. /\ queue' \in Seq(Packets)
      /\ Len(queue') = n + 1
      /\ \A i \in 1 .. n : queue'[i] = queue[i]
      /\ queue'[n + 1] = payload
      /\ queue # <<>> => Head(queue') = Head(queue)
      /\ queue' # <<>>
  BY <1>1, <1>2
<1>4. whead = At(rhead, n) /\ unused = N - n - 1
  BY DEF UdpInv, RingHoldsQueue, Fill
<1>5. slot' = [slot EXCEPT ![whead] = payload] /\ slot \in [Slots -> Packets \cup {None}]
  BY DEF UdpInv, Fill, UdpTypeOK
<1>6. whead' = At(rhead, n + 1) /\ whead' \in Slots
  BY <1>1, <1>4, NextAt DEF Fill
<1>7. \A i \in 1 .. n + 1 : slot'[At(rhead, i - 1)] = queue'[i]
  <2>1. At(rhead, n) \in Slots
    BY <1>1, AtInjective
  <2>2. \A i \in 1 .. n : At(rhead, i - 1) \in Slots /\ At(rhead, i - 1) # At(rhead, n)
    BY <1>1, AtInjective
  <2>3. \A i \in 1 .. n : slot[At(rhead, i - 1)] = queue[i]
    BY DEF UdpInv, RingHoldsQueue
  <2>4. \A i \in 1 .. n : slot'[At(rhead, i - 1)] = queue'[i]
    BY <2>2, <2>3, <1>3, <1>4, <1>5
  <2>5. slot'[At(rhead, n)] = queue'[n + 1]
    BY <2>1, <1>3, <1>4, <1>5
  <2>6. (n + 1) - 1 = n
    BY <1>1
  <2> QED BY <2>4, <2>5, <2>6, <1>1
<1>8. RingHoldsQueue'
  <2>1. rhead' = rhead /\ unused' = unused /\ wpc' = "unlock"
    BY DEF Fill
  <2> QED BY <2>1, <1>1, <1>3, <1>4, <1>6, <1>7 DEF RingHoldsQueue
<1>9. UdpTypeOK'
  BY <1>3, <1>5, <1>6, <1>1 DEF UdpInv, UdpTypeOK, Fill, reader
<1>10. CopyIsOldest'
  BY <1>3 DEF UdpInv, CopyIsOldest, Fill, reader
<1> QED BY <1>8, <1>9, <1>10

\* Taking a packet brings the others one place nearer.
LEMMA AdvanceKeepsRing ==
  ASSUME UdpInv, Advance
  PROVE  RingHoldsQueue' /\ UdpTypeOK'
PROOF
<1> USE UdpAssumption
<1> DEFINE n == Len(queue)
<1>1. wpc # "fill" /\ unused < N
  BY DEF UdpInv, Advance, WsemLocks, WriterInside, ReaderInside, Counted
<1>2. n \in 1 .. N /\ queue \in Seq(Packets) /\ rhead \in Slots /\ unused = N - n
  BY <1>1, QueueFits DEF UdpInv, UdpTypeOK, RingHoldsQueue
<1>3. queue # <<>>
  BY <1>2
<1>4. /\ queue' \in Seq(Packets) /\ Len(queue') = n - 1
      /\ \A i \in 1 .. n - 1 : queue'[i] = queue[i + 1]
  BY <1>2, <1>3, TailOfQueue DEF Advance
<1>5. rhead' = Next(rhead) /\ rhead' \in Slots
  BY <1>2, NextAt DEF Advance, NextRead
<1>6. \A i \in 0 .. N - 1 : At(rhead', i) = At(rhead, i + 1)
  BY <1>2, <1>5, NextAt
<1>7. whead' = At(rhead', n - 1) /\ wpc' = wpc /\ slot' = slot
  <2>1. whead = At(rhead, n)
    BY DEF UdpInv, RingHoldsQueue
  <2>2. n - 1 \in 0 .. N - 1 /\ (n - 1) + 1 = n
    BY <1>2
  <2> QED BY <2>1, <2>2, <1>6 DEF Advance, writer
<1>8. \A i \in 1 .. n - 1 : slot[At(rhead', i - 1)] = queue'[i]
  <2> TAKE i \in 1 .. n - 1
  <2>1. At(rhead', i - 1) = At(rhead, i)
    <3>1. i - 1 \in 0 .. N - 1 /\ (i - 1) + 1 = i
      BY <1>2
    <3> QED BY <3>1, <1>6
  <2>2. slot[At(rhead, (i + 1) - 1)] = queue[i + 1]
    BY <1>2 DEF UdpInv, RingHoldsQueue
  <2>3. (i + 1) - 1 = i
    BY <1>2
  <2> QED BY <2>1, <2>2, <2>3, <1>4
<1>9. unused' = N - (n - 1)
  BY <1>2 DEF Advance
<1>10. RingHoldsQueue'
  BY <1>1, <1>4, <1>7, <1>8, <1>9 DEF RingHoldsQueue
<1>11. UdpTypeOK'
  BY <1>1, <1>2, <1>4, <1>5 DEF UdpInv, UdpTypeOK, Advance, writer
<1> QED BY <1>10, <1>11

\* What the reader copies.
LEMMA CopyKeepsOldest ==
  ASSUME UdpInv, Copy
  PROVE  CopyIsOldest' /\ UdpTypeOK'
PROOF
<1> USE UdpAssumption
<1>1. rhead \in Slots /\ queue \in Seq(Packets) /\ Len(queue) \in 0 .. N
  BY QueueFits DEF UdpInv, UdpTypeOK
<1>2. ASSUME queue # <<>> PROVE slot[rhead] = Head(queue)
  <2>1. 1 \in 1 .. Len(queue) /\ Head(queue) = queue[1]
    BY <1>1, <1>2
  <2>2. At(rhead, 1 - 1) = rhead
    BY <1>1 DEF At, Slots
  <2> QED BY <2>1, <2>2 DEF UdpInv, RingHoldsQueue
<1>3. slot[rhead] \in Packets \cup {None}
  BY <1>1 DEF UdpInv, UdpTypeOK
<1>4. CopyIsOldest'
  BY <1>2 DEF CopyIsOldest, Copy
<1>5. UdpTypeOK'
  BY <1>3 DEF UdpInv, UdpTypeOK, Copy, ring, writer
<1> QED BY <1>4, <1>5

\* The other steps of the writer and of the reader leave the queue alone.
LEMMA WriterKeepsInv ==
  ASSUME UdpInv, ~Crowded,
         (\E p \in Packets : Receive(p)) \/ WriterLock \/ WriterStep
  PROVE  UdpInv'
PROOF
<1> USE UdpAssumption
<1>1. Len(queue) \in 0 .. N /\ queue \in Seq(Packets)
  BY QueueFits DEF UdpInv, UdpTypeOK
<1>2. CASE \E p \in Packets : Receive(p)
  BY <1>2
     DEF UdpInv, UdpTypeOK, WsemLocks, WriterInside, ReaderInside, InHand,
         Counted, RingHoldsQueue, CopyIsOldest, TokensCover, Receive, ring,
         reader
<1>3. CASE WriterLock
  BY <1>3
     DEF UdpInv, UdpTypeOK, WsemLocks, WriterInside, ReaderInside, InHand,
         Counted, RingHoldsQueue, CopyIsOldest, TokensCover, WriterLock,
         Passed, ring,
         reader
<1>4. CASE Discard
  BY <1>4
     DEF UdpInv, UdpTypeOK, WsemLocks, WriterInside, ReaderInside, InHand,
         Counted, RingHoldsQueue, CopyIsOldest, TokensCover, Discard, ring,
         reader
<1>5. CASE Reserve
  BY <1>1, <1>5
     DEF UdpInv, UdpTypeOK, WsemLocks, WriterInside, ReaderInside, InHand,
         Counted, RingHoldsQueue, CopyIsOldest, TokensCover, Reserve, Full,
         reader
<1>6. CASE Fill
  <2>1. RingHoldsQueue' /\ UdpTypeOK' /\ CopyIsOldest'
    BY <1>6, FillKeepsRing
  <2>2. Len(queue') = Len(queue) + 1
    BY <1>1, <1>6 DEF Fill, UdpInv, InHand
  <2>3. WsemLocks' /\ InHand' /\ Counted'
    BY <1>6
       DEF UdpInv, WsemLocks, WriterInside, ReaderInside, InHand, Counted,
           Fill, reader
  <2>4. TokensCover'
    BY <1>1, <1>6, <2>2 DEF UdpInv, UdpTypeOK, TokensCover, Fill, reader
  <2> QED BY <2>1, <2>3, <2>4 DEF UdpInv
<1>7. CASE WriterUnlock
  BY <1>7
     DEF UdpInv, UdpTypeOK, WsemLocks, WriterInside, ReaderInside, InHand,
         Counted, RingHoldsQueue, CopyIsOldest, TokensCover, WriterUnlock,
         ring, reader
<1>8. CASE Notify
  BY <1>1, <1>8
     DEF UdpInv, UdpTypeOK, WsemLocks, WriterInside, ReaderInside, InHand,
         Counted, RingHoldsQueue, CopyIsOldest, TokensCover, Notify, Notified,
         ring, reader
<1> QED
  BY <1>2, <1>3, <1>4, <1>5, <1>6, <1>7, <1>8 DEF WriterStep

LEMMA ReaderKeepsInv ==
  ASSUME UdpInv, ~Crowded, ReaderLock \/ ReaderStep \/ PendTimeout
  PROVE  UdpInv'
PROOF
<1> USE UdpAssumption
<1>1. Len(queue) \in 0 .. N /\ queue \in Seq(Packets)
  BY QueueFits DEF UdpInv, UdpTypeOK
<1>2. CASE ReaderLock
  BY <1>2
     DEF UdpInv, UdpTypeOK, WsemLocks, WriterInside, ReaderInside, InHand,
         Counted, RingHoldsQueue, CopyIsOldest, TokensCover, ReaderLock,
         Passed, ring,
         writer
<1>3. CASE CreateRsem
  BY <1>3
     DEF UdpInv, UdpTypeOK, WsemLocks, WriterInside, ReaderInside, InHand,
         Counted, RingHoldsQueue, CopyIsOldest, TokensCover, CreateRsem, ring,
         writer
<1>4. CASE CheckEmpty
  <2>1. Empty => Len(queue) = 0
    BY <1>1 DEF Empty, UdpInv, RingHoldsQueue
  <2> QED
    BY <1>1, <1>4, <2>1
       DEF UdpInv, UdpTypeOK, WsemLocks, WriterInside, ReaderInside, InHand,
           Counted, RingHoldsQueue, CopyIsOldest, TokensCover, CheckEmpty,
           Empty, ring, writer
<1>5. CASE PendData
  BY <1>5
     DEF UdpInv, UdpTypeOK, WsemLocks, WriterInside, ReaderInside, InHand,
         Counted, RingHoldsQueue, CopyIsOldest, TokensCover, PendData, ring,
         writer
<1>6. CASE PendTimeout
  BY <1>6
     DEF UdpInv, UdpTypeOK, WsemLocks, WriterInside, ReaderInside, InHand,
         Counted, RingHoldsQueue, CopyIsOldest, TokensCover, PendTimeout, ring,
         writer
<1>7. CASE Recheck
  BY <1>7
     DEF UdpInv, UdpTypeOK, WsemLocks, WriterInside, ReaderInside, InHand,
         Counted, RingHoldsQueue, CopyIsOldest, TokensCover, Recheck, Empty,
         ring, writer
<1>8. CASE Copy
  <2>1. CopyIsOldest' /\ UdpTypeOK'
    BY <1>8, CopyKeepsOldest
  <2>2. RingHoldsQueue'
    BY <1>8 DEF UdpInv, RingHoldsQueue, Copy, ring, writer
  <2>3. WsemLocks' /\ InHand' /\ Counted' /\ TokensCover'
    BY <1>8
       DEF UdpInv, WsemLocks, WriterInside, ReaderInside, InHand, Counted,
           TokensCover, Copy, ring, writer
  <2> QED BY <2>1, <2>2, <2>3 DEF UdpInv
<1>9. CASE Advance
  <2>1. RingHoldsQueue' /\ UdpTypeOK'
    BY <1>9, AdvanceKeepsRing
  <2>2. WsemLocks' /\ InHand' /\ Counted' /\ CopyIsOldest' /\ TokensCover'
    BY <1>9
       DEF UdpInv, WsemLocks, WriterInside, ReaderInside, InHand, Counted,
           CopyIsOldest, TokensCover, Advance, writer
  <2> QED BY <2>1, <2>2 DEF UdpInv
<1>10. CASE ReaderUnlock
  <2>1. UdpTypeOK'
    <3>1. wsem' = 1 /\ rpc' = "check" /\ got' = None /\ early' = FALSE
      BY <1>10 DEF UdpInv, UdpTypeOK, WsemLocks, ReaderInside, ReaderUnlock
    <3>2. UNCHANGED <<unused, rhead, whead, slot, rsem, wpc, payload, queue>>
      BY <1>10 DEF ReaderUnlock, ring, writer
    <3>3. UdpTypeOK
      BY DEF UdpInv
    <3> QED BY <3>1, <3>2, <3>3 DEF UdpTypeOK
  <2>2. RingHoldsQueue'
    BY <1>10 DEF UdpInv, RingHoldsQueue, ReaderUnlock, ring, writer
  <2>3. WsemLocks' /\ InHand' /\ Counted' /\ CopyIsOldest' /\ TokensCover'
    BY <1>10
       DEF UdpInv, WsemLocks, WriterInside, ReaderInside, InHand, Counted,
           CopyIsOldest, TokensCover, ReaderUnlock, ring, writer
  <2> QED BY <2>1, <2>2, <2>3 DEF UdpInv
<1> QED
  BY <1>2, <1>3, <1>4, <1>5, <1>6, <1>7, <1>8, <1>9, <1>10 DEF ReaderStep

\* The invariant is inductive.
LEMMA UdpInvariant == ASSUME ~Crowded PROVE UdpSafety => []UdpInv
PROOF
<1>1. Init => UdpInv
  BY UdpInitInv
<1>2. UdpInv /\ [UdpNext]_vars => UdpInv'
  <2> SUFFICES ASSUME UdpInv, [UdpNext]_vars PROVE UdpInv'
    OBVIOUS
  <2>1. CASE UdpNext
    BY <2>1, WriterKeepsInv, ReaderKeepsInv DEF UdpNext
  <2>2. CASE UNCHANGED vars
    BY <2>2
       DEF vars, ring, writer, reader, UdpInv, UdpTypeOK, WsemLocks,
           WriterInside, ReaderInside, InHand, Counted, RingHoldsQueue,
           CopyIsOldest, TokensCover
  <2> QED BY <2>1, <2>2
<1> QED BY <1>1, <1>2, PTL DEF UdpSafety

-----------------------------------------------------------------------------
\* Every variable of the ring keeps its type, for every size of the ring.
THEOREM UdpTypeCorrect == ASSUME ~Crowded PROVE UdpSafety => []UdpTypeOK
<1>1. UdpInv => UdpTypeOK
  BY DEF UdpInv
<1> QED BY <1>1, UdpInvariant, PTL

\* The ring holds what came and was not taken, in order, whatever the two
\* tasks do to each other.
THEOREM RingInOrder == ASSUME ~Crowded PROVE UdpSafety => []RingHoldsQueue
<1>1. UdpInv => RingHoldsQueue
  BY DEF UdpInv
<1> QED BY <1>1, UdpInvariant, PTL

\* A packet is not overwritten between its copy and its removal.
THEOREM OldestCopied == ASSUME ~Crowded PROVE UdpSafety => []CopyIsOldest
<1>1. UdpInv => CopyIsOldest
  BY DEF UdpInv
<1> QED BY <1>1, UdpInvariant, PTL

\* The CoAP task does not sleep while there is a packet.
THEOREM ReaderAwake == ASSUME ~Crowded PROVE UdpSafety => []NobodySleepsOnPacket
<1>1. UdpInv => NobodySleepsOnPacket
  <2> SUFFICES ASSUME UdpInv, rpc = "pend", rsem = 0, queue # <<>>
               PROVE  wpc \in {"unlock", "notify"}
    BY DEF NobodySleepsOnPacket
  <2>1. Len(queue) \in 0 .. N /\ queue \in Seq(Packets)
    BY UdpAssumption, QueueFits DEF UdpInv, UdpTypeOK
  <2>2. Len(queue) > 0
    BY <2>1
  <2> QED BY <2>2 DEF UdpInv, TokensCover
<1> QED BY <1>1, UdpInvariant, PTL
=============================================================================
