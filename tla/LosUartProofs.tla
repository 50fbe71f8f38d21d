---------------------------- MODULE LosUartProofs ----------------------------
(***************************************************************************)
(* Proofs about LosUart, for every size of the buffer and of the requests. *)
(* Nothing is assumed of when the halves are swapped: Sound says, of every *)
(* place of the reader, what holds there as long as no swap has come       *)
(* between its look and its booking.                                       *)
(***************************************************************************)
EXTENDS LosUart, SequenceTheorems, TLAPS

Pcs == {"out", "look", "pend", "copy_all", "clear_all", "count", "reset", "time",
        "copy_part", "clear_part", "advance", "reduce", "fault"}

\* Where the half that is being filled begins, and the other one.
Base == rx - Half + room
Other == Half - Base

UartType ==
  /\ buf \in [0 .. 2 * Half - 1 -> Nat]
  /\ rx \in Nat
  /\ room \in 1 .. Half
  /\ Base \in {0, Half}
  /\ received \in Nat
  /\ line \in {"busy", "silent"}
  /\ at \in Int
  /\ readcnt \in Int
  /\ rsem \in Nat
  /\ pc \in Pcs
  /\ mode \in {"block", "poll"}
  /\ left \in Int
  /\ waited \in BOOLEAN
  /\ got \in Seq(Nat)
  /\ torn \in BOOLEAN

\* The reader copies before it books: what it has still to copy has Rest bytes
\* and begins at From; Start is where the bytes of readcnt begin.
Rest == CASE pc \in {"clear_all", "count", "reset"} -> 0
          [] pc \in {"clear_part", "advance", "reduce"} -> readcnt - left
          [] OTHER -> readcnt
From == IF pc \in {"clear_part", "advance"} THEN at + left ELSE at
Start == IF pc = "reduce" THEN at - left ELSE at
Before == received - (Half - room) - Rest

\* The branch a reader has taken is still the right one.
Branches ==
  /\ readcnt \in 0 .. Half
  /\ left \in Nat
  /\ pc \in {"copy_all", "clear_all", "count"} => left > readcnt
  /\ pc \in {"copy_part", "clear_part", "advance", "reduce"} => left <= readcnt

\* The two sides work in different halves.
Apart == readcnt > 0 => Other <= Start /\ Start + readcnt <= Other + Half

\* Each byte that came in is in its place: given, lost, ready or being filled.
InPlace ==
  /\ Before >= 0
  /\ InBuffer(From, Rest, Before)
  /\ InBuffer(Base, Half - room, Before + Rest)
  /\ Accounts(got, lost, Before)
  /\ lost \subseteq 1 .. Before

Sound == Branches /\ Apart /\ InPlace

UartInv == UartType /\ NobodySleepsOnBytes /\ (~torn => Sound)

-----------------------------------------------------------------------------
(***************************************************************************)
(* The account.                                                            *)
(***************************************************************************)

\* What is unread is written off: the first m bytes are accounted for.
WrittenOff(m) ==
  /\ lost \cup Unread \subseteq 1 .. m
  /\ Accounts(got, lost \cup Unread, m)

LEMMA WriteOff ==
  ASSUME got \in Seq(Nat), at \in Int, readcnt \in Nat, NEW m \in Nat,
         lost \subseteq 1 .. m, Accounts(got, lost, m), InBuffer(at, readcnt, m)
  PROVE  WrittenOff(m + readcnt)
<1>1. ASSUME NEW k \in at .. at + readcnt - 1 PROVE buf[k] = m + (k - at + 1)
  <2>1. k - at + 1 \in 1 .. readcnt /\ at + (k - at + 1) - 1 = k
    OBVIOUS
  <2> QED BY <2>1 DEF InBuffer
<1>2. Unread = m + 1 .. m + readcnt
  <2>1. ASSUME NEW b \in Unread PROVE b \in m + 1 .. m + readcnt
    BY <1>1 DEF Unread
  <2>2. ASSUME NEW b \in m + 1 .. m + readcnt PROVE b \in Unread
    <3>1. at + (b - m) - 1 \in at .. at + readcnt - 1
      OBVIOUS
    <3>2. buf[at + (b - m) - 1] = b
      BY <1>1, <3>1
    <3> QED BY <3>1, <3>2 DEF Unread
  <2> QED BY <2>1, <2>2
<1>3. lost \cup Unread \subseteq 1 .. m + readcnt
  BY <1>2
<1>4. \A k \in DOMAIN got : got[k] \in 1 .. m + readcnt
  BY DEF Accounts
<1>5. ASSUME NEW b \in 1 .. m + readcnt
      PROVE  b \in lost \cup Unread <=> \A k \in DOMAIN got : got[k] # b
  <2>1. CASE b <= m
    BY <1>2, <2>1 DEF Accounts
  <2>2. CASE b > m
    <3>1. b \in Unread
      BY <1>2, <2>2
    <3>2. ASSUME NEW k \in DOMAIN got PROVE got[k] # b
      <4>1. got[k] \in 1 .. m
        BY DEF Accounts
      <4> QED BY <2>2, <4>1
    <3> QED BY <3>1, <3>2
  <2> QED BY <2>1, <2>2
<1>6. Accounts(got, lost \cup Unread, m + readcnt)
  BY <1>4, <1>5 DEF Accounts
<1> QED BY <1>3, <1>6 DEF WrittenOff

\* The bytes that are ready can be given to the reader.
LEMMA Give ==
  ASSUME NEW g \in Seq(Nat), NEW m \in Nat, NEW n \in Nat, NEW e \in Seq(Nat),
         NEW l, l \subseteq 1 .. m, Accounts(g, l, m),
         Len(e) = n, \A j \in 1 .. n : e[j] = m + j
  PROVE  Accounts(g \o e, l, m + n)
<1> DEFINE h == g \o e
<1>1. /\ h \in Seq(Nat)
      /\ Len(h) = Len(g) + n
      /\ \A k \in 1 .. Len(g) + n : h[k] = IF k <= Len(g) THEN g[k] ELSE e[k - Len(g)]
  BY ConcatProperties
<1> HIDE DEF h
<1>2. Len(g) \in Nat /\ DOMAIN g = 1 .. Len(g) /\ DOMAIN h = 1 .. Len(g) + n
  BY <1>1
<1>3. ASSUME NEW k \in 1 .. Len(g) PROVE h[k] = g[k] /\ h[k] \in 1 .. m
  <2>1. k \in 1 .. Len(g) + n /\ k <= Len(g) /\ k \in DOMAIN g
    BY <1>2
  <2>2. h[k] = g[k]
    BY <1>1, <2>1
  <2> QED BY <2>1, <2>2 DEF Accounts
<1>4. ASSUME NEW k \in Len(g) + 1 .. Len(g) + n PROVE h[k] = m + (k - Len(g))
  <2>1. k - Len(g) \in 1 .. n /\ ~(k <= Len(g)) /\ k \in 1 .. Len(g) + n
    BY <1>2
  <2> QED BY <1>1, <2>1
<1>5. \A k \in DOMAIN h : h[k] \in 1 .. m + n
  <2> SUFFICES ASSUME NEW k \in 1 .. Len(g) + n PROVE h[k] \in 1 .. m + n
    BY <1>2
  <2>1. CASE k <= Len(g)
    BY <1>2, <1>3, <2>1
  <2>2. CASE k > Len(g)
    BY <1>2, <1>4, <2>2
  <2> QED BY <1>2, <2>1, <2>2
<1>6. ASSUME NEW i \in DOMAIN h, NEW j \in DOMAIN h, i < j PROVE h[i] < h[j]
  <2>0. i \in 1 .. Len(g) + n /\ j \in 1 .. Len(g) + n
    BY <1>2
  <2>1. CASE j <= Len(g)
    <3>1. i \in DOMAIN g /\ j \in DOMAIN g /\ h[i] = g[i] /\ h[j] = g[j]
      BY <1>2, <1>3, <1>6, <2>0, <2>1
    <3> QED BY <1>6, <3>1 DEF Accounts
  <2>2. CASE i <= Len(g) /\ j > Len(g)
    <3>1. h[i] \in 1 .. m
      BY <1>2, <1>3, <2>0, <2>2
    <3>2. h[j] = m + (j - Len(g)) /\ j - Len(g) > 0
      BY <1>2, <1>4, <2>0, <2>2
    <3> QED BY <1>2, <2>0, <3>1, <3>2
  <2>3. CASE i > Len(g)
    BY <1>2, <1>4, <1>6, <2>0, <2>3
  <2> QED BY <1>2, <2>0, <2>1, <2>2, <2>3
<1>7. ASSUME NEW b \in 1 .. m + n
      PROVE  b \in l <=> \A k \in DOMAIN h : h[k] # b
  <2>1. CASE b > m
    <3>1. b - m + Len(g) \in Len(g) + 1 .. Len(g) + n
      BY <1>2, <2>1
    <3>2. h[b - m + Len(g)] = b
      <4>1. m + ((b - m + Len(g)) - Len(g)) = b
        BY <1>2
      <4> QED BY <1>4, <3>1, <4>1
    <3>3. b - m + Len(g) \in DOMAIN h
      BY <1>2, <3>1
    <3> QED BY <2>1, <3>2, <3>3
  <2>2. CASE b <= m
    <3>1. b \in l <=> \A k \in DOMAIN g : g[k] # b
      BY <2>2 DEF Accounts
    <3>2. ASSUME NEW k \in DOMAIN h, h[k] = b PROVE k \in DOMAIN g /\ g[k] = b
      <4>1. CASE k <= Len(g)
        BY <1>2, <1>3, <3>2, <4>1
      <4>2. CASE k > Len(g)
        BY <1>2, <1>4, <2>2, <3>2, <4>2
      <4> QED BY <1>2, <4>1, <4>2
    <3>3. \A k \in DOMAIN g : k \in DOMAIN h /\ h[k] = g[k]
      BY <1>2, <1>3
    <3> QED BY <3>1, <3>2, <3>3
  <2> QED BY <2>1, <2>2
<1>8. Accounts(h, l, m + n)
  BY <1>5, <1>6, <1>7 DEF Accounts
<1> QED BY <1>8 DEF h

\* What is still to be copied lies in the half that is not being filled.
LEMMA Located ==
  ASSUME UartType, Branches, Apart
  PROVE  /\ Rest \in 0 .. Half
         /\ Rest > 0 => Other <= From /\ From + Rest <= Other + Half
<1> USE UartAssumption
<1>0. readcnt \in 0 .. Half /\ left \in Nat /\ at \in Int /\ Other \in {0, Half}
  BY DEF Branches, UartType, Other
<1>1. CASE pc \in {"clear_all", "count", "reset"}
  BY <1>1 DEF Rest
<1>2. CASE pc \in {"clear_part", "advance", "reduce"}
  <2>1. Rest = readcnt - left /\ left <= readcnt
    BY <1>2 DEF Rest, Branches
  <2>2. From = Start + left
    BY <1>0, <1>2 DEF From, Start
  <2>3. Start \in Int
    BY <1>0 DEF Start
  <2>4. From + Rest = Start + readcnt
    BY <1>0, <2>1, <2>2, <2>3
  <2> QED BY <1>0, <2>1, <2>2, <2>3, <2>4 DEF Apart
<1>3. CASE pc \notin {"clear_all", "count", "reset", "clear_part", "advance", "reduce"}
  BY <1>0, <1>3 DEF Rest, From, Start, Apart
<1> QED BY <1>1, <1>2, <1>3

-----------------------------------------------------------------------------
LEMMA InitInv == Init => UartInv
<1> SUFFICES ASSUME Init PROVE UartInv
  OBVIOUS
<1> USE UartAssumption DEF Init, RxXferSize
<1>1. Base = 0
  BY DEF Base
<1>2. UartType
  <2>1. got \in Seq(Nat) /\ DOMAIN got = {}
    <3>1. <<>> \in Seq(Nat) /\ Len(<<>>) = 0
      BY EmptySeq
    <3> QED BY <3>1
  <2>2. buf \in [0 .. 2 * Half - 1 -> Nat]
    OBVIOUS
  <2>3. waited \in BOOLEAN /\ mode \in {"block", "poll"} /\ line \in {"busy", "silent"}
        /\ torn \in BOOLEAN
    OBVIOUS
  <2>4. pc \in Pcs
    BY DEF Pcs
  <2>5. room \in 1 .. Half
    OBVIOUS
  <2> QED BY <1>1, <2>1, <2>2, <2>3, <2>4, <2>5 DEF UartType
<1>3. Rest = 0 /\ From = 0 /\ Start = 0 /\ Before = 0
  BY DEF Rest, From, Start, Before
<1>4. Branches /\ Apart /\ NobodySleepsOnBytes
  BY <1>3 DEF Branches, Apart, NobodySleepsOnBytes
<1>5. InPlace
  <2>1. DOMAIN got = {}
    OBVIOUS
  <2> QED BY <1>1, <1>3, <2>1 DEF InPlace, InBuffer, Accounts
<1> QED BY <1>2, <1>4, <1>5 DEF UartInv, Sound

(***************************************************************************)
(* The two interrupts.                                                     *)
(***************************************************************************)

LEMMA EitherHalf ==
  ASSUME NEW x \in {0, Half}
  PROVE  x \in Int /\ Half - x \in Nat /\ Half - (Half - x) = x
BY UartAssumption

\* Where a swap leaves the halves: the writer in one, the reader in the other,
\* which is the one that was being filled unless nothing was in it.
LEMMA SwapFacts ==
  ASSUME UartType, NEW n \in 0 .. Half, Swap(Base + n, n)
  PROVE  /\ at' \in {0, Half}
         /\ rx' = Half - at'
         /\ Base' = Half - at'
         /\ Base' \in {0, Half}
         /\ n > 0 => at' = Base
         /\ room' = Half /\ readcnt' = n /\ rsem' = rsem + 1
<1> USE UartAssumption
<1>1. /\ rx' = IF SecondHalf(Base + n) THEN 0 ELSE Half
      /\ at' = IF SecondHalf(Base + n) THEN Half ELSE 0
      /\ room' = Half /\ readcnt' = n /\ rsem' = rsem + 1
  BY DEF Swap, RxXferSize, Posted
<1>2. Base \in {0, Half}
  BY DEF UartType
<1>3. CASE SecondHalf(Base + n)
  <2>1. Base = Half /\ n > 0
    BY <1>2, <1>3 DEF SecondHalf
  <2> QED BY <1>1, <1>3, <2>1 DEF Base
<1>4. CASE ~SecondHalf(Base + n)
  <2>1. n > 0 => Base = 0
    BY <1>2, <1>4 DEF SecondHalf
  <2> QED BY <1>1, <1>4, <2>1 DEF Base
<1> QED BY <1>3, <1>4

\* A swap between two looks of the reader hands over the last n bytes and
\* writes off what was ready before.
LEMMA SwapSound ==
  ASSUME UartType, Sound, Between, ~torn, NEW n \in 0 .. Half, Swap(Base + n, n),
         UNCHANGED <<pc, left, got>>,
         received' = Before + Rest + n,
         \A j \in 1 .. n : buf'[Base + j - 1] = Before + Rest + j
  PROVE  Sound'
<1> USE UartAssumption
<1>1. /\ at' \in {0, Half}
      /\ Base' = Half - at'
      /\ n > 0 => at' = Base
      /\ room' = Half
      /\ readcnt' = n
  BY SwapFacts
<1>2. Rest = readcnt /\ From = at /\ readcnt \in 0 .. Half /\ left \in Nat
  BY DEF Between, Rest, From, Sound, Branches
<1>3. Rest' = n /\ From' = at' /\ Start' = at' /\ Before' = Before + readcnt
  <2>1. Rest' = n /\ From' = at' /\ Start' = at'
    BY <1>1 DEF Between, Rest, From, Start
  <2>2. Before \in Int
    BY <1>2 DEF UartType, Before
  <2> QED BY <1>1, <1>2, <2>1, <2>2 DEF Before
<1>4. Branches'
  BY <1>1, <1>2 DEF Branches, Between
<1>5. Apart'
  <2>1. at' \in Int /\ Other' = at'
    BY <1>1, EitherHalf DEF Other
  <2>2. Start' = at' /\ readcnt' = n
    BY <1>1, <1>3
  <2>3. at' <= at' /\ at' + n <= at' + Half
    <3>1. \A x \in Int : x <= x /\ x + n <= x + Half
      OBVIOUS
    <3> QED BY <2>1, <3>1
  <2> QED BY <2>1, <2>2, <2>3 DEF Apart
<1>6. Before \in Nat /\ Accounts(got, lost, Before) /\ lost \subseteq 1 .. Before
      /\ InBuffer(at, readcnt, Before)
  BY <1>2 DEF Sound, InPlace, UartType, Before
<1>7. lost' = lost \cup Unread
  BY DEF Swap
<1>8. lost' \subseteq 1 .. Before + readcnt /\ Accounts(got, lost', Before + readcnt)
  <2>1. got \in Seq(Nat) /\ at \in Int /\ readcnt \in Nat
    BY <1>2 DEF UartType
  <2>2. PICK m \in Nat : m = Before
    BY <1>6
  <2>3. WrittenOff(m + readcnt)
    BY <1>6, <2>1, <2>2, WriteOff
  <2> QED BY <1>7, <2>2, <2>3 DEF WrittenOff
<1>9. InPlace'
  <2>1. Before' >= 0
    BY <1>2, <1>3, <1>6
  <2>2. InBuffer(From, Rest, Before)'
    <3> SUFFICES ASSUME NEW j \in 1 .. n PROVE buf'[at' + j - 1] = Before + readcnt + j
      BY <1>3 DEF InBuffer
    <3>1. at' = Base
      BY <1>1
    <3>2. buf'[Base + j - 1] = Before + readcnt + j
      BY <1>2
    <3> QED BY <3>1, <3>2
  <2>3. InBuffer(Base, Half - room, Before + Rest)'
    BY <1>1 DEF InBuffer
  <2>4. Accounts(got, lost, Before)' /\ (lost \subseteq 1 .. Before)'
    BY <1>3, <1>8 DEF Accounts
  <2> QED BY <2>1, <2>2, <2>3, <2>4 DEF InPlace
<1> QED BY <1>4, <1>5, <1>9 DEF Sound

\* A byte for which there is room.
LEMMA ByteSound ==
  ASSUME UartType, Sound, room > 1, rx' = rx + 1, room' = room - 1,
         received' = received + 1, buf' = [buf EXCEPT ![rx] = received + 1],
         UNCHANGED <<at, readcnt, lost, pc, left, got>>
  PROVE  Sound'
<1> USE UartAssumption
<1>1. Branches /\ Apart /\ InPlace /\ Rest \in 0 .. Half
      /\ (Rest > 0 => Other <= From /\ From + Rest <= Other + Half)
  BY Located DEF Sound
<1>2. Base' = Base /\ Other' = Other /\ Rest' = Rest /\ From' = From /\ Start' = Start
  <2>1. Base' = Base
    BY DEF Base, UartType
  <2>2. Rest' = Rest /\ From' = From /\ Start' = Start
    BY DEF Rest, From, Start
  <2> QED BY <2>1, <2>2 DEF Other
<1>3. /\ Base \in {0, Half} /\ room \in 2 .. Half
      /\ rx = Base + (Half - room) /\ rx \in 0 .. 2 * Half - 1
      /\ From \in Int /\ received \in Nat
  BY <1>1 DEF UartType, Base, From, Branches
<1>4. Before' = Before /\ Before \in Nat /\ received = Before + Rest + (Half - room)
  <2>1. Before = received - (Half - room) - Rest /\ Before >= 0
    BY <1>1 DEF Before, InPlace
  <2>2. Before' = (received + 1) - (Half - (room - 1)) - Rest
    BY <1>2 DEF Before
  <2> QED BY <1>1, <1>3, <2>1, <2>2
<1>5. /\ buf'[rx] = received + 1
      /\ \A i \in 0 .. 2 * Half - 1 : i # rx => buf'[i] = buf[i]
  BY <1>3 DEF UartType
<1>6. InBuffer(From, Rest, Before)'
  <2> SUFFICES ASSUME NEW j \in 1 .. Rest PROVE buf'[From + j - 1] = Before + j
    BY <1>2, <1>4 DEF InBuffer
  <2>1. From + j - 1 \in Other .. Other + Half - 1
    BY <1>1, <1>3 DEF Other
  <2>2. From + j - 1 \in 0 .. 2 * Half - 1 /\ From + j - 1 # rx
    BY <1>3, <2>1 DEF Other
  <2> QED BY <1>1, <1>5, <2>2 DEF InPlace, InBuffer
<1>7. InBuffer(Base, Half - room, Before + Rest)'
  <2> SUFFICES ASSUME NEW j \in 1 .. Half - (room - 1)
               PROVE  buf'[Base + j - 1] = Before + Rest + j
    BY <1>2, <1>4 DEF InBuffer
  <2>1. CASE j = Half - room + 1
    <3>1. Base + j - 1 = rx
      BY <1>3, <2>1
    <3>2. Before + Rest + j = received + 1
      BY <1>1, <1>3, <1>4, <2>1
    <3> QED BY <1>5, <3>1, <3>2
  <2>2. CASE j # Half - room + 1
    <3>1. j \in 1 .. Half - room
      BY <1>3, <2>2
    <3>2. Base + j - 1 \in 0 .. 2 * Half - 1 /\ Base + j - 1 # rx
      BY <1>3, <3>1
    <3> QED BY <1>1, <1>5, <3>1, <3>2 DEF InPlace, InBuffer
  <2> QED BY <2>1, <2>2
<1>8. Branches' /\ Apart'
  BY <1>1, <1>2 DEF Branches, Apart
<1>9. InPlace'
  BY <1>1, <1>4, <1>6, <1>7 DEF InPlace, Accounts
<1> QED BY <1>8, <1>9 DEF Sound

LEMMA ByteKeepsInv == UartInv /\ ByteIn => UartInv'
<1> SUFFICES ASSUME UartInv, ByteIn PROVE UartInv'
  OBVIOUS
<1> USE UartAssumption
<1>1. UartType /\ NobodySleepsOnBytes /\ (~torn => Sound)
  BY DEF UartInv
<1>2. /\ UNCHANGED <<pc, mode, left, waited, got>>
      /\ received' = received + 1
      /\ buf' = [buf EXCEPT ![rx] = received + 1]
      /\ line' = "busy"
  BY DEF ByteIn, readVars
<1>3. /\ Base \in {0, Half} /\ room \in 1 .. Half /\ received \in Nat
      /\ rx = Base + (Half - room) /\ rx \in 0 .. 2 * Half - 1
  BY <1>1 DEF UartType, Base
<1>4. buf' \in [0 .. 2 * Half - 1 -> Nat]
  BY <1>1, <1>2, <1>3 DEF UartType
<1>5. CASE room > 1 /\ rx' = rx + 1 /\ room' = room - 1 /\ UNCHANGED <<sharedVars, lost, torn>>
  <2>1. UNCHANGED <<at, readcnt, rsem, lost, torn>>
    BY <1>5 DEF sharedVars
  <2>2. Base' = Base
    BY <1>1, <1>5 DEF Base, UartType
  <2>3. UartType' /\ NobodySleepsOnBytes'
    BY <1>1, <1>2, <1>3, <1>4, <1>5, <2>1, <2>2 DEF UartType, NobodySleepsOnBytes
  <2>4. ~torn' => Sound'
    BY <1>1, <1>2, <1>5, <2>1, ByteSound
  <2> QED BY <2>3, <2>4 DEF UartInv
<1>6. CASE room = 1 /\ Swap(rx + 1, RxXferSize)
  <2>1. Swap(Base + Half, Half)
    BY <1>3, <1>6 DEF RxXferSize
  <2>2. /\ at' \in {0, Half} /\ rx' = Half - at' /\ Base' \in {0, Half}
        /\ room' = Half /\ readcnt' = Half /\ rsem' = rsem + 1
    BY <1>1, <2>1, SwapFacts
  <2>3. torn' = (torn \/ ~Between)
    BY <2>1 DEF Swap
  <2>4. UartType'
    <3>1. at' \in Int /\ rx' \in Nat /\ readcnt' \in Int /\ room' \in 1 .. Half
      <4>1. at' \in Int /\ rx' \in Nat
        BY <2>2, EitherHalf
      <4>2. readcnt' \in Int /\ room' \in 1 .. Half
        BY <2>2
      <4> QED BY <4>1, <4>2
    <3>2. rsem' \in Nat /\ torn' \in BOOLEAN /\ received' \in Nat
      BY <1>1, <1>2, <2>2, <2>3 DEF UartType, Between
    <3> QED BY <1>1, <1>2, <1>4, <2>2, <3>1, <3>2 DEF UartType
  <2>9. NobodySleepsOnBytes'
    BY <1>1, <2>2 DEF UartType, NobodySleepsOnBytes
  <2>5. ASSUME ~torn' PROVE Sound'
    <3>1. ~torn /\ Between /\ Sound
      BY <1>1, <2>3, <2>5 DEF UartType
    <3>2. Before \in Nat /\ Rest \in Nat /\ received = Before + Rest + (Half - 1)
          /\ InBuffer(Base, Half - 1, Before + Rest)
      BY <1>1, <1>3, <1>6, <3>1, Located DEF Sound, InPlace, Before
    <3>3. ASSUME NEW j \in 1 .. Half PROVE buf'[Base + j - 1] = Before + Rest + j
      <4>1. CASE j = Half
        <5>1. Base + j - 1 = rx
          BY <1>3, <1>6, <4>1
        <5> QED BY <1>1, <1>2, <1>3, <3>2, <4>1, <5>1 DEF UartType
      <4>2. CASE j # Half
        <5>1. j \in 1 .. Half - 1
          BY <4>2
        <5>2. Base + j - 1 \in 0 .. 2 * Half - 1 /\ Base + j - 1 # rx
          BY <1>3, <1>6, <5>1
        <5> QED BY <1>1, <1>2, <3>2, <5>1, <5>2 DEF UartType, InBuffer
      <4> QED BY <4>1, <4>2
    <3>4. received' = Before + Rest + Half
      BY <1>2, <3>2
    <3> QED BY <1>1, <1>2, <2>1, <3>1, <3>3, <3>4, SwapSound
  <2> QED BY <2>4, <2>5, <2>9 DEF UartInv
<1> QED BY <1>5, <1>6 DEF ByteIn

LEMMA IdleKeepsInv == UartInv /\ IdleIn => UartInv'
<1> SUFFICES ASSUME UartInv, IdleIn PROVE UartInv'
  OBVIOUS
<1> USE UartAssumption
<1>1. UartType /\ NobodySleepsOnBytes /\ (~torn => Sound)
  BY DEF UartInv
<1>2. /\ UNCHANGED <<buf, received, pc, mode, left, waited, got>>
      /\ line' = "silent"
      /\ Swap(rx, Half - room)
  BY DEF IdleIn, readVars, Frame, RxXferSize
<1>3. Half - room \in 0 .. Half /\ rx = Base + (Half - room)
  BY <1>1 DEF UartType, Base
<1>4. PICK n \in 0 .. Half : n = Half - room
  BY <1>3
<1>5. Swap(Base + n, n)
  BY <1>2, <1>3, <1>4
<1>6. /\ at' \in {0, Half} /\ rx' = Half - at' /\ Base' \in {0, Half}
      /\ room' = Half /\ readcnt' = n /\ rsem' = rsem + 1
  BY <1>1, <1>5, SwapFacts
<1>7. torn' = (torn \/ ~Between)
  BY <1>5 DEF Swap
<1>8. UartType' /\ NobodySleepsOnBytes'
  <2>1. at' \in Int /\ rx' \in Nat /\ readcnt' \in Int /\ room' \in 1 .. Half
    <3>1. at' \in Int /\ rx' \in Nat
      BY <1>6, EitherHalf
    <3>2. readcnt' \in Int /\ room' \in 1 .. Half
      BY <1>6
    <3> QED BY <3>1, <3>2
  <2>2. rsem' \in Nat /\ torn' \in BOOLEAN
    BY <1>1, <1>6, <1>7 DEF UartType, Between
  <2>3. UartType'
    BY <1>1, <1>2, <1>6, <2>1, <2>2 DEF UartType
  <2>4. NobodySleepsOnBytes'
    BY <1>1, <1>6 DEF UartType, NobodySleepsOnBytes
  <2> QED BY <2>3, <2>4
<1>9. ASSUME ~torn' PROVE Sound'
  <2>1. ~torn /\ Between /\ Sound
    BY <1>1, <1>7, <1>9 DEF UartType
  <2>2. Before \in Nat /\ Rest \in Nat /\ received = Before + Rest + n
        /\ InBuffer(Base, n, Before + Rest)
    BY <1>1, <1>4, <2>1, Located DEF Sound, InPlace, Before, UartType
  <2>3. \A j \in 1 .. n : buf'[Base + j - 1] = Before + Rest + j
    BY <1>2, <2>2 DEF InBuffer
  <2>4. received' = Before + Rest + n
    BY <1>2, <2>2
  <2> QED BY <1>1, <1>2, <1>5, <2>1, <2>3, <2>4, SwapSound
<1> QED BY <1>8, <1>9 DEF UartInv

(***************************************************************************)
(* The reader.                                                             *)
(***************************************************************************)

\* A step that leaves what there is still to copy as it was.
Steady ==
  /\ UNCHANGED <<rxVars, got, lost, torn>>
  /\ UartType' /\ NobodySleepsOnBytes'
  /\ Sound => /\ Branches' /\ Apart'
              /\ Rest' = Rest
              /\ Rest > 0 => From' = From

LEMMA SteadyKeepsInv == UartInv /\ Steady => UartInv'
<1> SUFFICES ASSUME UartInv, Steady PROVE UartInv'
  OBVIOUS
<1>1. /\ UNCHANGED <<buf, rx, room, received, got, lost, torn>>
      /\ UartType /\ UartType' /\ NobodySleepsOnBytes'
  BY DEF Steady, UartInv, rxVars
<1>2. ASSUME ~torn PROVE Sound'
  <2>1. Sound
    BY <1>2 DEF UartInv
  <2>2. Branches' /\ Apart' /\ Rest' = Rest /\ (Rest > 0 => From' = From)
    BY <2>1 DEF Steady
  <2>3. Base' = Base /\ Before' = Before
    BY <1>1, <2>2 DEF Base, Before
  <2>4. Rest \in 0 .. Half
    BY <1>1, <2>1, Located DEF Sound
  <2>5. InBuffer(From, Rest, Before)'
    <3> SUFFICES ASSUME NEW j \in 1 .. Rest PROVE buf[From' + j - 1] = Before + j
      BY <1>1, <2>2, <2>3 DEF InBuffer
    <3>1. Rest > 0
      BY <2>4
    <3> QED BY <2>1, <2>2, <3>1 DEF Sound, InPlace, InBuffer
  <2>6. InPlace'
    BY <1>1, <2>1, <2>2, <2>3, <2>5 DEF Sound, InPlace, InBuffer, Accounts
  <2> QED BY <2>2, <2>6 DEF Sound
<1> QED BY <1>1, <1>2 DEF UartInv

\* What the reader changes keeps its type.
Typed ==
  /\ UNCHANGED <<buf, rx, room, received, line, got, torn>>
  /\ at' \in Int /\ readcnt' \in Int /\ rsem' \in Nat
  /\ pc' \in Pcs /\ mode' \in {"block", "poll"} /\ left' \in Int
  /\ waited' \in BOOLEAN

LEMMA TypeKept == UartType /\ Typed => UartType'
BY DEF UartType, Typed, Base

LEMMA CallSteady ==
  ASSUME UartType, NEW n \in ReadSizes, NEW m \in {"block", "poll"}, ReadCall(n, m)
  PROVE  Steady
<1> USE UartAssumption DEF ReadCall, rxVars, sharedVars, history
<1>1. UartType' /\ NobodySleepsOnBytes'
  <2>1. waited' \in BOOLEAN
    BY DEF UartType
  <2>2. at' \in Int /\ readcnt' \in Int /\ rsem' \in Nat /\ left' \in Int
    BY DEF UartType
  <2>3. pc' \in Pcs \ {"pend"} /\ mode' \in {"block", "poll"}
    BY DEF UartType, Pcs
  <2>4. UartType'
    BY <2>1, <2>2, <2>3, TypeKept DEF Typed
  <2> QED BY <2>3, <2>4 DEF NobodySleepsOnBytes
<1>2. Sound => /\ Branches' /\ Apart'
               /\ Rest' = Rest
               /\ Rest > 0 => From' = From
  BY DEF Sound, Branches, Apart, Rest, From, Start, Other, Base
<1> QED BY <1>1, <1>2 DEF Steady

LEMMA LookSteady == UartType /\ Look => Steady
<1> SUFFICES ASSUME UartType, Look PROVE Steady
  OBVIOUS
<1> USE UartAssumption DEF Look, Branch, Return, rxVars, sharedVars, history
<1>1. UartType' /\ NobodySleepsOnBytes'
  BY DEF UartType, NobodySleepsOnBytes, Pcs, Base, Ready
<1>2. Sound => /\ Branches' /\ Apart'
               /\ Rest' = Rest
               /\ Rest > 0 => From' = From
  <2>1. Rest' = Rest /\ From' = From /\ Start' = Start /\ Other' = Other
    BY DEF Rest, From, Start, Other, Base
  <2>2. Sound => Branches'
    BY DEF Sound, Branches, UartType
  <2> QED BY <2>1, <2>2 DEF Sound, Apart
<1> QED BY <1>1, <1>2 DEF Steady

LEMMA PendedSteady == UartType /\ Pended => Steady
<1> SUFFICES ASSUME UartType, Pended PROVE Steady
  OBVIOUS
<1> USE UartAssumption DEF Pended, Branch, rxVars, history
<1>1. UartType' /\ NobodySleepsOnBytes'
  BY DEF UartType, NobodySleepsOnBytes, Pcs, Base
<1>2. Sound => /\ Branches' /\ Apart'
               /\ Rest' = Rest
               /\ Rest > 0 => From' = From
  BY DEF Sound, Branches, Apart, Rest, From, Start, Other, Base, UartType
<1> QED BY <1>1, <1>2 DEF Steady

LEMMA TimeoutSteady == UartType /\ PendTimeout => Steady
<1> SUFFICES ASSUME UartType, PendTimeout PROVE Steady
  OBVIOUS
<1> USE UartAssumption DEF PendTimeout, Return, rxVars, sharedVars, history
<1>1. UartType' /\ NobodySleepsOnBytes'
  <2>1. waited' \in BOOLEAN
    BY DEF UartType
  <2>2. at' \in Int /\ readcnt' \in Int /\ rsem' \in Nat /\ left' \in Int
    BY DEF UartType
  <2>3. pc' \in Pcs \ {"pend"} /\ mode' \in {"block", "poll"}
    BY DEF UartType, Pcs
  <2>4. UartType'
    BY <2>1, <2>2, <2>3, TypeKept DEF Typed
  <2> QED BY <2>3, <2>4 DEF NobodySleepsOnBytes
<1>2. Sound => /\ Branches' /\ Apart'
               /\ Rest' = Rest
               /\ Rest > 0 => From' = From
  BY DEF Sound, Branches, Apart, Rest, From, Start, Other, Base
<1> QED BY <1>1, <1>2 DEF Steady

LEMMA CountSteady == UartType /\ Count => Steady
<1> SUFFICES ASSUME UartType, Count PROVE Steady
  OBVIOUS
<1> USE UartAssumption DEF Count, rxVars, sharedVars, history
<1>1. UartType' /\ NobodySleepsOnBytes'
  BY DEF UartType, NobodySleepsOnBytes, Pcs, Base
<1>2. Sound => /\ Branches' /\ Apart'
               /\ Rest' = Rest
               /\ Rest > 0 => From' = From
  BY DEF Sound, Branches, Apart, Rest, From, Start, Other, Base
<1> QED BY <1>1, <1>2 DEF Steady

LEMMA ResetSteady == UartType /\ Reset => Steady
<1> SUFFICES ASSUME UartType, Reset PROVE Steady
  OBVIOUS
<1> USE UartAssumption DEF Reset, Return, rxVars, history
<1>1. UartType' /\ NobodySleepsOnBytes'
  <2>1. waited' \in BOOLEAN
    BY DEF UartType
  <2>2. at' \in Int /\ readcnt' \in Int /\ rsem' \in Nat /\ left' \in Int
    BY DEF UartType
  <2>3. pc' \in Pcs \ {"pend"} /\ mode' \in {"block", "poll"}
    BY DEF UartType, Pcs
  <2>4. UartType'
    BY <2>1, <2>2, <2>3, TypeKept DEF Typed
  <2> QED BY <2>3, <2>4 DEF NobodySleepsOnBytes
<1>2. Sound => /\ Branches' /\ Apart'
               /\ Rest' = Rest
               /\ Rest > 0 => From' = From
  <2>1. Rest = 0 /\ Rest' = 0
    BY DEF Rest
  <2>2. Sound => Branches'
    BY DEF Sound, Branches, UartType
  <2> QED BY <2>1, <2>2 DEF Apart
<1> QED BY <1>1, <1>2 DEF Steady

LEMMA ClockSteady == UartType /\ Clock => Steady
<1> SUFFICES ASSUME UartType, Clock PROVE Steady
  OBVIOUS
<1> USE UartAssumption DEF Clock, Return, rxVars, sharedVars, history
<1>1. UartType' /\ NobodySleepsOnBytes'
  BY DEF UartType, NobodySleepsOnBytes, Pcs, Base
<1>2. Sound => /\ Branches' /\ Apart'
               /\ Rest' = Rest
               /\ Rest > 0 => From' = From
  <2>1. Rest' = Rest /\ From' = From /\ Start' = Start /\ Other' = Other
    BY DEF Rest, From, Start, Other, Base
  <2>2. Sound => Branches'
    BY DEF Sound, Branches, UartType
  <2> QED BY <2>1, <2>2 DEF Sound, Apart
<1> QED BY <1>1, <1>2 DEF Steady

LEMMA AdvanceSteady == UartType /\ Advance => Steady
<1> SUFFICES ASSUME UartType, Advance PROVE Steady
  OBVIOUS
<1> USE UartAssumption DEF Advance, rxVars, history
<1>1. UartType' /\ NobodySleepsOnBytes'
  BY DEF UartType, NobodySleepsOnBytes, Pcs, Base
<1>2. Sound => /\ Branches' /\ Apart'
               /\ Rest' = Rest
               /\ Rest > 0 => From' = From
  <2>1. Start' = Start /\ Rest' = Rest /\ From' = From /\ Other' = Other
    BY DEF UartType, Start, Rest, From, Other, Base
  <2> QED BY <2>1 DEF Sound, Branches, Apart
<1> QED BY <1>1, <1>2 DEF Steady

LEMMA ReduceSteady == UartType /\ Reduce => Steady
<1> SUFFICES ASSUME UartType, Reduce PROVE Steady
  OBVIOUS
<1> USE UartAssumption DEF Reduce, Return, rxVars, history
<1>1. UartType' /\ NobodySleepsOnBytes'
  <2>1. waited' \in BOOLEAN
    BY DEF UartType
  <2>2. at' \in Int /\ readcnt' \in Int /\ rsem' \in Nat /\ left' \in Int
    BY DEF UartType
  <2>3. pc' \in Pcs \ {"pend"} /\ mode' \in {"block", "poll"}
    BY DEF UartType, Pcs
  <2>4. UartType'
    BY <2>1, <2>2, <2>3, TypeKept DEF Typed
  <2> QED BY <2>3, <2>4 DEF NobodySleepsOnBytes
<1>2. Sound => /\ Branches' /\ Apart'
               /\ Rest' = Rest
               /\ Rest > 0 => From' = From
  <2>1. Rest' = Rest /\ From' = From /\ Other' = Other
    BY DEF Rest, From, Other, Base
  <2>2. Start' + readcnt' = Start + readcnt /\ Start' = Start + left
    BY DEF UartType, Start
  <2>3. ASSUME Sound PROVE Branches' /\ Apart'
    <3>1. readcnt \in 0 .. Half /\ left \in Nat /\ left <= readcnt
      BY <2>3 DEF Sound, Branches
    <3>2. Branches'
      BY <3>1 DEF Branches
    <3>3. Start \in Int /\ Other \in {0, Half}
      BY DEF UartType, Start, Other
    <3>4. Apart'
      BY <2>1, <2>2, <2>3, <3>1, <3>3 DEF Sound, Apart
    <3> QED BY <3>2, <3>4
  <2> QED BY <2>1, <2>3
<1> QED BY <1>1, <1>2 DEF Steady

\* Readers are given the next bytes that came in.
LEMMA CopyKeepsInv == UartInv /\ (CopyAll \/ CopyPart) => UartInv'
<1> SUFFICES ASSUME UartInv, CopyAll \/ CopyPart PROVE UartInv'
  OBVIOUS
<1> USE UartAssumption
<1>1. UartType /\ (~torn => Sound)
  BY DEF UartInv
<1>2. PICK n \in Int, next \in {"reset", "clear_all", "advance", "clear_part"} :
        /\ Copy(n, next)
        /\ \/ pc = "copy_all" /\ n = readcnt /\ next \in {"reset", "clear_all"}
           \/ pc = "copy_part" /\ n = left /\ next \in {"advance", "clear_part"}
  <2>1. readcnt \in Int /\ left \in Int
    BY <1>1 DEF UartType
  <2> QED BY <2>1 DEF CopyAll, CopyPart
<1>3. /\ UNCHANGED <<buf, rx, room, received, line, at, readcnt, rsem, mode, left, waited>>
      /\ UNCHANGED <<lost, torn>>
  BY <1>2 DEF Copy, rxVars, sharedVars
<1>4. pc' = next \/ pc' = "fault"
  BY <1>2 DEF Copy
<1>5. pc' \in Pcs \ {"pend"}
  BY <1>4 DEF Pcs
<1>6. CASE torn
  <2>1. got' = got
    BY <1>2, <1>6 DEF Copy
  <2>2. Typed
    BY <1>1, <1>3, <1>5, <2>1 DEF Typed, UartType
  <2> QED BY <1>1, <1>3, <1>5, <1>6, <2>2, TypeKept DEF UartInv, NobodySleepsOnBytes
<1>7. CASE ~torn
  <2>1. Sound /\ Branches /\ Apart /\ InPlace
    BY <1>1, <1>7 DEF Sound
  <2>2. Rest = readcnt /\ From = at /\ n \in 0 .. readcnt /\ readcnt \in 0 .. Half
    BY <1>2, <2>1 DEF Branches, Rest, From
  <2>3. PICK e : e = [i \in 1 .. n |-> buf[at + i - 1]]
    OBVIOUS
  <2>4. pc' = next /\ got' = got \o e
    <3>1. n >= 0 /\ ~(n < 0)
      BY <2>2
    <3>2. pc' = next
      BY <1>2, <3>1 DEF Copy
    <3>3. got' = got \o [i \in 1 .. n |-> buf[at + i - 1]]
      BY <1>2, <1>7, <3>1 DEF Copy
    <3> QED BY <2>3, <3>2, <3>3
  <2>5. PICK m \in Nat : m = Before
    BY <1>1, <2>1, <2>2 DEF InPlace, Before, UartType
  <2>6. /\ Accounts(got, lost, m) /\ lost \subseteq 1 .. m /\ InBuffer(at, readcnt, m)
        /\ InBuffer(Base, Half - room, m + readcnt) /\ got \in Seq(Nat) /\ n \in Nat
    BY <1>1, <2>1, <2>2, <2>5 DEF InPlace, UartType
  <2>7. \A j \in 1 .. n : e[j] = m + j
    BY <2>2, <2>3, <2>6 DEF InBuffer
  <2>8. e \in Seq(Nat) /\ Len(e) = n
    <3>1. e \in [1 .. n -> Nat]
      BY <2>3, <2>6, <2>7
    <3> QED BY <2>6, <3>1
  <2>9. Accounts(got', lost, m + n)
    BY <2>4, <2>6, <2>7, <2>8, Give
  <2>10. got' \in Seq(Nat)
    BY <2>4, <2>6, <2>8
  <2>11. UartType'
    BY <1>1, <1>3, <1>5, <2>10 DEF UartType, Base
  <2>12. Rest' = readcnt - n /\ (Rest' > 0 => From' = at + n)
    BY <1>2, <1>3, <2>2, <2>4 DEF Rest, From
  <2>13. Before' = m + n /\ Base' = Base
    <3>1. received \in Nat /\ room \in Int
      BY <1>1 DEF UartType
    <3>2. m = received - (Half - room) - readcnt
      BY <2>2, <2>5 DEF Before
    <3>3. Before' = received - (Half - room) - (readcnt - n)
      BY <1>3, <2>12 DEF Before
    <3> QED BY <1>3, <2>2, <3>1, <3>2, <3>3 DEF Base
  <2>14. Branches' /\ Apart'
    <3>1. Start' = Start /\ Other' = Other
      BY <1>2, <1>3, <2>4 DEF Start, Other, Base
    <3>2. Branches'
      BY <1>2, <1>3, <2>1, <2>4 DEF Branches
    <3> QED BY <1>3, <2>1, <3>1, <3>2 DEF Apart
  <2>15. InBuffer(From, Rest, Before)'
    <3> SUFFICES ASSUME NEW j \in 1 .. readcnt - n PROVE buf[From' + j - 1] = m + n + j
      BY <1>3, <2>12, <2>13 DEF InBuffer
    <3>1. n + j \in 1 .. readcnt /\ readcnt - n > 0
      BY <2>2
    <3>2. buf[at + (n + j) - 1] = m + (n + j)
      BY <2>6, <3>1 DEF InBuffer
    <3>3. From' + j - 1 = at + (n + j) - 1
      BY <1>1, <2>2, <2>12, <3>1 DEF UartType
    <3> QED BY <2>2, <3>2, <3>3
  <2>16. InBuffer(Base, Half - room, Before + Rest)'
    <3>1. Before' + Rest' = m + readcnt
      BY <2>2, <2>12, <2>13
    <3> QED BY <1>3, <2>6, <2>13, <3>1 DEF InBuffer
  <2>17. InPlace'
    <3>1. Accounts(got, lost, Before)' /\ (lost \subseteq 1 .. Before)' /\ Before' >= 0
      BY <1>3, <2>2, <2>6, <2>9, <2>13 DEF Accounts
    <3> QED BY <2>15, <2>16, <3>1 DEF InPlace
  <2> QED BY <1>5, <2>11, <2>14, <2>17 DEF UartInv, Sound, NobodySleepsOnBytes
<1> QED BY <1>6, <1>7

\* Only bytes are cleared that were copied.
LEMMA ClearKeepsInv == UartInv /\ (ClearAll \/ ClearPart) => UartInv'
<1> SUFFICES ASSUME UartInv, ClearAll \/ ClearPart PROVE UartInv'
  OBVIOUS
<1> USE UartAssumption
<1>1. UartType /\ (~torn => Sound)
  BY DEF UartInv
<1>2. PICK n \in Int, next \in {"count", "advance"} :
        /\ Clear(n, next)
        /\ \/ pc = "clear_all" /\ n = readcnt /\ next = "count"
           \/ pc = "clear_part" /\ n = left /\ next = "advance"
  <2>1. readcnt \in Int /\ left \in Int
    BY <1>1 DEF UartType
  <2> QED BY <2>1 DEF ClearAll, ClearPart
<1>3. /\ UNCHANGED <<rx, room, received, line, at, readcnt, rsem, mode, left, waited>>
      /\ UNCHANGED <<got, lost, torn>> /\ pc' = next
  BY <1>2 DEF Clear, sharedVars, history
<1>4. buf' = [i \in DOMAIN buf |-> IF i \in at .. at + n - 1 THEN 0 ELSE buf[i]]
  BY <1>2 DEF Clear
<1>5. UartType'
  <2>1. buf' \in [0 .. 2 * Half - 1 -> Nat]
    BY <1>1, <1>4 DEF UartType
  <2>2. pc' \in Pcs
    BY <1>3 DEF Pcs
  <2> QED BY <1>1, <1>3, <2>1, <2>2 DEF UartType, Base
<1>6. NobodySleepsOnBytes'
  BY <1>3 DEF NobodySleepsOnBytes
<1>7. ASSUME ~torn' PROVE Sound'
  <2>1. Sound /\ Branches /\ Apart /\ InPlace
    BY <1>1, <1>3, <1>7 DEF Sound
  <2>2. /\ n \in 0 .. readcnt /\ readcnt \in 0 .. Half /\ at \in Int
        /\ Base \in {0, Half} /\ Other = Half - Base /\ room \in 1 .. Half
    BY <1>1, <1>2, <2>1 DEF Branches, UartType, Other
  <2>3. Rest' = Rest /\ (Rest > 0 => From' = From /\ From = at + n)
    BY <1>2, <1>3 DEF Rest, From
  <2>4. Start = at /\ Start' = at /\ Base' = Base /\ Other' = Other /\ Before' = Before
    BY <1>2, <1>3, <2>3 DEF Start, Base, Other, Before
  <2>5. Rest \in 0 .. Half /\ (Rest > 0 => Other <= From /\ From + Rest <= Other + Half)
    BY <1>1, <2>1, Located
  <2>6. Branches' /\ Apart'
    BY <1>2, <1>3, <2>1, <2>4 DEF Branches, Apart
  <2>7. InBuffer(From, Rest, Before)'
    <3> SUFFICES ASSUME NEW j \in 1 .. Rest PROVE buf'[From + j - 1] = Before + j
      BY <2>3, <2>4, <2>5 DEF InBuffer
    <3>1. Rest > 0 /\ From = at + n
      BY <2>3, <2>5
    <3>2. From + j - 1 \in 0 .. 2 * Half - 1 /\ From + j - 1 \notin at .. at + n - 1
      BY <2>2, <2>5, <3>1
    <3>3. buf'[From + j - 1] = buf[From + j - 1]
      BY <1>1, <1>4, <3>2 DEF UartType
    <3> QED BY <2>1, <3>3 DEF InPlace, InBuffer
  <2>8. InBuffer(Base, Half - room, Before + Rest)'
    <3> SUFFICES ASSUME NEW j \in 1 .. Half - room
                 PROVE  buf'[Base + j - 1] = Before + Rest + j
      BY <1>3, <2>3, <2>4 DEF InBuffer
    <3>1. Base + j - 1 \in 0 .. 2 * Half - 1 /\ Base + j - 1 \notin at .. at + n - 1
      BY <2>1, <2>2, <2>4 DEF Apart
    <3>2. buf'[Base + j - 1] = buf[Base + j - 1]
      BY <1>1, <1>4, <3>1 DEF UartType
    <3> QED BY <2>1, <3>2 DEF InPlace, InBuffer
  <2>9. InPlace'
    BY <1>3, <2>1, <2>4, <2>7, <2>8 DEF InPlace, Accounts
  <2> QED BY <2>6, <2>9 DEF Sound
<1> QED BY <1>5, <1>6, <1>7 DEF UartInv

-----------------------------------------------------------------------------
LEMMA StutterKeepsInv == UartInv /\ UNCHANGED vars => UartInv'
<1> SUFFICES ASSUME UartInv, UNCHANGED vars PROVE UartInv'
  OBVIOUS
<1> USE DEF vars, rxVars, sharedVars, readVars, history
<1>1. UartType' /\ NobodySleepsOnBytes'
  BY DEF UartInv, UartType, NobodySleepsOnBytes, Base
<1>2. /\ Rest' = Rest /\ From' = From /\ Start' = Start /\ Base' = Base
      /\ Other' = Other /\ Before' = Before
  BY DEF Rest, From, Start, Base, Other, Before
<1>3. ASSUME ~torn' PROVE Sound'
  <2>1. Sound
    BY <1>3 DEF UartInv
  <2> QED BY <1>2, <2>1 DEF Sound, Branches, Apart, InPlace, InBuffer, Accounts
<1> QED BY <1>1, <1>3 DEF UartInv

LEMMA NextKeepsInv == UartInv /\ [Next]_vars => UartInv'
<1> SUFFICES ASSUME UartInv, [Next]_vars PROVE UartInv'
  OBVIOUS
<1>1. UartType
  BY DEF UartInv
<1>2. CASE Receive
  BY <1>2, ByteKeepsInv, IdleKeepsInv DEF Receive
<1>3. CASE CopyAll \/ CopyPart \/ ClearAll \/ ClearPart
  BY <1>3, CopyKeepsInv, ClearKeepsInv
<1>4. CASE Look \/ Pended \/ PendTimeout \/ Count \/ Reset \/ Clock \/ Advance \/ Reduce
  BY <1>1, <1>4, SteadyKeepsInv, LookSteady, PendedSteady, TimeoutSteady, CountSteady,
     ResetSteady, ClockSteady, AdvanceSteady, ReduceSteady
<1>5. CASE \E n \in ReadSizes, m \in {"block", "poll"} : ReadCall(n, m)
  BY <1>1, <1>5, SteadyKeepsInv, CallSteady
<1>6. CASE UNCHANGED vars
  BY <1>6, StutterKeepsInv
<1> QED BY <1>2, <1>3, <1>4, <1>5, <1>6 DEF Next, Reader, Reading

THEOREM UartInvariant == Spec => []UartInv
<1>1. Init => UartInv
  BY InitInv
<1>2. UartInv /\ [Next]_vars => UartInv'
  BY NextKeepsInv
<1> QED BY <1>1, <1>2, PTL DEF Spec

\* No reader sleeps beside bytes that were swapped in for it, wherever the swap
\* falls in los_dev_uart_read: the interrupt posts whenever it swaps, and what
\* the reader leaves, or hides by a negative count, it has looked at since.
THEOREM ReaderAwake == Spec => []NobodySleepsOnBytes
<1>1. UartInv => NobodySleepsOnBytes
  BY DEF UartInv
<1> QED BY <1>1, UartInvariant, PTL

\* Until a swap falls inside a copy, readers are given the bytes of the line in
\* order and once, and lose exactly those that were unread at a swap.
THEOREM OnlySwapsLose == Spec => []BytesAccounted
<1>1. UartInv => BytesAccounted
  <2> SUFFICES ASSUME UartInv, ~torn, Between
               PROVE  /\ InBuffer(at, readcnt, Past)
                      /\ InBuffer(rx - Half + room, Half - room, Past + readcnt)
                      /\ Accounts(got, lost, Past)
    BY DEF BytesAccounted
  <2>1. Rest = readcnt /\ From = at /\ Before = Past
    BY DEF Between, Rest, From, Before, Past
  <2> QED BY <2>1 DEF UartInv, Sound, InPlace, Base
<1> QED BY <1>1, UartInvariant, PTL

=============================================================================
