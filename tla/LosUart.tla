------------------------------ MODULE LosUart ------------------------------
(***************************************************************************)
(* The receiving side of the serial driver (los_dev_st_uart.c).  The       *)
(* interrupt fills one half of a buffer while the reader empties the       *)
(* other, and swaps them when its half is full or the line falls silent.   *)
(*                                                                         *)
(* Nothing but the semaphore connects the two: the interrupt swaps the     *)
(* halves whatever the reader has left unread and wherever in its code it  *)
(* is.  Each statement of the reader that uses interrbuf or readcnt is a   *)
(* step, and the interrupt may come between any two.                       *)
(***************************************************************************)
EXTENDS Integers, Sequences

CONSTANTS
  Half,       \* size / 2
  ReadSizes,  \* the sizes readers ask for
  MaxBytes    \* bound on the bytes that come in

ASSUME UartAssumption ==
  /\ Half \in Nat \ {0}
  /\ ReadSizes \subseteq Nat \ {0}
  /\ MaxBytes \in Nat

VARIABLES
  \* The receiving interrupt.
  buf,       \* the buffer at pbuf, dualbuf being Half; 0 is a cleared byte
  rx,        \* pRxBuffPtr
  room,      \* RxXferCount
  received,  \* bytes that came in: the n-th has the value n
  line,      \* "busy" between the first byte of a frame and its idle interrupt
  \* What it shares with the reader.
  at,        \* interrbuf
  readcnt,
  rsem,      \* the count of rsem
  \* The reader, in los_dev_uart_read.
  pc,        \* where it is
  mode,      \* "block" or "poll" (mstimout 0)
  left,      \* tmpread
  waited,    \* it is on the branch after LOS_SemPend
  \* History.
  got,       \* the bytes readers were given
  lost,      \* the bytes that were unread when the halves were swapped
  torn       \* the halves were swapped between a reader's look and its booking

rxVars == <<buf, rx, room, received, line>>
sharedVars == <<at, readcnt, rsem>>
readVars == <<pc, mode, left, waited>>
history == <<got, lost, torn>>
vars == <<rxVars, sharedVars, readVars, history>>

\* What the interrupt counts down from.
RxXferSize == Half

\* los_dev_uart_init
Init ==
  /\ buf = [i \in 0 .. 2 * Half - 1 |-> 0]
  /\ rx = 0
  /\ room = RxXferSize
  /\ received = 0
  /\ line = "silent"
  /\ at = 0
  /\ readcnt = 0
  /\ rsem = 0
  /\ pc = "out"
  /\ mode = "block"
  /\ left = 0
  /\ waited = FALSE
  /\ got = <<>>
  /\ lost = {}
  /\ torn = FALSE

-----------------------------------------------------------------------------
(***************************************************************************)
(* The receiving interrupt.                                                *)
(***************************************************************************)

\* The reader looks at readcnt next, if at all.
Between == pc \in {"out", "look", "pend", "time"}

\* What the reader has not taken of the half it was given.
Unread == {buf[i] : i \in at .. at + readcnt - 1}

\* The half the interrupt leaves, p being where it would write next.
MutSecondHalf(p) == p >= Half
SecondHalf(p) == p > Half

MutPosted == rsem
Posted == rsem + 1

\* Both interrupts end so: n bytes of the half are handed over.
Swap(p, n) ==
  /\ rx' = IF SecondHalf(p) THEN 0 ELSE Half
  /\ at' = IF SecondHalf(p) THEN Half ELSE 0
  /\ readcnt' = n
  /\ room' = RxXferSize
  /\ rsem' = Posted
  /\ torn' = (torn \/ ~Between)
  /\ lost' = IF torn' THEN lost ELSE lost \cup Unread

\* los_receive_it
ByteIn ==
  /\ pc # "fault"
  /\ received < MaxBytes
  /\ received' = received + 1
  /\ buf' = [buf EXCEPT ![rx] = received + 1]
  /\ line' = "busy"
  /\ \/ /\ room > 1
        /\ rx' = rx + 1
        /\ room' = room - 1
        /\ UNCHANGED <<sharedVars, lost, torn>>
     \/ /\ room = 1
        /\ Swap(rx + 1, RxXferSize)
  /\ UNCHANGED <<readVars, got>>

\* What the silence makes readable; nothing, behind a half that was just full.
Frame == RxXferSize - room

IdleIn ==
  /\ pc # "fault"
  /\ line = "busy"
  /\ line' = "silent"
  /\ Swap(rx, Frame)
  /\ UNCHANGED <<buf, received, readVars, got>>

-----------------------------------------------------------------------------
(***************************************************************************)
(* los_dev_uart_read.                                                      *)
(***************************************************************************)
ReadCall(n, m) ==
  /\ pc = "out"
  /\ pc' = "look"
  /\ mode' = m
  /\ left' = n
  /\ waited' = FALSE
  /\ UNCHANGED <<rxVars, sharedVars, history>>

\* What a call knew is gone when it returns.
Return ==
  /\ pc' = "out"
  /\ mode' = "block"
  /\ left' = 0
  /\ waited' = FALSE

\* The rest of the request, or all there is.
Branch == IF left > readcnt THEN "copy_all" ELSE "copy_part"

MutReady == readcnt >= 0
Ready == readcnt # 0

Look ==
  /\ pc = "look"
  /\ \/ /\ Ready
        /\ pc' = Branch
        /\ waited' = FALSE
        /\ UNCHANGED <<mode, left>>
     \/ /\ ~Ready /\ mode = "block"
        /\ pc' = "pend"
        /\ waited' = FALSE
        /\ UNCHANGED <<mode, left>>
     \/ /\ ~Ready /\ mode = "poll"
        /\ Return
  /\ UNCHANGED <<rxVars, sharedVars, history>>

\* The token may be one of data that was read without waiting: then there is
\* nothing to copy.
Pended ==
  /\ pc = "pend"
  /\ rsem > 0
  /\ rsem' = rsem - 1
  /\ pc' = Branch
  /\ waited' = TRUE
  /\ UNCHANGED <<rxVars, at, readcnt, mode, left, history>>

PendTimeout ==
  /\ pc = "pend"
  /\ rsem = 0
  /\ Return
  /\ UNCHANGED <<rxVars, sharedVars, history>>

\* memcpy.  A count that a swap has made negative is a huge size_t: the copy
\* runs off the memory.
Copy(n, next) ==
  /\ \/ /\ n >= 0
        /\ got' = IF torn THEN got ELSE got \o [i \in 1 .. n |-> buf[at + i - 1]]
        /\ pc' = next
     \/ /\ n < 0
        /\ got' = got
        /\ pc' = "fault"
  /\ UNCHANGED <<rxVars, sharedVars, mode, left, waited, lost, torn>>

\* memset
Clear(n, next) ==
  /\ buf' = [i \in DOMAIN buf |-> IF i \in at .. at + n - 1 THEN 0 ELSE buf[i]]
  /\ pc' = next
  /\ UNCHANGED <<rx, room, received, line, sharedVars, mode, left, waited, history>>

\* A poll leaves the bytes in the buffer.
CopyAll ==
  pc = "copy_all" /\ Copy(readcnt, IF mode = "poll" THEN "reset" ELSE "clear_all")
CopyPart ==
  pc = "copy_part" /\ Copy(left, IF mode = "poll" THEN "advance" ELSE "clear_part")
ClearAll == pc = "clear_all" /\ Clear(readcnt, "count")
ClearPart == pc = "clear_part" /\ Clear(left, "advance")

Count ==
  /\ pc = "count"
  /\ left' = left - readcnt
  /\ pc' = "reset"
  /\ UNCHANGED <<rxVars, sharedVars, mode, waited, history>>

\* A poll ends here, and returns the 0 it has just assigned.
Reset ==
  /\ pc = "reset"
  /\ readcnt' = 0
  /\ \/ /\ mode = "poll"
        /\ Return
     \/ /\ mode = "block"
        /\ pc' = IF waited THEN "time" ELSE "look"
        /\ UNCHANGED <<mode, left, waited>>
  /\ UNCHANGED <<rxVars, at, rsem, history>>

\* The time may be over; the call then returns 0, whatever it has copied.
Clock ==
  /\ pc = "time"
  /\ \/ /\ pc' = "look"
        /\ UNCHANGED <<mode, left, waited>>
     \/ Return
  /\ UNCHANGED <<rxVars, sharedVars, history>>

Advance ==
  /\ pc = "advance"
  /\ at' = at + left
  /\ pc' = "reduce"
  /\ UNCHANGED <<rxVars, readcnt, rsem, mode, left, waited, history>>

Reduce ==
  /\ pc = "reduce"
  /\ readcnt' = readcnt - left
  /\ Return
  /\ UNCHANGED <<rxVars, at, rsem, history>>

-----------------------------------------------------------------------------
Receive == ByteIn \/ IdleIn
Reading ==
  \/ Look \/ Pended \/ PendTimeout
  \/ CopyAll \/ ClearAll \/ Count \/ Reset \/ Clock
  \/ CopyPart \/ ClearPart \/ Advance \/ Reduce
Reader == Reading \/ \E n \in ReadSizes, m \in {"block", "poll"} : ReadCall(n, m)

Next == Receive \/ Reader

\* A reader inside los_dev_uart_read comes to the CPU.  Whether anybody calls,
\* and when, is up to the application.
Spec == Init /\ [][Next]_vars /\ WF_vars(Reading)
-----------------------------------------------------------------------------
(***************************************************************************)
(* Properties.                                                             *)
(***************************************************************************)

\* The n bytes of the buffer from i on are those that came in after the m-th.
InBuffer(i, n, m) == \A j \in 1 .. n : buf[i + j - 1] = m + j

\* Of the first m bytes g has, in order and once, all but those of l.
Accounts(g, l, m) ==
  /\ \A i \in DOMAIN g : g[i] \in 1 .. m
  /\ \A i, j \in DOMAIN g : i < j => g[i] < g[j]
  /\ \A b \in 1 .. m : b \in l <=> \A i \in DOMAIN g : g[i] # b

\* The bytes that came in before those ready to be read.
Past == received - (Half - room) - readcnt

\* As long as no swap falls between a reader's look and its booking, a swap is
\* all that loses bytes, and those it loses are the unread ones: what is ready
\* and what is being filled are the last bytes that came in, each in its place;
\* of the bytes before, readers were given all that were not unread at a swap,
\* in order and once.
BytesAccounted ==
  ~torn /\ Between =>
    /\ InBuffer(at, readcnt, Past)
    /\ InBuffer(rx - Half + room, Half - room, Past + readcnt)
    /\ Accounts(got, lost, Past)

\* A reader does not sleep beside bytes that were swapped in for it.
NobodySleepsOnBytes == pc = "pend" /\ rsem = 0 => readcnt = 0

\* los_dev_uart_read returns, whatever comes in meanwhile.
ReadEnds == pc # "out" ~> pc \in {"out", "fault"}

\* "There are enough data, so directly read out", says the comment at the copy
\* of the rest of a request.
EnoughToCopy == pc = "copy_part" => left <= readcnt
=============================================================================
