----------------------------- MODULE LosMemory -----------------------------
(***************************************************************************)
(* The dynamic memory of the kernel (los_memory.c): a pool tiled by nodes, *)
(* each a header and a block, the free ones in lists by the logarithm of   *)
(* their size.  Addresses and sizes are in words, counted from the first   *)
(* node, and a block's address is that behind its header.                  *)
(*                                                                         *)
(* Every function runs with interrupts locked.  The application frees and  *)
(* reallocates what it holds, and writes nowhere else.                     *)
(***************************************************************************)
EXTENDS Naturals, Sequences, FiniteSets, FiniteSetsExt, SequencesExt

CONSTANTS
  HeadSize,    \* OS_MEM_NODE_HEAD_SIZE
  Base,        \* where the first node is, in words
  Top,         \* the address of the end node, from the first node on
  MinSize,     \* 2 ^ OS_MIN_MULTI_DLNK_LOG2
  LastClass,   \* OS_MULTI_DLNK_NUM - 1
  Requests,    \* the sizes asked for
  Boundaries,  \* the alignments asked for, powers of two
  Null

ASSUME MemoryAssumption ==
  /\ HeadSize \in Nat \ {0}
  /\ Base \in Nat
  /\ Top \in Nat
  /\ HeadSize <= Top
  /\ MinSize \in Nat \ {0}
  /\ LastClass \in Nat
  /\ Top < MinSize * 2^(LastClass + 1)
  /\ Requests \subseteq Nat \ {0}
  /\ Boundaries \subseteq Nat \ {0}
  /\ \A b \in Boundaries : \E k \in 0 .. b : b = 2^k
  /\ Null \notin Nat

VARIABLES
  heap,  \* node: LOS_MEM_DYN_NODE at each address; free: the lists of free nodes
  held   \* the blocks the application has: their size, and the gap stored in
         \* front of an aligned one

vars == <<heap, held>>

Addresses == 0 .. Top

\* What osMemMergeNode leaves of a header.
NoNode == [size |-> 0, used |-> FALSE, pre |-> Null]

\* LOS_Log2, from the smallest class on.
Classes == 0 .. LastClass
ClassOf ==
  [n \in 0 .. Top |->
     IF n < MinSize THEN 0
     ELSE CHOOSE c \in Classes : MinSize * 2^c <= n /\ n < MinSize * 2^(c + 1)]

-----------------------------------------------------------------------------
(***************************************************************************)
(* The steps of the functions, from one state of the heap to the next.     *)
(***************************************************************************)
Behind(h, a) == a + h.node[a].size
IsUsed(h, a) == h.node[a].used

Without(s, a) ==
  IF a \in Range(s) THEN RemoveAt(s, CHOOSE i \in DOMAIN s : s[i] = a) ELSE s

\* LOS_ListDelete of a free node: the node knows its neighbours, not its list.
Take(h, a) == [h EXCEPT !.free = [c \in Classes |-> Without(@[c], a)]]

\* OS_MEM_HEAD and LOS_ListAdd.
Put(h, a) == [h EXCEPT !.free[ClassOf[h.node[a].size]] = <<a>> \o @]

\* osMemMergeNode: the node becomes part of the one before it.
MutMerge(h, a) ==
  [h EXCEPT !.node[h.node[a].pre].size = @ + h.node[a].size,
            !.node[a] = NoNode]
Merge(h, a) ==
  [h EXCEPT !.node[h.node[a].pre].size = @ + h.node[a].size,
            !.node[Behind(h, a)].pre = h.node[a].pre,
            !.node[a] = NoNode]

MutMergeNext(h, a) == h
MergeNext(h, a) ==
  IF IsUsed(h, Behind(h, a)) THEN h
  ELSE Merge(Take(h, Behind(h, a)), Behind(h, a))

\* osMemSpitNode: what is behind the first n words becomes a free node.
Cut(h, a, n) ==
  [h EXCEPT !.node[a].size = n,
            !.node[a + n] = [size |-> h.node[a].size - n, used |-> FALSE, pre |-> a],
            !.node[Behind(h, a)].pre = a + n]

Split(h, a, n) == Put(MergeNext(Cut(h, a, n), a + n), a + n)

\* The rest is worth a node of its own.
Splits(size, n) == n + HeadSize + 1 <= size

SplitIf(h, a, n) == IF Splits(h.node[a].size, n) THEN Split(h, a, n) ELSE h

\* osMemFreeNode
FreeNode(h, a) ==
  LET p     == h.node[a].pre
      freed == [h EXCEPT !.node[a].used = FALSE]
  IN  IF p # Null /\ ~IsUsed(h, p)
      THEN Put(Take(MergeNext(Merge(freed, a), p), p), p)
      ELSE Put(MergeNext(freed, a), a)

\* osMemFindSuitableFreeBlock: the first node that is large enough, from the
\* class of the size on.
MutFirstClass(n) == ClassOf[n] + 1
FirstClass(n) == ClassOf[n]

\* Where in a list the nodes of n words and more are.
Large(h, n, c) == {i \in DOMAIN h.free[c] : h.node[h.free[c][i]].size >= n}

Fitting(h, n) ==
  IF n > Top THEN {}
  ELSE {c \in Classes : c >= FirstClass(n) /\ Large(h, n, c) # {}}

FirstFit(h, n) ==
  LET c == Min(Fitting(h, n)) IN h.free[c][Min(Large(h, n, c))]

\* osMemAllocWithCheck
AllocAt(h, a, n) == [Take(SplitIf(h, a, n), a) EXCEPT !.node[a].used = TRUE]

-----------------------------------------------------------------------------
\* LOS_MemInit
Init ==
  /\ heap =
       [node |-> [a \in Addresses |->
                    CASE a = 0 -> [size |-> Top, used |-> FALSE, pre |-> Null]
                      [] a = Top -> [size |-> HeadSize, used |-> TRUE, pre |-> 0]
                      [] OTHER -> NoNode],
        free |-> [c \in Classes |-> IF c = ClassOf[Top] THEN <<0>> ELSE <<>>]]
  /\ held = <<>>

Words(n) == n + HeadSize

Holds(p, n, gap) == [q \in DOMAIN held \cup {p} |->
                       IF q = p THEN [size |-> n, gap |-> gap] ELSE held[q]]
Drops(p) == [q \in DOMAIN held \ {p} |-> held[q]]

LOS_MemAlloc(n) ==
  /\ Fitting(heap, Words(n)) # {}
  /\ LET a == FirstFit(heap, Words(n))
     IN  /\ heap' = AllocAt(heap, a, Words(n))
         /\ held' = Holds(a + HeadSize, n, 0)

\* The next address that is a multiple of b: OS_MEM_ALIGN masks it, and needs b to
\* be a power of two.
Aligned(p, b) == ((Base + p + b - 1) \div b) * b - Base

\* Room for the gap, whatever it will be.
MutAlignWords(n, b) == Words(n)
AlignWords(n, b) == Words(n + b + 1)

LOS_MemAllocAlign(n, b) ==
  LET all == AlignWords(n, b)
  IN  /\ Fitting(heap, all) # {}
      /\ LET a == FirstFit(heap, all)
             p == Aligned(a + HeadSize, b)
         IN  /\ heap' = AllocAt(heap, a, all)
             /\ held' = Holds(p, n, p - (a + HeadSize))

\* The header of a block.
NodeOf(p) == p - held[p].gap - HeadSize

LOS_MemFree(p) ==
  /\ heap' = FreeNode(heap, NodeOf(p))
  /\ held' = Drops(p)

-----------------------------------------------------------------------------
(***************************************************************************)
(* LOS_MemRealloc of a block.  An aligned one comes back at the address    *)
(* behind its header.                                                      *)
(***************************************************************************)
Moved(p, q, n) ==
  [r \in (DOMAIN held \ {p}) \cup {q} |->
     IF r = q THEN [size |-> n, gap |-> 0] ELSE held[r]]

ReAllocSmaller(p, n) ==
  LET a == NodeOf(p)
  IN  /\ heap.node[a].size >= Words(n)
      /\ heap' = SplitIf(heap, a, Words(n))
      /\ held' = Moved(p, a + HeadSize, n)

\* The node grows into the free one behind it.
Grows(p, n) ==
  LET a == NodeOf(p)
      b == Behind(heap, a)
  IN  /\ heap.node[a].size < Words(n)
      /\ ~IsUsed(heap, b)
      /\ heap.node[a].size + heap.node[b].size >= Words(n)

ReAllocBigger(p, n) ==
  LET a == NodeOf(p)
  IN  /\ Grows(p, n)
      /\ heap' = SplitIf(MergeNext(heap, a), a, Words(n))
      /\ held' = Moved(p, a + HeadSize, n)

ReAllocElsewhere(p, n) ==
  LET a == NodeOf(p)
  IN  /\ heap.node[a].size < Words(n)
      /\ ~Grows(p, n)
      /\ Fitting(heap, Words(n)) # {}
      /\ LET b == FirstFit(heap, Words(n))
         IN  /\ heap' = FreeNode(AllocAt(heap, b, Words(n)), a)
             /\ held' = Moved(p, b + HeadSize, n)

LOS_MemRealloc(p, n) ==
  ReAllocSmaller(p, n) \/ ReAllocBigger(p, n) \/ ReAllocElsewhere(p, n)

-----------------------------------------------------------------------------
Next ==
  \/ \E n \in Requests :
       \/ LOS_MemAlloc(n)
       \/ \E b \in Boundaries : LOS_MemAllocAlign(n, b)
       \/ \E p \in DOMAIN held : LOS_MemRealloc(p, n)
  \/ \E p \in DOMAIN held : LOS_MemFree(p)

Spec == Init /\ [][Next]_vars
-----------------------------------------------------------------------------
(***************************************************************************)
(* Properties.                                                             *)
(***************************************************************************)
Nodes == {a \in Addresses : heap.node[a] # NoNode}

\* The nodes tile the pool up to the end node: each begins where the one
\* before it ends, points back to it and has room behind its header, but for the
\* one node of the smallest pool.
HeapTiled ==
  /\ heap.node[Top] = [heap.node[Top] EXCEPT !.size = HeadSize, !.used = TRUE]
  /\ \A a \in Nodes \ {Top} :
       /\ heap.node[a].size > HeadSize \/ Top = HeadSize
       /\ Behind(heap, a) \in Nodes
       /\ heap.node[Behind(heap, a)].pre = a
       /\ \A b \in Nodes : b <= a \/ Behind(heap, a) <= b
  /\ \A a \in Nodes : heap.node[a].pre = Null <=> a = 0

\* Each free node is in the list of its class, once, and nothing else is; no
\* two of them are neighbours.
FreeListed ==
  /\ \A c \in Classes :
       /\ IsInjective(heap.free[c])
       /\ Range(heap.free[c]) =
            {a \in Nodes : ~IsUsed(heap, a) /\ ClassOf[heap.node[a].size] = c}
  /\ \A a \in Nodes :
       ~IsUsed(heap, a) => IsUsed(heap, Behind(heap, a))

\* What the application may write lies behind the header of a used node that
\* no other block is in; a node nobody holds is free again.
BlocksApart ==
  /\ \A p \in DOMAIN held :
       /\ NodeOf(p) \in Nodes \ {Top} /\ IsUsed(heap, NodeOf(p))
       /\ p + held[p].size <= Behind(heap, NodeOf(p))
       /\ \A q \in DOMAIN held : NodeOf(p) = NodeOf(q) => p = q
  /\ \A a \in Nodes \ {Top} :
       IsUsed(heap, a) => \E p \in DOMAIN held : NodeOf(p) = a

\* LOS_MemAlloc fails only when no free node is large enough.
FindsWhatFits ==
  \A n \in Requests :
    Fitting(heap, Words(n)) = {} =>
      \A a \in Nodes : IsUsed(heap, a) \/ heap.node[a].size < Words(n)
=============================================================================
